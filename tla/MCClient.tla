-------------------------------- MODULE MCClient --------------------------------
(* Values of Client's constants for TLC. *)
EXTENDS Client

(* A page with a CDN and a storage, one with the registry and both copies, *)
(* and one with the registry and a bundled copy but no storage.            *)
Pages == {[cdn |-> TRUE, persist |-> TRUE, fallback |-> FALSE],
          [cdn |-> FALSE, persist |-> TRUE, fallback |-> TRUE],
          [cdn |-> FALSE, persist |-> FALSE, fallback |-> TRUE]}
================================================================================
