------------------------------ MODULE MCReleases ------------------------------
(* Releases with a source environment that holds one version to promote    *)
(* and a target environment where everything happens.                      *)
EXTENDS Releases, TLC

CONSTANTS staging, production, Rows

MCLimit == (staging :> 1) @@ (production :> Rows)
MCFreezes == (staging :> {"open"}) @@ (production :> {"open", "frozen", "org"})
MCBands == <<10, 50, 100>>

================================================================================
