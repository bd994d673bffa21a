-------------------------------- MODULE Sessions -------------------------------
(***************************************************************************)
(* The sessions of one user: families of refresh tokens, of which a        *)
(* refresh uses up one and issues the next, an upgrade (second factor,     *)
(* re-authentication) does the same, and reuse, logout, the user, an admin *)
(* or a suspension revoke the whole family.  AuthService runs outside of   *)
(* transactions: each statement is a step, on any replica.                 *)
(*                                                                         *)
(* Abstracted: hashes, limits and providers (a refresh may find the        *)
(* session to have ended by them); time is whether a token was used within *)
(* the grace period for concurrent tabs.                                   *)
(***************************************************************************)
EXTENDS Naturals, FiniteSets

CONSTANTS
    Families,   \* sessions the user can start
    MaxTokens,  \* bound on the tokens of a family
    MaxStep,    \* bound on TOTP time steps
    Calls       \* requests in progress at a time, on any replica

ASSUME BoundsAssumption == MaxTokens \in Nat /\ MaxStep \in Nat

VARIABLES
    token,      \* token[f][n]: the nth token of f, by its usedAt
    revoked,    \* revoked[f]: tokens with a revokedAt
    call,       \* call[c]: a request in progress, by its next step
    suspended,  \* the user's suspendedAt
    ending,     \* whether a suspension has yet to revoke the tokens
    lastStep,   \* mfaLastStep
    accepted,   \* accepted[k]: how often the code of time step k was accepted
    forked,     \* families in which an upgrade used a token that was used already
    ended,      \* families somebody ended
    slipped     \* ended families of which a request held a token when they were last ended

sessionVars == <<token, revoked, call, suspended, ending, lastStep, accepted, forked, ended, slipped>>

Ids == 1..MaxTokens
Codes == 1..MaxStep

NoCall == [step |-> "idle"]

(* Steps of a request that holds token n of f or has used it up; "issue"   *)
(* is also the last step of a sign-in.                                     *)
Holding == {"claim", "mark", "user", "issue"}
Steps == Holding \cup {"code", "load", "revoke"}

SessionsTypeOK ==
    /\ token \in [Families -> [Ids -> {"none", "fresh", "used", "old"}]]
    /\ revoked \in [Families -> SUBSET Ids]
    /\ call \in [Calls -> {NoCall} \cup
                   [step : Steps, fam : Families, n : 0..MaxTokens, code : 0..MaxStep]]
    /\ suspended \in BOOLEAN
    /\ ending \in BOOLEAN
    /\ lastStep \in 0..MaxStep
    /\ accepted \in [Codes -> Nat]
    /\ forked \subseteq Families
    /\ ended \subseteq Families
    /\ slipped \subseteq Families

SessionsInit ==
    /\ token = [f \in Families |-> [n \in Ids |-> "none"]]
    /\ revoked = [f \in Families |-> {}]
    /\ call = [c \in Calls |-> NoCall]
    /\ suspended = FALSE
    /\ ending = FALSE
    /\ lastStep = 0
    /\ accepted = [k \in Codes |-> 0]
    /\ forked = {}
    /\ ended = {}
    /\ slipped = {}

Issued(f) == {n \in Ids : token[f][n] # "none"}
Fresh(f) == {n \in Ids : token[f][n] = "fresh"}
Usable(f) == Fresh(f) \ revoked[f]

(* The requests that will issue a token of f if nothing stops them: those  *)
(* that loaded a token they can still use up, and those that did.          *)
Claiming(f) ==
    {c \in Calls :
       /\ call[c].step \in {"claim", "mark"} /\ call[c].fam = f
       /\ call[c].step = "claim" => token[f][call[c].n] = "fresh"}
Issuing(f) == {c \in Calls : call[c].step \in {"user", "issue"} /\ call[c].fam = f}

Busy(f) == \E c \in Calls : call[c] # NoCall /\ call[c].fam = f

Goto(c, step) == call' = [call EXCEPT ![c].step = step]
Return(c) == call' = [call EXCEPT ![c] = NoCall]
Enter(c, step, f, n, k) ==
    /\ call[c] = NoCall
    /\ call' = [call EXCEPT ![c] = [step |-> step, fam |-> f, n |-> n, code |-> k]]

--------------------------------------------------------------------------------
(* Sign-in and the second factor.                                          *)

(* login: a session without a second factor (or with tenant SSO).          *)
SignIn(c, f) ==
    /\ ~suspended
    /\ Issued(f) = {} /\ ~Busy(f)
    /\ Enter(c, "issue", f, 0, 0)
    /\ UNCHANGED <<token, revoked, suspended, ending, lastStep, accepted, forked, ended, slipped>>

(* verifyMfa: a code of a step later than the last, as it is read.         *)
SignInWithCode(c, f, k) ==
    /\ ~suspended
    /\ Issued(f) = {} /\ ~Busy(f)
    /\ k > lastStep
    /\ Enter(c, "code", f, 0, k)
    /\ UNCHANGED <<token, revoked, suspended, ending, lastStep, accepted, forked, ended, slipped>>

(* reauthenticate.                                                         *)
Reauthenticate(c, f, n, k) ==
    /\ ~suspended
    /\ n \in Issued(f)
    /\ k > lastStep
    /\ Enter(c, "code", f, n, k)
    /\ UNCHANGED <<token, revoked, suspended, ending, lastStep, accepted, forked, ended, slipped>>

(* Plausible error: the step is only checked as it was read.               *)
UseCodeAsRead(c) ==
    LET k == call[c].code
    IN /\ call[c].step = "code"
       /\ lastStep' = k
       /\ accepted' = [accepted EXCEPT ![k] = @ + 1]
       /\ Goto(c, IF call[c].n = 0 THEN "issue" ELSE "load")
       /\ UNCHANGED <<token, revoked, suspended, ending, forked, ended, slipped>>

(* checkSecondFactor: the update moves the step forward or finds it moved. *)
UseCode(c) ==
    LET k == call[c].code
    IN /\ call[c].step = "code"
       /\ IF lastStep < k
          THEN /\ lastStep' = k
               /\ accepted' = [accepted EXCEPT ![k] = @ + 1]
               /\ Goto(c, IF call[c].n = 0 THEN "issue" ELSE "load")
          ELSE Return(c) /\ UNCHANGED <<lastStep, accepted>>
       /\ UNCHANGED <<token, revoked, suspended, ending, forked, ended, slipped>>

--------------------------------------------------------------------------------
(* Refresh and upgrade.                                                    *)

(* refresh loads the token, which is not revoked; a disabled method or a   *)
(* limit of the session may have ended it.                                 *)
Refresh(c, f, n) ==
    /\ n \in Issued(f) \ revoked[f]
    /\ \E step \in {"claim", "revoke"} : Enter(c, step, f, n, 0)
    /\ UNCHANGED <<token, revoked, suspended, ending, lastStep, accepted, forked, ended, slipped>>

(* Plausible error: within the grace period the second tab gets a token.   *)
ClaimLeniently(c) ==
    LET f == call[c].fam
        n == call[c].n
    IN /\ call[c].step = "claim"
       /\ IF token[f][n] \in {"fresh", "used"}
          THEN token' = [token EXCEPT ![f][n] = "used"] /\ Goto(c, "user")
          ELSE Goto(c, "revoke") /\ UNCHANGED token
       /\ UNCHANGED <<revoked, suspended, ending, lastStep, accepted, forked, ended, slipped>>

(* The claim: usedAt is set if it is not (nor does it ask for revokedAt);  *)
(* else, past the grace period, somebody else has the token.               *)
Claim(c) ==
    LET f == call[c].fam
        n == call[c].n
    IN /\ call[c].step = "claim"
       /\ CASE token[f][n] = "fresh" ->
                 token' = [token EXCEPT ![f][n] = "used"] /\ Goto(c, "user")
            [] token[f][n] = "used" -> Return(c) /\ UNCHANGED token
            [] OTHER -> Goto(c, "revoke") /\ UNCHANGED token
       /\ UNCHANGED <<revoked, suspended, ending, lastStep, accepted, forked, ended, slipped>>

(* The user is loaded, and the IdP asked about an SSO session.             *)
CheckUser(c) ==
    /\ call[c].step = "user"
    /\ \/ suspended /\ Goto(c, "revoke")
       \/ ~suspended /\ \E step \in {"issue", "revoke"} : Goto(c, step)
    /\ UNCHANGED <<token, revoked, suspended, ending, lastStep, accepted, forked, ended, slipped>>

(* upgradeSession: the token is read ...                                   *)
Upgrade(c, f, n) ==
    /\ ~suspended
    /\ n \in Usable(f)
    /\ Enter(c, "mark", f, n, 0)
    /\ UNCHANGED <<token, revoked, suspended, ending, lastStep, accepted, forked, ended, slipped>>

UpgradeAfterCode(c) ==
    /\ call[c].step = "load"
    /\ IF call[c].n \in Usable(call[c].fam) THEN Goto(c, "mark") ELSE Return(c)
    /\ UNCHANGED <<token, revoked, suspended, ending, lastStep, accepted, forked, ended, slipped>>

(* ... and marked as used, whatever it is by now.                          *)
MarkUsed(c) ==
    LET f == call[c].fam
        n == call[c].n
    IN /\ call[c].step = "mark"
       /\ token' = [token EXCEPT ![f][n] = "used"]
       /\ forked' = IF token[f][n] = "fresh" THEN forked ELSE forked \cup {f}
       /\ Goto(c, "issue")
       /\ UNCHANGED <<revoked, suspended, ending, lastStep, accepted, ended, slipped>>

(* Plausible error: the tokens of a family are numbered from the last used.*)
IssueAfterUsed(c) ==
    LET f == call[c].fam
        n == Cardinality(Issued(f) \ Usable(f)) + 1
    IN /\ call[c].step = "issue"
       /\ token' = [token EXCEPT ![f] = [m \in Ids \cup {n} |->
                      IF m = n THEN "fresh" ELSE token[f][m]]]
       /\ Return(c)
       /\ UNCHANGED <<revoked, suspended, ending, lastStep, accepted, forked, ended, slipped>>

(* issue: the next token of the family, alive whatever became of it.       *)
Issue(c) ==
    LET f == call[c].fam
        n == Cardinality(Issued(f)) + 1
    IN /\ call[c].step = "issue"
       /\ n <= MaxTokens
       /\ token' = [token EXCEPT ![f][n] = "fresh"]
       /\ Return(c)
       /\ UNCHANGED <<revoked, suspended, ending, lastStep, accepted, forked, ended, slipped>>

GracePasses(f, n) ==
    /\ token[f][n] = "used"
    /\ token' = [token EXCEPT ![f][n] = "old"]
    /\ UNCHANGED <<revoked, call, suspended, ending, lastStep, accepted, forked, ended, slipped>>

Crash(c) ==
    /\ call[c] # NoCall
    /\ Return(c)
    /\ UNCHANGED <<token, revoked, suspended, ending, lastStep, accepted, forked, ended, slipped>>

--------------------------------------------------------------------------------
(* The end of sessions.                                                    *)

(* Plausible error: only the token that shows the family is revoked.       *)
RevokeFirst(fs) ==
    /\ revoked' = [f \in Families |-> IF f \in fs THEN revoked[f] \cup {1} ELSE revoked[f]]
    /\ ended' = ended \cup fs
    /\ slipped' = (slipped \ fs) \cup {f \in fs : Claiming(f) \cup Issuing(f) # {}}

(* All tokens there are of these families; those that requests are about   *)
(* to issue are not there yet.                                             *)
RevokeFamilies(fs) ==
    /\ revoked' = [f \in Families |-> IF f \in fs THEN revoked[f] \cup Issued(f) ELSE revoked[f]]
    /\ ended' = ended \cup fs
    /\ slipped' = (slipped \ fs) \cup {f \in fs : Claiming(f) \cup Issuing(f) # {}}

(* revokeFamily of a refresh that was refused.                             *)
RevokeOwn(c) ==
    /\ call[c].step = "revoke"
    /\ RevokeFamilies({call[c].fam})
    /\ Return(c)
    /\ UNCHANGED <<token, suspended, ending, lastStep, accepted, forked>>

(* logout, endSession, endSessions (but the current one, or all), an admin *)
(* who ends the sessions or resets the second factor.                      *)
EndSessions ==
    /\ \E fs \in (SUBSET {f \in Families : Issued(f) # {}}) \ {{}} : RevokeFamilies(fs)
    /\ UNCHANGED <<token, call, suspended, ending, lastStep, accepted, forked>>

Suspend ==
    /\ ~suspended
    /\ suspended' = TRUE
    /\ ending' = TRUE
    /\ UNCHANGED <<token, revoked, call, lastStep, accepted, forked, ended, slipped>>

SuspendEnds ==
    /\ ending
    /\ ending' = FALSE
    /\ RevokeFamilies({f \in Families : Issued(f) # {}})
    /\ UNCHANGED <<token, call, suspended, lastStep, accepted, forked>>

Unsuspend ==
    /\ suspended
    /\ ~ending
    /\ suspended' = FALSE
    /\ UNCHANGED <<token, revoked, call, ending, lastStep, accepted, forked, ended, slipped>>

--------------------------------------------------------------------------------
CallStep(c) ==
    \/ UseCode(c)
    \/ Claim(c)
    \/ CheckUser(c)
    \/ UpgradeAfterCode(c)
    \/ MarkUsed(c)
    \/ Issue(c)
    \/ RevokeOwn(c)

BeginCall(c) ==
    \E f \in Families :
       \/ SignIn(c, f)
       \/ \E k \in Codes : SignInWithCode(c, f, k)
       \/ \E n \in Ids :
            \/ Refresh(c, f, n)
            \/ Upgrade(c, f, n)
            \/ \E k \in Codes : Reauthenticate(c, f, n, k)

SessionsNext ==
    \/ \E c \in Calls : BeginCall(c) \/ CallStep(c) \/ Crash(c)
    \/ \E f \in Families, n \in Ids : GracePasses(f, n)
    \/ EndSessions
    \/ Suspend
    \/ SuspendEnds
    \/ Unsuspend

SessionsSpec == SessionsInit /\ [][SessionsNext]_sessionVars

--------------------------------------------------------------------------------
(* Tokens rotate: however tabs, replicas and crashes interleave refreshes, *)
(* a session has one token that can be refreshed, or one request about to  *)
(* issue it; but an upgrade that overtook a refresh forks it.              *)
RotationIsLinear ==
    \A f \in Families \ forked : Cardinality(Fresh(f)) + Cardinality(Issuing(f)) <= 1

(* A session that was ended (reuse of a stolen token, logout, the session  *)
(* list, an admin, a suspension) has no token left that can be refreshed,  *)
(* and never gets one again; unless a request already held one.            *)
EndedStaysEnded ==
    \A f \in ended \ slipped : Usable(f) = {} /\ Issuing(f) = {}

(* Said without that exception.                                            *)
EndedMeansEnded == \A f \in ended : Usable(f) = {}

(* "A TOTP code is accepted once": sign-ins and re-authentications that    *)
(* present it at the same time do not both pass.                           *)
CodesWorkOnce == \A k \in Codes : accepted[k] <= 1
================================================================================
