---------------------------- MODULE DeliveryProofs -----------------------------
(***************************************************************************)
(* Proofs about the manifest on its way to the hosts: ManifestCache, for   *)
(* any number of replicas, and Client, for any users, options and bounds.  *)
(* They share no state; the theorems of each speak of its specification    *)
(* only.                                                                   *)
(***************************************************************************)
EXTENDS ManifestCache, Client, TLAPS

(***************************************************************************)
(* ManifestCache.                                                          *)
(***************************************************************************)

(* A commit makes a copy older; it never makes it vanish.                  *)
LEMMA OlderFacts ==
    ASSUME NEW part \in Parts, NEW copy \in Copies \cup {NoCopy}
    PROVE  /\ copy \in Copies => Older(copy, part) \in Copies
           /\ copy = NoCopy => Older(copy, part) = NoCopy
           /\ copy # NoCopy => Older(copy, part) # NoCopy
  BY DEF Older, Copies, NoCopy, Parts

LEMMA NoCopyIsNone == NoCopy \notin Copies
  BY DEF NoCopy, Copies, Parts

LEMMA OlderChange ==
    ASSUME NEW part \in Parts, NEW c \in Changes
    PROVE  [c EXCEPT !.copy = Older(@, part)] \in Changes
  <1>1. CASE c \in [step : {"commit", "invalidate", "set", "lkg"}, copy : Copies]
    BY <1>1, OlderFacts DEF Changes
  <1>2. CASE c \in [step : {"idle", "fanOut", "forget", "forgetLkg"}, copy : {NoCopy}]
    BY <1>2, OlderFacts DEF Changes
  <1> QED
    BY <1>1, <1>2 DEF Changes

LEMMA OlderMiss ==
    ASSUME NEW part \in Parts, NEW m \in Misses
    PROVE  [m EXCEPT !.copy = Older(@, part)] \in Misses
  <1>1. CASE m \in [step : {"build", "set", "lkg"}, copy : Copies]
    BY <1>1, OlderFacts DEF Misses
  <1>2. CASE m \in [step : {"idle", "shared"}, copy : {NoCopy}]
    BY <1>2, OlderFacts DEF Misses
  <1> QED
    BY <1>1, <1>2 DEF Misses

(* What a process holds at each of its steps.                              *)
LEMMA ChangeHolds ==
    ASSUME NEW c \in Changes, c.step \in {"commit", "invalidate", "set", "lkg"}
    PROVE  c.copy \in Copies
  BY DEF Changes

LEMMA MissHolds ==
    ASSUME NEW m \in Misses, m.step \in {"build", "set", "lkg"}
    PROVE  m.copy \in Copies
  BY DEF Misses

--------------------------------------------------------------------------------
LEMMA InitOK == Init => TypeOK
  <1>1. Idle \in Changes /\ Idle \in Misses
    BY DEF Changes, Misses, Idle
  <1> QED
    BY <1>1 DEF Init, TypeOK

LEMMA AllOlderOK ==
    ASSUME TypeOK, NEW part \in Parts, AllOlder(part)
    PROVE  /\ cache' \in Copies \cup {NoCopy}
           /\ lkg' \in Copies \cup {NoCopy}
           /\ miss' \in [Replicas -> Misses]
           /\ deleted' \in BOOLEAN
  <1>1. cache' \in Copies \cup {NoCopy} /\ lkg' \in Copies \cup {NoCopy}
    BY OlderFacts DEF TypeOK, AllOlder
  <1>2. ASSUME NEW r \in Replicas
        PROVE  [miss[r] EXCEPT !.copy = Older(@, part)] \in Misses
    BY OlderMiss DEF TypeOK
  <1> QED
    BY <1>1, <1>2 DEF TypeOK, AllOlder

LEMMA ReadSharedOK ==
    ASSUME TypeOK, NEW r \in Replicas, ReadShared(r)
    PROVE  TypeOK'
  <1>1. [step |-> "commit", copy |-> {}] \in Changes
    BY DEF Changes, Copies
  <1> QED
    BY <1>1 DEF TypeOK, ReadShared

LEMMA CommitOK ==
    ASSUME TypeOK, NEW r \in Replicas, Commit(r)
    PROVE  TypeOK'
  <1>1. CASE CommitOwn(r)
    <2>1. "own" \in Parts
      BY DEF Parts
    <2>2. ASSUME NEW q \in Replicas
          PROVE  [change[q] EXCEPT !.copy = Older(@, "own")] \in Changes
      BY <2>1, OlderChange DEF TypeOK
    <2>3. [change[r] EXCEPT !.step = "invalidate"] \in Changes
      <3>1. change[r] \in [step : {"commit", "invalidate", "set", "lkg"}, copy : Copies]
        BY <1>1 DEF TypeOK, CommitOwn, Changes, Idle
      <3> QED
        BY <3>1 DEF Changes
    <2>4. change' \in [Replicas -> Changes]
      BY <1>1, <2>2, <2>3 DEF CommitOwn
    <2> QED
      BY <1>1, <2>1, <2>4, AllOlderOK DEF CommitOwn, TypeOK
  <1>2. CASE CommitShared(r)
    <2>1. "shared" \in Parts
      BY DEF Parts
    <2>2. ASSUME NEW q \in Replicas
          PROVE  [change[q] EXCEPT !.copy = Older(@, "shared")] \in Changes
      BY <2>1, OlderChange DEF TypeOK
    <2>3. [step |-> "fanOut", copy |-> NoCopy] \in Changes
      BY DEF Changes
    <2>4. change' \in [Replicas -> Changes]
      BY <1>2, <2>2, <2>3 DEF CommitShared
    <2> QED
      BY <1>2, <2>1, <2>4, AllOlderOK DEF CommitShared, TypeOK
  <1> QED
    BY <1>1, <1>2 DEF Commit

LEMMA AfterCommitOK ==
    ASSUME TypeOK, NEW r \in Replicas, AfterCommit(r)
    PROVE  TypeOK'
  <1>1. Idle \in Changes
    BY DEF Changes, Idle
  <1>2. CASE Invalidate(r)
    <2>1. change[r] \in [step : {"commit", "invalidate", "set", "lkg"}, copy : Copies]
      BY <1>2 DEF TypeOK, Invalidate, Changes, Idle
    <2>2. [change[r] EXCEPT !.step = "set"] \in Changes
      BY <2>1 DEF Changes
    <2> QED
      BY <1>2, <2>2 DEF TypeOK, Invalidate
  <1>3. CASE SetCache(r)
    <2>1. change[r] \in [step : {"commit", "invalidate", "set", "lkg"}, copy : Copies]
      BY <1>3 DEF TypeOK, SetCache, Changes, Idle
    <2>2. [change[r] EXCEPT !.step = "lkg"] \in Changes /\ change[r].copy \in Copies
      BY <2>1 DEF Changes
    <2> QED
      BY <1>3, <2>2 DEF TypeOK, SetCache
  <1>4. CASE SetLkg(r)
    <2>1. change[r].copy \in Copies
      BY <1>4, ChangeHolds DEF TypeOK, SetLkg
    <2> QED
      BY <1>1, <1>4, <2>1 DEF TypeOK, SetLkg
  <1>5. CASE FanOut(r)
    BY <1>1, <1>5 DEF TypeOK, FanOut
  <1>6. CASE Forget(r)
    <2>1. [change[r] EXCEPT !.step = "forgetLkg"] \in Changes
      BY <1>6 DEF TypeOK, Forget, Changes
    <2> QED
      BY <1>6, <2>1 DEF TypeOK, Forget
  <1>7. CASE ForgetLkg(r)
    BY <1>1, <1>7 DEF TypeOK, ForgetLkg
  <1> QED
    BY <1>2, <1>3, <1>4, <1>5, <1>6, <1>7 DEF AfterCommit

LEMMA SetDeletedOK ==
    ASSUME TypeOK, NEW r \in Replicas, SetDeleted(r)
    PROVE  TypeOK'
  <1>1. [change[r] EXCEPT !.step = "forget"] \in Changes
    BY DEF SetDeleted, Changes, Idle
  <1> QED
    BY <1>1 DEF TypeOK, SetDeleted

LEMMA MissOK ==
    ASSUME TypeOK, NEW r \in Replicas, Miss(r)
    PROVE  TypeOK'
  <1>1. [miss[r] EXCEPT !.step = "shared"] \in Misses
    BY DEF Miss, Misses, Idle
  <1> QED
    BY <1>1 DEF TypeOK, Miss

LEMMA FillOK ==
    ASSUME TypeOK, NEW r \in Replicas, Fill(r)
    PROVE  TypeOK'
  <1>1. Idle \in Misses
    BY DEF Misses, Idle
  <1>2. CASE LoadShared(r)
    <2>1. [step |-> "build", copy |-> {}] \in Misses
      BY DEF Misses, Copies
    <2> QED
      BY <1>1, <1>2, <2>1 DEF TypeOK, LoadShared
  <1>3. CASE Build(r)
    <2>1. miss[r].copy \in Copies
      BY <1>3, MissHolds DEF TypeOK, Build
    <2>2. miss[r].copy \ {"own"} \in Copies
      BY <2>1 DEF Copies
    <2>3. [step |-> "set", copy |-> miss[r].copy \ {"own"}] \in Misses
      BY <2>2 DEF Misses
    <2> QED
      BY <1>3, <2>3 DEF TypeOK, Build
  <1>4. CASE FillCache(r)
    <2>1. miss[r] \in [step : {"build", "set", "lkg"}, copy : Copies]
      BY <1>4 DEF TypeOK, FillCache, Misses, Idle
    <2>2. [miss[r] EXCEPT !.step = "lkg"] \in Misses /\ miss[r].copy \in Copies
      BY <2>1 DEF Misses
    <2> QED
      BY <1>4, <2>2 DEF TypeOK, FillCache
  <1>5. CASE FillLkg(r)
    <2>1. miss[r].copy \in Copies
      BY <1>5, MissHolds DEF TypeOK, FillLkg
    <2> QED
      BY <1>1, <1>5, <2>1 DEF TypeOK, FillLkg
  <1> QED
    BY <1>2, <1>3, <1>4, <1>5 DEF Fill

LEMMA FailureOK ==
    ASSUME TypeOK, NEW r \in Replicas, Failure(r)
    PROVE  TypeOK'
  <1>1. Idle \in Changes /\ Idle \in Misses
    BY DEF Changes, Misses, Idle
  <1> QED
    BY <1>1 DEF TypeOK, Failure, ChangeStops, MissFails

LEMMA NextOK == TypeOK /\ [Next]_vars => TypeOK'
  <1> SUFFICES ASSUME TypeOK, [Next]_vars PROVE TypeOK'
    OBVIOUS
  <1>1. ASSUME NEW r \in Replicas,
               \/ ReadShared(r) \/ Commit(r) \/ SetDeleted(r) \/ AfterCommit(r)
               \/ Miss(r) \/ Fill(r) \/ Failure(r)
        PROVE  TypeOK'
    BY <1>1, ReadSharedOK, CommitOK, SetDeletedOK, AfterCommitOK, MissOK, FillOK, FailureOK
  <1>2. CASE Expire
    BY <1>2 DEF TypeOK, Expire
  <1>3. CASE UNCHANGED vars
    BY <1>3 DEF TypeOK, vars
  <1> QED
    BY <1>1, <1>2, <1>3 DEF Next

(* Whatever interleaves, what the cache holds and what every process is    *)
(* about to write there are manifests, or nothing.                         *)
THEOREM CacheTypeCorrect == Spec => []TypeOK
  <1> QED
    BY InitOK, NextOK, PTL DEF Spec

--------------------------------------------------------------------------------
(* Only the last step of forgetCached removes the last known good copy.    *)
LkgForgotten == \E r \in Replicas : change[r].step = "forgetLkg" /\ change'[r] = Idle

LEMMA LkgStep ==
    ASSUME TypeOK, [Next]_vars, lkg # NoCopy, lkg' = NoCopy
    PROVE  LkgForgotten
  <1>1. ASSUME NEW part \in Parts, AllOlder(part) PROVE FALSE
    BY <1>1, OlderFacts DEF TypeOK, AllOlder
  <1>2. ASSUME NEW r \in Replicas, SetLkg(r) PROVE FALSE
    <2>1. change[r].copy \in Copies
      BY <1>2, ChangeHolds DEF TypeOK, SetLkg
    <2> QED
      BY <1>2, <2>1, NoCopyIsNone DEF SetLkg
  <1>3. ASSUME NEW r \in Replicas, FillLkg(r) PROVE FALSE
    <2>1. miss[r].copy \in Copies
      BY <1>3, MissHolds DEF TypeOK, FillLkg
    <2> QED
      BY <1>3, <2>1, NoCopyIsNone DEF FillLkg
  <1>4. ASSUME NEW r \in Replicas, Commit(r) PROVE FALSE
    BY <1>1, <1>4 DEF Commit, CommitOwn, CommitShared, Parts
  <1>5. ASSUME NEW r \in Replicas, ForgetLkg(r) PROVE LkgForgotten
    BY <1>5 DEF ForgetLkg, LkgForgotten, TypeOK
  <1>6. ASSUME NEW r \in Replicas,
               \/ ReadShared(r) \/ SetDeleted(r) \/ AfterCommit(r)
               \/ Miss(r) \/ Fill(r) \/ Failure(r)
        PROVE  LkgForgotten
    BY <1>2, <1>3, <1>5, <1>6
       DEF ReadShared, SetDeleted, AfterCommit, Invalidate, SetCache, FanOut, Forget, Miss,
           Fill, LoadShared, Build, FillCache, Failure, ChangeStops, MissFails
  <1>7. CASE Expire \/ UNCHANGED vars
    BY <1>7 DEF Expire, vars
  <1> QED
    BY <1>4, <1>6, <1>7 DEF Next

(* MAN-06: once a manifest was built, an outage finds a copy of it, with   *)
(* any number of replicas changing, filling and failing at once, until a   *)
(* deletion or a restore of the workspace forgets it.                      *)
THEOREM LkgIsKept == Spec => LkgStays
  <1>1. TypeOK /\ [Next]_vars => [lkg # NoCopy /\ lkg' = NoCopy => LkgForgotten]_vars
    BY LkgStep
  <1>2. LkgStays <=> [][lkg # NoCopy /\ lkg' = NoCopy => LkgForgotten]_vars
    BY DEF LkgStays, LkgForgotten
  <1> QED
    BY <1>1, <1>2, CacheTypeCorrect, PTL DEF Spec

--------------------------------------------------------------------------------
(***************************************************************************)
(* Client.                                                                 *)
(***************************************************************************)

USE ClientAssumption

Fetches == [url : Sources \cup {"none"}, rest : {<<>>, <<"registry">>, <<"cdn">>},
            asked : Manifests \cup {Nothing}, as : Users,
            answer : Manifests \cup {Nothing, NotModified}]

(* The load is pending while its request runs; it must have succeeded for   *)
(* the loop to start, which has a timer or a request, never both.           *)
LoopOK ==
    /\ InFlight(LoadCall) <=> load = "pending"
    /\ timer \/ InFlight(PollCall) => load = "resolved"
    /\ ~(timer /\ InFlight(PollCall))

UrlsOK == ~options.cdn => \A c \in Callers : fetches[c].url # "cdn" /\ fetches[c].rest = <<>>

(* EtagOfWhatIsShown, and the copy in storage is the same manifest: it is   *)
(* what a load that fails late falls back to.                               *)
CopiesAgree ==
    ~options.cdn /\ options.persist /\ ~lapsed =>
        etags["registry"] = Nothing \/ (etags["registry"] = inUse /\ stored = inUse)

ClientIInv == ClientTypeOK /\ LoopOK /\ UrlsOK /\ CopiesAgree

--------------------------------------------------------------------------------
LEMMA NothingIsNoManifest == Nothing \notin Manifests /\ NotModified \notin Manifests
                             /\ Nothing # NotModified
  BY DEF Manifests, Nothing, NotModified

LEMMA CallersDiffer ==
    /\ LoadCall \in Callers /\ PollCall \in Callers /\ LoadCall # PollCall
    /\ \A n \in 1..MaxSwitches : n \in Callers /\ n # LoadCall /\ n # PollCall
  BY DEF LoadCall, PollCall, Callers

LEMMA NoFetchTyped == NoFetch \in Fetches /\ NoFetch.url = "none" /\ NoFetch.rest = <<>>
  BY DEF NoFetch, Fetches

LEMMA SourcesTried ==
    ASSUME NEW u \in Users, ClientTypeOK
    PROVE  /\ Head(SourcesFor(u)) \in Sources
           /\ Tail(SourcesFor(u)) \in {<<>>, <<"registry">>, <<"cdn">>}
           /\ ~options.cdn => Head(SourcesFor(u)) = "registry" /\ Tail(SourcesFor(u)) = <<>>
  <1>1. Head(<<"registry">>) = "registry" /\ Tail(<<"registry">>) = <<>>
    OBVIOUS
  <1>2. Head(<<"registry", "cdn">>) = "registry" /\ Tail(<<"registry", "cdn">>) = <<"cdn">>
    OBVIOUS
  <1>3. Head(<<"cdn", "registry">>) = "cdn" /\ Tail(<<"cdn", "registry">>) = <<"registry">>
    OBVIOUS
  <1> QED
    BY <1>1, <1>2, <1>3 DEF SourcesFor, Sources

(* A request is sent to one source ...                                     *)
LEMMA StartFacts ==
    ASSUME ClientIInv, NEW c \in Callers, NEW u \in Users,
           NEW tags \in [Sources -> Manifests \cup {Nothing}],
           StartFetch(c, u, tags)
    PROVE  /\ fetches' \in [Callers -> Fetches]
           /\ fetches'[c].url # "none"
           /\ \A d \in Callers \ {c} : fetches'[d] = fetches[d]
           /\ ~options.cdn => \A d \in Callers : fetches'[d].url # "cdn" /\ fetches'[d].rest = <<>>
  <1>1. Asking(SourcesFor(u), u, tags) \in Fetches
    BY SourcesTried DEF ClientIInv, ClientTypeOK, Asking, Fetches
  <1>2. Asking(SourcesFor(u), u, tags).url = Head(SourcesFor(u))
        /\ Asking(SourcesFor(u), u, tags).rest = Tail(SourcesFor(u))
    BY DEF Asking
  <1>3. fetches \in [Callers -> Fetches]
    BY DEF ClientIInv, ClientTypeOK, Fetches
  <1> QED
    BY <1>1, <1>2, <1>3, SourcesTried DEF ClientIInv, StartFetch, UrlsOK, Sources

(* ... and done with.                                                      *)
LEMMA EndFacts ==
    ASSUME ClientIInv, NEW c \in Callers, fetches' = [fetches EXCEPT ![c] = NoFetch]
    PROVE  /\ fetches' \in [Callers -> Fetches]
           /\ fetches'[c].url = "none"
           /\ \A d \in Callers \ {c} : fetches'[d] = fetches[d]
           /\ ~options.cdn => \A d \in Callers : fetches'[d].url # "cdn" /\ fetches'[d].rest = <<>>
  BY NoFetchTyped DEF ClientIInv, ClientTypeOK, UrlsOK, Fetches

LEMMA NoTags == NoEtags \in [Sources -> Manifests \cup {Nothing}] /\ NoEtags["registry"] = Nothing
  BY DEF NoEtags, Sources

LEMMA InitClientOK == ClientInit => ClientIInv
  <1> SUFFICES ASSUME ClientInit PROVE ClientIInv
    OBVIOUS
  <1>1. fetches \in [Callers -> Fetches] /\ \A c \in Callers : fetches[c] = NoFetch
    BY NoFetchTyped DEF ClientInit, NoFetches
  <1>2. ClientTypeOK
    <2>1. /\ published \in 0..latest /\ latest \in 0..MaxChanges
          /\ switches \in 0..MaxSwitches /\ outages \in 0..MaxOutages
      BY DEF ClientInit
    <2> QED
      BY <1>1, <2>1, NoTags DEF ClientInit, ClientTypeOK, Fetches
  <1>3. LoopOK /\ UrlsOK /\ CopiesAgree
    BY <1>1, NoFetchTyped, NoTags, CallersDiffer
    DEF ClientInit, LoopOK, UrlsOK, CopiesAgree, InFlight
  <1> QED
    BY <1>2, <1>3 DEF ClientIInv

--------------------------------------------------------------------------------
(* What the registry and the CDN serve, and the answer on its way.         *)
LEMMA AnswerOK == ASSUME ClientIInv, NEW c \in Callers, Answer(c) PROVE ClientIInv'
  <1> DEFINE m == Served(fetches[c].url, fetches[c].as)
             a == IF m = fetches[c].asked THEN NotModified ELSE m
  <1>1. fetches \in [Callers -> Fetches]
    BY DEF ClientIInv, ClientTypeOK, Fetches
  <1>2. m \in Manifests
    BY <1>1 DEF ClientIInv, ClientTypeOK, Served, Manifests, Fetches
  <1>3. fetches' = [fetches EXCEPT ![c].answer = a]
    BY DEF Answer
  <1>4. /\ fetches' \in [Callers -> Fetches]
        /\ \A d \in Callers : fetches'[d].url = fetches[d].url /\ fetches'[d].rest = fetches[d].rest
    <2>1. [fetches[c] EXCEPT !.answer = a] \in Fetches
      BY <1>1, <1>2 DEF Fetches
    <2> QED
      BY <1>1, <1>3, <2>1 DEF Fetches
  <1>5. UNCHANGED <<user, inUse, source, etags, stored, lapsed, load, timer, destroyed, options, latest,
                    published, down, switches, outages, settled>>
    BY DEF Answer, world
  <1>6. ClientTypeOK'
    BY <1>4, <1>5 DEF ClientIInv, ClientTypeOK, Fetches
  <1>7. LoopOK' /\ UrlsOK' /\ CopiesAgree'
    BY <1>4, <1>5, CallersDiffer DEF ClientIInv, LoopOK, UrlsOK, CopiesAgree, InFlight
  <1> QED
    BY <1>6, <1>7 DEF ClientIInv

(* What a caller goes on with keeps the loop one, as its request is over.  *)
LEMMA AnsweredOK ==
    ASSUME ClientIInv, NEW c \in Callers, InFlight(c), Answered(c),
           fetches' = [fetches EXCEPT ![c] = NoFetch], UNCHANGED destroyed
    PROVE  /\ LoopOK' /\ load' \in {"new", "pending", "resolved"} /\ timer' \in BOOLEAN
  <1>1. /\ fetches'[c].url = "none"
        /\ \A d \in Callers \ {c} : fetches'[d] = fetches[d]
    BY EndFacts
  <1>2. timer \in BOOLEAN /\ destroyed \in BOOLEAN /\ load \in {"new", "pending", "resolved"}
    BY DEF ClientIInv, ClientTypeOK
  <1>3. CASE c = LoadCall
    <2>1. load' = "resolved" /\ timer' = (timer \/ ~destroyed)
      BY <1>3, CallersDiffer DEF Answered, SchedulePoll
    <2>2. ~timer /\ ~InFlight(PollCall)
      BY <1>3 DEF ClientIInv, LoopOK
    <2> QED
      BY <1>1, <1>2, <1>3, <2>1, <2>2, CallersDiffer DEF LoopOK, InFlight
  <1>4. CASE c = PollCall
    <2>1. load' = load /\ timer' = (timer \/ ~destroyed)
      BY <1>4, CallersDiffer DEF Answered, SchedulePoll
    <2> QED
      BY <1>1, <1>2, <1>4, <2>1, CallersDiffer DEF ClientIInv, LoopOK, InFlight
  <1>5. CASE c # LoadCall /\ c # PollCall
    <2>1. UNCHANGED <<load, timer>>
      BY <1>5 DEF Answered
    <2> QED
      BY <1>1, <1>2, <1>5, <2>1, CallersDiffer DEF ClientIInv, LoopOK, InFlight
  <1> QED
    BY <1>3, <1>4, <1>5

LEMMA UseAnswerOK == ASSUME ClientIInv, NEW c \in Callers, UseAnswer(c) PROVE ClientIInv'
  <1> PICK m \in Manifests : m = fetches[c].answer
    BY DEF UseAnswer
  <1> PICK s \in Sources : s = fetches[c].url
    BY DEF UseAnswer, InFlight, ClientIInv, ClientTypeOK
  <1>1. /\ InFlight(c)
        /\ etags' = [etags EXCEPT ![s] = m]
        /\ inUse' = m /\ source' = "network"
        /\ \/ options.persist /\ stored' = m /\ lapsed' = FALSE
           \/ options.persist /\ stored' = stored /\ lapsed' = TRUE
           \/ ~options.persist /\ UNCHANGED <<stored, lapsed>>
        /\ fetches' = [fetches EXCEPT ![c] = NoFetch]
        /\ Answered(c)
        /\ UNCHANGED <<user, destroyed, options, latest, published, down, switches, outages, settled>>
    BY DEF UseAnswer, Apply, Persist, world
  <1>2. fetches' \in [Callers -> Fetches] /\ UrlsOK'
    BY <1>1, EndFacts DEF UrlsOK
  <1>3. LoopOK' /\ load' \in {"new", "pending", "resolved"} /\ timer' \in BOOLEAN
    BY <1>1, AnsweredOK
  <1>4. ClientTypeOK'
    BY <1>1, <1>2, <1>3, NothingIsNoManifest DEF ClientIInv, ClientTypeOK, Fetches
  <1>5. CopiesAgree'
    <2>1. ~options.cdn => s = "registry"
      BY DEF ClientIInv, UrlsOK, Sources
    <2>2. etags \in [Sources -> Manifests \cup {Nothing}]
      BY DEF ClientIInv, ClientTypeOK
    <2> QED
      BY <1>1, <2>1, <2>2 DEF CopiesAgree, Sources
  <1> QED
    BY <1>2, <1>3, <1>4, <1>5 DEF ClientIInv

LEMMA MarkFreshOK == ASSUME ClientIInv, NEW c \in Callers, MarkFresh(c) PROVE ClientIInv'
  <1>1. /\ InFlight(c) /\ inUse # Nothing /\ source' = "network"
        /\ fetches' = [fetches EXCEPT ![c] = NoFetch]
        /\ Answered(c)
        /\ UNCHANGED <<user, inUse, etags, stored, lapsed, destroyed, options, latest, published, down,
                       switches, outages, settled>>
    BY DEF MarkFresh, world
  <1>2. fetches' \in [Callers -> Fetches] /\ UrlsOK'
    BY <1>1, EndFacts DEF UrlsOK
  <1>3. LoopOK' /\ load' \in {"new", "pending", "resolved"} /\ timer' \in BOOLEAN
    BY <1>1, AnsweredOK
  <1>4. ClientTypeOK'
    BY <1>1, <1>2, <1>3 DEF ClientIInv, ClientTypeOK, Fetches
  <1>5. CopiesAgree'
    BY <1>1 DEF ClientIInv, CopiesAgree
  <1> QED
    BY <1>2, <1>3, <1>4, <1>5 DEF ClientIInv

LEMMA TryNextOK == ASSUME ClientIInv, NEW c \in Callers, TryNext(c) PROVE ClientIInv'
  <1> DEFINE r == Asking(fetches[c].rest, user, etags)
  <1>1. fetches \in [Callers -> Fetches] /\ user \in Users
        /\ etags \in [Sources -> Manifests \cup {Nothing}]
    BY DEF ClientIInv, ClientTypeOK, Fetches
  <1>2. /\ InFlight(c) /\ fetches[c].rest # <<>>
        /\ fetches' = [fetches EXCEPT ![c] = r]
        /\ UNCHANGED <<user, inUse, source, etags, stored, lapsed, load, timer, destroyed, options, latest,
                       published, down, switches, outages, settled>>
    BY DEF TryNext, Refused, world
  <1>3. fetches[c].rest \in {<<"registry">>, <<"cdn">>}
    BY <1>1, <1>2 DEF Fetches
  <1>4. \A s \in Sources : Head(<<s>>) = s /\ Tail(<<s>>) = <<>>
    OBVIOUS
  <1>5. r \in Fetches /\ r.url # "none" /\ r.rest = <<>>
    BY <1>1, <1>3, <1>4 DEF Asking, Fetches, Sources
  <1>6. /\ fetches' \in [Callers -> Fetches]
        /\ \A d \in Callers : InFlight(d)' <=> InFlight(d)
    BY <1>1, <1>2, <1>5 DEF InFlight
  <1>7. options.cdn
    BY <1>2, <1>3 DEF ClientIInv, UrlsOK
  <1>8. ClientTypeOK'
    BY <1>2, <1>6 DEF ClientIInv, ClientTypeOK, Fetches
  <1>9. LoopOK' /\ UrlsOK' /\ CopiesAgree'
    BY <1>2, <1>6, <1>7, CallersDiffer DEF ClientIInv, LoopOK, UrlsOK, CopiesAgree
  <1> QED
    BY <1>8, <1>9 DEF ClientIInv

(* Nothing is left to try: only the first load takes an offline copy.      *)
LEMMA GiveUpOK == ASSUME ClientIInv, NEW c \in Callers, GiveUp(c) PROVE ClientIInv'
  <1>1. /\ InFlight(c)
        /\ fetches' = [fetches EXCEPT ![c] = NoFetch]
        /\ UNCHANGED <<user, etags, stored, destroyed, options, latest, published, down,
                       switches, outages, settled>>
    BY DEF GiveUp, Refused, world
  <1>2. fetches' \in [Callers -> Fetches] /\ UrlsOK'
    BY <1>1, EndFacts DEF UrlsOK
  <1>3. Bundled \in Manifests
    BY DEF Bundled, Manifests
  <1>4. CASE c = LoadCall /\ UseOfflineCopy
    <2>1. Answered(c)
      BY <1>4, CallersDiffer DEF Answered, UseOfflineCopy
    <2>2. LoopOK' /\ load' \in {"new", "pending", "resolved"} /\ timer' \in BOOLEAN
      BY <1>1, <2>1, AnsweredOK
    <2>3. /\ inUse' \in Manifests /\ source' \in {"persisted", "fallback"}
          /\ \/ lapsed' = TRUE
             \/ lapsed' = lapsed /\ (stored # Nothing => inUse' = stored)
      BY <1>3, <1>4 DEF UseOfflineCopy, NothingPersisted, Apply, ClientIInv, ClientTypeOK
    <2>4. ClientTypeOK'
      BY <1>1, <1>2, <2>2, <2>3, NothingIsNoManifest DEF ClientIInv, ClientTypeOK, Fetches
    <2>5. CopiesAgree'
      BY <1>1, <2>3, NothingIsNoManifest DEF ClientIInv, CopiesAgree
    <2> QED
      BY <1>2, <2>2, <2>4, <2>5 DEF ClientIInv
  <1>5. CASE c = LoadCall /\ RejectInit
    <2>1. /\ load' = "new" /\ UNCHANGED <<inUse, source, timer>>
          /\ lapsed' = TRUE \/ lapsed' = lapsed
      BY <1>5 DEF RejectInit, NothingPersisted
    <2>2. LoopOK'
      BY <1>1, <1>5, <2>1, EndFacts, CallersDiffer DEF ClientIInv, LoopOK, InFlight
    <2>3. ClientTypeOK'
      BY <1>1, <1>2, <2>1 DEF ClientIInv, ClientTypeOK, Fetches
    <2>4. CopiesAgree'
      BY <1>1, <2>1 DEF ClientIInv, CopiesAgree
    <2> QED
      BY <1>2, <2>2, <2>3, <2>4 DEF ClientIInv
  <1>6. CASE Answered(c) /\ UNCHANGED <<inUse, source, lapsed>>
    <2>1. LoopOK' /\ load' \in {"new", "pending", "resolved"} /\ timer' \in BOOLEAN
      BY <1>1, <1>6, AnsweredOK
    <2>2. ClientTypeOK'
      BY <1>1, <1>2, <1>6, <2>1 DEF ClientIInv, ClientTypeOK, Fetches
    <2>3. CopiesAgree'
      BY <1>1, <1>6 DEF ClientIInv, CopiesAgree
    <2> QED
      BY <1>2, <2>1, <2>2, <2>3 DEF ClientIInv
  <1> QED
    BY <1>4, <1>5, <1>6 DEF GiveUp

--------------------------------------------------------------------------------
(* The host's calls and the timer.                                         *)
LEMMA CallInitOK == ClientIInv /\ CallInit => ClientIInv'
  <1> SUFFICES ASSUME ClientIInv, CallInit PROVE ClientIInv'
    OBVIOUS
  <1>1. /\ load = "new" /\ load' = "pending"
        /\ StartFetch(LoadCall, user, etags)
        /\ UNCHANGED <<user, inUse, source, etags, stored, lapsed, timer, destroyed, options, latest,
                       published, down, switches, outages, settled>>
    BY DEF CallInit, world
  <1>2. user \in Users /\ etags \in [Sources -> Manifests \cup {Nothing}]
    BY DEF ClientIInv, ClientTypeOK
  <1>3. /\ fetches' \in [Callers -> Fetches]
        /\ fetches'[LoadCall].url # "none"
        /\ \A d \in Callers \ {LoadCall} : fetches'[d] = fetches[d]
        /\ UrlsOK'
    BY <1>1, <1>2, StartFacts, CallersDiffer DEF UrlsOK
  <1>4. ClientTypeOK'
    BY <1>1, <1>3 DEF ClientIInv, ClientTypeOK, Fetches
  <1>5. LoopOK' /\ CopiesAgree'
    BY <1>1, <1>3, CallersDiffer DEF ClientIInv, LoopOK, CopiesAgree, InFlight
  <1> QED
    BY <1>3, <1>4, <1>5 DEF ClientIInv

LEMMA PollOK == ClientIInv /\ Poll => ClientIInv'
  <1> SUFFICES ASSUME ClientIInv, Poll PROVE ClientIInv'
    OBVIOUS
  <1>1. /\ timer /\ timer' = FALSE
        /\ StartFetch(PollCall, user, etags)
        /\ UNCHANGED <<user, inUse, source, etags, stored, lapsed, load, destroyed, options, latest,
                       published, down, switches, outages, settled>>
    BY DEF Poll, world
  <1>2. user \in Users /\ etags \in [Sources -> Manifests \cup {Nothing}]
    BY DEF ClientIInv, ClientTypeOK
  <1>3. /\ fetches' \in [Callers -> Fetches]
        /\ fetches'[PollCall].url # "none"
        /\ \A d \in Callers \ {PollCall} : fetches'[d] = fetches[d]
        /\ UrlsOK'
    BY <1>1, <1>2, StartFacts, CallersDiffer DEF UrlsOK
  <1>4. ClientTypeOK'
    BY <1>1, <1>3 DEF ClientIInv, ClientTypeOK, Fetches
  <1>5. LoopOK' /\ CopiesAgree'
    BY <1>1, <1>3, CallersDiffer DEF ClientIInv, LoopOK, CopiesAgree, InFlight
  <1> QED
    BY <1>3, <1>4, <1>5 DEF ClientIInv

(* A request of setUserId is nobody else's; the ETags are forgotten.       *)
LEMMA SetUserOK == ASSUME ClientIInv, NEW u \in Users, SetUser(u) PROVE ClientIInv'
  <1>1. /\ switches < MaxSwitches /\ switches' = switches + 1
        /\ user' = u /\ etags' = NoEtags /\ settled' = FALSE
        /\ IF load = "new" THEN UNCHANGED fetches ELSE StartFetch(switches', u, etags')
        /\ UNCHANGED <<inUse, source, stored, lapsed, load, timer, destroyed, options, latest, published,
                       down, outages>>
    BY DEF SetUser
  <1> PICK n \in 1..MaxSwitches : n = switches'
    BY <1>1 DEF ClientIInv, ClientTypeOK
  <1>2. n \in Callers /\ n # LoadCall /\ n # PollCall
    BY CallersDiffer
  <1>3. /\ fetches' \in [Callers -> Fetches]
        /\ UrlsOK'
        /\ \A d \in Callers \ {n} : fetches'[d] = fetches[d]
    <2>1. CASE load = "new"
      BY <1>1, <2>1 DEF ClientIInv, ClientTypeOK, UrlsOK, Fetches
    <2>2. CASE load # "new"
      <3>1. StartFetch(n, u, NoEtags)
        BY <1>1, <2>2 DEF StartFetch
      <3> QED
        BY <1>1, <1>2, <3>1, NoTags, StartFacts DEF UrlsOK
    <2> QED
      BY <2>1, <2>2
  <1>4. ClientTypeOK'
    <2>1. switches' \in 0..MaxSwitches
      BY <1>1 DEF ClientIInv, ClientTypeOK
    <2>2. /\ user' = u /\ etags' = NoEtags /\ settled' = FALSE
          /\ UNCHANGED <<inUse, source, stored, lapsed, load, timer, destroyed, options, latest, published,
                         down, outages>>
      BY <1>1
    <2> QED
      BY <1>3, <2>1, <2>2, NoTags DEF ClientIInv, ClientTypeOK, Fetches
  <1>5. LoopOK' /\ CopiesAgree'
    BY <1>1, <1>2, <1>3, NoTags, CallersDiffer DEF ClientIInv, LoopOK, CopiesAgree, InFlight
  <1> QED
    BY <1>3, <1>4, <1>5 DEF ClientIInv

LEMMA DestroyOK == ClientIInv /\ Destroy => ClientIInv'
  <1> SUFFICES ASSUME ClientIInv, Destroy PROVE ClientIInv'
    OBVIOUS
  <1>1. /\ destroyed' = TRUE /\ timer' = FALSE
        /\ UNCHANGED <<user, inUse, source, etags, stored, lapsed, load, fetches, options, latest,
                       published, down, switches, outages, settled>>
    BY DEF Destroy, world
  <1> QED
    BY <1>1 DEF ClientIInv, ClientTypeOK, LoopOK, UrlsOK, CopiesAgree, InFlight

(* A reload leaves the copy in storage, and no ETag to compare it with.    *)
LEMMA ReloadOK == ASSUME ClientIInv, NEW u \in Users, Reload(u) PROVE ClientIInv'
  <1>1. \A c \in Callers : fetches'[c] = NoFetch
    BY DEF Reload, NoFetches
  <1>2. fetches' \in [Callers -> Fetches]
    BY NoFetchTyped DEF Reload, NoFetches
  <1>3. ClientTypeOK'
    <2>1. switches' \in 0..MaxSwitches
      BY DEF Reload, ClientIInv, ClientTypeOK
    <2> QED
      BY <1>2, <2>1, NoTags DEF Reload, ClientIInv, ClientTypeOK, Fetches
  <1>4. LoopOK' /\ UrlsOK' /\ CopiesAgree'
    BY <1>1, NoFetchTyped, NoTags, CallersDiffer
    DEF Reload, LoopOK, UrlsOK, CopiesAgree, InFlight
  <1> QED
    BY <1>3, <1>4 DEF ClientIInv

(* What happens elsewhere does not touch the page.                         *)
LEMMA ElsewhereOK ==
    ASSUME ClientIInv, \/ Change \/ Publish \/ UNCHANGED clientVars
                       \/ \E s \in Sources : GoDown(s) \/ ComeUp(s)
    PROVE  ClientIInv'
  <1>1. UNCHANGED <<user, inUse, source, etags, stored, lapsed, load, timer, destroyed, fetches, options,
                    switches>>
    BY DEF Change, Publish, GoDown, ComeUp, clientVars, page, world
  <1>2. down' \subseteq Sources /\ settled' \in BOOLEAN
    BY DEF Change, Publish, GoDown, ComeUp, clientVars, world, ClientIInv, ClientTypeOK
  <1>3. published' \in 0..latest' /\ latest' \in 0..MaxChanges /\ outages' \in 0..MaxOutages
    BY DEF Change, Publish, GoDown, ComeUp, clientVars, world, ClientIInv, ClientTypeOK
  <1>4. ClientTypeOK'
    <2>1. switches' \in 0..MaxSwitches /\ fetches' \in [Callers -> Fetches]
      BY <1>1 DEF ClientIInv, ClientTypeOK, Fetches
    <2> QED
      BY <1>1, <1>2, <1>3, <2>1 DEF ClientIInv, ClientTypeOK, Fetches
  <1>5. LoopOK' /\ UrlsOK' /\ CopiesAgree'
    BY <1>1 DEF ClientIInv, LoopOK, UrlsOK, CopiesAgree, InFlight
  <1> QED
    BY <1>4, <1>5 DEF ClientIInv

(* Another page's copy in the storage is one the page knows nothing of.    *)
LEMMA OtherPageOK == ASSUME ClientIInv, NEW u \in Users, OtherPage(u) PROVE ClientIInv'
  <1>1. /\ stored' \in Manifests /\ lapsed' = TRUE
        /\ UNCHANGED <<user, inUse, source, etags, load, timer, destroyed, fetches, options, latest,
                       published, down, switches, outages, settled>>
    BY DEF OtherPage, Served, Manifests, ClientIInv, ClientTypeOK, world
  <1>2. ClientTypeOK'
    BY <1>1 DEF ClientIInv, ClientTypeOK
  <1>3. LoopOK' /\ UrlsOK' /\ CopiesAgree'
    BY <1>1 DEF ClientIInv, LoopOK, UrlsOK, CopiesAgree, InFlight
  <1> QED
    BY <1>2, <1>3 DEF ClientIInv

LEMMA ClientStepOK == ClientIInv /\ [ClientNext]_clientVars => ClientIInv'
  <1> SUFFICES ASSUME ClientIInv, [ClientNext]_clientVars PROVE ClientIInv'
    OBVIOUS
  <1>1. ASSUME NEW c \in Callers, Handle(c) PROVE ClientIInv'
    BY <1>1, AnswerOK, UseAnswerOK, MarkFreshOK, TryNextOK, GiveUpOK DEF Handle
  <1> QED
    BY <1>1, CallInitOK, SetUserOK, DestroyOK, PollOK, ReloadOK, OtherPageOK, ElsewhereOK
    DEF ClientNext

LEMMA ClientInvariance == ClientSpec => []ClientIInv
  BY InitClientOK, ClientStepOK, PTL DEF ClientSpec

--------------------------------------------------------------------------------
(* The client's fields keep their types, and it says where its manifest is *)
(* from if and only if it has one (packages/client/src/index.ts).          *)
THEOREM ClientTypeCorrect == ClientSpec => []ClientTypeOK
  <1>1. ClientIInv => ClientTypeOK
    BY DEF ClientIInv
  <1> QED
    BY <1>1, ClientInvariance, PTL

(* One load, one poll loop: init's request, the timer and a poll's request *)
(* are never there side by side (init, scheduleNextPoll, destroy).         *)
THEOREM PollLoopIsOne == ClientSpec => []OnePollLoop
  <1>1. ClientIInv => OnePollLoop
    BY DEF ClientIInv, LoopOK, OnePollLoop
  <1> QED
    BY <1>1, ClientInvariance, PTL

(* With one source and a storage, the ETag the page asks about is that of  *)
(* the manifest it shows, whichever request ended last (fetchFrom, send,   *)
(* persist), from a save of the manifest until storage fails or another    *)
(* page writes it.                                                         *)
THEOREM EtagIsOfWhatIsShown == ClientSpec => []EtagOfWhatIsShown
  <1>1. ClientIInv => EtagOfWhatIsShown
    BY DEF ClientIInv, CopiesAgree, EtagOfWhatIsShown
  <1> QED
    BY <1>1, ClientInvariance, PTL
================================================================================
