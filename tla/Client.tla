--------------------------------- MODULE Client --------------------------------
(***************************************************************************)
(* The browser SDK (HarmoniqClient) on one page, between the registry, a   *)
(* CDN whose copy follows the registry's after each publish, and the       *)
(* page's storage: the first load with its offline copies, the poll loop,  *)
(* changes of user, destroy, and a reload of the page.                     *)
(*                                                                         *)
(* A manifest is the change it shows and the user whose variant it is; an  *)
(* ETag is as good as its manifest.  The JavaScript of a page is one       *)
(* thread, so a step is what runs between two awaits; requests are in      *)
(* flight side by side.                                                    *)
(*                                                                         *)
(* Abstracted: the delay of a poll (backoff, jitter); modules, overrides   *)
(* and events, which follow from the manifest; a context counts as part of *)
(* the user.  Pages that do not poll are left out.                         *)
(***************************************************************************)
EXTENDS Naturals, Sequences

CONSTANTS
    Users,          \* users of the page, NoUser among them
    NoUser,         \* nobody: the stable variant
    Options,        \* what the host configures: records of booleans cdn, persist, fallback
    MaxChanges,     \* bound: changes of the environment's manifest
    MaxSwitches,    \* bound: changes of user and reloads
    MaxOutages      \* bound: how often a source goes down

ASSUME ClientAssumption ==
    /\ NoUser \in Users /\ "nothing" \notin Users /\ "unchanged" \notin Users
    /\ Options \subseteq [cdn : BOOLEAN, persist : BOOLEAN, fallback : BOOLEAN]
    /\ MaxChanges \in Nat /\ MaxSwitches \in Nat /\ MaxOutages \in Nat

VARIABLES
    options,    \* of this page
    latest,     \* the last change the registry shows
    published,  \* the last change the CDN's copy shows
    down,       \* sources that do not answer
    user,       \* userKey
    inUse,      \* manifest
    source,     \* where the manifest in use is said to come from
    etags,      \* etags[s]: the ETag of the last answer of source s
    stored,     \* the copy in the page's storage
    lapsed,     \* history: storage failed, or another page wrote it, since this page last did
    load,       \* initPromise: not there, pending, resolved
    timer,      \* whether the poll timer is set
    destroyed,
    fetches,    \* fetches[c]: the fetchManifest that caller c awaits
    switches, outages,
    settled     \* since the last change no request is older, no source failed, no user changed

page == <<user, inUse, source, etags, stored, lapsed, load, timer, destroyed, fetches>>
world == <<options, latest, published, down, switches, outages>>
clientVars == <<page, world, settled>>

Sources == {"registry", "cdn"}

(* Who awaits a fetchManifest: init, the poll timer, or the n-th setUserId. *)
LoadCall == 0
PollCall == MaxSwitches + 1
Callers == 0..MaxSwitches + 1

Manifests == [change : 0..MaxChanges, for : Users]
Nothing == [change |-> 0, for |-> "nothing"]
NotModified == [change |-> 0, for |-> "unchanged"]
Bundled == [change |-> 0, for |-> NoUser]       \* fallbackManifest

NoFetch == [url |-> "none", rest |-> <<>>, asked |-> Nothing, as |-> NoUser, answer |-> Nothing]

ClientTypeOK ==
    /\ options \in Options
    /\ published \in 0..latest /\ latest \in 0..MaxChanges
    /\ down \subseteq Sources
    /\ user \in Users
    /\ inUse \in Manifests \cup {Nothing}
    /\ source \in {"none", "network", "persisted", "fallback"}
    /\ source = "none" <=> inUse = Nothing
    /\ etags \in [Sources -> Manifests \cup {Nothing}]
    /\ stored \in Manifests \cup {Nothing}
    /\ lapsed \in BOOLEAN
    /\ load \in {"new", "pending", "resolved"}
    /\ timer \in BOOLEAN /\ destroyed \in BOOLEAN
    /\ fetches \in [Callers ->
            [url : Sources \cup {"none"}, rest : {<<>>, <<"registry">>, <<"cdn">>},
             asked : Manifests \cup {Nothing}, as : Users,
             answer : Manifests \cup {Nothing, NotModified}]]
    /\ switches \in 0..MaxSwitches /\ outages \in 0..MaxOutages
    /\ settled \in BOOLEAN

NoEtags == [s \in Sources |-> Nothing]
NoFetches == [c \in Callers |-> NoFetch]

ClientInit ==
    /\ options \in Options
    /\ latest = 0 /\ published = 0
    /\ down = {}
    /\ user = NoUser
    /\ inUse = Nothing /\ source = "none" /\ etags = NoEtags /\ stored = Nothing
    /\ lapsed = FALSE
    /\ load = "new" /\ timer = FALSE /\ destroyed = FALSE
    /\ fetches = NoFetches
    /\ switches = 0 /\ outages = 0
    /\ settled = FALSE

--------------------------------------------------------------------------------
(* Manifest URLs to try, in order: only the registry assigns variants.     *)
SourcesFor(u) ==
    IF ~options.cdn THEN <<"registry">>
    ELSE IF u # NoUser THEN <<"registry", "cdn">> ELSE <<"cdn", "registry">>

InFlight(c) == fetches[c].url # "none"

(* fetchFrom up to its await, for the first of urls: the ETag and the user *)
(* are those of this moment; tags and u are the page's after this step.    *)
Asking(urls, u, tags) ==
    [url |-> Head(urls), rest |-> Tail(urls), asked |-> tags[Head(urls)],
     as |-> IF Head(urls) = "registry" THEN u ELSE NoUser, answer |-> Nothing]

StartFetch(c, u, tags) == fetches' = [fetches EXCEPT ![c] = Asking(SourcesFor(u), u, tags)]

(* What s serves to user u, ...                                            *)
Served(s, u) == [change |-> IF s = "cdn" THEN published ELSE latest, for |-> u]

(* ... and the 304 when it is what the page asked about.                   *)
Answer(c) ==
    /\ InFlight(c) /\ fetches[c].answer = Nothing
    /\ fetches[c].url \notin down
    /\ LET m == Served(fetches[c].url, fetches[c].as) IN
       fetches' = [fetches EXCEPT ![c].answer = IF m = fetches[c].asked THEN NotModified ELSE m]
    /\ UNCHANGED <<user, inUse, source, etags, stored, lapsed, load, timer, destroyed,
                   world, settled>>

(* scheduleNextPoll, unless a timer runs or the client is destroyed.       *)
SchedulePoll == timer' = (timer \/ ~destroyed)

(* What the caller goes on with when its fetch has an answer.              *)
Answered(c) ==
    CASE c = LoadCall -> load' = "resolved" /\ SchedulePoll
      [] c = PollCall -> SchedulePoll /\ UNCHANGED load
      [] OTHER -> UNCHANGED <<load, timer>>

(* The page's modules follow from the manifest in use.                     *)
Apply(m, from) == inUse' = m /\ source' = from

(* persist is best effort: a write that fails (quota, storage blocked)     *)
(* leaves the older copy.                                                  *)
Persist(m) ==
    \/ options.persist /\ stored' = m /\ lapsed' = FALSE
    \/ options.persist /\ lapsed' = TRUE /\ UNCHANGED stored
    \/ ~options.persist /\ UNCHANGED <<stored, lapsed>>

(* A manifest: its ETag, apply, persist, in one step.                      *)
UseAnswer(c) ==
    LET m == fetches[c].answer IN
    /\ InFlight(c) /\ m \in Manifests
    /\ etags' = [etags EXCEPT ![fetches[c].url] = m]
    /\ Apply(m, "network")
    /\ Persist(m)
    /\ fetches' = [fetches EXCEPT ![c] = NoFetch]
    /\ Answered(c)
    /\ UNCHANGED <<user, destroyed, world, settled>>

(* 304: markFresh.                                                         *)
MarkFresh(c) ==
    /\ InFlight(c) /\ fetches[c].answer = NotModified
    /\ inUse # Nothing
    /\ source' = "network"
    /\ fetches' = [fetches EXCEPT ![c] = NoFetch]
    /\ Answered(c)
    /\ UNCHANGED <<user, inUse, etags, stored, lapsed, destroyed, world, settled>>

(* No answer in time, or none that is of use: fetchManifest goes on with   *)
(* the next source ...                                                     *)
Refused(c) ==
    /\ InFlight(c)
    /\ \/ fetches[c].url \in down
       \/ fetches[c].answer = NotModified /\ inUse = Nothing

TryNext(c) ==
    /\ Refused(c) /\ fetches[c].rest # <<>>
    /\ fetches' = [fetches EXCEPT ![c] = Asking(@.rest, user, etags)]
    /\ UNCHANGED <<user, inUse, source, etags, stored, lapsed, load, timer, destroyed,
                   world, settled>>

(* readPersisted finds nothing, or fails.                                  *)
NothingPersisted ==
    \/ stored = Nothing /\ UNCHANGED lapsed
    \/ stored # Nothing /\ lapsed' = TRUE

(* Plausible error: the bundled copy is preferred.                         *)
UseBundledCopyFirst ==
    /\ \/ options.fallback /\ Apply(Bundled, "fallback")
       \/ ~options.fallback /\ stored # Nothing /\ Apply(stored, "persisted")
    /\ load' = "resolved"
    /\ SchedulePoll
    /\ UNCHANGED lapsed

(* ... and throws after the last one.  The first load then takes the copy  *)
(* in storage or the bundled one; without either init rejects, and may be  *)
(* called again.  A poll or setUserId keeps what is in use.                *)
UseOfflineCopy ==
    /\ \/ stored # Nothing /\ Apply(stored, "persisted") /\ UNCHANGED lapsed
       \/ NothingPersisted /\ options.fallback /\ Apply(Bundled, "fallback")
    /\ load' = "resolved"
    /\ SchedulePoll

RejectInit ==
    /\ NothingPersisted /\ ~options.fallback
    /\ load' = "new"
    /\ UNCHANGED <<inUse, source, timer>>

(* Plausible error: then, not finally: a failed poll is the last.          *)
GiveUpPolling(c) ==
    /\ Refused(c) /\ fetches[c].rest = <<>>
    /\ fetches' = [fetches EXCEPT ![c] = NoFetch]
    /\ IF c = LoadCall THEN UseOfflineCopy \/ RejectInit
       ELSE UNCHANGED <<inUse, source, lapsed, load, timer>>
    /\ UNCHANGED <<user, etags, stored, destroyed, world, settled>>

GiveUp(c) ==
    /\ Refused(c) /\ fetches[c].rest = <<>>
    /\ fetches' = [fetches EXCEPT ![c] = NoFetch]
    /\ IF c = LoadCall THEN UseOfflineCopy \/ RejectInit
       ELSE Answered(c) /\ UNCHANGED <<inUse, source, lapsed>>
    /\ UNCHANGED <<user, etags, stored, destroyed, world, settled>>

--------------------------------------------------------------------------------
(* The host's calls.                                                       *)

(* Plausible error: the promise is forgotten once it has resolved.         *)
CallInitAgain ==
    /\ load \in {"new", "resolved"} /\ ~InFlight(LoadCall)
    /\ load' = "pending"
    /\ StartFetch(LoadCall, user, etags)
    /\ UNCHANGED <<user, inUse, source, etags, stored, lapsed, timer, destroyed, world, settled>>

(* init(), by any part of the page: all share the promise that is there.   *)
CallInit ==
    /\ load = "new"
    /\ load' = "pending"
    /\ StartFetch(LoadCall, user, etags)
    /\ UNCHANGED <<user, inUse, source, etags, stored, lapsed, timer, destroyed, world, settled>>

(* Plausible error: the manifest, too, belonged to the previous user.      *)
SetUserForgets(u) ==
    /\ switches < MaxSwitches
    /\ u # user
    /\ user' = u
    /\ inUse' = Nothing
    /\ etags' = NoEtags
    /\ switches' = switches + 1
    /\ IF load = "new" THEN UNCHANGED fetches ELSE StartFetch(switches', u, etags')
    /\ settled' = FALSE
    /\ UNCHANGED <<source, stored, lapsed, load, timer, destroyed, options, latest, published,
                   down, outages>>

(* setUserId, setContext.                                                  *)
SetUser(u) ==
    /\ switches < MaxSwitches
    /\ u # user
    /\ user' = u
    /\ etags' = NoEtags
    /\ switches' = switches + 1
    /\ IF load = "new" THEN UNCHANGED fetches ELSE StartFetch(switches', u, etags')
    /\ settled' = FALSE
    /\ UNCHANGED <<inUse, source, stored, lapsed, load, timer, destroyed, options, latest,
                   published, down, outages>>

Destroy ==
    /\ ~destroyed
    /\ destroyed' = TRUE
    /\ timer' = FALSE
    /\ UNCHANGED <<user, inUse, source, etags, stored, lapsed, load, fetches, world, settled>>

(* The poll timer fires.                                                   *)
Poll ==
    /\ timer
    /\ timer' = FALSE
    /\ StartFetch(PollCall, user, etags)
    /\ UNCHANGED <<user, inUse, source, etags, stored, lapsed, load, destroyed, world, settled>>

--------------------------------------------------------------------------------
(* The page and the sources.                                               *)

(* The page is loaded again, by whichever user: storage is all that stays. *)
Reload(u) ==
    /\ switches < MaxSwitches
    /\ switches' = switches + 1
    /\ user' = u
    /\ inUse' = Nothing /\ source' = "none" /\ etags' = NoEtags
    /\ load' = "new" /\ timer' = FALSE /\ destroyed' = FALSE
    /\ fetches' = NoFetches
    /\ settled' = FALSE
    /\ UNCHANGED <<stored, lapsed, options, latest, published, down, outages>>

(* Another page of the host saves its manifest, for its user, under the    *)
(* same key (as it gets it: the delays of its requests are left out).      *)
OtherPage(u) ==
    /\ options.persist
    /\ stored' = Served("registry", u)
    /\ lapsed' = TRUE
    /\ UNCHANGED <<user, inUse, source, etags, load, timer, destroyed, fetches, world, settled>>

Change ==
    /\ latest < MaxChanges
    /\ latest' = latest + 1
    /\ settled' = (down = {} /\ \A c \in Callers : ~InFlight(c))
    /\ UNCHANGED <<page, options, published, down, switches, outages>>

(* Manifest publishing (see Publishing) reaches the CDN some time later.   *)
Publish ==
    /\ published < latest
    /\ published' = latest
    /\ UNCHANGED <<page, options, latest, down, switches, outages, settled>>

GoDown(s) ==
    /\ outages < MaxOutages
    /\ s \notin down
    /\ down' = down \cup {s}
    /\ outages' = outages + 1
    /\ settled' = FALSE
    /\ UNCHANGED <<page, options, latest, published, switches>>

ComeUp(s) ==
    /\ s \in down
    /\ down' = down \ {s}
    /\ UNCHANGED <<page, options, latest, published, switches, outages, settled>>

--------------------------------------------------------------------------------
Handle(c) == Answer(c) \/ UseAnswer(c) \/ MarkFresh(c) \/ TryNext(c) \/ GiveUp(c)

ClientNext ==
    \/ \E c \in Callers : Handle(c)
    \/ CallInit
    \/ \E u \in Users : SetUser(u)
    \/ Destroy
    \/ Poll
    \/ \E u \in Users : Reload(u)
    \/ \E u \in Users : OtherPage(u)
    \/ Change \/ Publish
    \/ \E s \in Sources : GoDown(s) \/ ComeUp(s)

ClientSpec == ClientInit /\ [][ClientNext]_clientVars

(* Requests end, if only by their timeout, and timers fire.                *)
ClientFairSpec ==
    /\ ClientSpec
    /\ \A c \in Callers : WF_clientVars(Handle(c))
    /\ WF_clientVars(Poll)

--------------------------------------------------------------------------------
(* Properties.                                                             *)

(* docs/sdk.md:24: "safe to call many times; one load, one poll loop": the *)
(* load that will start the loop, a timer and a poll in flight are never   *)
(* there side by side, whatever fails and is called again.                 *)
OnePollLoop ==
    /\ ~(InFlight(LoadCall) /\ (timer \/ InFlight(PollCall)))
    /\ ~(timer /\ InFlight(PollCall))

(* With one source and a storage, the page never asks "is it still E?"     *)
(* while it shows something else than E, whichever of its requests         *)
(* answered or failed last: a 304 can be trusted.  Except after a write of *)
(* the storage failed, or another page wrote it, until the next manifest   *)
(* is saved: a load that fails late then takes what it finds there.        *)
EtagOfWhatIsShown ==
    ~options.cdn /\ options.persist /\ ~lapsed =>
        etags["registry"] \in {Nothing, inUse}

(* "pick up deploys and rollbacks without a reload" (docs/sdk.md:21): once *)
(* sources answer, users and changes rest and the CDN is up to date, a     *)
(* page that polls comes to show the last change, for its user, and to say *)
(* it is fresh.  With one source and a storage that works, always;         *)
(* otherwise if no request is older than the last change and nothing       *)
(* failed since.                                                           *)
Steady ==
    /\ load = "resolved" /\ ~destroyed
    /\ down = {} /\ published = latest

Shown == inUse = [change |-> latest, for |-> user] /\ source = "network"

CatchesUp ==
    <>[](Steady /\ (settled \/ (~options.cdn /\ options.persist /\ ~lapsed))) => <>[]Shown

(* client/README.md:90, getSource: "Anything but network may be stale",    *)
(* so that what came from the network is not.                              *)
HealsByItself == <>[]Steady => <>[]Shown

(* The same, of a page with one source and a storage.                      *)
HealsWithStorage ==
    <>[](Steady /\ ~options.cdn /\ options.persist) => <>[]Shown

================================================================================
