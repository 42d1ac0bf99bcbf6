---------------------------- MODULE ManifestCache ----------------------------
(***************************************************************************)
(* The manifest cache, server/utils/fetchManifest.js: one cache entry (one *)
(* workspace) of one process, filled by concurrent calls from the control  *)
(* plane, in the default mode RT_MANIFEST_FAIL_CLOSED=true.                *)
(*                                                                         *)
(* A call that misses sends a request and is suspended; the control plane  *)
(* answers it at some moment, and the answer, an error or the timeout      *)
(* resumes the call later.  Calls are not coalesced, so any number of them *)
(* are in flight and they resume in any order.  What the control plane     *)
(* holds is a version number that only grows; the manifest of a version is *)
(* whatever it said then, so that a version that has been replaced stands  *)
(* for contracts and bridges that may have been revoked.                   *)
(***************************************************************************)
EXTENDS Naturals, Clock

CONSTANTS
    Fetches,     \* calls of fetchManifest that may be in flight together
    CacheTtl,    \* CACHE_TTL_MS
    StaleMax,    \* RT_MANIFEST_STALE_MAX_MS
    Timeout,     \* AbortSignal.timeout of the request
    MaxVersion   \* bound on the versions

ASSUME ManifestTimes ==
    /\ CacheTtl \in Nat /\ StaleMax \in Nat /\ Timeout \in Nat /\ MaxTime \in Nat
ASSUME VersionAssumption == MaxVersion \in Nat /\ None \notin Nat

VARIABLES
    truth,          \* the version the control plane holds
    replacedAt,     \* when each version stopped being the truth, or None
    manifest,       \* entry.manifest: a version, or None
    lastFetch,      \* entry.lastFetchTime
    hasEverFetched, \* entry.hasEverFetched
    lastErrorAt,    \* entry.lastErrorAt
    degraded,       \* entry.degraded
    stage,          \* idle, waiting for the control plane, or answered by it
    start,          \* the "now" each call read when it began
    reply,          \* the version the control plane answered with
    returned        \* what this step returned to a caller, if it did

remote == <<truth, replacedAt>>
entry == <<manifest, lastFetch, hasEverFetched, lastErrorAt, degraded>>
flight == <<start, reply>>
manifestVars == <<remote, entry, stage, flight, returned, now>>

Versions == 0 .. MaxVersion

Kinds == {"none", "hit", "fetched", "stale", "empty", "env"}

Nothing == [kind |-> "none", version |-> None]

ManifestTypeOK ==
    /\ truth \in Versions
    /\ replacedAt \in [Versions -> Nat \cup {None}]
    /\ manifest \in Versions \cup {None}
    /\ lastFetch \in Nat
    /\ hasEverFetched \in BOOLEAN
    /\ lastErrorAt \in Nat
    /\ degraded \in BOOLEAN
    /\ stage \in [Fetches -> {"idle", "waiting", "answered"}]
    /\ start \in [Fetches -> Nat]
    /\ reply \in [Fetches -> Versions \cup {None}]
    /\ returned \in [kind : Kinds, version : Versions \cup {None}]
    /\ now \in Nat

ManifestInit ==
    /\ truth = 0
    /\ replacedAt = [v \in Versions |-> None]
    /\ manifest = None
    /\ lastFetch = 0
    /\ hasEverFetched = FALSE
    /\ lastErrorAt = 0
    /\ degraded = FALSE
    /\ stage = [c \in Fetches |-> "idle"]
    /\ start = [c \in Fetches |-> 0]
    /\ reply = [c \in Fetches |-> None]
    /\ returned = Nothing
    /\ now = 0

-----------------------------------------------------------------------------
Return(kind, version) == returned' = [kind |-> kind, version |-> version]

\* The call ends; what it kept to itself is gone.
Leave(c) ==
    /\ stage' = [stage EXCEPT ![c] = "idle"]
    /\ start' = [start EXCEPT ![c] = 0]
    /\ reply' = [reply EXCEPT ![c] = None]

IsFresh == manifest # None /\ now < lastFetch + CacheTtl

\* A degraded workspace asks the control plane again only every CacheTtl.
HoldsOff == degraded /\ now < lastErrorAt + CacheTtl

\* Mutant: a failure while degraded serves the manifest again.
ServeForgettingDegraded(c) ==
    /\ lastErrorAt' = start[c]
    /\ IF start[c] <= lastFetch + StaleMax
       THEN Return("stale", manifest) /\ degraded' = degraded
       ELSE Return("empty", None) /\ degraded' = TRUE

\* serveLastKnownGood, in a call that began at start[c].
ServeLastKnownGood(c) ==
    /\ lastErrorAt' = start[c]
    /\ \/ /\ start[c] <= lastFetch + StaleMax
          /\ degraded' = degraded
          /\ IF degraded THEN Return("empty", None) ELSE Return("stale", manifest)
       \/ /\ start[c] > lastFetch + StaleMax
          /\ degraded' = TRUE
          /\ Return("empty", None)

\* The variables of the environment (or nothing, for another workspace).
FirstBootFallback ==
    /\ lastErrorAt' = now
    /\ Return("env", None)
    /\ UNCHANGED degraded

-----------------------------------------------------------------------------
\* The control plane changes bridges or contracts of the workspace.
Replace ==
    /\ truth < MaxVersion
    /\ truth' = truth + 1
    /\ replacedAt' = [replacedAt EXCEPT ![truth] = now]
    /\ returned' = Nothing
    /\ UNCHANGED <<entry, stage, flight, now>>

Hit(c) ==
    /\ stage[c] = "idle"
    /\ IsFresh
    /\ Return("hit", manifest)
    /\ UNCHANGED <<remote, entry, stage, flight, now>>

HoldOff(c) ==
    /\ stage[c] = "idle"
    /\ ~IsFresh
    /\ HoldsOff
    /\ Return("empty", None)
    /\ UNCHANGED <<remote, entry, stage, flight, now>>

Request(c) ==
    /\ stage[c] = "idle"
    /\ ~IsFresh
    /\ ~HoldsOff
    /\ stage' = [stage EXCEPT ![c] = "waiting"]
    /\ start' = [start EXCEPT ![c] = now]
    /\ returned' = Nothing
    /\ UNCHANGED <<remote, entry, reply, now>>

\* The control plane reads its state; the answer is on its way.
Answer(c) ==
    /\ stage[c] = "waiting"
    /\ stage' = [stage EXCEPT ![c] = "answered"]
    /\ reply' = [reply EXCEPT ![c] = truth]
    /\ returned' = Nothing
    /\ UNCHANGED <<remote, entry, start, now>>

\* Mutants of Store: the age counts from the end of the call; the flag stays.
StoreDatedNow(c) ==
    manifest' = reply[c] /\ lastFetch' = now /\ degraded' = FALSE /\ hasEverFetched' = TRUE
StoreStayingDegraded(c) ==
    /\ manifest' = reply[c] /\ lastFetch' = start[c] /\ hasEverFetched' = TRUE
    /\ UNCHANGED degraded

Store(c) ==
    /\ manifest' = reply[c]
    /\ lastFetch' = start[c]
    /\ degraded' = FALSE
    /\ hasEverFetched' = TRUE

\* A 200 is the truth; its age is counted from the start of the call.
Succeed(c) ==
    /\ stage[c] = "answered"
    /\ Store(c)
    /\ Return("fetched", reply[c])
    /\ Leave(c)
    /\ UNCHANGED <<remote, lastErrorAt, now>>

\* Mutant: whether the entry was ever filled is read before the await.
FailRememberingStart(c) ==
    /\ stage[c] \in {"waiting", "answered"}
    /\ IF hasEverFetched /\ lastFetch < start[c]
       THEN ServeLastKnownGood(c) ELSE FirstBootFallback
    /\ Leave(c)
    /\ UNCHANGED <<remote, manifest, lastFetch, hasEverFetched, now>>

\* Not reachable, not ok, not JSON, or aborted by the timeout.
Fail(c) ==
    /\ stage[c] \in {"waiting", "answered"}
    /\ IF hasEverFetched THEN ServeLastKnownGood(c) ELSE FirstBootFallback
    /\ Leave(c)
    /\ UNCHANGED <<remote, manifest, lastFetch, hasEverFetched, now>>

\* Time passes, but no request outlives its timeout.
ManifestTick ==
    /\ now < MaxTime
    /\ \A c \in Fetches : stage[c] # "idle" => now < start[c] + Timeout
    /\ now' = now + 1
    /\ returned' = Nothing
    /\ UNCHANGED <<remote, entry, stage, flight>>

FetchManifest(c) ==
    Hit(c) \/ HoldOff(c) \/ Request(c) \/ Succeed(c) \/ Fail(c)

ManifestNext ==
    \/ \E c \in Fetches : FetchManifest(c) \/ Answer(c)
    \/ Replace
    \/ ManifestTick

ManifestSpec == ManifestInit /\ [][ManifestNext]_manifestVars

-----------------------------------------------------------------------------
\* How old the truth behind each kind of result may be.
Bound(kind) ==
    CASE kind = "hit" -> CacheTtl
      [] kind = "fetched" -> Timeout
      [] kind = "stale" -> StaleMax + Timeout

\* What a call returns was the truth of the control plane not longer ago
\* than CacheTtl for a hit and StaleMax, plus the request it waited for, for a
\* last known good: also when answers arrive out of order and an older one
\* overwrites a newer one, or a call fails after others succeeded.  So a
\* revoked contract is honoured for that long at most.
BoundedStaleness ==
    returned.kind \in {"hit", "fetched", "stale"} =>
        \/ replacedAt[returned.version] = None
        \/ now <= replacedAt[returned.version] + Bound(returned.kind)

\* The environment variables are served only before the first success, also
\* to a call that began before it (fetchManifest.js:30-31).
EnvOnlyAtFirstBoot == returned.kind = "env" => ~hasEverFetched

\* The health flag tells the truth (fetchManifest.js:217-219): a workspace is
\* marked degraded only while its last success is older than StaleMax.
DegradedIsHonest == degraded => now > lastFetch + StaleMax

\* While a workspace is degraded no call returns a manifest, whatever was in
\* flight when it degraded.
DegradedServesNothing == degraded => returned.kind \in {"none", "empty"}
=============================================================================
