----------------------------- MODULE StoreProofs -----------------------------
(***************************************************************************)
(* Proofs about the two stores of entries that expire: NonceStore, for any *)
(* number of processes and calls, any roles and privileges, and any Ttl,   *)
(* and ManifestCache, for any number of concurrent calls and any Ttl,      *)
(* StaleMax and Timeout.  The two share the clock and nothing else.        *)
(*                                                                         *)
(* A nonce store accepts only what it does not remember, so what has to be *)
(* kept is that it remembers long enough: as long as an acceptance is not  *)
(* older than Ttl, the row (RowKeeps) or the map of the process            *)
(* (MemoryKeeps) that decided it still carries an expiry that is late      *)
(* enough, whatever is refreshed, cleaned up or lost meanwhile.            *)
(***************************************************************************)
EXTENDS NonceStore, ManifestCache, TLAPS

Fresh(c) == now > acceptedAt[c] + Ttl

Pending(c) == pc[c] \in {"inserting", "updating"}

\* A call that still runs has accepted nothing and its process is up.
CallsConsistent ==
    \A c \in Calls :
        /\ pc[c] = "idle" \/ Pending(c) => store[c] = None
        /\ Pending(c) => at[c] \in alive
        /\ store[c] # None => acceptedAt[c] \in Nat /\ acceptedAt[c] <= now

RowKeeps ==
    \A c \in Calls : store[c] = Db =>
        Fresh(c) \/ (expires # None /\ expires >= acceptedAt[c] + Ttl)

MemoryKeeps ==
    \A c \in Calls, p \in alive : store[c] = p =>
        Fresh(c) \/ (memory[p] # None /\ memory[p] >= acceptedAt[c] + Ttl)

IInv ==
    /\ TypeOK
    /\ CallsConsistent
    /\ RowKeeps
    /\ MemoryKeeps
    /\ OncePerStore

USE StoresAssumption, RolesAssumption, PrivilegeAssumption, TimeAssumption

-----------------------------------------------------------------------------
LEMMA InitIInv == Init => IInv
<1> SUFFICES ASSUME Init PROVE IInv
  OBVIOUS
<1>1. TypeOK
  BY DEF Init, TypeOK, Stores
<1>2. CallsConsistent
  BY DEF Init, CallsConsistent, Pending
<1>3. RowKeeps /\ MemoryKeeps /\ OncePerStore
  BY DEF Init, RowKeeps, MemoryKeeps, OncePerStore, Stores
<1> QED BY <1>1, <1>2, <1>3 DEF IInv

\* Accepting c in a store in which no acceptance is younger than Ttl keeps
\* the store's acceptances apart.
LEMMA AcceptKeepsApart ==
    ASSUME IInv, NEW c \in Calls, NEW s \in Stores, Pending(c), Accept(c, s),
           \A d \in Calls : store[d] = s => Fresh(d)
    PROVE  OncePerStore'
<1>1. store[c] = None /\ store'[c] = s /\ acceptedAt'[c] = now /\ now \in Nat
  BY DEF IInv, TypeOK, CallsConsistent, Accept
<1>2. \A d \in Calls \ {c} : store'[d] = store[d] /\ acceptedAt'[d] = acceptedAt[d]
  BY DEF IInv, TypeOK, Accept
<1> QED
  BY <1>1, <1>2 DEF OncePerStore, IInv, Fresh

\* What the table and the map let through has not been accepted within Ttl.
LEMMA RowDecides ==
    ASSUME IInv, expires = None \/ expires < now, NEW d \in Calls, store[d] = Db
    PROVE  Fresh(d)
BY DEF IInv, TypeOK, RowKeeps, CallsConsistent, Fresh

LEMMA MemoryDecides ==
    ASSUME IInv, NEW p \in alive, ~Remembered(p), NEW d \in Calls, store[d] = p
    PROVE  Fresh(d)
BY DEF IInv, TypeOK, MemoryKeeps, CallsConsistent, Fresh, Remembered

\* The fallback keeps every part of the invariant that it touches, whatever
\* it does to the row.
LEMMA MemoryAddKeeps ==
    ASSUME IInv, NEW c \in Calls, Pending(c), MemoryAdd(c),
           UNCHANGED <<at, alive, now>>
    PROVE  /\ CallsConsistent'
           /\ MemoryKeeps'
           /\ OncePerStore'
           /\ \A d \in Calls : store'[d] = Db => store[d] = Db /\ acceptedAt'[d] = acceptedAt[d]
           /\ pc' \in [Calls -> {"idle", "inserting", "updating", "accepted", "refused", "lost"}]
           /\ store' \in [Calls -> Stores \cup {None}]
           /\ acceptedAt' \in [Calls -> Nat \cup {None}]
           /\ memory' \in [Procs -> Nat \cup {None}]
<1> DEFINE p == at[c]
<1>1. p \in alive /\ p \in Procs /\ p # Db
  BY DEF IInv, TypeOK, CallsConsistent
<1>2. CASE ~Remembered(p) /\ memory' = [memory EXCEPT ![p] = now + Ttl] /\ Accept(c, p)
  <2>1. OncePerStore'
    BY <1>1, <1>2, AcceptKeepsApart, MemoryDecides DEF Stores
  <2>2. CallsConsistent'
    BY <1>1, <1>2 DEF IInv, TypeOK, CallsConsistent, Accept, Pending
  <2>3. MemoryKeeps'
    <3> SUFFICES ASSUME NEW d \in Calls, NEW q \in alive', store'[d] = q, ~Fresh(d)'
                 PROVE  memory'[q] # None /\ memory'[q] >= acceptedAt'[d] + Ttl
      BY DEF MemoryKeeps
    <3>1. CASE d = c
      BY <1>1, <1>2, <3>1 DEF IInv, TypeOK, Accept, Fresh
    <3>2. CASE d # c
      <4>1. store[d] = q /\ acceptedAt'[d] = acceptedAt[d] /\ ~Fresh(d)
        BY <1>2, <3>2 DEF IInv, TypeOK, Accept, Fresh
      <4>2. q # p
        BY <1>1, <1>2, <4>1, MemoryDecides
      <4> QED
        BY <1>1, <1>2, <4>1, <4>2 DEF IInv, TypeOK, MemoryKeeps
    <3> QED BY <3>1, <3>2
  <2> QED
    BY <1>1, <1>2, <2>1, <2>2, <2>3 DEF IInv, TypeOK, Accept, Stores
<1>3. CASE Remembered(p) /\ memory' = memory /\ Refuse(c)
  BY <1>3 DEF IInv, TypeOK, CallsConsistent, MemoryKeeps, OncePerStore, Refuse,
              Fresh, Pending
<1> QED BY <1>2, <1>3 DEF MemoryAdd

-----------------------------------------------------------------------------
LEMMA NextIInv == IInv /\ [Next]_vars => IInv'
<1> SUFFICES ASSUME IInv, [Next]_vars PROVE IInv'
  OBVIOUS
<1>1. ASSUME NEW c \in Calls, NEW p \in Procs, Add(c, p) PROVE IInv'
  BY <1>1 DEF IInv, TypeOK, CallsConsistent, RowKeeps, MemoryKeeps, OncePerStore,
              Add, Pending, Fresh, rowVars
<1>2. ASSUME NEW c \in Calls, Insert(c) PROVE IInv'
  <2> USE <1>2 DEF Insert
  <2>1. OncePerStore'
    BY AcceptKeepsApart, RowDecides DEF WriteRow, Pending, Stores
  <2>2. TypeOK'
    BY DEF IInv, TypeOK, WriteRow, Accept, Stores
  <2>3. CallsConsistent'
    BY DEF IInv, TypeOK, CallsConsistent, Accept, Pending
  <2>4. RowKeeps'
    BY RowDecides DEF IInv, TypeOK, WriteRow, Accept, RowKeeps, Fresh
  <2>5. MemoryKeeps'
    BY DEF IInv, TypeOK, Accept, MemoryKeeps, Fresh
  <2> QED BY <2>1, <2>2, <2>3, <2>4, <2>5 DEF IInv
<1>3. ASSUME NEW c \in Calls, InsertUnacked(c) PROVE IInv'
  <2> USE <1>3 DEF InsertUnacked
  <2>1. Pending(c)
    BY DEF Pending
  <2>2. TypeOK'
    BY <2>1, MemoryAddKeeps DEF IInv, TypeOK, WriteRow
  <2>3. RowKeeps'
    BY <2>1, MemoryAddKeeps, RowDecides DEF IInv, TypeOK, WriteRow, RowKeeps, Fresh
  <2> QED BY <2>1, <2>2, <2>3, MemoryAddKeeps DEF IInv
<1>4. ASSUME NEW c \in Calls, Conflict(c) PROVE IInv'
  BY <1>4 DEF IInv, TypeOK, CallsConsistent, RowKeeps, MemoryKeeps, OncePerStore,
              Conflict, Pending, Fresh, rowVars
<1>5. ASSUME NEW c \in Calls, Update(c) PROVE IInv'
  <2>1. CASE Stale(at[c]) /\ expires' = now + Ttl /\ Accept(c, Db)
    <3> USE <1>5, <2>1 DEF Update
    <3>1. OncePerStore'
      BY AcceptKeepsApart, RowDecides DEF Stale, Pending, Stores
    <3>2. TypeOK'
      BY DEF IInv, TypeOK, Accept, Stores
    <3>3. CallsConsistent'
      BY DEF IInv, TypeOK, CallsConsistent, Accept, Pending
    <3>4. RowKeeps'
      BY RowDecides DEF IInv, TypeOK, Stale, Accept, RowKeeps, Fresh
    <3>5. MemoryKeeps'
      BY DEF IInv, TypeOK, Accept, MemoryKeeps, Fresh
    <3> QED BY <3>1, <3>2, <3>3, <3>4, <3>5 DEF IInv
  <2>2. CASE expires' = expires /\ Refuse(c)
    BY <1>5, <2>2 DEF IInv, TypeOK, CallsConsistent, RowKeeps, MemoryKeeps,
                      OncePerStore, Update, Refuse, Pending, Fresh
  <2> QED BY <1>5, <2>1, <2>2 DEF Update
<1>6. ASSUME NEW c \in Calls, Degrade(c) PROVE IInv'
  <2> USE <1>6 DEF Degrade
  <2>1. Pending(c)
    BY DEF Pending
  <2>2. TypeOK'
    BY <2>1, MemoryAddKeeps DEF IInv, TypeOK, rowVars
  <2>3. RowKeeps'
    BY <2>1, MemoryAddKeeps DEF IInv, TypeOK, rowVars, RowKeeps, Fresh
  <2> QED BY <2>1, <2>2, <2>3, MemoryAddKeeps DEF IInv
<1>7. ASSUME NEW p \in Procs, Cleanup(p) PROVE IInv'
  <2> USE <1>7 DEF Cleanup
  <2>1. TypeOK' /\ CallsConsistent' /\ OncePerStore'
    BY DEF IInv, TypeOK, CallsConsistent, OncePerStore, Pending, callVars, rowVars
  <2>2. RowKeeps'
    BY RowDecides DEF IInv, RowKeeps, Stale, Fresh, callVars, rowVars
  <2>3. MemoryKeeps'
    <3> SUFFICES ASSUME NEW d \in Calls, NEW q \in alive, store[d] = q, ~Fresh(d)
                 PROVE  memory'[q] # None /\ memory'[q] >= acceptedAt[d] + Ttl
      BY DEF MemoryKeeps, Fresh, callVars
    <3>1. memory[q] # None /\ memory[q] >= acceptedAt[d] + Ttl
      BY DEF IInv, MemoryKeeps
    <3>2. Remembered(q)
      BY MemoryDecides
    <3> QED BY <3>1, <3>2 DEF IInv, TypeOK
  <2> QED BY <2>1, <2>2, <2>3 DEF IInv
<1>8. ASSUME NEW p \in Procs, Crash(p) PROVE IInv'
  BY <1>8 DEF IInv, TypeOK, CallsConsistent, RowKeeps, MemoryKeeps, OncePerStore,
              Crash, Pending, Fresh, rowVars
<1>9. CASE Tick
  BY <1>9 DEF IInv, TypeOK, CallsConsistent, RowKeeps, MemoryKeeps, OncePerStore,
              Tick, Pending, Fresh, callVars, rowVars
<1>10. CASE UNCHANGED vars
  BY <1>10 DEF IInv, TypeOK, CallsConsistent, RowKeeps, MemoryKeeps, OncePerStore,
               Pending, Fresh, vars, callVars, rowVars
<1> QED
  BY <1>1, <1>2, <1>3, <1>4, <1>5, <1>6, <1>7, <1>8, <1>9, <1>10 DEF Next, Handle

LEMMA Invariance == Spec => []IInv
BY InitIInv, NextIInv, PTL DEF Spec

-----------------------------------------------------------------------------
\* The variables of the store keep their types.
THEOREM TypeCorrect == Spec => []TypeOK
BY Invariance, PTL DEF IInv

\* The table and each process's memory accept a nonce at most once per Ttl,
\* whatever fails.
THEOREM StoreAcceptsOnce == Spec => []OncePerStore
BY Invariance, PTL DEF IInv

-----------------------------------------------------------------------------
\* add() implements the replay guard of ReplayGuard.
THEOREM AddImplementsGuard == Spec => ImplementsGuard
<1>1. Init => Guard!Init
  BY DEF Init, Guard!Init
<1>2. ASSUME IInv, NEW c \in Calls, NEW s \in Stores, Pending(c), Accept(c, s),
             now' = now, \A d \in Calls : store[d] = s => Fresh(d)
      PROVE  Guard!Accept(c, s)
  BY <1>2 DEF IInv, CallsConsistent, Accept, Guard!Accept, Fresh
<1>3. ASSUME IInv, NEW c \in Calls, Pending(c), MemoryAdd(c), UNCHANGED <<alive, now>>
      PROVE  Guard!Next \/ UNCHANGED Guard!vars
  <2>1. at[c] \in alive /\ at[c] \in Stores
    BY <1>3 DEF IInv, TypeOK, CallsConsistent, Stores
  <2>2. CASE ~Remembered(at[c]) /\ Accept(c, at[c])
    BY <1>2, <1>3, <2>1, <2>2, MemoryDecides DEF Guard!Next
  <2>3. CASE Refuse(c)
    BY <1>3, <2>3 DEF Refuse, Guard!vars
  <2> QED BY <1>3, <2>2, <2>3 DEF MemoryAdd
<1>4. ASSUME IInv, [Next]_vars PROVE [Guard!Next]_(Guard!vars)
  <2> USE <1>4
  <2>1. ASSUME NEW c \in Calls, NEW p \in Procs, Add(c, p) PROVE UNCHANGED Guard!vars
    BY <2>1 DEF Add, Guard!vars
  <2>2. ASSUME NEW c \in Calls, Insert(c) PROVE Guard!Next
    <3>1. Guard!Accept(c, Db)
      BY <1>2, <2>2, RowDecides DEF Insert, WriteRow, Pending, Stores
    <3> QED BY <3>1 DEF Guard!Next, Stores
  <2>3. ASSUME NEW c \in Calls, InsertUnacked(c)
        PROVE  Guard!Next \/ UNCHANGED Guard!vars
    BY <1>3, <2>3 DEF InsertUnacked, Pending
  <2>4. ASSUME NEW c \in Calls, Conflict(c) PROVE UNCHANGED Guard!vars
    BY <2>4 DEF Conflict, Guard!vars
  <2>5. ASSUME NEW c \in Calls, Update(c) PROVE Guard!Next \/ UNCHANGED Guard!vars
    <3>1. CASE Stale(at[c]) /\ Accept(c, Db)
      <4>1. Guard!Accept(c, Db)
        BY <1>2, <2>5, <3>1, RowDecides DEF Update, Stale, Pending, Stores
      <4> QED BY <4>1 DEF Guard!Next, Stores
    <3>2. CASE Refuse(c)
      BY <2>5, <3>2 DEF Update, Refuse, Guard!vars
    <3> QED BY <2>5, <3>1, <3>2 DEF Update
  <2>6. ASSUME NEW c \in Calls, Degrade(c) PROVE Guard!Next \/ UNCHANGED Guard!vars
    BY <1>3, <2>6 DEF Degrade, Pending
  <2>7. ASSUME NEW p \in Procs, Cleanup(p) \/ Crash(p) PROVE UNCHANGED Guard!vars
    BY <2>7 DEF Cleanup, Crash, callVars, Guard!vars
  <2>8. CASE Tick
    BY <2>8 DEF Tick, callVars, Guard!Next, Guard!Tick
  <2>9. CASE UNCHANGED vars
    BY <2>9 DEF vars, callVars, Guard!vars
  <2> QED
    BY <2>1, <2>2, <2>3, <2>4, <2>5, <2>6, <2>7, <2>8, <2>9 DEF Next, Handle
<1> QED
  BY <1>1, <1>4, Invariance, PTL DEF Spec, Guard!Spec, ImplementsGuard

-----------------------------------------------------------------------------
\* While the database answers and every process may create and update the
\* table, no call falls back, so the one table decides for all replicas.
Healthy == ~DbFails /\ CanCreate = Procs /\ CanUpdate = Procs

TableDecides == \A c \in Calls : store[c] \in {Db, None}

\* A healthy fleet accepts a nonce once per Ttl, across replicas, roles,
\* crashes and cleanups: the promise of add().
THEOREM HealthyAcceptsOnce == Healthy => (Spec => []AtMostOncePerTtl)
<1> SUFFICES ASSUME Healthy PROVE Spec => []AtMostOncePerTtl
  OBVIOUS
<1>1. Init => TableDecides
  BY DEF Init, TableDecides
<1>2. ASSUME TypeOK, CallsConsistent, TableDecides, [Next]_vars PROVE TableDecides'
  <2> USE <1>2
  <2>1. ASSUME NEW c \in Calls, Handle(c) PROVE TableDecides'
    <3>1. at[c] \in Procs \/ ~Pending(c)
      BY DEF CallsConsistent, TypeOK
    <3>2. Insert(c) \/ Conflict(c) \/ Update(c)
      BY <2>1, <3>1 DEF Handle, InsertUnacked, Degrade, Healthy, Pending
    <3> QED
      BY <3>2 DEF TypeOK, TableDecides, Insert, Conflict, Update, Accept, Refuse
  <2>2. CASE UNCHANGED store
    BY <2>2 DEF TableDecides
  <2> QED
    BY <2>1, <2>2 DEF Next, Add, Cleanup, Crash, Tick, callVars, vars
<1>3. IInv => TypeOK /\ CallsConsistent
  BY DEF IInv
<1>4. IInv /\ TableDecides => AtMostOncePerTtl
  BY DEF IInv, TableDecides, OncePerStore, AtMostOncePerTtl
<1> QED
  BY <1>1, <1>2, <1>3, <1>4, Invariance, PTL DEF Spec

-----------------------------------------------------------------------------
(* The manifest cache.  Answers may overwrite one another in any order;     *)
(* what survives every order is that the version in the entry was still     *)
(* the truth when the call that stored it began, the time lastFetch has.    *)

\* Version v was the truth at time t or later.
TrueSince(v, t) == replacedAt[v] = None \/ t <= replacedAt[v]

RemoteConsistent ==
    \A v \in Versions : v >= truth => replacedAt[v] = None

FlightConsistent ==
    \A c \in Fetches :
        /\ stage[c] # "idle" => start[c] <= now /\ now <= start[c] + Timeout
        /\ stage[c] = "answered" => reply[c] \in Versions /\ TrueSince(reply[c], start[c])

EntryConsistent ==
    /\ hasEverFetched => manifest \in Versions /\ lastFetch <= now
    /\ manifest # None => hasEverFetched /\ TrueSince(manifest, lastFetch)
    /\ degraded => hasEverFetched

ManifestInv ==
    /\ ManifestTypeOK
    /\ RemoteConsistent
    /\ FlightConsistent
    /\ EntryConsistent
    /\ DegradedIsHonest

USE ManifestTimes, VersionAssumption

-----------------------------------------------------------------------------
LEMMA BoundValues ==
    /\ Bound("hit") = CacheTtl
    /\ Bound("fetched") = Timeout
    /\ Bound("stale") = StaleMax + Timeout
BY DEF Bound

LEMMA ManifestInitInv == ManifestInit => ManifestInv
<1> SUFFICES ASSUME ManifestInit PROVE ManifestInv
  OBVIOUS
<1>1. ManifestTypeOK
  <2>1. /\ truth \in Versions
        /\ replacedAt \in [Versions -> Nat \cup {None}]
        /\ manifest \in Versions \cup {None}
    BY DEF ManifestInit, Versions
  <2>2. returned \in [kind : Kinds, version : Versions \cup {None}]
    BY DEF ManifestInit, Nothing, Kinds
  <2> QED BY <2>1, <2>2 DEF ManifestInit, ManifestTypeOK
<1>2. RemoteConsistent /\ FlightConsistent
  BY DEF ManifestInit, RemoteConsistent, FlightConsistent
<1>3. EntryConsistent /\ DegradedIsHonest
  BY DEF ManifestInit, EntryConsistent, DegradedIsHonest
<1> QED BY <1>1, <1>2, <1>3 DEF ManifestInv

\* What a failing call does to the entry.
LEMMA FailKeeps ==
    ASSUME ManifestInv, NEW c \in Fetches, Fail(c)
    PROVE  /\ lastErrorAt' \in Nat /\ degraded' \in BOOLEAN
           /\ returned' \in [kind : Kinds, version : Versions \cup {None}]
           /\ EntryConsistent' /\ DegradedIsHonest'
<1>1. start[c] \in Nat /\ start[c] <= now
  BY DEF ManifestInv, ManifestTypeOK, FlightConsistent, Fail
<1>2. CASE hasEverFetched /\ ServeLastKnownGood(c)
  <2>1. manifest \in Versions
    BY <1>2 DEF ManifestInv, EntryConsistent
  <2>2. lastErrorAt' \in Nat /\ degraded' \in BOOLEAN
    BY <1>1, <1>2 DEF ManifestInv, ManifestTypeOK, ServeLastKnownGood
  <2>3. returned' \in [kind : Kinds, version : Versions \cup {None}]
    BY <1>2, <2>1 DEF ServeLastKnownGood, Return, Kinds
  <2>4. EntryConsistent'
    BY <1>2 DEF ManifestInv, EntryConsistent, Fail, TrueSince, remote
  <2>5. DegradedIsHonest'
    <3>1. CASE degraded' = degraded
      BY <3>1 DEF ManifestInv, DegradedIsHonest, Fail
    <3>2. CASE start[c] > lastFetch + StaleMax
      BY <1>1, <3>2 DEF ManifestInv, ManifestTypeOK, DegradedIsHonest, Fail
    <3> QED BY <1>2, <3>1, <3>2 DEF ServeLastKnownGood
  <2> QED BY <2>2, <2>3, <2>4, <2>5
<1>3. CASE ~hasEverFetched /\ FirstBootFallback
  BY <1>1, <1>3 DEF ManifestInv, ManifestTypeOK, EntryConsistent, DegradedIsHonest, Fail,
     FirstBootFallback, Return, Kinds, TrueSince, remote
<1> QED BY <1>2, <1>3 DEF Fail

LEMMA ManifestNextInv == ManifestInv /\ [ManifestNext]_manifestVars => ManifestInv'
<1> SUFFICES ASSUME ManifestInv, [ManifestNext]_manifestVars PROVE ManifestInv'
  OBVIOUS
<1>1. CASE Replace
  <2>1. \A v \in Versions, t \in Nat : TrueSince(v, t) /\ t <= now => TrueSince(v, t)'
    BY <1>1 DEF ManifestInv, ManifestTypeOK, Replace, TrueSince
  <2>2. ManifestTypeOK' /\ RemoteConsistent'
    BY <1>1 DEF ManifestInv, ManifestTypeOK, RemoteConsistent, Replace, Versions, entry, flight,
       Nothing, Kinds
  <2>3. FlightConsistent' /\ EntryConsistent' /\ DegradedIsHonest'
    BY <1>1, <2>1 DEF ManifestInv, ManifestTypeOK, FlightConsistent, EntryConsistent,
       DegradedIsHonest, Replace, entry, flight
  <2> QED BY <2>2, <2>3 DEF ManifestInv
<1>2. ASSUME NEW c \in Fetches, Hit(c) \/ HoldOff(c) PROVE ManifestInv'
  BY <1>2 DEF ManifestInv, ManifestTypeOK, RemoteConsistent, FlightConsistent, EntryConsistent,
     DegradedIsHonest, TrueSince, Hit, HoldOff, Return, IsFresh, Kinds,
     remote, entry, flight
<1>3. ASSUME NEW c \in Fetches, Request(c) PROVE ManifestInv'
  BY <1>3 DEF ManifestInv, ManifestTypeOK, RemoteConsistent, FlightConsistent, EntryConsistent,
     DegradedIsHonest, TrueSince, Request, Nothing, Kinds, remote, entry
<1>4. ASSUME NEW c \in Fetches, Answer(c) PROVE ManifestInv'
  BY <1>4 DEF ManifestInv, ManifestTypeOK, RemoteConsistent, FlightConsistent, EntryConsistent,
     DegradedIsHonest, TrueSince, Answer, Nothing, Kinds, Versions, remote, entry
<1>5. ASSUME NEW c \in Fetches, Succeed(c) PROVE ManifestInv'
  BY <1>5 DEF ManifestInv, ManifestTypeOK, RemoteConsistent, FlightConsistent, EntryConsistent,
     DegradedIsHonest, TrueSince, Succeed, Store, Leave, Return, Kinds, remote
<1>6. ASSUME NEW c \in Fetches, Fail(c) PROVE ManifestInv'
  <2>1. ManifestTypeOK'
    BY <1>6, FailKeeps DEF ManifestInv, ManifestTypeOK, Fail, Leave, remote
  <2>2. RemoteConsistent' /\ FlightConsistent'
    BY <1>6 DEF ManifestInv, ManifestTypeOK, RemoteConsistent, FlightConsistent, TrueSince, Fail,
       Leave, remote
  <2> QED BY <1>6, <2>1, <2>2, FailKeeps DEF ManifestInv
<1>7. CASE ManifestTick
  BY <1>7 DEF ManifestInv, ManifestTypeOK, RemoteConsistent, FlightConsistent, EntryConsistent,
     DegradedIsHonest, TrueSince, ManifestTick, Nothing, Kinds, remote, entry, flight
<1>8. CASE UNCHANGED manifestVars
  BY <1>8 DEF ManifestInv, ManifestTypeOK, RemoteConsistent, FlightConsistent, EntryConsistent,
     DegradedIsHonest, TrueSince, manifestVars, remote, entry, flight
<1> QED
  BY <1>1, <1>2, <1>3, <1>4, <1>5, <1>6, <1>7, <1>8 DEF ManifestNext, FetchManifest

LEMMA ManifestInvariance == ManifestSpec => []ManifestInv
BY ManifestInitInv, ManifestNextInv, PTL DEF ManifestSpec

-----------------------------------------------------------------------------
\* The variables of the cache keep their types.
THEOREM ManifestTypes == ManifestSpec => []ManifestTypeOK
BY ManifestInvariance, PTL DEF ManifestInv

\* The degraded flag is never up while the last success is young.
THEOREM HealthIsHonest == ManifestSpec => []DegradedIsHonest
BY ManifestInvariance, PTL DEF ManifestInv

-----------------------------------------------------------------------------
\* Every result is as recent as its kind demands, whatever the order in
\* which answers arrive.
THEOREM StalenessIsBounded == ManifestSpec => []BoundedStaleness
<1>1. ManifestInit => BoundedStaleness
  BY DEF ManifestInit, BoundedStaleness, Nothing
<1>2. ASSUME ManifestInv, BoundedStaleness, [ManifestNext]_manifestVars PROVE BoundedStaleness'
  <2> USE <1>2
  <2>1. ASSUME NEW c \in Fetches, Hit(c) PROVE BoundedStaleness'
    BY <2>1, BoundValues DEF ManifestInv, ManifestTypeOK, EntryConsistent, TrueSince, Hit, IsFresh,
       Return, BoundedStaleness, remote
  <2>2. ASSUME NEW c \in Fetches, Succeed(c) PROVE BoundedStaleness'
    BY <2>2, BoundValues DEF ManifestInv, ManifestTypeOK, FlightConsistent, TrueSince, Succeed, Store,
       Return, BoundedStaleness, remote
  <2>3. ASSUME NEW c \in Fetches, Fail(c) PROVE BoundedStaleness'
    <3>1. CASE returned'.kind = "stale"
      <4>1. /\ returned'.version = manifest /\ manifest \in Versions
            /\ start[c] <= lastFetch + StaleMax /\ TrueSince(manifest, lastFetch)
        <5>1. hasEverFetched /\ ServeLastKnownGood(c)
          BY <2>3, <3>1 DEF Fail, FirstBootFallback, Return
        <5>2. manifest \in Versions /\ manifest # None /\ TrueSince(manifest, lastFetch)
          BY <5>1 DEF ManifestInv, EntryConsistent, Versions
        <5> QED BY <3>1, <5>1, <5>2 DEF ServeLastKnownGood, Return
      <4>2. now <= start[c] + Timeout /\ start[c] \in Nat /\ now' = now
        BY <2>3 DEF ManifestInv, ManifestTypeOK, FlightConsistent, Fail
      <4> QED
        BY <2>3, <3>1, <4>1, <4>2, BoundValues DEF ManifestInv, ManifestTypeOK, TrueSince, Fail,
           BoundedStaleness, remote
    <3>2. CASE returned'.kind # "stale"
      BY <2>3, <3>2 DEF Fail, ServeLastKnownGood, FirstBootFallback, Return,
         BoundedStaleness
    <3> QED BY <3>1, <3>2
  <2>4. CASE returned'.kind \in {"none", "empty"}
    BY <2>4 DEF BoundedStaleness
  <2>5. CASE UNCHANGED manifestVars
    BY <2>5 DEF BoundedStaleness, manifestVars, remote
  <2> QED
    BY <2>1, <2>2, <2>3, <2>4, <2>5 DEF ManifestNext, FetchManifest, HoldOff, Request, Answer,
       Replace, ManifestTick, Return, Nothing
<1> QED BY <1>1, <1>2, ManifestInvariance, PTL DEF ManifestSpec

-----------------------------------------------------------------------------
\* The environment is served before the first success only.
THEOREM EnvIsFirstBoot == ManifestSpec => []EnvOnlyAtFirstBoot
<1>1. ManifestInit => EnvOnlyAtFirstBoot
  BY DEF ManifestInit, EnvOnlyAtFirstBoot, Nothing
<1>2. ASSUME EnvOnlyAtFirstBoot, [ManifestNext]_manifestVars PROVE EnvOnlyAtFirstBoot'
  BY <1>2 DEF EnvOnlyAtFirstBoot, ManifestNext, FetchManifest, Hit, HoldOff, Request, Answer,
     Succeed, Store, Fail, Replace, ManifestTick, Return, Nothing, ServeLastKnownGood,
     FirstBootFallback, manifestVars, entry
<1> QED BY <1>1, <1>2, PTL DEF ManifestSpec

\* A degraded workspace gets nothing, provided StaleMax is not configured
\* below the time a cached manifest counts as fresh.
THEOREM DegradedIsEmpty == CacheTtl <= StaleMax + 1 => (ManifestSpec => []DegradedServesNothing)
<1> SUFFICES ASSUME CacheTtl <= StaleMax + 1 PROVE ManifestSpec => []DegradedServesNothing
  OBVIOUS
<1>1. ManifestInit => DegradedServesNothing
  BY DEF ManifestInit, DegradedServesNothing, Nothing
<1>2. ASSUME ManifestInv, DegradedServesNothing, [ManifestNext]_manifestVars PROVE DegradedServesNothing'
  <2> USE <1>2 DEF DegradedServesNothing, Return, Nothing
  <2>1. ASSUME NEW c \in Fetches, Hit(c) PROVE DegradedServesNothing'
    BY <2>1 DEF ManifestInv, ManifestTypeOK, DegradedIsHonest, Hit, IsFresh, entry
  <2>2. ASSUME NEW c \in Fetches, HoldOff(c) \/ Request(c) \/ Answer(c) \/ Succeed(c)
        PROVE  DegradedServesNothing'
    BY <2>2 DEF HoldOff, Request, Answer, Succeed, Store
  <2>3. ASSUME NEW c \in Fetches, Fail(c) PROVE DegradedServesNothing'
    <3>1. CASE hasEverFetched /\ ServeLastKnownGood(c)
      <4>1. CASE degraded' = degraded /\ ~degraded
        BY <4>1
      <4>2. CASE returned'.kind = "empty"
        BY <4>2
      <4>3. \/ degraded' = degraded /\ ~degraded
            \/ returned' = [kind |-> "empty", version |-> None]
        BY <3>1, Zenon DEF ServeLastKnownGood
      <4>4. returned' = [kind |-> "empty", version |-> None] => returned'.kind = "empty"
        OBVIOUS
      <4> QED BY <4>1, <4>2, <4>3, <4>4
    <3>2. CASE ~hasEverFetched /\ UNCHANGED degraded
      BY <3>2 DEF ManifestInv, EntryConsistent
    <3> QED BY <2>3, <3>1, <3>2 DEF Fail, FirstBootFallback
  <2>4. CASE Replace \/ ManifestTick
    BY <2>4 DEF Replace, ManifestTick
  <2>5. CASE UNCHANGED manifestVars
    BY <2>5 DEF manifestVars, entry
  <2> QED BY <2>1, <2>2, <2>3, <2>4, <2>5 DEF ManifestNext, FetchManifest
<1> QED BY <1>1, <1>2, ManifestInvariance, PTL DEF ManifestSpec
=============================================================================
