------------------------------ MODULE NonceStore ------------------------------
(***************************************************************************)
(* Replay prevention, server/protocols/nonceStore.ts: the row of one nonce *)
(* in the table intent_nonces, shared by every process of the database,    *)
(* and the in-memory map each process falls back to.  Nonces do not        *)
(* interact, so one is enough; a call is one presentation of it.           *)
(*                                                                         *)
(* Each query of add() is one action, atomic in the database; other calls  *)
(* run between the INSERT and the UPDATE.  A process that restarts is a    *)
(* new member of Procs.  tableReady is left out: it only keeps a process   *)
(* that never added anything from deleting expired rows.  The clocks of    *)
(* the processes and of the database are one clock.                        *)
(*                                                                         *)
(* What a process may do to the table depends on its database role:        *)
(*   CanCreate  CREATE TABLE IF NOT EXISTS of ensureTable succeeds;        *)
(*   CanUpdate  it may UPDATE (the owner; the GRANT at line 77 gives       *)
(*              others only SELECT, INSERT and DELETE);                    *)
(*   RoleOf     the row policies show a role its own rows only, while the  *)
(*              primary key is checked against all rows.                   *)
(***************************************************************************)
EXTENDS Naturals, Clock

CONSTANTS
    Procs,      \* processes; a restarted one is another
    Calls,      \* presentations of the nonce
    Roles,      \* database roles
    RoleOf,     \* the role each process connects as
    CanCreate,
    CanUpdate,
    DbFails,    \* may a query fail for other reasons?
    Db,         \* the table, as a store; a process names its own map
    Ttl

ASSUME StoresAssumption == Db \notin Procs /\ None \notin Procs \cup {Db}
ASSUME RolesAssumption == RoleOf \in [Procs -> Roles] /\ None \notin Roles
ASSUME PrivilegeAssumption ==
    CanCreate \subseteq Procs /\ CanUpdate \subseteq Procs /\ DbFails \in BOOLEAN
ASSUME TimeAssumption == Ttl \in Nat /\ MaxTime \in Nat /\ None \notin Nat

VARIABLES
    pc,          \* where each call of add() is
    at,          \* the process that handles it
    store,       \* the store that accepted it, or None
    acceptedAt,  \* and when
    expires,     \* expires_at of the row, or None when there is no row
    rowRole,     \* the role that inserted the row
    memory,      \* MemoryNonceStore.seen of each process: expiry or None
    alive        \* processes that run

callVars == <<pc, at, store, acceptedAt>>
rowVars == <<expires, rowRole>>
vars == <<callVars, rowVars, memory, alive, now>>

Stores == Procs \cup {Db}

TypeOK ==
    /\ pc \in [Calls -> {"idle", "inserting", "updating", "accepted", "refused", "lost"}]
    /\ at \in [Calls -> Procs \cup {None}]
    /\ store \in [Calls -> Stores \cup {None}]
    /\ acceptedAt \in [Calls -> Nat \cup {None}]
    /\ expires \in Nat \cup {None}
    /\ rowRole \in Roles \cup {None}
    /\ memory \in [Procs -> Nat \cup {None}]
    /\ alive \subseteq Procs
    /\ now \in Nat

Init ==
    /\ pc = [c \in Calls |-> "idle"]
    /\ at = [c \in Calls |-> None]
    /\ store = [c \in Calls |-> None]
    /\ acceptedAt = [c \in Calls |-> None]
    /\ expires = None
    /\ rowRole = None
    /\ memory = [p \in Procs |-> None]
    /\ alive = Procs
    /\ now = 0

-----------------------------------------------------------------------------
Accept(c, s) ==
    /\ pc' = [pc EXCEPT ![c] = "accepted"]
    /\ store' = [store EXCEPT ![c] = s]
    /\ acceptedAt' = [acceptedAt EXCEPT ![c] = now]

Refuse(c) ==
    /\ pc' = [pc EXCEPT ![c] = "refused"]
    /\ UNCHANGED <<store, acceptedAt>>

\* MemoryNonceStore.add, in the process that handles c.
RememberedTooShort(p) == memory[p] # None /\ now < memory[p]  \* mutant
Remembered(p) == memory[p] # None /\ now <= memory[p]
MemoryAdd(c) ==
    \/ /\ ~Remembered(at[c])
       /\ memory' = [memory EXCEPT ![at[c]] = now + Ttl]
       /\ Accept(c, at[c])
    \/ /\ Remembered(at[c])
       /\ memory' = memory
       /\ Refuse(c)

WriteRow(p) ==
    /\ expires = None
    /\ expires' = now + Ttl
    /\ rowRole' = RoleOf[p]

\* Mutant: WHERE nonce = $1 alone.
StaleAtAnyAge(p) == expires # None /\ rowRole = RoleOf[p]

\* The row has expired and the row policies let p see it.
Stale(p) == expires # None /\ expires < now /\ rowRole = RoleOf[p]

-----------------------------------------------------------------------------
Add(c, p) ==
    /\ pc[c] = "idle"
    /\ p \in alive
    /\ pc' = [pc EXCEPT ![c] = "inserting"]
    /\ at' = [at EXCEPT ![c] = p]
    /\ UNCHANGED <<store, acceptedAt, rowVars, memory, alive, now>>

Insert(c) ==
    /\ pc[c] = "inserting"
    /\ at[c] \in CanCreate
    /\ WriteRow(at[c])
    /\ Accept(c, Db)
    /\ UNCHANGED <<at, memory, alive, now>>

\* The row is written, the answer is lost, and the catch block takes over.
InsertUnacked(c) ==
    /\ pc[c] = "inserting"
    /\ at[c] \in CanCreate
    /\ DbFails
    /\ WriteRow(at[c])
    /\ MemoryAdd(c)
    /\ UNCHANGED <<at, alive, now>>

\* ON CONFLICT DO NOTHING: rowCount is 0.
Conflict(c) ==
    /\ pc[c] = "inserting"
    /\ at[c] \in CanCreate
    /\ expires # None
    /\ pc' = [pc EXCEPT ![c] = "updating"]
    /\ UNCHANGED <<at, store, acceptedAt, rowVars, memory, alive, now>>

Update(c) ==
    /\ pc[c] = "updating"
    /\ at[c] \in CanUpdate
    /\ \/ /\ Stale(at[c])
          /\ expires' = now + Ttl
          /\ Accept(c, Db)
       \/ /\ ~Stale(at[c])
          /\ expires' = expires
          /\ Refuse(c)
    /\ UNCHANGED <<at, rowRole, memory, alive, now>>

\* A query throws: the process falls back to its memory.
Degrade(c) ==
    /\ \/ pc[c] = "inserting" /\ at[c] \notin CanCreate
       \/ pc[c] = "updating" /\ at[c] \notin CanUpdate
       \/ pc[c] \in {"inserting", "updating"} /\ DbFails
    /\ MemoryAdd(c)
    /\ UNCHANGED <<at, rowVars, alive, now>>

\* The interval of process p.  The DELETE runs a moment later, and may fail;
\* either is this action at another time, for an expired entry of the map is
\* the same to MemoryAdd as none.
Cleanup(p) ==
    /\ p \in alive
    /\ memory' = [memory EXCEPT ![p] = IF Remembered(p) THEN @ ELSE None]
    /\ IF Stale(p) /\ p \in CanCreate
       THEN expires' = None /\ rowRole' = None
       ELSE UNCHANGED rowVars
    /\ UNCHANGED <<callVars, alive, now>>

Crash(p) ==
    /\ p \in alive
    /\ alive' = alive \ {p}
    /\ pc' = [c \in Calls |-> IF at[c] = p /\ pc[c] \in {"inserting", "updating"}
                                THEN "lost" ELSE pc[c]]
    /\ memory' = [memory EXCEPT ![p] = None]
    /\ UNCHANGED <<at, store, acceptedAt, rowVars, now>>

Tick ==
    /\ now < MaxTime
    /\ now' = now + 1
    /\ UNCHANGED <<callVars, rowVars, memory, alive>>

-----------------------------------------------------------------------------
Handle(c) ==
    Insert(c) \/ InsertUnacked(c) \/ Conflict(c) \/ Update(c) \/ Degrade(c)

Next ==
    \/ \E c \in Calls, p \in Procs : Add(c, p)
    \/ \E c \in Calls : Handle(c)
    \/ \E p \in Procs : Cleanup(p) \/ Crash(p)
    \/ Tick

Spec == Init /\ [][Next]_vars

-----------------------------------------------------------------------------
\* Whatever queries fail, processes crash and roles lack privileges: the
\* table, and the memory of each process, accept the nonce at most once per
\* Ttl, replays that run between another call's INSERT and its UPDATE, or
\* beside a cleanup, included.
OncePerStore ==
    \A c, d \in Calls :
        c # d /\ store[c] # None /\ store[c] = store[d] =>
            \/ acceptedAt[c] > acceptedAt[d] + Ttl
            \/ acceptedAt[d] > acceptedAt[c] + Ttl

\* The promise of add() (nonceStore.ts:103-105): of all presentations of a
\* nonce, to any replica and across restarts, one is accepted per Ttl.
AtMostOncePerTtl ==
    \A c, d \in Calls :
        c # d /\ store[c] # None /\ store[d] # None =>
            \/ acceptedAt[c] > acceptedAt[d] + Ttl
            \/ acceptedAt[d] > acceptedAt[c] + Ttl

\* add() implements the guard: it accepts only when the store that decides
\* has not accepted the nonce within Ttl.
Guard == INSTANCE ReplayGuard
ImplementsGuard == Guard!Spec
=============================================================================
