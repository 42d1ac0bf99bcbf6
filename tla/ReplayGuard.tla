----------------------------- MODULE ReplayGuard -----------------------------
(***************************************************************************)
(* What the nonce store promises of one nonce, stated without a database:  *)
(* each place that remembers nonces accepts the nonce again only when more *)
(* than Ttl has passed since it accepted it last.                          *)
(***************************************************************************)
EXTENDS Naturals

CONSTANTS
    Calls,    \* presentations of the nonce
    Stores,   \* the places that remember it
    None,
    Ttl,
    MaxTime

VARIABLES
    store,       \* store[c]: the place that accepted c, or None
    acceptedAt,  \* acceptedAt[c]: when, or None
    now

vars == <<store, acceptedAt, now>>

Init ==
    /\ store = [c \in Calls |-> None]
    /\ acceptedAt = [c \in Calls |-> None]
    /\ now = 0

Accept(c, s) ==
    /\ store[c] = None
    /\ \A d \in Calls : store[d] = s => now > acceptedAt[d] + Ttl
    /\ store' = [store EXCEPT ![c] = s]
    /\ acceptedAt' = [acceptedAt EXCEPT ![c] = now]
    /\ now' = now

Tick ==
    /\ now < MaxTime
    /\ now' = now + 1
    /\ UNCHANGED <<store, acceptedAt>>

Next == Tick \/ \E c \in Calls, s \in Stores : Accept(c, s)

Spec == Init /\ [][Next]_vars
=============================================================================
