-------------------------- MODULE MCIntentTransport --------------------------
(***************************************************************************)
(* Small instances of what stands between a contract and an execution: the *)
(* store of nonces, the cache of manifests and the exchange of a token.    *)
(* They share nothing but the clock, so that a behaviour of the three is   *)
(* one behaviour of each: part says which of them moves, from the start to *)
(* the end, and the other two rest.  Fetches are interchangeable.          *)
(***************************************************************************)
EXTENDS NonceStore, ManifestCache, IntentExchange, TLC

CONSTANTS owner, other

\* One process of the owner, the others of another workspace.
TwoRoles == LET first == CHOOSE p \in Procs : TRUE
            IN  [p \in Procs |-> IF p = first THEN owner ELSE other]

VARIABLE part

nonceVars == <<callVars, rowVars, memory, alive>>
cacheVars == <<remote, entry, stage, flight, returned>>
tokenVars == <<senderVars, netVars, up, contract, taskVars>>

\* How long each part is watched.
Horizon == [nonce |-> 4, manifest |-> 7, exchange |-> 9]

TransportInit ==
    /\ Init /\ ManifestInit /\ ExchangeInit
    /\ part \in DOMAIN Horizon
    /\ part # "exchange" => up

TransportNext ==
    /\ \/ part = "nonce" /\ Next /\ UNCHANGED <<cacheVars, tokenVars>>
       \/ part = "manifest" /\ ManifestNext /\ UNCHANGED <<nonceVars, tokenVars>>
       \/ part = "exchange" /\ ExchangeNext /\ UNCHANGED <<nonceVars, cacheVars>>
    /\ now' <= Horizon[part]
    /\ UNCHANGED part

TransportSpec == TransportInit /\ [][TransportNext]_<<nonceVars, cacheVars, tokenVars, now, part>>

Symmetry == Permutations(Fetches)
=============================================================================
