------------------------------- MODULE MCBridge -------------------------------
(***************************************************************************)
(* One call, or one relay that is posted twice: a delegation or a message. *)
(***************************************************************************)
EXTENDS Bridge, TLC

CONSTANTS c1, r1, r2

RelayAction == r1 :> "delegate" @@ r2 :> "message"

\* The two ways share the contract, the pod and its clock alone, and are
\* explored one at a time; a relay does not look at party keys and the
\* source's manifest, and a message passes the gate like a delegation, which
\* is where contracts change.  Whichever it is begins at once, for only differences
\* of times matter; a call has ended one unit before a relay's nonce.
Apart ==
    \/ \A r \in Relays : stamp[r] = 0
    \/ /\ stamp[r2] # 0 => stamp[r1] = 0 /\ minted = 1 /\ seen["target"] = 1 /\ sigV = 2
       /\ \A c \in Calls : spc[c] = "idle"
       /\ masters = Sides /\ pod # "booting" /\ seen["source"] = 1 /\ \A w \in Sides : held[w] = 1
AtOnce ==
    /\ now > 1 => (\E c \in Calls : spc[c] # "idle") \/ (\E r \in Relays : stamp[r] # 0)
    /\ (\E c \in Calls : spc[c] = "done") => now < MaxTime

\* A call that was sent does not look at its source's manifest and keys again.
Settled ==
    \A c \in Calls : tries[c] > 0 =>
        /\ seen["source"] = key[c].version
        /\ key[c].kind = "party" <=> held["source"] = key[c].version
=============================================================================
