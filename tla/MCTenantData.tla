---------------------------- MODULE MCTenantData ----------------------------
(***************************************************************************)
(* Two workspaces behind a pooled service, or one of them in its own pod.  *)
(***************************************************************************)
EXTENDS TenantData, TLC

CONSTANTS w1, w2, r1, r2, r3, a1, a2, v1, p1

Pools == [c \in Conns |-> CASE c \in {a1, a2} -> "adapter" [] c = v1 -> "verifier" [] c = p1 -> "plugin"]

AnyButThird == [r \in Requests |-> IF r = r3 THEN {"intent"} ELSE DOMAIN Scripts]

Symmetry == Permutations({r1, r2}) \cup Permutations({a1, a2})

\* The statements do not look at the credential, nor the cache at the rows:
\* the two are explored apart.  While the clock, a secret or the cache
\* has moved, no request has a connection and none is a browser's; and
\* a workspace's credential does not depend on another workspace's.
Apart ==
    \/ /\ now = 1 /\ w2 \in listed /\ secret = [w \in Workspaces |-> 1]
       /\ \A w \in Workspaces : cache[w] = None /\ lastSeen[w][1] = 0
       /\ \A r \in Requests : got[r] = None
       /\ pc[r3] = "none"
    \/ /\ \A r \in Requests : kind[r] \in {None, "intent"} /\ answer[r] \in {"none", "refused"}
       /\ \A c \in Conns : conn[c] = Idle
       /\ pc[r3] # "none" => pc[r1] \notin {"none", "resolve"} /\ pc[r2] \notin {"none", "resolve"}
       /\ spent = {}
       /\ Row("keys", w2) \notin rows
       /\ \A r \in Requests : ws[r] # w2
       /\ now > 1 => \E r \in Requests : pc[r] \notin {"none", "resolve"}
       /\ secret[w2] = 1 /\ lastSeen[w2][1] = 0 /\ listed = Workspaces
=============================================================================
