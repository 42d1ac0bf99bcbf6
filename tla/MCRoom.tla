------------------------------- MODULE MCRoom -------------------------------
(***************************************************************************)
(* Two pods whose Deployments differ, a React and a classic dialog, three  *)
(* tabs.  What has nothing in common is explored apart: the pods and the   *)
(* row, presence, the messages of one room.                                *)
(***************************************************************************)
EXTENDS Room, TLC

CONSTANTS p1, p2, f1, f2, t1, t2, t3, u1, u2, w1, w2, h1, h2, g1

EnvOf ==
    p1 :> [prompt |-> "old", ai |-> [provider |-> "a", model |-> None], allowed |-> {"a"}]
    @@ p2 :> [prompt |-> "new", ai |-> [provider |-> None, model |-> None], allowed |-> None]

DefaultAi == [provider |-> "v", model |-> "m"]
Browser == t1 :> "b1" @@ t2 :> "b2" @@ t3 :> "b2"
Rooms == t3 :> w1

\* Nobody has opened a tab.
Outside == sock = [s \in Sockets |-> Gone] /\ \A t \in Tabs : page[t] = Blank

Untouched == row # None => row.tools = None /\ row.sources = {}

\* At most one of the tabs of a dialog is used.
Saving ==
    /\ pod[p2] = Idle /\ pod[p1].attempt = 0 /\ pod[p1].stopping = "no" /\ ~pooled
    /\ row # None /\ row.status = "active" /\ row.ai.model = "m"
    /\ form[f1] = Closed \/ form[f2] = Closed
    /\ \E tab \in {"agent", "tools", "sources"} : \A f \in Forms :
        /\ tab # "agent" \/ form[f2] # Closed => pod[p1].pc \in {"down", "ready"}
        /\ tab # "agent" => form[f].prompt = row.prompt /\ form[f].ai.provider # "b"
        /\ tab # "tools" => form[f].tools = Catalog /\ row.tools = None
        /\ tab # "sources" => form[f].sources = {} /\ row.sources = {}

\* Two pods come and go while prompts are pushed; or one does while a dialog
\* saves, too.
Rolling ==
    /\ Outside /\ accounts = {}
    /\ \A h \in Posts : post[h] = NoPost
    /\ pod[p2].attempt = 0
    /\ pod[p2].stopping = "no"
    /\ pod[p1].attempt = 1 => pod[p2] = Idle
    /\ (form = [f \in Forms |-> Closed] /\ Untouched /\ owed # "old") \/ Saving

\* One pod serves; the row is as the boot left it.
Serving ==
    /\ pod[p2] = Idle /\ pod[p1] \in {Idle, [Idle EXCEPT !.pc = "ready"]}
    /\ \A f \in Forms : form[f] = Closed
    /\ owed = Empty /\ ~raced
    /\ row = [NewRow EXCEPT !.prompt = IF pooled THEN Empty ELSE "old", !.ai.provider = IF pooled THEN @ ELSE "a",
                            !.allowed = IF pooled THEN None ELSE {"a"}]

At_(u, w) == [user |-> u, ws |-> w]

SigningIn ==
    /\ Outside /\ \A h \in Posts : post[h] = NoPost
    /\ session["b1"] \in {None, At_(u1, w1)}
    /\ session["b2"] \in {None, At_(u1, w1), At_(u2, w1), At_(u1, w2)}
    /\ session["b2"] # None => session["b1"] # None

\* A user in two tabs or two workspaces, or two users, one of whom connects
\* twice and may sign out; a guest or service.
Presence ==
    /\ \A h \in Posts : post[h] = NoPost
    /\ \A t \in Tabs : page[t].history = "none"
    /\ session["b1"] \in {None, At_(u1, w1)}
    /\ session["b2"] \in {At_(u1, w1), At_(u2, w1), At_(u1, w2)}
    /\ accounts = {session["b2"].user, u1}
    /\ sock[t2, 2] = Gone /\ sock[t3, 2] = Gone
    /\ pooled <=> session["b2"] = At_(u1, w2)
    /\ page[t3] = Blank \/ (session["b2"] = At_(u1, w1) /\ page[t2] = Blank)
    /\ sock[t3, 1] # Gone => sock[t2, 1] = Gone /\ sock[t1, 2] = Gone
    /\ page[t2] # Blank => sock[t1, 1] # Gone
    /\ sock[t1, 2] # Gone => page[t2] = Blank /\ session["b2"] = At_(u1, w1)
    /\ session["b1"] = None => sock[t1, 2] = Gone /\ page[t2] = Blank /\ session["b2"] # At_(u2, w1)
    /\ (\E s \in Sockets : sock[s].reg = "failed") => page[t2] = Blank
    /\ \A t \in Tabs : Len(inbox[t]) <= 2
    /\ Len(inbox[t1]) + Len(inbox[t2]) <= 3
    /\ \A p \in Pods : \A x \in presence[p] :
        /\ x.cursor \in {None, h1} /\ x.activity \in {"idle", "composing"}
        /\ x.cursor = h1 => x.user = u1 /\ sock[t1, 2] = Gone /\ x.activity = "idle"
        /\ x.activity = "composing" => x.user = u1 /\ sock[t1, 2] = Gone

\* One room, one tab of either client, messages and an answer.
Talk ==
    /\ session = [b \in Browsers |-> At_(u1, w1)]
    /\ accounts = {u1}
    /\ \A t \in Tabs : sock[t, 1].pc \in {"none", "on"} /\ (live[t] = 0 => sock[t, 1] = Gone) /\ sock[t, 2] = Gone
    /\ \A s \in Sockets : sock[s].reg \in {"none", "asking"}
    /\ page[t3] = Blank /\ ~pooled
    /\ page[t1] = Blank \/ page[t2] = Blank
    /\ Len(inbox[t1]) + Len(inbox[t2]) <= 3
    /\ post[h2].pc # "none" => post[h1].pc # "none" /\ gen[g1].pc = "none"
    /\ post[h2].from = None
    /\ post[h1].pc = "failed" => gen[g1].pc = "none" /\ post[h2].pc = "none"
    /\ post[h1].pc # "none" => \A t \in Tabs : page[t].history # "failed"
    /\ post[h2].pc # "none" => page[t2] = Blank

Few == Rolling \/ (Serving /\ (SigningIn \/ Presence \/ Talk))
=============================================================================
