-------------------------------- MODULE Room --------------------------------
(***************************************************************************)
(* What members of a workspace see: sign-in, browser tabs and their        *)
(* sockets, presence, the history of messages and the live events          *)
(* (sockets/index.js, sockets/workspaceHandler.js, sockets/chat/index.ts,  *)
(* the React client's useSocket.tsx and the classic client's public/js).   *)
(*                                                                         *)
(* Presence lives in the memory of a pod, and so do broadcasts unless the  *)
(* pods share a Redis.  A tab loads the history over HTTP while its socket *)
(* connects; the server notices late that a tab is gone; pods start, stop  *)
(* and crash (Boot).                                                       *)
(*                                                                         *)
(* A message is its id: of a post, or <<generation, role>>.  The text of   *)
(* an answer is whether it is empty.  What a page shows is a set: where on *)
(* the page a row is, and whether it is there twice, is left out.          *)
(***************************************************************************)
EXTENDS Boot, Sequences, SequencesExt

CONSTANTS
    Users,
    Workspaces,
    Home,        \* the workspace of a dedicated pod
    Tabs,
    BrowserOf,   \* BrowserOf[t]: the browser whose cookie t uses
    ClassicTabs,
    Listeners,   \* tabs that are services with an HMAC handshake, or guests
    RoomOf,      \* RoomOf[t]: the workspace a listener names
    Posts,       \* messages that are posted
    Gens,        \* AI answers that are generated
    Limit,       \* messages of a page of history
    Connections, \* bound on the connections of a tab
    Adapter      \* the deployment sets REDIS_URL

ASSUME RoomAssumption == Home \in Workspaces /\ \A t \in Listeners : RoomOf[t] \in Workspaces
ASSUME MessageAssumption == Posts \cap (Gens \X {"tool", "answer"}) = {}
ASSUME PodAssumption == None \notin Pods
ASSUME AdapterAssumption == Adapter \in BOOLEAN
ASSUME BoundAssumption == {Limit, Connections} \subseteq Nat \ {0}

VARIABLES
    accounts,   \* the users table
    session,    \* session[b]: who is signed in at b, and where
    stored,     \* stored[w]: the messages of w, oldest first
    sock,       \* sock[<<t, n>>]: the n-th socket of t, at the server
    live,       \* live[t]: the socket t holds, or 0
    presence,   \* presence[p]: the entries in the memory of p
    inbox,      \* inbox[t]: the events on their way to t
    page,       \* page[t]: what t shows
    post,       \* post[h]: the handler of a posted message
    gen,        \* gen[g]: the stream of an answer
    met,        \* history: met[p]: the sockets p has had since it started
    base        \* history: base[t]: what was stored when t, listening already,
                \*          read the history; None when that is no longer so

authVars == <<accounts, session>>
tabVars == <<live, page, base>>
workVars == <<post, gen>>
roomVars == <<authVars, stored, sock, presence, inbox, tabVars, workVars, met>>
vars == <<bootVars, roomVars>>

Sockets == Tabs \X (1..Connections)
Browsers == {BrowserOf[t] : t \in Tabs \ Listeners}
Role(m) == IF m \in Posts THEN "user" ELSE m[2]

------------------------------------------------------------------------------
(* Sign-in.  Passwords and the demo are for dedicated pods; a pooled        *)
(* session carries the workspace that its SSO token names.                  *)

SignedIn(b, u, w) == session' = [session EXCEPT ![b] = [user |-> u, ws |-> w]]

\* Created, or found and updated.
Enrolled(u) == accounts' = accounts \cup {u}

\* The name is looked up first; UNIQUE decides.
SignUp(b, u) ==
    /\ ~pooled /\ \E p \in Pods : Listening(p)
    /\ u \notin accounts
    /\ Enrolled(u)
    /\ SignedIn(b, u, Home)
    /\ UNCHANGED <<bootVars, stored, sock, presence, inbox, tabVars, workVars, met>>

Login(b, u) ==
    /\ ~pooled /\ \E p \in Pods : Listening(p)
    /\ u \in accounts
    /\ SignedIn(b, u, Home)
    /\ UNCHANGED <<bootVars, accounts, stored, sock, presence, inbox, tabVars, workVars, met>>

Sso(b, u) ==
    /\ \E p \in Pods : Listening(p)
    /\ Enrolled(u)
    /\ \E w \in IF pooled THEN Workspaces ELSE {Home} : SignedIn(b, u, w)
    /\ UNCHANGED <<bootVars, stored, sock, presence, inbox, tabVars, workVars, met>>

\* Logout, or the session expires.
SignOut(b) ==
    /\ session[b] # None
    /\ session' = [session EXCEPT ![b] = None]
    /\ UNCHANGED <<bootVars, accounts, stored, sock, presence, inbox, tabVars, workVars, met>>

------------------------------------------------------------------------------
(* Broadcasts and presence.                                                 *)

\* late: registered when it was gone; heard: with its tab listening.
Gone == [pc |-> "none", pod |-> None, ws |-> None, user |-> None, reg |-> "none", late |-> FALSE, heard |-> FALSE]

\* A service signs the workspace it names; a guest, or the bearer of the
\* pod's key, is in that of the pod.
Named(t) == {RoomOf[t]} \cup IF pooled THEN {} ELSE {Home}

\* The identities and rooms a handshake may give its socket.
Handshake(t) ==
    IF t \in Listeners THEN {[user |-> None, ws |-> w] : w \in Named(t)}
                       ELSE {session[BrowserOf[t]]} \ {None}

\* The socket that t holds.
Held(t) == sock[<<t, live[t]>>]

\* With the adapter, what a pod emits reaches the sockets of all pods.
InRoom(t, p, w) ==
    /\ live[t] # 0 /\ Held(t).pc = "on" /\ Held(t).ws = w
    /\ Held(t).pod = p \/ Adapter

\* io.to(`ws:${w}`).emit(e), by the pod p, to those of `box` that are there.
Emitted(box, p, w, e) == [t \in Tabs |-> IF InRoom(t, p, w) THEN Append(box[t], e) ELSE box[t]]

\* Keyed by user alone, the entries of two workspaces would be one.
KeyByUser(w, u) == u
Key(w, u) == <<w, u>>

\* The entries `E`, without the one of the key, with those of N.
Entered(E, w, u, N) == {x \in E : x.key # Key(w, u)} \cup N

\* broadcastPresence.
List(E, w) == [type |-> "presence", users |-> {x \in E : x.ws = w}]

\* A new state of the entries of p, and its broadcast to w.
PresenceBecomes(p, w, E) ==
    /\ presence' = [presence EXCEPT ![p] = E]
    /\ inbox' = Emitted(inbox, p, w, List(E, w))

Connect(t, p) ==
    LET n == Cardinality({k \in 1..Connections : sock[<<t, k>>].pc # "none"}) + 1
    IN  /\ live[t] = 0 /\ n <= Connections
        /\ page[t].open /\ ~page[t].expired
        /\ Listening(p)
        /\ \E who \in Handshake(t) :
            sock' = [sock EXCEPT ![<<t, n>>] = [Gone EXCEPT !.pc = "on", !.pod = p, !.ws = who.ws,
                                                        !.user = who.user, !.reg = "asking"]]
        /\ live' = [live EXCEPT ![t] = n]
        /\ met' = [met EXCEPT ![p] = @ \cup {<<t, n>>}]
        /\ UNCHANGED <<bootVars, authVars, stored, presence, inbox, page, base, workVars>>

\* The user has been read: the entry is set, whether the socket is still
\* connected or not.
Join(s) ==
    LET k == sock[s] IN
    /\ k.reg = "asking"
    /\ sock' = [sock EXCEPT ![s].reg = "done", ![s].late = (k.pc # "on"), ![s].heard = page[s[1]].hears]
    /\ PresenceBecomes(k.pod, k.ws, Entered(presence[k.pod], k.ws, k.user,
           {[key |-> Key(k.ws, k.user), ws |-> k.ws, user |-> k.user, sock |-> s, activity |-> "idle", cursor |-> None]}))
    /\ UNCHANGED <<bootVars, authVars, stored, tabVars, workVars, met>>

\* getUserById rejects: nobody catches it, nothing is registered.
JoinFails(s) ==
    /\ sock[s].reg = "asking"
    /\ sock' = [sock EXCEPT ![s].reg = "failed"]
    /\ UNCHANGED <<bootVars, authVars, stored, presence, inbox, tabVars, workVars, met>>

EntryOf(s) == {x \in presence[sock[s].pod] : x.key = Key(sock[s].ws, sock[s].user)}

\* Typing starts or stops, or the user scrolls.
Act(s, activity) ==
    LET k == sock[s] IN
    /\ k.pc = "on" /\ live[s[1]] = s[2]
    /\ EntryOf(s) # {}
    /\ PresenceBecomes(k.pod, k.ws, Entered(presence[k.pod], k.ws, k.user,
                                            {[x EXCEPT !.activity = activity] : x \in EntryOf(s)}))
    /\ UNCHANGED <<bootVars, authVars, stored, sock, tabVars, workVars, met>>

\* The others are told where the cursor is; the list is not sent again.
MoveCursor(s, m) ==
    LET k == sock[s]
        others == Emitted(inbox, k.pod, k.ws, [type |-> "cursor", user |-> k.user, message |-> m])
    IN  /\ k.pc = "on" /\ live[s[1]] = s[2]
        /\ EntryOf(s) # {}
        /\ presence' = [presence EXCEPT ![k.pod] = Entered(@, k.ws, k.user, {[x EXCEPT !.cursor = m] : x \in EntryOf(s)})]
        /\ inbox' = [others EXCEPT ![s[1]] = inbox[s[1]]]
        /\ UNCHANGED <<bootVars, authVars, stored, sock, tabVars, workVars, met>>

\* The tab loses its connection, with what was on its way.  Neither client
\* resets what it shows.
Drop(t) ==
    /\ live[t] # 0
    /\ live' = [live EXCEPT ![t] = 0]
    /\ inbox' = [inbox EXCEPT ![t] = <<>>]
    /\ base' = [base EXCEPT ![t] = None]
    /\ UNCHANGED <<bootVars, authVars, stored, sock, presence, page, workVars, met>>

\* The server notices, sooner or later.
Disconnect(s) ==
    LET k == sock[s] IN
    /\ k.pc = "on" /\ live[s[1]] # s[2]
    /\ sock' = [sock EXCEPT ![s].pc = "off"]
    /\ PresenceBecomes(k.pod, k.ws, Entered(presence[k.pod], k.ws, k.user, {}))
    /\ UNCHANGED <<bootVars, authVars, stored, tabVars, workVars, met>>

\* Every five minutes: a socket without a session is told and disconnected.
\* A service that signed its handshake is not checked; a guest, which only
\* a dedicated pod takes, has none.
\* A client that was disconnected by the server does not connect again.
Recheck(t) ==
    LET s == <<t, live[t]>> IN
    /\ live[t] # 0 /\ sock[s].pc = "on"
    /\ IF t \in Listeners THEN ~pooled ELSE session[BrowserOf[t]] = None
    /\ sock' = [sock EXCEPT ![s].pc = "off"]
    /\ live' = [live EXCEPT ![t] = 0]
    /\ base' = [base EXCEPT ![t] = None]
    /\ presence' = [presence EXCEPT ![sock[s].pod] = Entered(@, sock[s].ws, sock[s].user, {})]
    /\ LET E == presence'[sock[s].pod]
       IN  inbox' = [Emitted(inbox, sock[s].pod, sock[s].ws, List(E, sock[s].ws)) EXCEPT ![t] = <<>>]
    /\ page' = [page EXCEPT ![t].expired = TRUE]
    /\ UNCHANGED <<bootVars, authVars, stored, workVars, met>>

------------------------------------------------------------------------------
(* Posted messages.                                                         *)

NoPost == [pc |-> "none", pod |-> None, ws |-> None, from |-> None]

Quiet == UNCHANGED <<bootVars, authVars, sock, live, presence, page, base, met>>

\* Both clients refuse while an answer streams.
MaySend(t) == ~page[t].streaming

Send(h, t) ==
    LET s == Held(t) IN
    /\ post[h].pc = "none"
    /\ live[t] # 0 /\ s.pc = "on"
    /\ MaySend(t)
    /\ post' = [post EXCEPT ![h] = [pc |-> "saving", pod |-> s.pod, ws |-> s.ws, from |-> t]]
    /\ Quiet /\ UNCHANGED <<stored, inbox, gen>>

\* A signed message of another workspace, for the workspace of the pod.
Webhook(h, p) ==
    /\ post[h].pc = "none"
    /\ ~pooled /\ Listening(p)
    /\ post' = [post EXCEPT ![h] = [NoPost EXCEPT !.pc = "saving", !.pod = p, !.ws = Home]]
    /\ Quiet /\ UNCHANGED <<stored, inbox, gen>>

\* saveMessage inserts the row, then reads it back: either may fail.
Insert(h) ==
    /\ post[h].pc = "saving"
    /\ post' = [post EXCEPT ![h].pc = "saved"]
    /\ stored' = [stored EXCEPT ![post[h].ws] = Append(@, h)]
    /\ Quiet /\ UNCHANGED <<inbox, gen>>

Announce(h) ==
    /\ post[h].pc = "saved"
    /\ post' = [post EXCEPT ![h].pc = "said"]
    /\ inbox' = Emitted(inbox, post[h].pod, post[h].ws, [type |-> "message", message |-> h])
    /\ Quiet /\ UNCHANGED <<stored, gen>>

PostFails(h) ==
    /\ post[h].pc \in {"saving", "saved"}
    /\ post' = [post EXCEPT ![h].pc = "failed"]
    /\ Quiet /\ UNCHANGED <<stored, inbox, gen>>

\* The reset of a demo: no client listens to workspace-reset.
Reset ==
    /\ ~pooled /\ \E p \in Pods : Listening(p)
    /\ stored[Home] # <<>>
    /\ stored' = [stored EXCEPT ![Home] = <<>>]
    /\ Quiet /\ UNCHANGED <<inbox, workVars>>

------------------------------------------------------------------------------
(* The stream of an answer to a member's message (the queue that starts it  *)
(* is ChatQueue).                                                           *)

NoGen == [pc |-> "none", pod |-> None, ws |-> None, text |-> FALSE, erred |-> FALSE]

Streams(g, here, there, e) ==
    /\ gen[g].pc = here
    /\ gen' = [gen EXCEPT ![g].pc = there]
    /\ inbox' = Emitted(inbox, gen[g].pod, gen[g].ws, e)
    /\ Quiet /\ UNCHANGED <<stored, post>>

StartAnswer(g, h) ==
    /\ gen[g].pc = "none"
    /\ post[h].pc = "said" /\ post[h].from # None
    /\ gen' = [gen EXCEPT ![g] = [NoGen EXCEPT !.pc = "streaming", !.pod = post[h].pod, !.ws = post[h].ws]]
    /\ inbox' = Emitted(inbox, post[h].pod, post[h].ws, [type |-> "start"])
    /\ Quiet /\ UNCHANGED <<stored, post>>

\* The first chunk of text stands for all.
Chunk(g) ==
    /\ gen[g].pc \in {"streaming", "answering"}
    /\ ~gen[g].text
    /\ gen' = [gen EXCEPT ![g].text = TRUE]
    /\ inbox' = Emitted(inbox, gen[g].pod, gen[g].ws, [type |-> "chunk", gen |-> g])
    /\ Quiet /\ UNCHANGED <<stored, post>>

CallTool(g) == Streams(g, "streaming", "calling", [type |-> "call", gen |-> g])

Save(g, role, here, there) ==
    /\ gen[g].pc = here
    /\ gen' = [gen EXCEPT ![g].pc = there]
    /\ stored' = [stored EXCEPT ![gen[g].ws] = Append(@, <<g, role>>)]
    /\ Quiet /\ UNCHANGED <<inbox, post>>

\* One tool call each: its result is stored, then shown.
SaveResult(g) == Save(g, "tool", "calling", "result")
ShowResult(g) == Streams(g, "result", "answering", [type |-> "result", gen |-> g])

\* `done`: a text that is not empty is stored.
SaveAnswer(g) ==
    /\ gen[g].text
    /\ \E here \in {"streaming", "answering"} : Save(g, "answer", here, "ending")

Busy == {"streaming", "calling", "result", "answering"}

\* The stream ends without text, it is stopped, or its requester is gone.
EndAnswer(g) ==
    /\ gen[g].pc \in Busy
    /\ gen' = [gen EXCEPT ![g].pc = "ending"]
    /\ Quiet /\ UNCHANGED <<stored, inbox, post>>

\* The provider reports an error and goes on, once; or the stream throws.
FailAnswer(g) ==
    /\ gen[g].pc \in Busy
    /\ \/ ~gen[g].erred /\ gen' = [gen EXCEPT ![g].erred = TRUE]
       \/ gen' = [gen EXCEPT ![g].pc = "ending"]
    /\ inbox' = Emitted(inbox, gen[g].pod, gen[g].ws, [type |-> "error"])
    /\ Quiet /\ UNCHANGED <<stored, post>>

CompleteAnswer(g) == Streams(g, "ending", "ended", [type |-> "complete", gen |-> g, text |-> gen[g].text])

------------------------------------------------------------------------------
(* A tab.                                                                   *)

Blank == [open |-> FALSE, expired |-> FALSE, hears |-> FALSE, history |-> "none", rows |-> {}, shown |-> {}, users |-> {},
          streaming |-> FALSE, bubble |-> FALSE, tools |-> [g \in Gens |-> "none"], cursors |-> {}]

Row(m) == [id |-> m, local |-> FALSE]
Local(m) == [id |-> m, local |-> TRUE]

Opened(t, hears) ==
    /\ ~page[t].open
    /\ page' = [page EXCEPT ![t] = [Blank EXCEPT !.open = TRUE, !.hears = hears]]
    /\ UNCHANGED <<bootVars, authVars, stored, sock, live, presence, inbox, base, workVars, met>>

\* The page loads.  It listens once it has rendered with the connected
\* socket.
Open(t) ==
    /\ t \notin ClassicTabs \cup Listeners
    /\ session[BrowserOf[t]] # None
    /\ Opened(t, FALSE)

\* The classic client and services listen from the start.
OpenClassicPage(t) ==
    /\ \/ t \in Listeners
       \/ t \in ClassicTabs /\ session[BrowserOf[t]] # None
    /\ Opened(t, TRUE)

Render(t) ==
    /\ live[t] # 0 /\ ~page[t].hears
    /\ page' = [page EXCEPT ![t].hears = TRUE]
    /\ UNCHANGED <<bootVars, authVars, stored, sock, live, presence, inbox, base, workVars, met>>

Latest(all) == SubSeq(all, IF Len(all) > Limit THEN Len(all) - Limit + 1 ELSE 1, Len(all))

\* The last messages of the workspace of the session.
ReadHistory(t) ==
    LET w == session[BrowserOf[t]].ws
        all == stored[w]
    IN  /\ page[t].open /\ page[t].history = "none"
        /\ t \notin Listeners /\ session[BrowserOf[t]] # None
        /\ \E p \in Pods : Listening(p)
        /\ page' = [page EXCEPT ![t].history = "read", ![t].rows = ToSet(Latest(all))]
        /\ base' = [base EXCEPT ![t] = IF live[t] # 0 /\ page[t].hears /\ Held(t).ws = w /\ Held(t).pc = "on"
                                       THEN ToSet(all) ELSE None]
        /\ UNCHANGED <<bootVars, authVars, stored, sock, live, presence, inbox, workVars, met>>

\* The old merge: the history replaces what has arrived meanwhile.
MergedByReplacing(rows, shown) == {Row(m) : m \in rows}

\* The history, and what is shown that it does not have.
Merged(rows, shown) == {Row(m) : m \in rows} \cup {x \in shown : x.local \/ x.id \notin rows}

Showing(t, shown) ==
    /\ page[t].history = "read"
    /\ page' = [page EXCEPT ![t].history = "shown", ![t].shown = shown]
    /\ UNCHANGED <<bootVars, authVars, stored, sock, live, presence, inbox, base, workVars, met>>

ShowHistory(t) == t \notin ClassicTabs /\ Showing(t, Merged(page[t].rows, page[t].shown))

\* Below what has arrived meanwhile.
ShowHistoryClassic(t) ==
    t \in ClassicTabs /\ Showing(t, page[t].shown \cup {Row(m) : m \in page[t].rows})

\* The request fails: the tab shows no history.
HistoryFails(t) ==
    /\ page[t].open /\ page[t].history \in {"none", "read"} /\ t \notin Listeners
    /\ page' = [page EXCEPT ![t].history = "failed", ![t].rows = {}]
    /\ base' = [base EXCEPT ![t] = None]
    /\ UNCHANGED <<bootVars, authVars, stored, sock, live, presence, inbox, workVars, met>>

\* How the React client handles an event.  The tool results of an answer are
\* shown when it completes, unless React has not run their updates yet.
React(P, e) ==
    CASE e.type = "message" -> {[P EXCEPT !.shown = @ \cup {Row(e.message)}]}
      [] e.type = "start" -> {[P EXCEPT !.streaming = TRUE, !.tools = Blank.tools]}
      [] e.type = "call" -> {[P EXCEPT !.tools[e.gen] = "called"]}
      [] e.type = "result" -> {[P EXCEPT !.tools[e.gen] = IF @ = "called" THEN "done" ELSE @]}
      [] e.type = "error" -> {[P EXCEPT !.streaming = FALSE]}
      [] e.type = "complete" ->
            LET results == {Local(<<g, "tool">>) : g \in {x \in Gens : P.tools[x] = "done"}}
                answer == IF e.text THEN {Local(<<e.gen, "answer">>)} ELSE {}
            IN  {[P EXCEPT !.shown = @ \cup r \cup answer, !.streaming = FALSE, !.tools = Blank.tools] : r \in {results, {}}}
      [] OTHER -> {P}

ReactPresence(P, e) == IF e.type = "presence" THEN [P EXCEPT !.users = e.users] ELSE P

\* How the classic client does.  An answer grows in one bubble, which
\* ai-start opens and ai-complete closes.
ClassicShows(P, e) ==
    CASE e.type = "message" -> [P EXCEPT !.shown = @ \cup {Row(e.message)}]
      [] e.type = "start" -> [P EXCEPT !.streaming = TRUE, !.bubble = TRUE]
      [] e.type = "chunk" -> IF P.bubble THEN [P EXCEPT !.shown = @ \cup {Local(<<e.gen, "answer">>)}] ELSE P
      [] e.type = "error" -> [P EXCEPT !.streaming = FALSE]
      [] e.type = "complete" -> [P EXCEPT !.streaming = FALSE, !.bubble = FALSE]
      [] OTHER -> P

ClassicCall(P, e) == IF e.type = "call" THEN [P EXCEPT !.tools[e.gen] = "called"] ELSE P

\* Where there is no card, a result is not shown.
ClassicResult(P, e) ==
    IF e.type = "result" /\ P.tools[e.gen] = "called"
    THEN [P EXCEPT !.tools[e.gen] = "done", !.shown = @ \cup {Local(<<e.gen, "tool">>)}]
    ELSE P

\* A label on the message the cursor is at, if it is shown.
ClassicCursor(P, e) ==
    IF e.type = "cursor" /\ Row(e.message) \in P.shown
    THEN [P EXCEPT !.cursors = {c \in @ : c[1] # e.user} \cup {<<e.user, e.message>>}]
    ELSE P

ClassicPresence(P, e) == IF e.type = "presence" THEN [P EXCEPT !.users = e.users] ELSE P

Classically(P, e) == ClassicPresence(ClassicCursor(ClassicResult(ClassicCall(ClassicShows(P, e), e), e), e), e)

\* Before it listens, a tab misses what arrives.
Deliver(t) ==
    /\ inbox[t] # <<>>
    /\ inbox' = [inbox EXCEPT ![t] = Tail(@)]
    /\ LET e == Head(inbox[t]) IN
       \E P \in IF ~page[t].hears \/ t \in Listeners THEN {page[t]}
                ELSE IF t \in ClassicTabs THEN {Classically(page[t], e)}
                ELSE React(ReactPresence(page[t], e), e) :
           page' = [page EXCEPT ![t] = P]
    /\ UNCHANGED <<bootVars, authVars, stored, sock, live, presence, base, workVars, met>>

\* The tab is closed, or the page is loaded again.
Close(t) ==
    /\ page[t].open
    /\ page' = [page EXCEPT ![t] = Blank]
    /\ live' = [live EXCEPT ![t] = 0]
    /\ inbox' = [inbox EXCEPT ![t] = <<>>]
    /\ base' = [base EXCEPT ![t] = None]
    /\ UNCHANGED <<bootVars, authVars, stored, sock, presence, workVars, met>>

------------------------------------------------------------------------------
(* What ends with a pod: its sockets, its presence, its handlers.           *)

Dies(p) == Listening(p) /\ pod'[p].pc = "down"

PodStep ==
    /\ PodNext
    /\ LET dead == {p \in Pods : Dies(p)}
           cut == {t \in Tabs : live[t] # 0 /\ Held(t).pod \in dead}
       IN  /\ sock' = [s \in Sockets |-> IF sock[s].pod \in dead
                                         THEN [sock[s] EXCEPT !.pc = "off", !.reg = IF @ = "asking" THEN "failed" ELSE @]
                                         ELSE sock[s]]
           /\ live' = [t \in Tabs |-> IF t \in cut THEN 0 ELSE live[t]]
           /\ inbox' = [t \in Tabs |-> IF t \in cut THEN <<>> ELSE inbox[t]]
           /\ base' = [t \in Tabs |-> IF t \in cut THEN None ELSE base[t]]
           /\ presence' = [p \in Pods |-> IF p \in dead THEN {} ELSE presence[p]]
           /\ met' = [p \in Pods |-> IF p \in dead THEN {} ELSE met[p]]
           /\ post' = [h \in Posts |-> IF post[h].pod \in dead /\ post[h].pc \in {"saving", "saved"}
                                       THEN [post[h] EXCEPT !.pc = "failed"] ELSE post[h]]
           /\ gen' = [g \in Gens |-> IF gen[g].pod \in dead /\ gen[g].pc # "ended"
                                     THEN [gen[g] EXCEPT !.pc = "dead"] ELSE gen[g]]
    /\ UNCHANGED <<authVars, stored, page>>

------------------------------------------------------------------------------
Init ==
    /\ BootInit
    /\ accounts = {}
    /\ session = [b \in Browsers |-> None]
    /\ stored = [w \in Workspaces |-> <<>>]
    /\ sock = [s \in Sockets |-> Gone]
    /\ live = [t \in Tabs |-> 0]
    /\ presence = [p \in Pods |-> {}]
    /\ inbox = [t \in Tabs |-> <<>>]
    /\ page = [t \in Tabs |-> Blank]
    /\ post = [h \in Posts |-> NoPost]
    /\ gen = [g \in Gens |-> NoGen]
    /\ met = [p \in Pods |-> {}]
    /\ base = [t \in Tabs |-> None]

AuthNext == \E b \in Browsers : SignOut(b) \/ \E u \in Users : SignUp(b, u) \/ Login(b, u) \/ Sso(b, u)

SocketNext ==
    \/ \E t \in Tabs : Drop(t) \/ Recheck(t) \/ \E p \in Pods : Connect(t, p)
    \/ \E s \in Sockets :
        \/ Join(s) \/ JoinFails(s) \/ Disconnect(s)
        \/ \E a \in {"composing", "reading"} : Act(s, a)
        \/ \E m \in Posts : MoveCursor(s, m)

PostNext ==
    \/ Reset
    \/ \E h \in Posts :
        \/ Insert(h) \/ Announce(h) \/ PostFails(h)
        \/ \E t \in Tabs : Send(h, t)
        \/ \E p \in Pods : Webhook(h, p)

GenNext ==
    \E g \in Gens :
        \/ Chunk(g) \/ CallTool(g) \/ SaveResult(g) \/ ShowResult(g)
        \/ SaveAnswer(g) \/ EndAnswer(g) \/ FailAnswer(g) \/ CompleteAnswer(g)
        \/ \E h \in Posts : StartAnswer(g, h)

TabNext ==
    \E t \in Tabs :
        \/ Open(t) \/ OpenClassicPage(t) \/ Render(t) \/ Close(t)
        \/ ReadHistory(t) \/ ShowHistory(t) \/ ShowHistoryClassic(t) \/ HistoryFails(t)
        \/ Deliver(t)

Next ==
    \/ PodStep
    \/ RowNext /\ UNCHANGED roomVars
    \/ AuthNext \/ SocketNext \/ PostNext \/ GenNext \/ TabNext

Spec == Init /\ [][Next]_vars

------------------------------------------------------------------------------
Messages == Posts \cup (Gens \X {"tool", "answer"})
Identities == Users \cup {None}
Activities == {"idle", "composing", "reading"}

Present == [key : Workspaces \X Identities, ws : Workspaces, user : Identities, sock : Sockets,
            activity : Activities, cursor : {None} \cup Posts]

Events ==
    [type : {"presence"}, users : SUBSET Present]
    \cup [type : {"cursor"}, user : Identities, message : Posts]
    \cup [type : {"message"}, message : Posts]
    \cup [type : {"start", "error"}]
    \cup [type : {"chunk", "call", "result"}, gen : Gens]
    \cup [type : {"complete"}, gen : Gens, text : BOOLEAN]

Pages ==
    [open : BOOLEAN, expired : BOOLEAN, hears : BOOLEAN, history : {"none", "read", "shown", "failed"},
     rows : SUBSET Messages, shown : SUBSET [id : Messages, local : BOOLEAN], users : SUBSET Present,
     streaming : BOOLEAN, bubble : BOOLEAN, tools : [Gens -> {"none", "called", "done"}],
     cursors : SUBSET (Identities \X Posts)]

SocketStates ==
    [pc : {"none", "on", "off"}, pod : Pods \cup {None}, ws : Workspaces \cup {None}, user : Identities,
     reg : {"none", "asking", "done", "failed"}, late : BOOLEAN, heard : BOOLEAN]
PostStates ==
    [pc : {"none", "saving", "saved", "said", "failed"}, pod : Pods \cup {None}, ws : Workspaces \cup {None},
     from : Tabs \cup {None}]
GenStates ==
    [pc : {"none", "streaming", "calling", "result", "answering", "ending", "ended", "dead"},
     pod : Pods \cup {None}, ws : Workspaces \cup {None}, text : BOOLEAN, erred : BOOLEAN]

RoomTypeOK ==
    /\ accounts \subseteq Users
    /\ session \in [Browsers -> {None} \cup [user : Users, ws : Workspaces]]
    /\ stored \in [Workspaces -> Seq(Messages)]
    /\ sock \in [Sockets -> SocketStates]
    /\ live \in [Tabs -> 0..Connections]
    /\ presence \in [Pods -> SUBSET Present]
    /\ inbox \in [Tabs -> Seq(Events)]
    /\ page \in [Tabs -> Pages]
    /\ post \in [Posts -> PostStates]
    /\ gen \in [Gens -> GenStates]
    /\ met \in [Pods -> SUBSET Sockets]
    /\ base \in [Tabs -> {None} \cup SUBSET Messages]

------------------------------------------------------------------------------
(* Properties.                                                              *)

\* m has been announced to the sockets of p, as a message or as an answer.
\* Results of tools may be shown or not (React), an answer that began before
\* the classic client listened is not.
Said(t, p, m) ==
    \/ m \in Posts /\ post[m].pc = "said" /\ post[m].pod = p
    \/ Role(m) = "answer" /\ t \notin ClassicTabs /\ gen[m[1]].pc = "ended" /\ gen[m[1]].pod = p

Shows(t, m) == page[t].shown \cap {Row(m), Local(m)} # {}

Coming(t, m) ==
    \/ page[t].history = "read" /\ m \in page[t].rows
    \/ \E e \in ToSet(inbox[t]) : \/ e.type = "message" /\ e.message = m
                                  \/ e.type = "complete" /\ m = <<e.gen, "answer">> /\ e.text

\* A tab that listened when its history was read, and has stayed connected,
\* shows, or has on its way, that history and everything its pod has stored
\* and announced since: whichever comes first, the history does not replace
\* live messages nor do they hide it (WorkspacePage.tsx:32-42).
NothingLost ==
    \A t \in Tabs : base[t] # None =>
        LET s == Held(t) IN
        \A m \in ToSet(stored[s.ws]) :
            m \in page[t].rows \/ (m \notin base[t] /\ Said(t, s.pod, m)) => Shows(t, m) \/ Coming(t, m)

\* What t shows of presence, once all that is on its way has arrived.
Lists(t) == {k \in DOMAIN inbox[t] : inbox[t][k].type = "presence"}
Expected(t) == IF Lists(t) = {} THEN page[t].users ELSE inbox[t][Max(Lists(t))].users

WithoutCursor(E) == {[x EXCEPT !.cursor = None] : x \in E}

\* A user whose only socket at a pod is registered and connected is present
\* in the workspace of that socket, whatever they and others do in other
\* workspaces; once it is gone, they are not, unless it was registered after
\* it had gone.  And what a registered tab is told last is the list of its
\* own workspace as it is (workspaceHandler.js:5-8, 93-99).  With the adapter
\* the last part cannot be had: a pod's list, which has its own sockets only,
\* replaces that of the others on every page.
PresenceTrue ==
    /\ \A p \in Pods : \A s \in met[p] :
        LET k == sock[s]
            listed == \E x \in presence[p] : x.ws = k.ws /\ x.user = k.user
        IN  (\A o \in met[p] : sock[o].ws = k.ws /\ sock[o].user = k.user => o = s)
                => (listed <=> k.reg = "done" /\ (k.pc = "on" \/ k.late))
    /\ \A t \in Tabs \ Listeners : live[t] # 0 =>
        LET s == Held(t) IN
        s.pc = "on" /\ s.reg = "done" /\ s.heard
            => WithoutCursor(Expected(t)) = WithoutCursor({x \in presence[s.pod] : x.ws = s.ws})
=============================================================================
