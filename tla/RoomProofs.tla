----------------------------- MODULE RoomProofs -----------------------------
(***************************************************************************)
(* Proofs about Room, for any pods, tabs, connections, workspaces, prompts *)
(* and dialogs, in three parts.                                            *)
(*                                                                         *)
(* Presence and messages (RoomInv).  That a tab is told the list of its    *)
(* workspace needs to know whose sockets the entries are, that the sockets *)
(* of a tab are used in order, and that a tab holds one that is connected. *)
(* That nothing is lost needs what is stored to be known before it is      *)
(* announced, and a page that never shows less than it did.                *)
(*                                                                         *)
(* The boot chain (Boot, IInv).  It reads the row and writes it in a later *)
(* step, so that PushSurvives alone is not inductive: a pod about to seed  *)
(* would still overwrite the prompt.  What holds is that no pod is about   *)
(* to, unless the last write on purpose met one (raced).                   *)
(*                                                                         *)
(* Room implements Boot: what is proved of the boot chain holds of Room.   *)
(***************************************************************************)
EXTENDS Room, FiniteSetTheorems, TLAPS

-----------------------------------------------------------------------------
(* What is on its way to a tab.                                             *)

ListsIn(box) == {k \in DOMAIN box : box[k].type = "presence"}

\* What a tab that shows `users` will show.
Told(box, users) == IF ListsIn(box) = {} THEN users ELSE box[Max(ListsIn(box))].users

\* The last list is well defined.
HasLast(box) == ListsIn(box) # {} => \E k \in ListsIn(box) : \A j \in ListsIn(box) : k >= j

LEMMA MaxIs ==
    ASSUME NEW S \in SUBSET Nat, NEW k \in S, \A j \in S : k >= j
    PROVE  Max(S) = k
<1>1. \A l \in S : (\A j \in S : l >= j) => l = k
  <2> TAKE l \in S
  <2> HAVE \A j \in S : l >= j
  <2>1. l >= k /\ k >= l /\ l \in Nat /\ k \in Nat
    OBVIOUS
  <2> QED BY <2>1
<1> QED BY <1>1 DEF Max

LEMMA ToldAppend ==
    ASSUME NEW box \in Seq(Events), HasLast(box), NEW e \in Events, NEW users
    PROVE  /\ Append(box, e) \in Seq(Events) /\ HasLast(Append(box, e))
           /\ Told(Append(box, e), users) = IF e.type = "presence" THEN e.users ELSE Told(box, users)
           /\ ToSet(Append(box, e)) = ToSet(box) \cup {e}
<1> DEFINE n == Len(box)
           new == Append(box, e)
<1>1. n \in Nat /\ DOMAIN box = 1..n /\ new \in Seq(Events) /\ DOMAIN new = 1..n + 1
      /\ new[n + 1] = e /\ \A k \in 1..n : new[k] = box[k]
  OBVIOUS
<1>2. ToSet(new) = ToSet(box) \cup {e}
  <2>1. \A k \in 1..n + 1 : k \in 1..n \/ k = n + 1
    BY <1>1
  <2>2. \A k \in 1..n : k \in 1..n + 1
    BY <1>1
  <2>3. n + 1 \in 1..n + 1
    BY <1>1
  <2> HIDE DEF n, new
  <2> QED BY <1>1, <2>1, <2>2, <2>3 DEF ToSet
<1> HIDE DEF n, new
<1>3. CASE e.type = "presence"
  <2>1. n + 1 \in ListsIn(new) /\ \A j \in ListsIn(new) : n + 1 >= j
    BY <1>1, <1>3 DEF ListsIn
  <2>2. ListsIn(new) \in SUBSET Nat
    BY <1>1 DEF ListsIn
  <2>3. Max(ListsIn(new)) = n + 1
    BY <2>1, <2>2, MaxIs
  <2>4. HasLast(new) /\ Told(new, users) = e.users
    BY <1>1, <2>1, <2>3 DEF HasLast, Told
  <2> QED BY <1>1, <1>2, <1>3, <2>4 DEF new
<1>4. CASE e.type # "presence"
  <2>1. ListsIn(new) = ListsIn(box)
    <3>1. \A k \in 1..n + 1 : k \in 1..n \/ k = n + 1
      BY <1>1
    <3>2. \A k \in 1..n : k \in 1..n + 1
      BY <1>1
    <3> QED BY <1>1, <1>4, <3>1, <3>2 DEF ListsIn
  <2>2. HasLast(new)
    BY <2>1 DEF HasLast
  <2>3. Told(new, users) = Told(box, users)
    <3>1. CASE ListsIn(box) = {}
      BY <2>1, <3>1 DEF Told
    <3>2. CASE ListsIn(box) # {}
      <4>1. PICK k \in ListsIn(box) : \A j \in ListsIn(box) : k >= j
        BY <3>2 DEF HasLast
      <4>2. ListsIn(box) \in SUBSET Nat
        BY <1>1 DEF ListsIn
      <4>3. Max(ListsIn(box)) = k
        BY <4>1, <4>2, MaxIs
      <4>4. new[k] = box[k]
        BY <1>1 DEF ListsIn
      <4> QED BY <2>1, <3>2, <4>3, <4>4 DEF Told
    <3> QED BY <3>1, <3>2
  <2> QED BY <1>1, <1>2, <1>4, <2>2, <2>3 DEF new
<1> QED BY <1>3, <1>4

\* What is told when an event has been taken from the front.
LEMMA ToldTail ==
    ASSUME NEW box \in Seq(Events), box # <<>>, HasLast(box), NEW users
    PROVE  LET e == Head(box) IN
           /\ e \in Events /\ Tail(box) \in Seq(Events) /\ HasLast(Tail(box))
           /\ Told(box, users) = Told(Tail(box), IF e.type = "presence" THEN e.users ELSE users)
           /\ ToSet(box) = ToSet(Tail(box)) \cup {e}
<1> DEFINE n == Len(box)
           e == Head(box)
           new == Tail(box)
<1>1. n \in Nat /\ n > 0 /\ DOMAIN box = 1..n /\ new \in Seq(Events) /\ DOMAIN new = 1..n - 1
      /\ e = box[1] /\ e \in Events /\ \A k \in 1..n - 1 : new[k] = box[k + 1]
  OBVIOUS
<1> HIDE DEF n, e, new
<1>2. /\ \A k \in 2..n : k - 1 \in 1..n - 1 /\ (k - 1) + 1 = k
      /\ \A k \in 1..n - 1 : k + 1 \in 2..n /\ (k + 1) - 1 = k
      /\ \A k \in 1..n : k = 1 \/ k \in 2..n
      /\ 1 \in 1..n /\ \A k \in 2..n : k \in 1..n
  BY <1>1
<1>3. ToSet(box) = ToSet(new) \cup {e}
  <2>1. ASSUME NEW x \in ToSet(box) PROVE x \in ToSet(new) \cup {e}
    <3>1. PICK k \in 1..n : x = box[k]
      BY <1>1 DEF ToSet
    <3>2. CASE k = 1
      BY <1>1, <3>1, <3>2
    <3>3. CASE k \in 2..n
      <4>1. new[k - 1] = x /\ k - 1 \in DOMAIN new
        BY <1>1, <1>2, <3>1, <3>3
      <4> QED BY <4>1 DEF ToSet
    <3> QED BY <1>2, <3>2, <3>3
  <2>2. ASSUME NEW x \in ToSet(new) PROVE x \in ToSet(box)
    <3>1. PICK k \in 1..n - 1 : x = new[k]
      BY <1>1 DEF ToSet
    <3>2. x = box[k + 1] /\ k + 1 \in DOMAIN box
      BY <1>1, <1>2, <3>1
    <3> QED BY <3>2 DEF ToSet
  <2>3. e \in ToSet(box)
    BY <1>1, <1>2 DEF ToSet
  <2> QED BY <2>1, <2>2, <2>3
<1>4. /\ \A k \in ListsIn(new) : k + 1 \in ListsIn(box)
      /\ \A k \in ListsIn(box) : k # 1 => k - 1 \in ListsIn(new)
      /\ ListsIn(new) \in SUBSET Nat /\ ListsIn(box) \in SUBSET Nat
      /\ 1 \in ListsIn(box) <=> e.type = "presence"
  <2>1. \A k \in ListsIn(new) : k + 1 \in ListsIn(box)
    BY <1>1, <1>2 DEF ListsIn
  <2>2. ASSUME NEW k \in ListsIn(box), k # 1 PROVE k - 1 \in ListsIn(new)
    <3>1. k \in 2..n
      BY <1>1, <1>2, <2>2 DEF ListsIn
    <3>2. k - 1 \in DOMAIN new /\ new[k - 1] = box[k]
      BY <1>1, <1>2, <3>1
    <3> QED BY <3>2 DEF ListsIn
  <2>3. ListsIn(new) \in SUBSET Nat /\ ListsIn(box) \in SUBSET Nat
    BY <1>1 DEF ListsIn
  <2>4. 1 \in ListsIn(box) <=> e.type = "presence"
    BY <1>1, <1>2 DEF ListsIn
  <2> QED BY <2>1, <2>2, <2>3, <2>4
<1>5. CASE ListsIn(box) = {}
  <2>1. ListsIn(new) = {} /\ e.type # "presence"
    BY <1>4, <1>5
  <2>2. HasLast(new) /\ Told(new, users) = users /\ Told(box, users) = users
    BY <1>5, <2>1 DEF HasLast, Told
  <2> QED BY <1>1, <1>3, <2>1, <2>2 DEF e, new
<1>6. CASE ListsIn(box) # {}
  <2>1. PICK k \in ListsIn(box) : \A j \in ListsIn(box) : k >= j
    BY <1>6 DEF HasLast
  <2>2. Max(ListsIn(box)) = k /\ k \in Nat
    BY <1>4, <2>1, MaxIs
  <2>3. Told(box, users) = box[k].users
    BY <1>6, <2>2 DEF Told
  <2>4. CASE k = 1
    <3>1. ListsIn(new) = {}
      <4>1. \A j \in ListsIn(new) : j \in 1..n - 1 /\ ~ (k >= j + 1)
        BY <1>1, <2>4 DEF ListsIn
      <4> QED BY <1>4, <2>1, <4>1
    <3>2. HasLast(new) /\ \A u : Told(new, u) = u
      BY <3>1 DEF HasLast, Told
    <3>3. e.type = "presence" /\ box[k].users = e.users
      BY <1>1, <1>4, <2>1, <2>4
    <3> QED BY <1>1, <1>3, <2>3, <3>2, <3>3 DEF e, new
  <2>5. CASE k # 1
    <3>1. k - 1 \in ListsIn(new) /\ k \in 2..n
      BY <1>1, <1>2, <1>4, <2>1, <2>5 DEF ListsIn
    <3>2. \A j \in ListsIn(new) : k - 1 >= j
      <4> TAKE j \in ListsIn(new)
      <4>1. k >= j + 1 /\ j \in Nat
        BY <1>4, <2>1
      <4> QED BY <2>2, <4>1
    <3>3. Max(ListsIn(new)) = k - 1
      BY <1>4, <3>1, <3>2, MaxIs
    <3>4. HasLast(new)
      BY <3>1, <3>2 DEF HasLast
    <3>5. new[k - 1] = box[k]
      BY <1>1, <1>2, <3>1
    <3>6. \A u : Told(new, u) = box[k].users
      BY <3>1, <3>3, <3>5 DEF Told
    <3> QED BY <1>1, <1>3, <2>3, <3>4, <3>6 DEF e, new
  <2> QED BY <2>4, <2>5
<1> QED BY <1>5, <1>6

\* An event reaches the tabs in the room, and changes no other inbox.
LEMMA EmittedTo ==
    ASSUME NEW box \in [Tabs -> Seq(Events)], NEW p, NEW w, NEW e \in Events
    PROVE  /\ Emitted(box, p, w, e) \in [Tabs -> Seq(Events)]
           /\ \A t \in Tabs : Emitted(box, p, w, e)[t] = IF InRoom(t, p, w) THEN Append(box[t], e) ELSE box[t]
<1>1. \A t \in Tabs : box[t] \in Seq(Events) /\ Append(box[t], e) \in Seq(Events)
  OBVIOUS
<1> QED BY <1>1 DEF Emitted

-----------------------------------------------------------------------------
(* The inductive invariant of the room.  Sockets are used in order, a pod   *)
(* knows those it has met, and a tab holds one that is connected; an entry  *)
(* is of a socket that the pod has met; what is stored is of its workspace  *)
(* and was stored before it is announced.                                   *)

UsedInOrder(t) == \E m \in 0..Connections : \A k \in 1..Connections : sock[<<t, k>>].pc # "none" <=> k <= m

SocketSound(s) ==
    /\ sock[s].pc = "none" => sock[s] = Gone
    /\ sock[s].pc # "none" => sock[s].pod \in Pods /\ sock[s].ws \in Workspaces
    /\ sock[s].pc = "on" => ~sock[s].late
    /\ sock[s].pc = "on" \/ sock[s].reg = "asking" => s \in met[sock[s].pod]

MetSound == \A p \in Pods : \A s \in met[p] : sock[s].pc # "none" /\ sock[s].pod = p

HeldSound(t) == live[t] # 0 => page[t].open /\ Held(t).pc = "on" /\ (Held(t).heard => page[t].hears)

SocketFacts ==
    /\ \A t \in Tabs : UsedInOrder(t) /\ HeldSound(t)
    /\ \A s \in Sockets : SocketSound(s)
    /\ MetSound

EntryFacts ==
    \A p \in Pods : \A x \in presence[p] :
        x.key = Key(x.ws, x.user) /\ x.sock \in met[p] /\ sock[x.sock].ws = x.ws /\ sock[x.sock].user = x.user

StoredFacts ==
    /\ \A w \in Workspaces : \A m \in ToSet(stored[w]) :
        /\ m \in Posts => post[m].pc \in {"saved", "said", "failed"} /\ post[m].ws = w
        /\ m \notin Posts => gen[m[1]].pc # "none" /\ gen[m[1]].ws = w
        /\ m \notin Posts /\ m[2] = "answer" => gen[m[1]].text /\ gen[m[1]].pc \in {"ending", "ended", "dead"}
    /\ \A h \in Posts : post[h].pc # "none" => post[h].ws \in Workspaces /\ post[h].pod \in Pods
    /\ \A g \in Gens : gen[g].pc # "none" => gen[g].ws \in Workspaces /\ gen[g].pod \in Pods
    /\ \A g \in Gens : gen[g].pc = "none" => gen[g].pod = None

Reaches(t, m) == Shows(t, m) \/ Coming(t, m)

BaseSound(t) ==
    base[t] # None =>
        /\ live[t] # 0 /\ page[t].hears /\ page[t].history \in {"read", "shown"} /\ t \notin Listeners
        /\ page[t].history = "shown" => \A m \in page[t].rows : Row(m) \in page[t].shown
        /\ \A m \in ToSet(stored[Held(t).ws]) : m \notin base[t] /\ Said(t, Held(t).pod, m) => Reaches(t, m)

\* PresenceTrue, in parts.
Listed(p, w, u) == \E x \in presence[p] : x.ws = w /\ x.user = u
Alone(p, s) == \A o \in met[p] : sock[o].ws = sock[s].ws /\ sock[o].user = sock[s].user => o = s
ListOf(p, w) == {x \in presence[p] : x.ws = w}
Registers(k) == k.reg = "done" /\ (k.pc = "on" \/ k.late)

ListedWhenPresent ==
    \A p \in Pods : \A s \in met[p] : Alone(p, s) => (Listed(p, sock[s].ws, sock[s].user) <=> Registers(sock[s]))

Informed(t) ==
    ~Adapter /\ live[t] # 0 /\ Held(t).pc = "on" /\ Held(t).reg = "done" /\ Held(t).heard
        => WithoutCursor(Told(inbox[t], page[t].users)) = WithoutCursor(ListOf(Held(t).pod, Held(t).ws))

RoomInv ==
    /\ RoomTypeOK
    /\ \A t \in Tabs : HasLast(inbox[t])
    /\ SocketFacts
    /\ EntryFacts
    /\ ListedWhenPresent
    /\ \A t \in Tabs \ Listeners : Informed(t)
    /\ StoredFacts
    /\ \A t \in Tabs : BaseSound(t)

LEMMA PresenceFollows == ~Adapter /\ RoomInv => PresenceTrue
<1> SUFFICES ASSUME ~Adapter, RoomInv PROVE PresenceTrue
  OBVIOUS
<1>1. \A t : Expected(t) = Told(inbox[t], page[t].users)
  BY DEF Expected, Lists, Told, ListsIn
<1>2. \A p \in Pods : \A s \in met[p] : Alone(p, s) => (Listed(p, sock[s].ws, sock[s].user) <=> Registers(sock[s]))
  BY DEF RoomInv, ListedWhenPresent
<1>3. \A t \in Tabs \ Listeners : Informed(t)
  BY DEF RoomInv
<1> QED BY <1>1, <1>2, <1>3 DEF PresenceTrue, Informed, Alone, Listed, Registers, ListOf

LEMMA NothingLostFollows == RoomInv => NothingLost
<1> SUFFICES ASSUME RoomInv, NEW t \in Tabs, base[t] # None, NEW m \in ToSet(stored[Held(t).ws]),
                    m \in page[t].rows \/ (m \notin base[t] /\ Said(t, Held(t).pod, m))
             PROVE  Shows(t, m) \/ Coming(t, m)
  BY DEF NothingLost
<1>1. BaseSound(t)
  BY DEF RoomInv
<1>2. CASE m \notin base[t] /\ Said(t, Held(t).pod, m)
  BY <1>1, <1>2 DEF BaseSound, Reaches
<1>3. CASE m \in page[t].rows
  BY <1>1, <1>3 DEF BaseSound, Shows, Coming
<1> QED BY <1>2, <1>3

LEMMA RoomInitially == Init => RoomInv
<1> SUFFICES ASSUME Init PROVE RoomInv
  OBVIOUS
<1>1. Blank \in Pages
  BY DEF Blank, Pages
<1>2. Gone \in SocketStates /\ NoPost \in PostStates /\ NoGen \in GenStates
  BY DEF Gone, SocketStates, NoPost, PostStates, NoGen, GenStates, Identities
<1>3. RoomTypeOK
  BY <1>1, <1>2, BoundAssumption DEF Init, RoomTypeOK
<1>4. \A t \in Tabs : HasLast(inbox[t])
  BY DEF Init, HasLast, ListsIn
<1>5. SocketFacts
  <2>1. \A t \in Tabs, k \in 1..Connections : sock[<<t, k>>] = Gone
    BY DEF Init, Sockets
  <2>2. \A t \in Tabs : UsedInOrder(t)
    <3>1. 0 \in 0..Connections /\ \A k \in 1..Connections : ~ (k <= 0)
      BY BoundAssumption
    <3> QED BY <2>1, <3>1 DEF UsedInOrder, Gone
  <2> QED BY <2>2 DEF Init, SocketFacts, HeldSound, SocketSound, MetSound, Gone
<1>6. EntryFacts /\ ListedWhenPresent /\ \A t \in Tabs : Informed(t) /\ BaseSound(t)
  BY DEF Init, EntryFacts, ListedWhenPresent, Informed, BaseSound
<1>7. StoredFacts
  BY DEF Init, StoredFacts, ToSet, NoPost, NoGen
<1> QED BY <1>3, <1>4, <1>5, <1>6, <1>7 DEF RoomInv

LEMMA RoomRests == RoomInv /\ UNCHANGED roomVars => RoomInv'
<1> SUFFICES ASSUME RoomInv, UNCHANGED roomVars PROVE RoomInv'
  OBVIOUS
<1> USE DEF roomVars, authVars, tabVars, workVars
<1>1. RoomTypeOK' /\ (\A t \in Tabs : HasLast(inbox[t]))'
  BY DEF RoomInv, RoomTypeOK
<1>2. SocketFacts'
  BY DEF RoomInv, SocketFacts, UsedInOrder, HeldSound, Held, SocketSound, MetSound
<1>3. EntryFacts' /\ ListedWhenPresent'
  BY DEF RoomInv, EntryFacts, ListedWhenPresent, Alone, Listed
<1>4. (\A t \in Tabs \ Listeners : Informed(t))'
  BY DEF RoomInv, Informed, Held, ListOf
<1>5. StoredFacts'
  BY DEF RoomInv, StoredFacts
<1>6. (\A t \in Tabs : BaseSound(t))'
  BY DEF RoomInv, BaseSound, Held, Said, Reaches, Shows, Coming
<1> QED BY <1>1, <1>2, <1>3, <1>4, <1>5, <1>6 DEF RoomInv

-----------------------------------------------------------------------------
(* Messages and answers.                                                    *)

SameNews(old, new) == \A t \in Tabs : \A users : Told(new[t], users) = Told(old[t], users)

\* An event that is not a list of presence changes nothing of what is told.
LEMMA OtherEvent ==
    ASSUME NEW box \in [Tabs -> Seq(Events)], \A t \in Tabs : HasLast(box[t]),
           NEW p, NEW w, NEW e \in Events, e.type # "presence",
           NEW new, new = Emitted(box, p, w, e)
    PROVE  /\ new \in [Tabs -> Seq(Events)] /\ SameNews(box, new)
           /\ \A t \in Tabs : /\ HasLast(new[t])
                              /\ ToSet(box[t]) \subseteq ToSet(new[t])
                              /\ InRoom(t, p, w) => e \in ToSet(new[t])
<1>1. new \in [Tabs -> Seq(Events)] /\ \A t \in Tabs : new[t] = IF InRoom(t, p, w) THEN Append(box[t], e) ELSE box[t]
  BY EmittedTo
<1>2. ASSUME NEW old \in Seq(Events), HasLast(old), NEW users
      PROVE  /\ HasLast(Append(old, e)) /\ Told(Append(old, e), users) = Told(old, users)
             /\ ToSet(Append(old, e)) = ToSet(old) \cup {e}
  BY <1>2, ToldAppend
<1>3. ASSUME NEW t \in Tabs, InRoom(t, p, w), NEW users
      PROVE  /\ HasLast(new[t]) /\ Told(new[t], users) = Told(box[t], users)
             /\ ToSet(new[t]) = ToSet(box[t]) \cup {e}
  <2>1. box[t] \in Seq(Events) /\ HasLast(box[t]) /\ new[t] = Append(box[t], e)
    BY <1>1, <1>3
  <2> QED BY <1>2, <2>1
<1>4. ASSUME NEW t \in Tabs, ~InRoom(t, p, w) PROVE new[t] = box[t] /\ HasLast(box[t])
  BY <1>1, <1>4
<1> QED BY <1>1, <1>3, <1>4 DEF SameNews

\* The socket a tab holds is connected, to a pod and a room.
LEMMA HeldKnown ==
    ASSUME RoomInv, NEW t \in Tabs, live[t] # 0
    PROVE  /\ <<t, live[t]>> \in Sockets /\ live[t] \in 1..Connections
           /\ Held(t) \in SocketStates /\ Held(t).pc = "on" /\ ~Held(t).late
           /\ Held(t).pod \in Pods /\ Held(t).ws \in Workspaces /\ Held(t).user \in Identities
           /\ <<t, live[t]>> \in met[Held(t).pod]
           /\ page[t].open /\ (Held(t).heard => page[t].hears)
<1>1. live[t] \in 1..Connections
  BY BoundAssumption DEF RoomInv, RoomTypeOK
<1>2. <<t, live[t]>> \in Sockets
  BY <1>1 DEF Sockets
<1>3. HeldSound(t) /\ SocketSound(<<t, live[t]>>)
  BY <1>2 DEF RoomInv, SocketFacts
<1>4. Held(t) \in SocketStates
  BY <1>2 DEF RoomInv, RoomTypeOK, Held
<1> QED BY <1>1, <1>2, <1>3, <1>4 DEF HeldSound, SocketSound, Held, SocketStates

LEMMA TalkStep ==
    ASSUME RoomInv, UNCHANGED <<authVars, sock, live, presence, page, base, met>>,
           stored' \in [Workspaces -> Seq(Messages)], post' \in [Posts -> PostStates], gen' \in [Gens -> GenStates],
           StoredFacts',
           \/ UNCHANGED inbox
           \/ \E e \in Events : e.type # "presence" /\ \E p, w : inbox' = Emitted(inbox, p, w, e),
           \A t \in Tabs : base[t] # None =>
               \A m \in ToSet(stored[Held(t).ws]') : m \notin base[t] /\ Said(t, Held(t).pod, m)' =>
                   (m \in ToSet(stored[Held(t).ws]) /\ Said(t, Held(t).pod, m)) \/ Coming(t, m)'
    PROVE  RoomInv'
<1>0. inbox \in [Tabs -> Seq(Events)] /\ \A t \in Tabs : HasLast(inbox[t])
  BY DEF RoomInv, RoomTypeOK
<1>1. /\ inbox' \in [Tabs -> Seq(Events)]
      /\ SameNews(inbox, inbox')
      /\ \A t \in Tabs : HasLast(inbox'[t]) /\ ToSet(inbox[t]) \subseteq ToSet(inbox'[t])
  <2>1. CASE UNCHANGED inbox
    BY <1>0, <2>1 DEF SameNews
  <2>2. CASE \E e \in Events : e.type # "presence" /\ \E p, w : inbox' = Emitted(inbox, p, w, e)
    <3>1. PICK e, p, w : e \in Events /\ e.type # "presence" /\ inbox' = Emitted(inbox, p, w, e)
      BY <2>2
    <3> QED BY <1>0, <3>1, OtherEvent
  <2> QED BY <2>1, <2>2
<1>2. RoomTypeOK'
  BY <1>1 DEF RoomInv, RoomTypeOK, authVars
<1>3. SocketFacts'
  BY DEF RoomInv, SocketFacts, UsedInOrder, HeldSound, Held, SocketSound, MetSound
<1>4. EntryFacts' /\ ListedWhenPresent'
  BY DEF RoomInv, EntryFacts, ListedWhenPresent, Alone, Listed
<1>5. (\A t \in Tabs \ Listeners : Informed(t))'
  BY <1>1, SMTT(30) DEF SameNews, RoomInv, Informed, Held, ListOf
<1>6. ASSUME NEW t \in Tabs PROVE BaseSound(t)'
  <2>1. BaseSound(t) /\ Held(t)' = Held(t)
    BY DEF RoomInv, Held
  <2>2. \A m : Reaches(t, m) => Reaches(t, m)'
    BY <1>1 DEF Reaches, Shows, Coming
  <2>3. ASSUME base[t] # None, NEW m \in ToSet(stored[Held(t).ws]'), m \notin base[t], Said(t, Held(t).pod, m)'
        PROVE  Reaches(t, m)'
    <3>1. (m \in ToSet(stored[Held(t).ws]) /\ Said(t, Held(t).pod, m)) \/ Coming(t, m)'
      BY <2>3
    <3> QED BY <2>1, <2>2, <2>3, <3>1 DEF BaseSound, Reaches
  <2> QED BY <2>1, <2>3 DEF BaseSound
<1> QED BY <1>1, <1>2, <1>3, <1>4, <1>5, <1>6 DEF RoomInv

\* Nothing more is said: the rest of TalkStep is about what is stored.
LEMMA QuietStep ==
    ASSUME RoomInv, UNCHANGED <<authVars, sock, live, presence, page, base, met, stored>>,
           post' \in [Posts -> PostStates], gen' \in [Gens -> GenStates],
           StoredFacts',
           \/ UNCHANGED inbox
           \/ \E e \in Events : e.type # "presence" /\ \E p, w : inbox' = Emitted(inbox, p, w, e),
           \A h \in Posts : post'[h].pc = "said" => post'[h] = post[h],
           \A g \in Gens : gen'[g].pc = "ended" => gen[g].pc = "ended" /\ gen'[g].pod = gen[g].pod
    PROVE  RoomInv'
<1>1. stored' \in [Workspaces -> Seq(Messages)]
  BY DEF RoomInv, RoomTypeOK
<1>2. ASSUME NEW t \in Tabs, base[t] # None, NEW m \in ToSet(stored[Held(t).ws]'), Said(t, Held(t).pod, m)'
      PROVE  m \in ToSet(stored[Held(t).ws]) /\ Said(t, Held(t).pod, m)
  <2>1. m \in ToSet(stored[Held(t).ws]) /\ Held(t)' = Held(t)
    BY <1>2 DEF Held
  <2>2. m \in Messages
    <3>1. Held(t).ws \in Workspaces
      BY <1>2, HeldKnown DEF RoomInv, BaseSound
    <3>2. stored[Held(t).ws] \in Seq(Messages)
      BY <3>1 DEF RoomInv, RoomTypeOK
    <3> QED BY <2>1, <3>2 DEF ToSet
  <2> QED BY <1>2, <2>1, <2>2 DEF Said, Role, Messages
<1> QED BY <1>1, <1>2, TalkStep

Over == {"ending", "ended", "dead"}

\* What is stored are messages; which keep their role.
LEMMA StoredMessages ==
    ASSUME RoomTypeOK, NEW w \in Workspaces, NEW m \in ToSet(stored[w])
    PROVE  m \in Messages /\ (m \notin Posts => m[1] \in Gens /\ m = <<m[1], m[2]>>)
BY DEF RoomTypeOK, ToSet, Messages

\* A handler of a post, or the stream of an answer, moves on.
LEMMA PostMoves ==
    ASSUME RoomInv, NEW h \in Posts, NEW k \in PostStates, post' = [post EXCEPT ![h] = k], UNCHANGED <<stored, gen>>,
           k.pc # "none" /\ k.ws \in Workspaces /\ k.pod \in Pods,
           post[h].pc # "none" => k.ws = post[h].ws,
           post[h].pc \in {"saved", "said", "failed"} => k.pc \in {"saved", "said", "failed"}
    PROVE  post' \in [Posts -> PostStates] /\ StoredFacts'
<1>1. post' \in [Posts -> PostStates] /\ \A x \in Posts : post'[x] = IF x = h THEN k ELSE post[x]
  BY DEF RoomInv, RoomTypeOK
<1>2. StoredFacts
  BY DEF RoomInv
<1> QED BY <1>1, <1>2 DEF StoredFacts

LEMMA GenMoves ==
    ASSUME RoomInv, NEW g \in Gens, NEW k \in GenStates, gen' = [gen EXCEPT ![g] = k], UNCHANGED <<stored, post>>,
           k.pc # "none" /\ k.ws \in Workspaces /\ k.pod \in Pods,
           gen[g].pc # "none" => k.ws = gen[g].ws,
           gen[g].pc \in Over /\ gen[g].text => k.pc \in Over /\ k.text
    PROVE  gen' \in [Gens -> GenStates] /\ StoredFacts'
<1>1. gen' \in [Gens -> GenStates] /\ \A x \in Gens : gen'[x] = IF x = g THEN k ELSE gen[x]
  BY DEF RoomInv, RoomTypeOK
<1>2. StoredFacts /\ RoomTypeOK
  BY DEF RoomInv
<1>3. \A w \in Workspaces : \A m \in ToSet(stored[w]) : m \notin Posts => m[1] \in Gens
  BY <1>2, StoredMessages
<1> QED BY <1>1, <1>2, <1>3 DEF StoredFacts, Over

\* A message is appended to those of a workspace.
LEMMA Appended ==
    ASSUME RoomTypeOK, NEW v \in Workspaces, NEW m \in Messages, stored' = [stored EXCEPT ![v] = Append(@, m)]
    PROVE  /\ stored' \in [Workspaces -> Seq(Messages)]
           /\ \A w \in Workspaces : ToSet(stored'[w]) = IF w = v THEN ToSet(stored[w]) \cup {m} ELSE ToSet(stored[w])
<1>1. \A w \in Workspaces : stored[w] \in Seq(Messages)
  BY DEF RoomTypeOK
<1>2. stored' \in [Workspaces -> Seq(Messages)] /\ \A w \in Workspaces : stored'[w] = IF w = v THEN Append(stored[w], m) ELSE stored[w]
  BY <1>1 DEF RoomTypeOK
<1>3. ASSUME NEW s \in Seq(Messages) PROVE ToSet(Append(s, m)) = ToSet(s) \cup {m}
  <2>1. DOMAIN Append(s, m) = DOMAIN s \cup {Len(s) + 1} /\ Append(s, m)[Len(s) + 1] = m /\ \A k \in DOMAIN s : Append(s, m)[k] = s[k]
    OBVIOUS
  <2> HIDE DEF Append
  <2> QED BY <2>1 DEF ToSet
<1> QED BY <1>1, <1>2, <1>3

-----------------------------------------------------------------------------
LEMMA PostRoomStep == RoomInv /\ PostNext => RoomInv'
<1> SUFFICES ASSUME RoomInv, PostNext PROVE RoomInv'
  OBVIOUS
<1>0. /\ RoomTypeOK /\ StoredFacts /\ stored \in [Workspaces -> Seq(Messages)] /\ post \in [Posts -> PostStates]
      /\ gen \in [Gens -> GenStates]
      /\ inbox \in [Tabs -> Seq(Events)] /\ \A t \in Tabs : HasLast(inbox[t])
  BY DEF RoomInv, RoomTypeOK
<1>a. \A h \in Posts : post[h].pc # "none" => post[h].ws \in Workspaces /\ post[h].pod \in Pods
  BY <1>0 DEF StoredFacts
<1> USE DEF Quiet
<1>1. CASE Reset
  <2>1. stored' \in [Workspaces -> Seq(Messages)] /\ \A w \in Workspaces : stored'[w] = IF w = Home THEN <<>> ELSE stored[w]
    BY <1>0, <1>1, RoomAssumption DEF Reset
  <2>2. ToSet(<<>>) = {}
    BY DEF ToSet
  <2>3. \A w \in Workspaces : ToSet(stored'[w]) \subseteq ToSet(stored[w])
    BY <2>1, <2>2
  <2>4. StoredFacts'
    BY <1>0, <1>1, <2>3 DEF StoredFacts, Reset, workVars
  <2>5. ASSUME NEW t \in Tabs, base[t] # None, NEW m \in ToSet(stored[Held(t).ws]'), Said(t, Held(t).pod, m)'
        PROVE  m \in ToSet(stored[Held(t).ws]) /\ Said(t, Held(t).pod, m)
    <3>1. Held(t).ws \in Workspaces /\ Held(t)' = Held(t)
      BY <1>1, <2>5, HeldKnown DEF RoomInv, BaseSound, Reset, Held
    <3> QED BY <1>1, <2>3, <2>5, <3>1 DEF Said, Reset, workVars
  <2> QED BY <1>0, <1>1, <2>1, <2>4, <2>5, TalkStep DEF Reset, workVars
<1>2. ASSUME NEW h \in Posts, NEW t \in Tabs, Send(h, t) PROVE RoomInv'
  <2> DEFINE k == [pc |-> "saving", pod |-> Held(t).pod, ws |-> Held(t).ws, from |-> t]
  <2>1. k \in PostStates /\ k.pc = "saving" /\ k.pod \in Pods /\ k.ws \in Workspaces
    BY <1>2, HeldKnown DEF Send, PostStates
  <2>2. post' = [post EXCEPT ![h] = k]
    BY <1>2 DEF Send
  <2> HIDE DEF k
  <2>3. post' \in [Posts -> PostStates] /\ StoredFacts'
    BY <1>2, <2>1, <2>2, PostMoves DEF Send
  <2>4. \A x \in Posts : post'[x].pc = "said" => post'[x] = post[x]
    BY <1>0, <2>1, <2>2
  <2> QED BY <1>0, <1>2, <2>3, <2>4, QuietStep DEF Send
<1>3. ASSUME NEW h \in Posts, NEW p \in Pods, Webhook(h, p) PROVE RoomInv'
  <2> DEFINE k == [NoPost EXCEPT !.pc = "saving", !.pod = p, !.ws = Home]
  <2>1. k \in PostStates /\ k.pc = "saving" /\ k.pod \in Pods /\ k.ws \in Workspaces
    BY RoomAssumption DEF NoPost, PostStates
  <2>2. post' = [post EXCEPT ![h] = k]
    BY <1>3 DEF Webhook
  <2> HIDE DEF k
  <2>3. post' \in [Posts -> PostStates] /\ StoredFacts'
    BY <1>3, <2>1, <2>2, PostMoves DEF Webhook
  <2>4. \A x \in Posts : post'[x].pc = "said" => post'[x] = post[x]
    BY <1>0, <2>1, <2>2
  <2> QED BY <1>0, <1>3, <2>3, <2>4, QuietStep DEF Webhook
<1>4. ASSUME NEW h \in Posts, PostFails(h) PROVE RoomInv'
  <2> DEFINE k == [post[h] EXCEPT !.pc = "failed"]
  <2>1. k \in PostStates /\ k.pc = "failed" /\ k.pod \in Pods /\ k.ws \in Workspaces /\ k.ws = post[h].ws
    BY <1>0, <1>a, <1>4 DEF PostFails, PostStates
  <2>2. post' = [post EXCEPT ![h] = k]
    BY <1>0, <1>4 DEF PostFails
  <2> HIDE DEF k
  <2>3. post' \in [Posts -> PostStates] /\ StoredFacts'
    BY <1>4, <2>1, <2>2, PostMoves DEF PostFails
  <2>4. \A x \in Posts : post'[x].pc = "said" => post'[x] = post[x]
    BY <1>0, <2>1, <2>2
  <2> QED BY <1>0, <1>4, <2>3, <2>4, QuietStep DEF PostFails
<1>5. ASSUME NEW h \in Posts, Insert(h) PROVE RoomInv'
  <2> DEFINE k == [post[h] EXCEPT !.pc = "saved"]
             v == post[h].ws
  <2>1. k \in PostStates /\ k.pc = "saved" /\ k.pod \in Pods /\ v \in Workspaces /\ k.ws = v
    BY <1>0, <1>a, <1>5 DEF Insert, PostStates
  <2>2. post' = [post EXCEPT ![h] = k]
    BY <1>0, <1>5 DEF Insert
  <2>3. stored' = [stored EXCEPT ![v] = Append(@, h)] /\ h \in Messages
    BY <1>5 DEF Insert, Messages
  <2> HIDE DEF k, v
  <2>4. /\ stored' \in [Workspaces -> Seq(Messages)]
        /\ \A w \in Workspaces : ToSet(stored'[w]) = IF w = v THEN ToSet(stored[w]) \cup {h} ELSE ToSet(stored[w])
    BY <1>0, <2>1, <2>3, Appended
  <2>5. post' \in [Posts -> PostStates] /\ \A x \in Posts : post'[x] = IF x = h THEN k ELSE post[x]
    BY <1>0, <2>1, <2>2
  <2>6. StoredFacts'
    <3>1. gen' = gen
      BY <1>5 DEF Insert
    <3>2. \A w \in Workspaces : \A m \in ToSet(stored'[w]) : m \in ToSet(stored[w]) \/ (m = h /\ w = v)
      BY <2>4
    <3>3. \A w \in Workspaces : \A m \in ToSet(stored'[w]) :
              m \in Posts => post'[m].pc \in {"saved", "said", "failed"} /\ post'[m].ws = w
      BY <1>0, <1>5, <2>1, <2>5, <3>2 DEF StoredFacts, Insert
    <3> QED BY <1>0, <1>a, <2>1, <2>5, <3>1, <3>2, <3>3 DEF StoredFacts
  <2>7. ASSUME NEW t \in Tabs, base[t] # None, NEW m \in ToSet(stored[Held(t).ws]'), Said(t, Held(t).pod, m)'
        PROVE  m \in ToSet(stored[Held(t).ws]) /\ Said(t, Held(t).pod, m)
    <3>1. Held(t).ws \in Workspaces /\ Held(t)' = Held(t)
      BY <1>5, <2>7, HeldKnown DEF RoomInv, BaseSound, Insert, Held
    <3>2. m \in ToSet(stored[Held(t).ws]) \cup {h}
      BY <2>4, <2>7, <3>1
    <3>3. m # h
      BY <1>5, <2>1, <2>5, <2>7 DEF Said, Insert, Role
    <3> QED BY <1>5, <2>5, <2>7, <3>1, <3>2, <3>3 DEF Said, Insert
  <2> QED BY <1>0, <1>5, <2>4, <2>5, <2>6, <2>7, TalkStep DEF Insert
<1>6. ASSUME NEW h \in Posts, Announce(h) PROVE RoomInv'
  <2> DEFINE k == [post[h] EXCEPT !.pc = "said"]
             e == [type |-> "message", message |-> h]
  <2>1. k \in PostStates /\ k.pc = "said" /\ k.pod \in Pods /\ k.ws \in Workspaces /\ k.ws = post[h].ws /\ k.pod = post[h].pod
    BY <1>0, <1>a, <1>6 DEF Announce, PostStates
  <2>2. post' = [post EXCEPT ![h] = k]
    BY <1>0, <1>6 DEF Announce
  <2>3. inbox' = Emitted(inbox, k.pod, k.ws, e) /\ e \in Events /\ e.type = "message" /\ e.message = h
    BY <1>6, <2>1 DEF Announce, Events
  <2> HIDE DEF k, e
  <2>4. post' \in [Posts -> PostStates] /\ StoredFacts'
    BY <1>6, <2>1, <2>2, PostMoves DEF Announce
  <2>5. \A x \in Posts : post'[x] = IF x = h THEN k ELSE post[x]
    BY <1>0, <2>1, <2>2
  <2>6. \A t \in Tabs : InRoom(t, k.pod, k.ws) => e \in ToSet(inbox'[t])
    <3> DEFINE new == inbox'
               p == k.pod
               w == k.ws
    <3>1. new = Emitted(inbox, p, w, e) /\ e \in Events /\ e.type # "presence"
      BY <2>3
    <3> HIDE DEF new, p, w
    <3>2. \A t \in Tabs : InRoom(t, p, w) => e \in ToSet(new[t])
      BY <1>0, <3>1, OtherEvent
    <3> QED BY <3>2 DEF new, p, w
  <2>7. ASSUME NEW t \in Tabs, base[t] # None, NEW m \in ToSet(stored[Held(t).ws]'), Said(t, Held(t).pod, m)'
        PROVE  (m \in ToSet(stored[Held(t).ws]) /\ Said(t, Held(t).pod, m)) \/ Coming(t, m)'
    <3>1. Held(t).ws \in Workspaces /\ Held(t)' = Held(t) /\ live[t] # 0 /\ Held(t).pc = "on"
      BY <1>6, <2>7, HeldKnown DEF RoomInv, BaseSound, Announce, Held
    <3>2. m \in ToSet(stored[Held(t).ws])
      BY <1>6, <2>7, <3>1 DEF Announce
    <3>3. CASE m = h
      <4>1. Held(t).pod = k.pod
        BY <2>1, <2>5, <2>7, <3>1, <3>3 DEF Said, Role
      <4>2. Held(t).ws = k.ws
        BY <1>0, <2>1, <3>1, <3>2, <3>3 DEF StoredFacts
      <4>3. e \in ToSet(inbox'[t])
        BY <2>6, <3>1, <4>1, <4>2 DEF InRoom
      <4> QED BY <2>3, <3>3, <4>3 DEF Coming
    <3>4. CASE m # h
      BY <1>6, <2>5, <2>7, <3>1, <3>2, <3>4 DEF Said, Announce
    <3> QED BY <3>3, <3>4
  <2> QED BY <1>0, <1>6, <2>3, <2>4, <2>7, TalkStep DEF Announce
<1> QED BY <1>1, <1>2, <1>3, <1>4, <1>5, <1>6 DEF PostNext

\* What a stream emits without ending is said of no message.
LEMMA GenEmits ==
    ASSUME RoomInv, NEW g \in Gens, NEW k \in GenStates, gen' = [gen EXCEPT ![g] = k],
           UNCHANGED <<authVars, sock, live, presence, page, base, met, stored, post>>,
           k.pc \notin {"none", "ended"} /\ k.ws \in Workspaces /\ k.pod \in Pods,
           gen[g].pc # "none" => k.ws = gen[g].ws,
           gen[g].pc \in Over /\ gen[g].text => k.pc \in Over /\ k.text,
           \/ UNCHANGED inbox
           \/ \E e \in Events : e.type # "presence" /\ \E p, w : inbox' = Emitted(inbox, p, w, e)
    PROVE  RoomInv'
<1>1. gen' \in [Gens -> GenStates] /\ StoredFacts'
  BY GenMoves
<1>2. \A x \in Gens : gen'[x] = IF x = g THEN k ELSE gen[x]
  BY DEF RoomInv, RoomTypeOK
<1>3. post' \in [Posts -> PostStates]
  BY DEF RoomInv, RoomTypeOK
<1>4. \A x \in Gens : gen'[x].pc = "ended" => gen[x].pc = "ended" /\ gen'[x].pod = gen[x].pod
  BY <1>2
<1> QED BY <1>1, <1>3, <1>4, QuietStep

LEMMA SaveStep ==
    ASSUME RoomInv, NEW g \in Gens, NEW role \in {"tool", "answer"}, NEW here \in Busy, NEW there \in {"result", "ending"},
           Save(g, role, here, there), role = "answer" => gen[g].text /\ there = "ending"
    PROVE  RoomInv'
<1> DEFINE k == [gen[g] EXCEPT !.pc = there]
           v == gen[g].ws
           m0 == <<g, role>>
<1>0. /\ RoomTypeOK /\ StoredFacts /\ stored \in [Workspaces -> Seq(Messages)] /\ post' \in [Posts -> PostStates]
      /\ gen \in [Gens -> GenStates] /\ UNCHANGED <<post, inbox, authVars, sock, live, presence, page, base, met>>
  BY DEF RoomInv, RoomTypeOK, Save, Quiet
<1>1. \A x \in Gens : gen[x].pc # "none" => gen[x].ws \in Workspaces /\ gen[x].pod \in Pods
  BY <1>0 DEF StoredFacts
<1>2. k \in GenStates /\ k.pc = there /\ k.pod \in Pods /\ v \in Workspaces /\ k.ws = v /\ k.text = gen[g].text /\ gen[g].pc \in Busy
  BY <1>0, <1>1 DEF Save, GenStates, Busy
<1>3. gen' = [gen EXCEPT ![g] = k]
  BY <1>0 DEF Save
<1>4. stored' = [stored EXCEPT ![v] = Append(@, m0)] /\ m0 \in Messages /\ m0 \notin Posts /\ m0[1] = g /\ m0[2] = role
  BY MessageAssumption DEF Save, Messages
<1> HIDE DEF k, v, m0
<1>5. /\ stored' \in [Workspaces -> Seq(Messages)]
      /\ \A w \in Workspaces : ToSet(stored'[w]) = IF w = v THEN ToSet(stored[w]) \cup {m0} ELSE ToSet(stored[w])
  BY <1>0, <1>2, <1>4, Appended
<1>6. gen' \in [Gens -> GenStates] /\ \A x \in Gens : gen'[x] = IF x = g THEN k ELSE gen[x]
  BY <1>0, <1>2, <1>3
<1>7. \A w \in Workspaces : \A m \in ToSet(stored[w]) : m \notin Posts => m[1] \in Gens
  BY <1>0, StoredMessages
<1>8. StoredFacts'
  <2>1. \A w \in Workspaces : \A m \in ToSet(stored'[w]) : m \in ToSet(stored[w]) \/ (m = m0 /\ w = v)
    BY <1>5
  <2>2. ASSUME NEW w \in Workspaces, NEW m \in ToSet(stored'[w]), m \notin Posts
        PROVE  /\ gen'[m[1]].pc # "none" /\ gen'[m[1]].ws = w
               /\ m[2] = "answer" => gen'[m[1]].text /\ gen'[m[1]].pc \in {"ending", "ended", "dead"}
    <3>1. CASE m \in ToSet(stored[w])
      <4>1. m[1] \in Gens /\ gen[m[1]].pc # "none" /\ gen[m[1]].ws = w
            /\ (m[2] = "answer" => gen[m[1]].text /\ gen[m[1]].pc \in {"ending", "ended", "dead"})
        BY <1>0, <1>7, <2>2, <3>1 DEF StoredFacts
      <4> QED BY <1>2, <1>6, <4>1 DEF Busy, v
    <3>2. CASE m = m0 /\ w = v
      BY <1>2, <1>4, <1>6, <3>2
    <3> QED BY <2>1, <2>2, <3>1, <3>2
  <2>3. \A w \in Workspaces : \A m \in ToSet(stored'[w]) :
            m \in Posts => post'[m].pc \in {"saved", "said", "failed"} /\ post'[m].ws = w
    BY <1>0, <1>4, <2>1 DEF StoredFacts
  <2>4. \A x \in Gens : gen'[x].pc # "none" => gen'[x].ws \in Workspaces /\ gen'[x].pod \in Pods
    BY <1>1, <1>2, <1>6
  <2>5. \A h \in Posts : post'[h].pc # "none" => post'[h].ws \in Workspaces /\ post'[h].pod \in Pods
    BY <1>0 DEF StoredFacts
  <2>6. \A x \in Gens : gen'[x].pc = "none" => gen'[x].pod = None
    BY <1>0, <1>2, <1>6 DEF StoredFacts
  <2> QED BY <2>2, <2>3, <2>4, <2>5, <2>6 DEF StoredFacts
<1>9. ASSUME NEW t \in Tabs, base[t] # None, NEW m \in ToSet(stored[Held(t).ws]'), Said(t, Held(t).pod, m)'
      PROVE  m \in ToSet(stored[Held(t).ws]) /\ Said(t, Held(t).pod, m)
  <2>1. Held(t).ws \in Workspaces /\ Held(t)' = Held(t)
    BY <1>0, <1>9, HeldKnown DEF RoomInv, BaseSound, Held
  <2>2. m \in ToSet(stored[Held(t).ws]) \/ m = m0
    BY <1>5, <1>9, <2>1
  <2>3. m # m0
    BY <1>2, <1>4, <1>6, <1>9 DEF Said
  <2>4. m \notin Posts => m[1] \in Gens
    BY <1>7, <2>1, <2>2, <2>3
  <2>5. CASE m \in Posts
    BY <1>0, <1>9, <2>1, <2>2, <2>3, <2>5 DEF Said, Role
  <2>6. CASE m \notin Posts
    <3>1. gen[m[1]] = gen'[m[1]]
      BY <1>2, <1>6, <1>9, <2>4, <2>6 DEF Said
    <3> QED BY <1>9, <2>1, <2>2, <2>3, <2>6, <3>1 DEF Said
  <2> QED BY <2>5, <2>6
<1> QED BY <1>0, <1>5, <1>6, <1>8, <1>9, TalkStep

LEMMA GenRoomStep == RoomInv /\ GenNext => RoomInv'
<1> SUFFICES ASSUME RoomInv, GenNext PROVE RoomInv'
  OBVIOUS
<1>0. /\ RoomTypeOK /\ StoredFacts /\ stored \in [Workspaces -> Seq(Messages)] /\ post \in [Posts -> PostStates]
      /\ gen \in [Gens -> GenStates]
      /\ inbox \in [Tabs -> Seq(Events)] /\ \A t \in Tabs : HasLast(inbox[t])
  BY DEF RoomInv, RoomTypeOK
<1>a. \A x \in Gens : gen[x].pc # "none" => gen[x].ws \in Workspaces /\ gen[x].pod \in Pods
  BY <1>0 DEF StoredFacts
<1>b. /\ [type |-> "start"] \in Events /\ [type |-> "error"] \in Events
      /\ \A g \in Gens : /\ [type |-> "chunk", gen |-> g] \in Events /\ [type |-> "call", gen |-> g] \in Events
                         /\ [type |-> "result", gen |-> g] \in Events
  BY DEF Events
<1> USE DEF Quiet
<1>1. ASSUME NEW g \in Gens, NEW h \in Posts, StartAnswer(g, h) PROVE RoomInv'
  <2> DEFINE k == [NoGen EXCEPT !.pc = "streaming", !.pod = post[h].pod, !.ws = post[h].ws]
             e == [type |-> "start"]
  <2>1. post[h].ws \in Workspaces /\ post[h].pod \in Pods
    BY <1>0, <1>1 DEF StartAnswer, StoredFacts
  <2>2. k \in GenStates /\ k.pc = "streaming" /\ k.ws \in Workspaces /\ k.pod \in Pods
    BY <2>1 DEF NoGen, GenStates
  <2>3. gen' = [gen EXCEPT ![g] = k] /\ gen[g].pc = "none"
    BY <1>1 DEF StartAnswer
  <2>4. inbox' = Emitted(inbox, post[h].pod, post[h].ws, e) /\ e \in Events /\ e.type # "presence"
    BY <1>1, <1>b DEF StartAnswer
  <2> HIDE DEF k, e
  <2>5. \E x \in Events : x.type # "presence" /\ \E p, w : inbox' = Emitted(inbox, p, w, x)
    BY <2>4
  <2> QED BY <1>1, <2>2, <2>3, <2>5, GenEmits DEF StartAnswer, Over
<1>2. ASSUME NEW g \in Gens, Chunk(g) PROVE RoomInv'
  <2> DEFINE k == [gen[g] EXCEPT !.text = TRUE]
             e == [type |-> "chunk", gen |-> g]
  <2>1. /\ k \in GenStates /\ k.pc \in {"streaming", "answering"} /\ k.ws \in Workspaces /\ k.pod \in Pods
        /\ k.ws = gen[g].ws /\ gen[g].pc \notin Over
    BY <1>0, <1>a, <1>2 DEF Chunk, GenStates, Over
  <2>2. gen' = [gen EXCEPT ![g] = k]
    BY <1>0, <1>2 DEF Chunk
  <2>3. inbox' = Emitted(inbox, gen[g].pod, gen[g].ws, e) /\ e \in Events /\ e.type # "presence"
    BY <1>2, <1>b DEF Chunk
  <2> HIDE DEF k, e
  <2>4. \E x \in Events : x.type # "presence" /\ \E p, w : inbox' = Emitted(inbox, p, w, x)
    BY <2>3
  <2> QED BY <1>2, <2>1, <2>2, <2>4, GenEmits DEF Chunk
<1>3. ASSUME NEW g \in Gens, NEW here \in Busy, NEW there \in {"calling", "answering"}, NEW e \in Events, e.type # "presence",
             Streams(g, here, there, e)
      PROVE  RoomInv'
  <2> DEFINE k == [gen[g] EXCEPT !.pc = there]
  <2>1. /\ k \in GenStates /\ k.pc = there /\ k.ws \in Workspaces /\ k.pod \in Pods
        /\ k.ws = gen[g].ws /\ gen[g].pc \notin Over
    BY <1>0, <1>a, <1>3 DEF Streams, GenStates, Over, Busy
  <2>2. gen' = [gen EXCEPT ![g] = k]
    BY <1>0, <1>3 DEF Streams
  <2> HIDE DEF k
  <2>3. \E x \in Events : x.type # "presence" /\ \E p, w : inbox' = Emitted(inbox, p, w, x)
    BY <1>3 DEF Streams
  <2> QED BY <1>3, <2>1, <2>2, <2>3, GenEmits DEF Streams
<1>4. ASSUME NEW g \in Gens, CallTool(g) \/ ShowResult(g) PROVE RoomInv'
  <2> DEFINE called == [type |-> "call", gen |-> g]
             result == [type |-> "result", gen |-> g]
  <2>1. called \in Events /\ called.type # "presence" /\ result \in Events /\ result.type # "presence"
    BY <1>b
  <2>2. Streams(g, "streaming", "calling", called) \/ Streams(g, "result", "answering", result)
    BY <1>4 DEF CallTool, ShowResult
  <2> HIDE DEF called, result
  <2> QED BY <1>3, <2>1, <2>2 DEF Busy
<1>5. ASSUME NEW g \in Gens, SaveResult(g) \/ SaveAnswer(g) PROVE RoomInv'
  BY <1>5, SaveStep DEF SaveResult, SaveAnswer, Busy
<1>6. ASSUME NEW g \in Gens, EndAnswer(g) \/ FailAnswer(g) PROVE RoomInv'
  <2>1. PICK there \in Busy \cup {"ending"}, erred \in BOOLEAN : gen' = [gen EXCEPT ![g] = [gen[g] EXCEPT !.pc = there, !.erred = erred]]
    <3>1. [gen[g] EXCEPT !.pc = "ending"] = [gen[g] EXCEPT !.pc = "ending", !.erred = gen[g].erred] /\ gen[g].erred \in BOOLEAN
      BY <1>0 DEF GenStates
    <3>2. [gen[g] EXCEPT !.erred = TRUE] = [gen[g] EXCEPT !.pc = gen[g].pc, !.erred = TRUE]
      BY <1>0 DEF GenStates
    <3>3. gen[g].pc \in Busy
      BY <1>6 DEF EndAnswer, FailAnswer
    <3>4. \/ gen' = [gen EXCEPT ![g] = [gen[g] EXCEPT !.pc = "ending"]]
          \/ gen' = [gen EXCEPT ![g] = [gen[g] EXCEPT !.erred = TRUE]]
      BY <1>0, <1>6 DEF EndAnswer, FailAnswer
    <3>5. CASE gen' = [gen EXCEPT ![g] = [gen[g] EXCEPT !.pc = "ending"]]
      <4>1. gen' = [gen EXCEPT ![g] = [gen[g] EXCEPT !.pc = "ending", !.erred = gen[g].erred]]
        BY <3>1, <3>5
      <4> QED BY <3>1, <4>1
    <3>6. CASE gen' = [gen EXCEPT ![g] = [gen[g] EXCEPT !.erred = TRUE]]
      <4>1. gen' = [gen EXCEPT ![g] = [gen[g] EXCEPT !.pc = gen[g].pc, !.erred = TRUE]]
        BY <3>2, <3>6
      <4> QED BY <3>3, <4>1
    <3> QED BY <3>4, <3>5, <3>6
  <2> DEFINE k == [gen[g] EXCEPT !.pc = there, !.erred = erred]
  <2>2. /\ k \in GenStates /\ k.pc = there /\ k.ws \in Workspaces /\ k.pod \in Pods
        /\ k.ws = gen[g].ws /\ gen[g].pc \notin Over
    BY <1>0, <1>a, <1>6 DEF EndAnswer, FailAnswer, GenStates, Over, Busy
  <2>3. gen' = [gen EXCEPT ![g] = k]
    BY <2>1
  <2> HIDE DEF k
  <2>4. UNCHANGED inbox \/ \E x \in Events : x.type # "presence" /\ \E p, w : inbox' = Emitted(inbox, p, w, x)
    <3>1. [type |-> "error"].type # "presence"
      OBVIOUS
    <3> QED BY <1>6, <1>b, <3>1 DEF EndAnswer, FailAnswer
  <2>5. there \notin {"none", "ended"}
    BY DEF Busy
  <2> QED BY <1>6, <2>2, <2>3, <2>4, <2>5, GenEmits DEF EndAnswer, FailAnswer
<1>7. ASSUME NEW g \in Gens, CompleteAnswer(g) PROVE RoomInv'
  <2> DEFINE k == [gen[g] EXCEPT !.pc = "ended"]
             e == [type |-> "complete", gen |-> g, text |-> gen[g].text]
             p == gen[g].pod
             w == gen[g].ws
             new == inbox'
  <2>1. /\ k \in GenStates /\ k.pc = "ended" /\ w \in Workspaces /\ p \in Pods /\ k.ws = w /\ k.pod = p
        /\ k.text = gen[g].text /\ gen[g].pc = "ending"
    BY <1>0, <1>a, <1>7 DEF CompleteAnswer, Streams, GenStates
  <2>2. gen' = [gen EXCEPT ![g] = k]
    BY <1>0, <1>7 DEF CompleteAnswer, Streams
  <2>3. new = Emitted(inbox, p, w, e) /\ e \in Events /\ e.type = "complete" /\ e.gen = g /\ e.text = gen[g].text
    BY <1>0, <1>7 DEF CompleteAnswer, Streams, Events, GenStates
  <2> HIDE DEF k, e, p, w, new
  <2>4. gen' \in [Gens -> GenStates] /\ StoredFacts'
    BY <1>7, <2>1, <2>2, GenMoves DEF CompleteAnswer, Streams, w, Over
  <2>5. \A x \in Gens : gen'[x] = IF x = g THEN k ELSE gen[x]
    BY <1>0, <2>1, <2>2
  <2>6. \A t \in Tabs : InRoom(t, p, w) => e \in ToSet(new[t])
    <3>1. new = Emitted(inbox, p, w, e) /\ e \in Events /\ e.type # "presence"
      BY <2>3
    <3> QED BY <1>0, <3>1, OtherEvent
  <2>7. UNCHANGED <<authVars, sock, live, presence, page, base, met, stored, post>>
    BY <1>7 DEF CompleteAnswer, Streams
  <2>8. ASSUME NEW t \in Tabs, base[t] # None, NEW m \in ToSet(stored[Held(t).ws]'), Said(t, Held(t).pod, m)'
        PROVE  (m \in ToSet(stored[Held(t).ws]) /\ Said(t, Held(t).pod, m)) \/ Coming(t, m)'
    <3>1. Held(t).ws \in Workspaces /\ Held(t)' = Held(t) /\ live[t] # 0 /\ Held(t).pc = "on"
      BY <2>7, <2>8, HeldKnown DEF RoomInv, BaseSound, Held
    <3>2. m \in ToSet(stored[Held(t).ws])
      BY <2>7, <2>8, <3>1
    <3>3. CASE m \in Posts
      BY <2>7, <2>8, <3>1, <3>2, <3>3 DEF Said, Role
    <3>4. CASE m \notin Posts /\ m[1] = g
      <4>1. m = <<g, "answer">> /\ gen[g].text /\ gen[g].ws = Held(t).ws
        BY <1>0, <2>8, <3>1, <3>2, <3>4, StoredMessages DEF StoredFacts, Said, Role
      <4>2. InRoom(t, p, w)
        BY <2>1, <2>5, <2>8, <3>1, <3>4, <4>1 DEF Said, InRoom, w
      <4>3. e \in ToSet(inbox'[t]) /\ e.type = "complete" /\ m = <<e.gen, "answer">> /\ e.text
        BY <2>3, <2>6, <4>1, <4>2 DEF new
      <4> QED BY <4>3 DEF Coming
    <3>5. CASE m \notin Posts /\ m[1] # g
      <4>1. m[1] \in Gens
        BY <1>0, <3>1, <3>2, <3>5, StoredMessages
      <4>2. gen'[m[1]] = gen[m[1]]
        BY <2>5, <3>5, <4>1
      <4> QED BY <2>7, <2>8, <3>1, <3>2, <3>5, <4>2 DEF Said
    <3> QED BY <3>3, <3>4, <3>5
  <2>9. \E x \in Events : x.type # "presence" /\ \E q, v : inbox' = Emitted(inbox, q, v, x)
    BY <2>3 DEF new
  <2>10. stored' \in [Workspaces -> Seq(Messages)] /\ post' \in [Posts -> PostStates]
    BY <1>0, <2>7
  <2> QED BY <2>4, <2>7, <2>8, <2>9, <2>10, TalkStep
<1> QED BY <1>1, <1>2, <1>4, <1>5, <1>6, <1>7 DEF GenNext

-----------------------------------------------------------------------------
(* Sockets and presence.                                                    *)

\* The entries are those of sockets that the pod has met.
Owned(E) ==
    \A q \in Pods : \A x \in E[q] :
        x.key = Key(x.ws, x.user) /\ x.sock \in met[q] /\ sock[x.sock].ws = x.ws /\ sock[x.sock].user = x.user

OwnedBy(N, p, w, u) ==
    \A x \in N : /\ x.key = Key(w, u) /\ x.ws = w /\ x.user = u
                 /\ x.sock \in met[p] /\ sock[x.sock].ws = w /\ sock[x.sock].user = u

\* Who is listed, and where, but for u in w at p.
ListedBut(p, w, u, N) ==
    \A q \in Pods : \A v, y : Listed(q, v, y)' <=> IF q = p /\ v = w /\ y = u THEN N # {} ELSE Listed(q, v, y)
OtherLists(p, w) == \A q \in Pods : \A v : q # p \/ v # w => ListOf(q, v)' = ListOf(q, v)

\* What a change of the entries of one user in one workspace leaves alone.
LEMMA EntriesChange ==
    ASSUME RoomInv, NEW p \in Pods, NEW w \in Workspaces, NEW u \in Identities, NEW N \in SUBSET Present,
           OwnedBy(N, p, w, u),
           presence' = [presence EXCEPT ![p] = Entered(presence[p], w, u, N)]
    PROVE  /\ presence' \in [Pods -> SUBSET Present]
           /\ Owned(presence') /\ ListedBut(p, w, u, N) /\ OtherLists(p, w)
<1> DEFINE E == Entered(presence[p], w, u, N)
<1>1. presence \in [Pods -> SUBSET Present] /\ E \in SUBSET Present
  BY DEF RoomInv, RoomTypeOK, Entered
<1>2. presence' \in [Pods -> SUBSET Present] /\ \A q \in Pods : presence'[q] = IF q = p THEN E ELSE presence[q]
  BY <1>1
<1>3. \A q \in Pods : \A x \in presence[q] :
          x.key = Key(x.ws, x.user) /\ x.sock \in met[q] /\ sock[x.sock].ws = x.ws /\ sock[x.sock].user = x.user
  BY DEF RoomInv, EntryFacts
<1>4. \A x : x \in E <=> (x \in presence[p] /\ ~(x.ws = w /\ x.user = u)) \/ x \in N
  <2>1. \A x \in presence[p] : x.key = Key(w, u) <=> x.ws = w /\ x.user = u
    BY <1>3 DEF Key
  <2> QED BY <2>1 DEF Entered
<1> HIDE DEF E
<1>5. \A q \in Pods : \A x \in presence'[q] :
          x.key = Key(x.ws, x.user) /\ x.sock \in met[q] /\ sock[x.sock].ws = x.ws /\ sock[x.sock].user = x.user
  BY <1>2, <1>3, <1>4 DEF OwnedBy
<1>6. ASSUME NEW q \in Pods, NEW v, NEW y
      PROVE  Listed(q, v, y)' <=> IF q = p /\ v = w /\ y = u THEN N # {} ELSE Listed(q, v, y)
  <2>1. CASE q # p
    BY <1>2, <2>1 DEF Listed
  <2>2. CASE q = p /\ v = w /\ y = u
    BY <1>2, <1>4, <2>2 DEF Listed, OwnedBy
  <2>3. CASE q = p /\ ~(v = w /\ y = u)
    BY <1>2, <1>4, <2>3 DEF Listed, OwnedBy
  <2> QED BY <2>1, <2>2, <2>3
<1>7. ASSUME NEW q \in Pods, NEW v, q # p \/ v # w PROVE ListOf(q, v)' = ListOf(q, v)
  <2>1. CASE q # p
    BY <1>2, <2>1 DEF ListOf
  <2>2. CASE q = p /\ v # w
    <3>1. \A x : x \in E /\ x.ws = v <=> x \in presence[p] /\ x.ws = v
      BY <1>4, <2>2 DEF OwnedBy
    <3>2. \A x : x \in presence'[q] <=> x \in E
      BY <1>2, <2>2
    <3> QED BY <2>2, <3>1, <3>2 DEF ListOf
  <2> QED BY <1>7, <2>1, <2>2
<1> QED BY <1>2, <1>5, <1>6, <1>7 DEF Owned, ListedBut, OtherLists

\* A tab that stays as it is still has what it had.
LEMMA BaseKept ==
    ASSUME NEW t \in Tabs, BaseSound(t), live'[t] = live[t], page'[t] = page[t], base'[t] = base[t],
           ToSet(inbox[t]) \subseteq ToSet(inbox'[t]),
           live[t] # 0 => Held(t)'.ws = Held(t).ws /\ Held(t)'.pod = Held(t).pod,
           UNCHANGED <<stored, workVars>>
    PROVE  BaseSound(t)'
<1>1. \A m : Reaches(t, m) => Reaches(t, m)'
  BY DEF Reaches, Shows, Coming
<1>2. \A p, m : Said(t, p, m)' <=> Said(t, p, m)
  BY DEF Said, workVars
<1>3. CASE base[t] = None
  BY <1>3 DEF BaseSound
<1>4. CASE base[t] # None
  <2>1. live[t] # 0
    BY <1>4 DEF BaseSound
  <2>2. stored'[Held(t)'.ws] = stored[Held(t).ws] /\ Held(t)'.pod = Held(t).pod
    BY <2>1
  <2>3. ASSUME NEW m \in ToSet(stored'[Held(t)'.ws]), m \notin base[t], Said(t, Held(t).pod, m)'
        PROVE  Reaches(t, m)'
    BY <1>1, <1>2, <1>4, <2>2, <2>3 DEF BaseSound
  <2> QED BY <1>4, <2>1, <2>3 DEF BaseSound
<1> QED BY <1>3, <1>4

\* The tab loses its connection, or keeps it and knows of the change.
CutOff(t) == live'[t] = 0 /\ inbox'[t] = <<>> /\ base'[t] = None
TabKept(t, s, k, p, w) ==
    /\ live'[t] = live[t] /\ page'[t] = page[t] /\ base'[t] = base[t]
    /\ HasLast(inbox'[t]) /\ ToSet(inbox[t]) \subseteq ToSet(inbox'[t])
    /\ s = <<t, live[t]>> => k.pc = "on" /\ (k.heard => page[t].hears)
    /\ ~InRoom(t, p, w) => Told(inbox'[t], page[t].users) = Told(inbox[t], page[t].users)
    /\ t \notin Listeners /\ InRoom(t, p, w) => Informed(t)'

\* A socket s moves on, the entries of its user in its workspace become N,
\* and the tabs of `cut` lose their connections.
LEMMA PresenceStep ==
    ASSUME RoomInv, NEW s \in Sockets, NEW k \in SocketStates, NEW p, NEW w, NEW u, NEW N \in SUBSET Present,
           p = sock[s].pod, w = sock[s].ws, u = sock[s].user, s \in met[p], p \in Pods,
           sock' = [sock EXCEPT ![s] = k],
           k.pc # "none", k.pod = p, k.ws = w, k.user = u, k.pc = "on" => ~k.late,
           OwnedBy(N, p, w, u),
           presence' = [presence EXCEPT ![p] = Entered(presence[p], w, u, N)],
           Alone(p, s) => (N # {} <=> Registers(k)),
           NEW cut \in SUBSET Tabs,
           \A t \in cut : CutOff(t),
           \A t \in Tabs \ cut : TabKept(t, s, k, p, w),
           live' \in [Tabs -> 0..Connections], inbox' \in [Tabs -> Seq(Events)], page' \in [Tabs -> Pages],
           base' \in [Tabs -> {None} \cup SUBSET Messages],
           UNCHANGED <<authVars, stored, workVars, met>>
    PROVE  RoomInv'
<1>0. RoomTypeOK /\ EntryFacts /\ sock \in [Sockets -> SocketStates] /\ met \in [Pods -> SUBSET Sockets]
  BY DEF RoomInv, RoomTypeOK
<1>c. \A t \in cut : live'[t] = 0 /\ inbox'[t] = <<>> /\ base'[t] = None
  BY DEF CutOff
<1>k. \A t \in Tabs \ cut : /\ live'[t] = live[t] /\ page'[t] = page[t] /\ base'[t] = base[t]
                            /\ HasLast(inbox'[t]) /\ ToSet(inbox[t]) \subseteq ToSet(inbox'[t])
                            /\ s = <<t, live[t]>> => k.pc = "on" /\ (k.heard => page[t].hears)
                            /\ ~InRoom(t, p, w) => Told(inbox'[t], page[t].users) = Told(inbox[t], page[t].users)
                            /\ t \notin Listeners /\ InRoom(t, p, w) => Informed(t)'
  BY DEF TabKept
<1>1. sock[s].pc # "none" /\ w \in Workspaces /\ u \in Identities
  BY <1>0 DEF RoomInv, SocketFacts, SocketSound, MetSound, SocketStates
<1>2. sock' \in [Sockets -> SocketStates] /\ \A x \in Sockets : sock'[x] = IF x = s THEN k ELSE sock[x]
  BY <1>0
<1>3. /\ presence' \in [Pods -> SUBSET Present]
      /\ Owned(presence') /\ ListedBut(p, w, u, N) /\ OtherLists(p, w)
  BY <1>1, EntriesChange
<1>4. RoomTypeOK'
  BY <1>0, <1>2, <1>3 DEF RoomTypeOK, authVars, workVars
<1>5. \A x \in Sockets : sock'[x].pod = sock[x].pod /\ sock'[x].ws = sock[x].ws /\ sock'[x].user = sock[x].user
                         /\ (sock'[x].pc = "none" <=> sock[x].pc = "none")
  BY <1>1, <1>2
<1>6. SocketFacts'
  <2>1. \A t \in Tabs : UsedInOrder(t)'
    <3>1. \A t \in Tabs : \A n \in 1..Connections : <<t, n>> \in Sockets
      BY DEF Sockets
    <3> SUFFICES ASSUME NEW t \in Tabs PROVE UsedInOrder(t)'
      OBVIOUS
    <3>2. PICK m \in 0..Connections : \A n \in 1..Connections : sock[<<t, n>>].pc # "none" <=> n <= m
      BY DEF RoomInv, SocketFacts, UsedInOrder
    <3>3. \A n \in 1..Connections : sock'[<<t, n>>].pc # "none" <=> n <= m
      BY <1>5, <3>1, <3>2
    <3> QED BY <3>3 DEF UsedInOrder
  <2>2. \A x \in Sockets : SocketSound(x)'
    BY <1>1, <1>2 DEF RoomInv, SocketFacts, SocketSound
  <2>3. MetSound'
    BY <1>0, <1>5 DEF RoomInv, SocketFacts, MetSound
  <2>4. ASSUME NEW t \in Tabs PROVE HeldSound(t)'
    <3>1. CASE t \in cut
      BY <1>c, <3>1 DEF HeldSound
    <3>2. CASE t \notin cut /\ live[t] # 0
      <4>1. Held(t)' = IF s = <<t, live[t]>> THEN k ELSE Held(t)
        BY <1>2, <1>k, <3>2, HeldKnown DEF Held
      <4>2. page'[t] = page[t] /\ live'[t] = live[t] /\ (s = <<t, live[t]>> => k.pc = "on" /\ (k.heard => page[t].hears))
        BY <1>k, <3>2
      <4>3. page[t].open /\ Held(t).pc = "on" /\ (Held(t).heard => page[t].hears)
        BY <3>2, HeldKnown
      <4> QED BY <4>1, <4>2, <4>3 DEF HeldSound
    <3>3. CASE t \notin cut /\ live[t] = 0
      BY <1>k, <3>3 DEF HeldSound
    <3> QED BY <3>1, <3>2, <3>3
  <2> QED BY <2>1, <2>2, <2>3, <2>4 DEF SocketFacts
<1>7. EntryFacts'
  <2>1. \A q \in Pods : \A x \in presence'[q] : x.sock \in Sockets
    BY <1>0, <1>3 DEF Owned
  <2> QED BY <1>3, <1>5, <2>1 DEF EntryFacts, Owned
<1>8. ListedWhenPresent'
  <2> SUFFICES ASSUME NEW q \in Pods, NEW o \in met[q], Alone(q, o)'
               PROVE  Listed(q, sock[o].ws, sock[o].user)' <=> Registers(sock'[o])
    BY DEF ListedWhenPresent
  <2>1. o \in Sockets /\ sock[o].pod = q /\ Alone(q, o)
    <3>1. met[q] \subseteq Sockets
      BY <1>0
    <3>2. sock[o].pod = q
      BY DEF RoomInv, SocketFacts, MetSound
    <3>3. \A x \in met[q] : sock'[x].ws = sock[x].ws /\ sock'[x].user = sock[x].user
      BY <1>5, <3>1
    <3>4. Alone(q, o)
      BY <3>3 DEF Alone
    <3> QED BY <3>1, <3>2, <3>4
  <2>2. CASE o = s
    BY <1>2, <1>3, <2>1, <2>2 DEF ListedBut
  <2>3. CASE o # s
    <3>1. sock'[o] = sock[o]
      BY <1>2, <2>1, <2>3
    <3>2. ~(q = p /\ sock[o].ws = w /\ sock[o].user = u)
      BY <2>1, <2>3 DEF Alone
    <3>3. Listed(q, sock[o].ws, sock[o].user) <=> Registers(sock[o])
      BY <2>1 DEF RoomInv, ListedWhenPresent
    <3> QED BY <1>3, <3>1, <3>2, <3>3 DEF ListedBut
  <2> QED BY <2>2, <2>3
<1>9. ASSUME NEW t \in Tabs \ Listeners PROVE Informed(t)'
  <2>1. CASE t \in cut
    BY <1>c, <2>1 DEF Informed
  <2>2. CASE t \notin cut /\ InRoom(t, p, w)
    BY <1>k, <2>2
  <2>3. CASE t \notin cut /\ ~InRoom(t, p, w) /\ live[t] # 0
    <3>1. <<t, live[t]>> \in Sockets /\ Held(t).pc = "on" /\ Held(t).pod \in Pods /\ (Held(t).pod # p \/ Held(t).ws # w)
      BY <2>3, HeldKnown DEF InRoom
    <3>2. s # <<t, live[t]>>
      BY <3>1 DEF Held
    <3>3. Held(t)' = Held(t)
      BY <1>2, <1>k, <2>3, <3>1, <3>2 DEF Held
    <3>4. ListOf(Held(t).pod, Held(t).ws)' = ListOf(Held(t).pod, Held(t).ws)
      <4>1. PICK q, v : q = Held(t).pod /\ v = Held(t).ws
        OBVIOUS
      <4>2. ListOf(q, v)' = ListOf(q, v)
        BY <1>3, <3>1, <4>1 DEF OtherLists
      <4>3. ListOf(Held(t).pod, Held(t).ws)' = {x \in presence'[q] : x.ws = v}
        BY <3>3, <4>1 DEF ListOf
      <4> QED BY <4>1, <4>2, <4>3 DEF ListOf
    <3>5. Informed(t) /\ Told(inbox'[t], page'[t].users) = Told(inbox[t], page[t].users)
      BY <1>k, <2>3 DEF RoomInv
    <3> QED BY <1>k, <2>3, <3>3, <3>4, <3>5 DEF Informed
  <2>4. CASE t \notin cut /\ live[t] = 0
    BY <1>k, <2>4 DEF Informed
  <2> QED BY <2>1, <2>2, <2>3, <2>4
<1>10. ASSUME NEW t \in Tabs PROVE BaseSound(t)'
  <2>1. CASE t \in cut
    BY <1>c, <2>1 DEF BaseSound
  <2>2. CASE t \notin cut
    <3>1. live[t] # 0 => Held(t)'.ws = Held(t).ws /\ Held(t)'.pod = Held(t).pod
      <4> HAVE live[t] # 0
      <4>1. <<t, live[t]>> \in Sockets
        BY HeldKnown
      <4>2. live'[t] = live[t]
        BY <1>k, <2>2
      <4> QED BY <1>5, <4>1, <4>2 DEF Held
    <3> QED BY <1>k, <2>2, <3>1, BaseKept DEF RoomInv
  <2> QED BY <2>1, <2>2
<1>11. StoredFacts'
  BY DEF RoomInv, StoredFacts, workVars
<1>12. \A t \in Tabs : HasLast(inbox'[t])
  <2>1. HasLast(<<>>)
    BY DEF HasLast, ListsIn
  <2> QED BY <1>c, <1>k, <2>1
<1> QED BY <1>4, <1>6, <1>7, <1>8, <1>9, <1>10, <1>11, <1>12 DEF RoomInv

\* What the tabs are told by a broadcast of the list E of w at p.
TellsList(new, p, w, E) ==
    \A t \in Tabs : \A users : Told(new[t], users) = IF InRoom(t, p, w) THEN {x \in E : x.ws = w} ELSE Told(inbox[t], users)
KeepsEvents(new) == \A t \in Tabs : HasLast(new[t]) /\ ToSet(inbox[t]) \subseteq ToSet(new[t])

LEMMA ListTold ==
    ASSUME RoomInv, NEW p, NEW w, NEW E \in SUBSET Present, NEW new, new = Emitted(inbox, p, w, List(E, w))
    PROVE  new \in [Tabs -> Seq(Events)] /\ KeepsEvents(new) /\ TellsList(new, p, w, E)
<1> DEFINE e == List(E, w)
<1>0. inbox \in [Tabs -> Seq(Events)] /\ \A t \in Tabs : HasLast(inbox[t])
  BY DEF RoomInv, RoomTypeOK
<1>1. e \in Events /\ e.type = "presence" /\ e.users = {x \in E : x.ws = w}
  <2>1. {x \in E : x.ws = w} \in SUBSET Present
    OBVIOUS
  <2> QED BY <2>1 DEF List, Events
<1> HIDE DEF e
<1>2. new \in [Tabs -> Seq(Events)] /\ \A t \in Tabs : new[t] = IF InRoom(t, p, w) THEN Append(inbox[t], e) ELSE inbox[t]
  BY <1>0, <1>1, EmittedTo DEF e
<1>3. ASSUME NEW old \in Seq(Events), HasLast(old), NEW users
      PROVE  /\ HasLast(Append(old, e)) /\ Told(Append(old, e), users) = e.users
             /\ ToSet(Append(old, e)) = ToSet(old) \cup {e}
  BY <1>1, <1>3, ToldAppend
<1>4. ASSUME NEW t \in Tabs, InRoom(t, p, w), NEW users
      PROVE  HasLast(new[t]) /\ Told(new[t], users) = e.users /\ ToSet(new[t]) = ToSet(inbox[t]) \cup {e}
  <2>1. inbox[t] \in Seq(Events) /\ HasLast(inbox[t]) /\ new[t] = Append(inbox[t], e)
    BY <1>0, <1>2, <1>4
  <2> QED BY <1>3, <2>1
<1>5. ASSUME NEW t \in Tabs, ~InRoom(t, p, w) PROVE new[t] = inbox[t] /\ HasLast(inbox[t])
  BY <1>0, <1>2, <1>5
<1> QED BY <1>1, <1>2, <1>4, <1>5 DEF KeepsEvents, TellsList

\* A socket that is connected or registers is known to its pod, and the
\* entries of its key are those of its user in its workspace.
LEMMA EntryOfKnown ==
    ASSUME RoomInv, NEW s \in Sockets, sock[s].pc = "on" \/ sock[s].reg = "asking"
    PROVE  LET k == sock[s] IN
           /\ k \in SocketStates /\ k.pc # "none" /\ k.pod \in Pods /\ k.ws \in Workspaces /\ k.user \in Identities
           /\ s \in met[k.pod] /\ (k.pc = "on" => ~k.late)
           /\ presence[k.pod] \in SUBSET Present
           /\ EntryOf(s) \in SUBSET Present /\ OwnedBy(EntryOf(s), k.pod, k.ws, k.user)
           /\ EntryOf(s) # {} <=> Listed(k.pod, k.ws, k.user)
           /\ Alone(k.pod, s) => (EntryOf(s) # {} <=> Registers(k))
<1> DEFINE k == sock[s]
<1>1. SocketSound(s) /\ k \in SocketStates /\ presence \in [Pods -> SUBSET Present]
  BY DEF RoomInv, SocketFacts, RoomTypeOK
<1>2. k.pc # "none" /\ k.pod \in Pods /\ k.ws \in Workspaces /\ k.user \in Identities /\ s \in met[k.pod] /\ (k.pc = "on" => ~k.late)
  BY <1>1 DEF SocketSound, Gone, SocketStates
<1>3. \A x \in presence[k.pod] :
          x.key = Key(x.ws, x.user) /\ x.sock \in met[k.pod] /\ sock[x.sock].ws = x.ws /\ sock[x.sock].user = x.user
  BY <1>2 DEF RoomInv, EntryFacts
<1>4. \A x : x \in EntryOf(s) <=> x \in presence[k.pod] /\ x.ws = k.ws /\ x.user = k.user
  BY <1>3 DEF EntryOf, Key
<1>5. OwnedBy(EntryOf(s), k.pod, k.ws, k.user)
  BY <1>3, <1>4 DEF OwnedBy
<1>6. EntryOf(s) # {} <=> Listed(k.pod, k.ws, k.user)
  BY <1>4 DEF Listed
<1>7. Alone(k.pod, s) => (Listed(k.pod, k.ws, k.user) <=> Registers(k))
  BY <1>2 DEF RoomInv, ListedWhenPresent
<1>8. presence[k.pod] \in SUBSET Present /\ EntryOf(s) \in SUBSET Present
  BY <1>1, <1>2 DEF EntryOf
<1> QED BY <1>1, <1>2, <1>5, <1>6, <1>7, <1>8

\* The same, where the list is broadcast and no tab is cut.
LEMMA BroadcastStep ==
    ASSUME RoomInv, NEW s \in Sockets, NEW k \in SocketStates, NEW p, NEW w, NEW u, NEW N \in SUBSET Present,
           sock[s].pc = "on" \/ sock[s].reg = "asking",
           p = sock[s].pod, w = sock[s].ws, u = sock[s].user,
           sock' = [sock EXCEPT ![s] = k],
           k.pc # "none", k.pod = p, k.ws = w, k.user = u, k.pc = "on" => ~k.late,
           s = <<s[1], live[s[1]]>> => k.pc = "on" /\ (k.heard => page[s[1]].hears),
           OwnedBy(N, p, w, u),
           PresenceBecomes(p, w, Entered(presence[p], w, u, N)),
           Alone(p, s) => (N # {} <=> Registers(k)),
           UNCHANGED <<authVars, stored, tabVars, workVars, met>>
    PROVE  RoomInv'
<1> DEFINE E == Entered(presence[p], w, u, N)
<1>0. s \in met[p] /\ p \in Pods /\ w \in Workspaces
  BY EntryOfKnown
<1>1. presence' = [presence EXCEPT ![p] = E] /\ inbox' = Emitted(inbox, p, w, List(E, w)) /\ E \in SUBSET Present /\ presence'[p] = E
  <2>1. presence \in [Pods -> SUBSET Present]
    BY DEF RoomInv, RoomTypeOK
  <2> QED BY <1>0, <2>1 DEF PresenceBecomes, Entered
<1> HIDE DEF E
<1>2. inbox' \in [Tabs -> Seq(Events)] /\ KeepsEvents(inbox') /\ TellsList(inbox', p, w, E)
  BY <1>1, ListTold
<1>3. ASSUME NEW t \in Tabs PROVE TabKept(t, s, k, p, w)
  <2>1. s = <<t, live[t]>> => s[1] = t
    OBVIOUS
  <2>2. ASSUME InRoom(t, p, w) PROVE Informed(t)'
    <3> SUFFICES ASSUME ~Adapter PROVE Informed(t)'
      BY DEF Informed
    <3>1. Told(inbox'[t], page'[t].users) = {x \in presence'[p] : x.ws = w}
      BY <1>1, <1>2, <2>2 DEF TellsList
    <3>2. <<t, live[t]>> \in Sockets
      BY <2>2, HeldKnown DEF InRoom
    <3>3. Held(t)'.pod = p /\ Held(t)'.ws = w
      <4>1. sock'[<<t, live[t]>>] = IF s = <<t, live[t]>> THEN k ELSE Held(t)
        BY <3>2 DEF RoomInv, RoomTypeOK, Held
      <4> QED BY <2>2, <4>1 DEF InRoom, Held, tabVars
    <3>4. ListOf(Held(t).pod, Held(t).ws)' = {x \in presence'[p] : x.ws = w}
      BY <3>3 DEF ListOf
    <3> QED BY <3>1, <3>4 DEF Informed
  <2> QED BY <1>2, <2>1, <2>2 DEF TabKept, KeepsEvents, TellsList, tabVars
<1>4. /\ live' \in [Tabs -> 0..Connections] /\ page' \in [Tabs -> Pages] /\ base' \in [Tabs -> {None} \cup SUBSET Messages]
      /\ UNCHANGED <<authVars, stored, workVars, met>>
  BY DEF RoomInv, RoomTypeOK, tabVars
<1>5. presence' = [presence EXCEPT ![p] = Entered(presence[p], w, u, N)]
  BY <1>1 DEF E
<1> DEFINE cut == {}
<1>7. cut \in SUBSET Tabs /\ \A t \in Tabs : t \notin cut
  OBVIOUS
<1>8. \A t \in cut : CutOff(t)
  OBVIOUS
<1> HIDE DEF cut
<1> QED BY <1>0, <1>2, <1>3, <1>4, <1>5, <1>7, <1>8, PresenceStep

LEMMA SocketOfTab == \A s \in Sockets : s = <<s[1], s[2]>> /\ s[1] \in Tabs /\ s[2] \in 1..Connections
BY DEF Sockets

LEMMA JoinStep ==
    ASSUME RoomInv, NEW s \in Sockets, Join(s)
    PROVE  RoomInv'
<1> DEFINE old == sock[s]
           k == [old EXCEPT !.reg = "done", !.late = (old.pc # "on"), !.heard = page[s[1]].hears]
           x == [key |-> Key(old.ws, old.user), ws |-> old.ws, user |-> old.user, sock |-> s, activity |-> "idle", cursor |-> None]
           N == {x}
<1>1. old.reg = "asking" /\ page[s[1]].hears \in BOOLEAN
  BY SocketOfTab DEF Join, RoomInv, RoomTypeOK, Pages
<1>2. /\ old \in SocketStates /\ old.pc # "none" /\ old.pod \in Pods /\ old.ws \in Workspaces /\ old.user \in Identities
      /\ s \in met[old.pod]
  BY <1>1, EntryOfKnown
<1>3. /\ k \in SocketStates /\ k.pc = old.pc /\ k.pod = old.pod /\ k.ws = old.ws /\ k.user = old.user
      /\ k.late = (old.pc # "on") /\ k.heard = page[s[1]].hears /\ Registers(k)
  BY <1>1, <1>2 DEF SocketStates, Registers
<1>4. N \in SUBSET Present /\ N # {} /\ OwnedBy(N, old.pod, old.ws, old.user)
  <2>1. x \in Present
    BY <1>2 DEF Present, Key, Activities
  <2> QED BY <1>2, <2>1 DEF OwnedBy
<1>5. sock' = [sock EXCEPT ![s] = k]
  BY DEF Join, RoomInv, RoomTypeOK
<1>6. PresenceBecomes(old.pod, old.ws, Entered(presence[old.pod], old.ws, old.user, N))
  BY DEF Join
<1>7. s = <<s[1], live[s[1]]>> => old.pc = "on"
  <2>1. s = <<s[1], live[s[1]]>> => s[1] \in Tabs /\ live[s[1]] # 0
    BY SocketOfTab, BoundAssumption
  <2> QED BY <2>1, HeldKnown DEF Held
<1>8. UNCHANGED <<authVars, stored, tabVars, workVars, met>>
  BY DEF Join
<1> HIDE DEF k, x, N
<1>9. PICK p, w, u : p = old.pod /\ w = old.ws /\ u = old.user
  OBVIOUS
<1>10. /\ k.pc # "none" /\ k.pod = p /\ k.ws = w /\ k.user = u /\ (k.pc = "on" => ~k.late)
       /\ s = <<s[1], live[s[1]]>> => k.pc = "on" /\ (k.heard => page[s[1]].hears)
       /\ Alone(p, s) => (N # {} <=> Registers(k))
       /\ OwnedBy(N, p, w, u) /\ PresenceBecomes(p, w, Entered(presence[p], w, u, N))
  BY <1>2, <1>3, <1>4, <1>6, <1>7, <1>9
<1> QED BY <1>1, <1>3, <1>4, <1>5, <1>8, <1>9, <1>10, BroadcastStep

LEMMA ActStep ==
    ASSUME RoomInv, NEW s \in Sockets, NEW activity \in Activities, Act(s, activity)
    PROVE  RoomInv'
<1> DEFINE k == sock[s]
           N == {[x EXCEPT !.activity = activity] : x \in EntryOf(s)}
<1>1. k.pc = "on" /\ live[s[1]] = s[2] /\ EntryOf(s) # {}
  BY DEF Act
<1>2. /\ k \in SocketStates /\ EntryOf(s) \in SUBSET Present /\ OwnedBy(EntryOf(s), k.pod, k.ws, k.user)
      /\ k.pc # "none" /\ ~k.late
      /\ Alone(k.pod, s) => (EntryOf(s) # {} <=> Registers(k))
  BY <1>1, EntryOfKnown
<1>3. N \in SUBSET Present /\ N # {} /\ OwnedBy(N, k.pod, k.ws, k.user)
  <2>1. \A x \in EntryOf(s) : LET y == [x EXCEPT !.activity = activity]
                              IN  y \in Present /\ y.key = x.key /\ y.ws = x.ws /\ y.user = x.user /\ y.sock = x.sock
    BY <1>2 DEF Present
  <2>2. N \in SUBSET Present /\ N # {}
    BY <1>1, <2>1
  <2>3. \A y \in N : \E x \in EntryOf(s) : y.key = x.key /\ y.ws = x.ws /\ y.user = x.user /\ y.sock = x.sock
    BY <2>1
  <2> HIDE DEF N
  <2>4. OwnedBy(N, k.pod, k.ws, k.user)
    BY <1>2, <2>3 DEF OwnedBy
  <2> QED BY <2>2, <2>4
<1>4. sock' = [sock EXCEPT ![s] = k]
  BY DEF Act, RoomInv, RoomTypeOK
<1>5. PresenceBecomes(k.pod, k.ws, Entered(presence[k.pod], k.ws, k.user, N))
  BY DEF Act
<1>6. k.heard => page[s[1]].hears
  <2>1. s = <<s[1], live[s[1]]>> /\ s[1] \in Tabs /\ live[s[1]] # 0
    BY <1>1, SocketOfTab, BoundAssumption
  <2> QED BY <2>1, HeldKnown DEF Held
<1>7. UNCHANGED <<authVars, stored, tabVars, workVars, met>>
  BY DEF Act
<1> HIDE DEF N
<1>8. PICK p, w, u, j : p = k.pod /\ w = k.ws /\ u = k.user /\ j = k
  OBVIOUS
<1> QED BY <1>1, <1>2, <1>3, <1>4, <1>5, <1>6, <1>7, <1>8, BroadcastStep

LEMMA DisconnectStep ==
    ASSUME RoomInv, NEW s \in Sockets, Disconnect(s)
    PROVE  RoomInv'
<1> DEFINE old == sock[s]
           k == [old EXCEPT !.pc = "off"]
           N == {}
<1>1. old.pc = "on" /\ live[s[1]] # s[2]
  BY DEF Disconnect
<1>2. old \in SocketStates /\ ~old.late
  BY <1>1, EntryOfKnown
<1>3. k \in SocketStates /\ k.pc = "off" /\ k.pod = old.pod /\ k.ws = old.ws /\ k.user = old.user /\ ~k.late
  BY <1>2 DEF SocketStates
<1>4. N \in SUBSET Present /\ N = {} /\ OwnedBy(N, old.pod, old.ws, old.user) /\ ~Registers(k)
  BY <1>3 DEF OwnedBy, Registers
<1>5. sock' = [sock EXCEPT ![s] = k]
  BY DEF Disconnect, RoomInv, RoomTypeOK
<1>6. PresenceBecomes(old.pod, old.ws, Entered(presence[old.pod], old.ws, old.user, N))
  BY DEF Disconnect
<1>7. s # <<s[1], live[s[1]]>>
  BY <1>1, SocketOfTab
<1>8. UNCHANGED <<authVars, stored, tabVars, workVars, met>>
  BY DEF Disconnect
<1> HIDE DEF k, N
<1>9. PICK p, w, u : p = old.pod /\ w = old.ws /\ u = old.user
  OBVIOUS
<1> QED BY <1>1, <1>2, <1>3, <1>4, <1>5, <1>6, <1>7, <1>8, <1>9, BroadcastStep

LEMMA JoinFailsStep ==
    ASSUME RoomInv, NEW s \in Sockets, JoinFails(s)
    PROVE  RoomInv'
<1> DEFINE old == sock[s]
           k == [old EXCEPT !.reg = "failed"]
           N == EntryOf(s)
<1>1. old.reg = "asking"
  BY DEF JoinFails
<1>2. /\ old \in SocketStates /\ old.pc # "none" /\ old.pod \in Pods /\ (old.pc = "on" => ~old.late)
      /\ s \in met[old.pod]
      /\ N \in SUBSET Present /\ OwnedBy(N, old.pod, old.ws, old.user)
      /\ Alone(old.pod, s) => (N # {} <=> Registers(old))
  BY <1>1, EntryOfKnown
<1>3. /\ k \in SocketStates /\ k.pc = old.pc /\ k.pod = old.pod /\ k.ws = old.ws /\ k.user = old.user
      /\ k.late = old.late /\ k.heard = old.heard /\ k.reg = "failed" /\ ~Registers(k) /\ ~Registers(old)
  BY <1>1, <1>2 DEF SocketStates, Registers
<1>4. sock' = [sock EXCEPT ![s] = k]
  BY DEF JoinFails, RoomInv, RoomTypeOK
<1>5. UNCHANGED <<authVars, stored, workVars, met, live, page, base, inbox, presence>>
  BY DEF JoinFails, tabVars
<1>6. presence' = [presence EXCEPT ![old.pod] = Entered(presence[old.pod], old.ws, old.user, N)]
  <2>1. Entered(presence[old.pod], old.ws, old.user, N) = presence[old.pod]
    BY DEF Entered, EntryOf
  <2> QED BY <1>2, <1>5, <2>1 DEF RoomInv, RoomTypeOK
<1>7. ASSUME NEW t \in Tabs PROVE TabKept(t, s, k, old.pod, old.ws)
  <2>1. s = <<t, live[t]>> => k.pc = "on" /\ (k.heard => page[t].hears)
    <3>1. s = <<t, live[t]>> => live[t] # 0
      BY SocketOfTab, BoundAssumption
    <3> QED BY <1>3, <3>1, HeldKnown DEF Held
  <2>2. ASSUME t \notin Listeners, InRoom(t, old.pod, old.ws) PROVE Informed(t)'
    <3>1. <<t, live[t]>> \in Sockets
      BY <2>2, HeldKnown DEF InRoom
    <3>2. CASE s = <<t, live[t]>>
      <4>1. Held(t)' = k
        BY <1>2, <1>4, <1>5, <3>1, <3>2 DEF Held, RoomInv, RoomTypeOK
      <4> QED BY <1>3, <4>1 DEF Informed
    <3>3. CASE s # <<t, live[t]>>
      <4>1. Held(t)' = Held(t)
        BY <1>4, <1>5, <3>1, <3>3 DEF Held, RoomInv, RoomTypeOK
      <4> QED BY <1>5, <2>2, <4>1 DEF RoomInv, Informed, ListOf
    <3> QED BY <3>2, <3>3
  <2>3. HasLast(inbox[t])
    BY DEF RoomInv
  <2> QED BY <1>5, <2>1, <2>2, <2>3 DEF TabKept
<1>8. /\ live' \in [Tabs -> 0..Connections] /\ inbox' \in [Tabs -> Seq(Events)] /\ page' \in [Tabs -> Pages]
      /\ base' \in [Tabs -> {None} \cup SUBSET Messages]
  BY <1>5 DEF RoomInv, RoomTypeOK
<1> HIDE DEF k, N
<1>9. PICK p, w, u, cut : p = old.pod /\ w = old.ws /\ u = old.user /\ cut = {}
  OBVIOUS
<1>10. /\ k.pc # "none" /\ k.pod = p /\ k.ws = w /\ k.user = u /\ (k.pc = "on" => ~k.late)
       /\ Alone(p, s) => (N # {} <=> Registers(k))
       /\ OwnedBy(N, p, w, u) /\ s \in met[p] /\ p \in Pods
       /\ presence' = [presence EXCEPT ![p] = Entered(presence[p], w, u, N)]
       /\ cut \in SUBSET Tabs /\ (\A t \in cut : CutOff(t)) /\ \A t \in Tabs \ cut : TabKept(t, s, k, p, w)
  BY <1>2, <1>3, <1>6, <1>7, <1>9
<1> QED BY <1>2, <1>3, <1>4, <1>5, <1>8, <1>9, <1>10, PresenceStep, ZenonT(60)

LEMMA MoveCursorStep ==
    ASSUME RoomInv, NEW s \in Sockets, NEW m \in Posts, MoveCursor(s, m)
    PROVE  RoomInv'
<1> DEFINE k == sock[s]
           N == {[x EXCEPT !.cursor = m] : x \in EntryOf(s)}
           e == [type |-> "cursor", user |-> k.user, message |-> m]
           others == Emitted(inbox, k.pod, k.ws, e)
<1>1. k.pc = "on" /\ live[s[1]] = s[2] /\ EntryOf(s) # {}
  BY DEF MoveCursor
<1>2. /\ k \in SocketStates /\ k.pc # "none" /\ k.pod \in Pods /\ (k.pc = "on" => ~k.late) /\ s \in met[k.pod] /\ k.user \in Identities
      /\ k.ws \in Workspaces /\ presence[k.pod] \in SUBSET Present
      /\ EntryOf(s) \in SUBSET Present /\ OwnedBy(EntryOf(s), k.pod, k.ws, k.user)
      /\ Alone(k.pod, s) => (EntryOf(s) # {} <=> Registers(k))
  BY <1>1, EntryOfKnown
<1>a. \A x \in EntryOf(s) : LET y == [x EXCEPT !.cursor = m]
                            IN  /\ y \in Present /\ y.key = x.key /\ y.ws = x.ws /\ y.user = x.user /\ y.sock = x.sock
                                /\ [y EXCEPT !.cursor = None] = [x EXCEPT !.cursor = None]
  BY <1>2 DEF Present
<1>3. N \in SUBSET Present /\ N # {} /\ OwnedBy(N, k.pod, k.ws, k.user)
  <2>1. N \in SUBSET Present
    BY <1>a
  <2>2. N # {}
    BY <1>1
  <2>3. \A y \in N : \E x \in EntryOf(s) : y.key = x.key /\ y.ws = x.ws /\ y.user = x.user /\ y.sock = x.sock
    BY <1>a, ZenonT(60)
  <2> HIDE DEF N
  <2>4. OwnedBy(N, k.pod, k.ws, k.user)
    BY <1>2, <2>3 DEF OwnedBy
  <2> QED BY <2>1, <2>2, <2>4
<1>4. UNCHANGED <<authVars, stored, sock, workVars, met, live, page, base>>
  BY DEF MoveCursor, tabVars
<1>5. sock' = [sock EXCEPT ![s] = k]
  BY <1>4 DEF RoomInv, RoomTypeOK
<1>6. presence' = [presence EXCEPT ![k.pod] = Entered(presence[k.pod], k.ws, k.user, N)]
  BY DEF MoveCursor
<1>7. WithoutCursor(ListOf(k.pod, k.ws)') = WithoutCursor(ListOf(k.pod, k.ws))
  <2> DEFINE E == Entered(presence[k.pod], k.ws, k.user, N)
  <2>1. ListOf(k.pod, k.ws)' = {x \in E : x.ws = k.ws}
    <3>1. presence'[k.pod] = E
      BY <1>2, <1>6 DEF RoomInv, RoomTypeOK
    <3>2. sock'[s] = k
      BY <1>4
    <3> QED BY <3>1, <3>2 DEF ListOf
  <2>2. \A x : x \in E <=> (x \in presence[k.pod] /\ x \notin EntryOf(s)) \/ x \in N
    BY DEF Entered, EntryOf
  <2> HIDE DEF E
  <2>3. \A x \in EntryOf(s) : x \in presence[k.pod] /\ x.ws = k.ws
    BY <1>2 DEF EntryOf, OwnedBy
  <2>4. ASSUME NEW z \in WithoutCursor({x \in E : x.ws = k.ws}) PROVE z \in WithoutCursor(ListOf(k.pod, k.ws))
    <3>1. PICK x \in E : x.ws = k.ws /\ z = [x EXCEPT !.cursor = None]
      BY DEF WithoutCursor
    <3>2. CASE x \in N
      <4>1. PICK y \in EntryOf(s) : x = [y EXCEPT !.cursor = m]
        BY <3>2
      <4>2. z = [y EXCEPT !.cursor = None]
        BY <1>a, <3>1, <4>1
      <4> QED BY <2>3, <4>2 DEF WithoutCursor, ListOf
    <3>3. CASE x \notin N
      BY <2>2, <3>1, <3>3 DEF WithoutCursor, ListOf
    <3> QED BY <3>2, <3>3
  <2>5. ASSUME NEW z \in WithoutCursor(ListOf(k.pod, k.ws)) PROVE z \in WithoutCursor({x \in E : x.ws = k.ws})
    <3>1. PICK x \in presence[k.pod] : x.ws = k.ws /\ z = [x EXCEPT !.cursor = None]
      BY DEF WithoutCursor, ListOf
    <3>2. CASE x \in EntryOf(s)
      <4> DEFINE y == [x EXCEPT !.cursor = m]
      <4>1. y \in N /\ y.ws = x.ws /\ z = [y EXCEPT !.cursor = None]
        BY <1>a, <3>1, <3>2
      <4> HIDE DEF y, N
      <4> QED BY <2>2, <3>1, <4>1 DEF WithoutCursor
    <3>3. CASE x \notin EntryOf(s)
      BY <2>2, <3>1, <3>3 DEF WithoutCursor
    <3> QED BY <3>2, <3>3
  <2> QED BY <2>1, <2>4, <2>5
<1>8. /\ inbox' \in [Tabs -> Seq(Events)] /\ SameNews(inbox, inbox')
      /\ \A t \in Tabs : HasLast(inbox'[t]) /\ ToSet(inbox[t]) \subseteq ToSet(inbox'[t])
  <2>1. inbox \in [Tabs -> Seq(Events)] /\ \A t \in Tabs : HasLast(inbox[t])
    BY DEF RoomInv, RoomTypeOK
  <2>2. e \in Events /\ e.type # "presence"
    BY <1>2 DEF Events
  <2>3. PICK new, p, w : new = others /\ p = k.pod /\ w = k.ws
    OBVIOUS
  <2>4. inbox' = [new EXCEPT ![s[1]] = inbox[s[1]]]
    BY <2>3 DEF MoveCursor
  <2> HIDE DEF e, others
  <2>5. /\ new \in [Tabs -> Seq(Events)] /\ SameNews(inbox, new)
        /\ \A t \in Tabs : HasLast(new[t]) /\ ToSet(inbox[t]) \subseteq ToSet(new[t])
    <3>1. new = Emitted(inbox, p, w, e)
      BY <2>3 DEF others
    <3> QED BY <2>1, <2>2, <3>1, OtherEvent
  <2>6. \A t \in Tabs : inbox'[t] = IF t = s[1] THEN inbox[t] ELSE new[t]
    BY <2>4, <2>5
  <2>7. inbox' \in [Tabs -> Seq(Events)]
    BY <2>1, <2>4, <2>5
  <2> QED BY <2>1, <2>5, <2>6, <2>7 DEF SameNews
<1>9. ASSUME NEW t \in Tabs PROVE TabKept(t, s, k, k.pod, k.ws)
  <2>1. s = <<t, live[t]>> => k.pc = "on" /\ (k.heard => page[t].hears)
    <3>1. s = <<t, live[t]>> => live[t] # 0
      BY SocketOfTab, BoundAssumption
    <3> QED BY <1>1, <3>1, HeldKnown DEF Held
  <2>2. ASSUME t \notin Listeners, InRoom(t, k.pod, k.ws) PROVE Informed(t)'
    <3> SUFFICES ASSUME ~Adapter PROVE Informed(t)'
      BY DEF Informed
    <3>1. Held(t)' = Held(t) /\ Held(t).pod = k.pod /\ Held(t).ws = k.ws
      BY <1>4, <2>2 DEF InRoom, Held
    <3>2. WithoutCursor(ListOf(Held(t).pod, Held(t).ws)') = WithoutCursor(ListOf(Held(t).pod, Held(t).ws))
      BY <1>7, <3>1, <1>4 DEF ListOf
    <3>3. Informed(t)
      BY <2>2 DEF RoomInv
    <3> QED BY <1>4, <1>8, <3>1, <3>2, <3>3 DEF Informed, SameNews
  <2> QED BY <1>4, <1>8, <2>1, <2>2 DEF TabKept, SameNews
<1>10. /\ live' \in [Tabs -> 0..Connections] /\ page' \in [Tabs -> Pages]
       /\ base' \in [Tabs -> {None} \cup SUBSET Messages]
  BY <1>4 DEF RoomInv, RoomTypeOK
<1> HIDE DEF N, e, others
<1>11. PICK p, w, u, j, cut : p = k.pod /\ w = k.ws /\ u = k.user /\ j = k /\ cut = {}
  OBVIOUS
<1>12. /\ j \in SocketStates /\ j.pc # "none" /\ j.pod = p /\ j.ws = w /\ j.user = u /\ (j.pc = "on" => ~j.late)
       /\ Alone(p, s) => (N # {} <=> Registers(j))
       /\ OwnedBy(N, p, w, u) /\ s \in met[p] /\ p \in Pods
       /\ presence' = [presence EXCEPT ![p] = Entered(presence[p], w, u, N)]
       /\ cut \in SUBSET Tabs /\ (\A t \in cut : CutOff(t)) /\ \A t \in Tabs \ cut : TabKept(t, s, j, p, w)
       /\ sock' = [sock EXCEPT ![s] = j]
       /\ UNCHANGED <<authVars, stored, workVars, met>>
       /\ p = sock[s].pod /\ w = sock[s].ws /\ u = sock[s].user
  BY <1>1, <1>2, <1>3, <1>4, <1>5, <1>6, <1>9, <1>11
<1>13. N \in SUBSET Present /\ inbox' \in [Tabs -> Seq(Events)]
  BY <1>3, <1>8
<1> HIDE DEF k
<1> QED BY <1>10, <1>12, <1>13, PresenceStep

LEMMA ExpiredIsPage == \A P \in Pages : [P EXCEPT !.expired = TRUE] \in Pages
BY DEF Pages

LEMMA RecheckStep ==
    ASSUME RoomInv, NEW t \in Tabs, Recheck(t)
    PROVE  RoomInv'
<1> DEFINE s == <<t, live[t]>>
           old == sock[s]
           k == [old EXCEPT !.pc = "off"]
           E == Entered(presence[old.pod], old.ws, old.user, {})
<1>0. live[t] # 0 /\ old.pc = "on" /\ s \in Sockets
  BY HeldKnown DEF Recheck
<1>1. /\ old \in SocketStates /\ old.pod \in Pods /\ ~old.late /\ s \in met[old.pod] /\ presence[old.pod] \in SUBSET Present
  BY <1>0, EntryOfKnown
<1>2. k \in SocketStates /\ k.pc = "off" /\ k.pod = old.pod /\ k.ws = old.ws /\ k.user = old.user /\ ~k.late /\ ~Registers(k)
  BY <1>1 DEF SocketStates, Registers
<1>3. OwnedBy({}, old.pod, old.ws, old.user)
  BY DEF OwnedBy
<1>4. sock' = [sock EXCEPT ![s] = k]
  BY DEF Recheck, RoomInv, RoomTypeOK
<1>5. presence' = [presence EXCEPT ![old.pod] = E] /\ presence'[old.pod] = E /\ E \in SUBSET Present
  BY <1>1 DEF Recheck, RoomInv, RoomTypeOK, Entered
<1>6. PICK new, p, w, u, j, cut : /\ new = Emitted(inbox, old.pod, old.ws, List(E, old.ws))
                                  /\ p = old.pod /\ w = old.ws /\ u = old.user /\ j = k /\ cut = {t}
  OBVIOUS
<1>7. inbox' = [new EXCEPT ![t] = <<>>]
  BY <1>5, <1>6 DEF Recheck
<1>8. new \in [Tabs -> Seq(Events)] /\ KeepsEvents(new) /\ TellsList(new, p, w, E)
  BY <1>5, <1>6, ListTold
<1>9. inbox' \in [Tabs -> Seq(Events)] /\ \A x \in Tabs : inbox'[x] = IF x = t THEN <<>> ELSE new[x]
  BY <1>7, <1>8
<1>10. /\ live \in [Tabs -> 0..Connections] /\ live' = [live EXCEPT ![t] = 0] /\ base' = [base EXCEPT ![t] = None]
       /\ page' = [page EXCEPT ![t].expired = TRUE]
       /\ base \in [Tabs -> {None} \cup SUBSET Messages] /\ page \in [Tabs -> Pages]
  BY DEF Recheck, RoomInv, RoomTypeOK
<1>11. /\ live' \in [Tabs -> 0..Connections] /\ base' \in [Tabs -> {None} \cup SUBSET Messages]
       /\ \A x \in Tabs : live'[x] = (IF x = t THEN 0 ELSE live[x]) /\ base'[x] = IF x = t THEN None ELSE base[x]
  BY <1>10, BoundAssumption
<1>12. page' \in [Tabs -> Pages] /\ \A x \in Tabs \ {t} : page'[x] = page[x]
  <2>1. [page[t] EXCEPT !.expired = TRUE] \in Pages
    <3>1. page[t] \in Pages
      BY <1>10
    <3> QED BY <3>1, ExpiredIsPage
  <2> QED BY <1>10, <2>1
<1>13. \A x \in cut : CutOff(x)
  BY <1>6, <1>9, <1>11 DEF CutOff
<1>14. ASSUME NEW x \in Tabs \ cut PROVE TabKept(x, s, j, p, w)
  <2>0. x # t
    BY <1>6
  <2>1. live'[x] = live[x] /\ page'[x] = page[x] /\ base'[x] = base[x] /\ inbox'[x] = new[x] /\ s # <<x, live[x]>>
    BY <1>9, <1>11, <1>12, <2>0
  <2>2. ASSUME InRoom(x, p, w) PROVE Informed(x)'
    <3> SUFFICES ASSUME ~Adapter PROVE Informed(x)'
      BY DEF Informed
    <3>1. Told(inbox'[x], page'[x].users) = {y \in presence'[p] : y.ws = w}
      BY <1>5, <1>6, <1>8, <2>1, <2>2, ZenonT(60) DEF TellsList
    <3>2. Held(x)'.pod = p /\ Held(x)'.ws = w
      <4>1. <<x, live[x]>> \in Sockets
        BY <2>2, HeldKnown DEF InRoom
      <4>2. sock'[<<x, live[x]>>] = Held(x)
        BY <1>4, <2>1, <4>1 DEF RoomInv, RoomTypeOK, Held
      <4> QED BY <2>1, <2>2, <4>2 DEF InRoom, Held
    <3>3. ListOf(Held(x).pod, Held(x).ws)' = {y \in presence'[p] : y.ws = w}
      BY <3>2 DEF ListOf
    <3> QED BY <3>1, <3>3, SMTT(60) DEF Informed
  <2> QED BY <1>8, <2>1, <2>2 DEF TabKept, KeepsEvents, TellsList
<1>15. UNCHANGED <<authVars, stored, workVars, met>>
  BY DEF Recheck
<1> HIDE DEF k, E
<1>16. PICK z, N : z = s /\ N = {}
  OBVIOUS
<1>17. /\ z \in Sockets /\ j \in SocketStates /\ j.pc # "none" /\ j.pod = p /\ j.ws = w /\ j.user = u /\ (j.pc = "on" => ~j.late)
       /\ Alone(p, z) => (N # {} <=> Registers(j))
       /\ N \in SUBSET Present /\ OwnedBy(N, p, w, u) /\ z \in met[p] /\ p \in Pods
       /\ presence' = [presence EXCEPT ![p] = Entered(presence[p], w, u, N)]
       /\ cut \in SUBSET Tabs /\ \A x \in Tabs \ cut : TabKept(x, z, j, p, w)
       /\ sock' = [sock EXCEPT ![z] = j]
       /\ p = sock[z].pod /\ w = sock[z].ws /\ u = sock[z].user
  BY <1>0, <1>1, <1>2, <1>3, <1>4, <1>5, <1>6, <1>14, <1>16 DEF E
<1> HIDE DEF s, old
<1> QED BY <1>9, <1>11, <1>12, <1>13, <1>15, <1>17, PresenceStep

\* One tab changes what it shows, or loses its connection.
LEMMA TabStep ==
    ASSUME RoomInv, NEW t \in Tabs,
           UNCHANGED <<authVars, stored, sock, presence, workVars, met>>,
           live' \in [Tabs -> 0..Connections], inbox' \in [Tabs -> Seq(Events)], page' \in [Tabs -> Pages],
           base' \in [Tabs -> {None} \cup SUBSET Messages],
           \A x \in Tabs \ {t} : live'[x] = live[x] /\ inbox'[x] = inbox[x] /\ page'[x] = page[x] /\ base'[x] = base[x],
           HasLast(inbox'[t]), HeldSound(t)', t \notin Listeners => Informed(t)', BaseSound(t)'
    PROVE  RoomInv'
<1>1. RoomTypeOK'
  BY DEF RoomInv, RoomTypeOK, authVars, workVars
<1>2. \A x \in Tabs : HasLast(inbox'[x])
  BY DEF RoomInv
<1>3. SocketFacts'
  <2>1. \A x \in Tabs : HeldSound(x)'
    <3> SUFFICES ASSUME NEW x \in Tabs, x # t PROVE HeldSound(x)'
      OBVIOUS
    <3>1. HeldSound(x)
      BY DEF RoomInv, SocketFacts
    <3> QED BY <3>1 DEF HeldSound, Held
  <2>2. /\ \A x \in Tabs : UsedInOrder(x)'
        /\ \A s \in Sockets : SocketSound(s)'
        /\ MetSound'
    BY DEF RoomInv, SocketFacts, UsedInOrder, SocketSound, MetSound
  <2> QED BY <2>1, <2>2 DEF SocketFacts
<1>4. EntryFacts' /\ ListedWhenPresent'
  BY DEF RoomInv, EntryFacts, ListedWhenPresent, Alone, Listed
<1>5. \A x \in Tabs \ Listeners : Informed(x)'
  <2> SUFFICES ASSUME NEW x \in Tabs \ Listeners, x # t PROVE Informed(x)'
    OBVIOUS
  <2>1. Informed(x)
    BY DEF RoomInv
  <2> QED BY <2>1, ZenonT(60) DEF Informed, Held, ListOf
<1>6. \A x \in Tabs : BaseSound(x)'
  <2> SUFFICES ASSUME NEW x \in Tabs, x # t PROVE BaseSound(x)'
    OBVIOUS
  <2>1. BaseSound(x)
    BY DEF RoomInv
  <2>2. live'[x] = live[x] /\ page'[x] = page[x] /\ base'[x] = base[x] /\ inbox'[x] = inbox[x]
    OBVIOUS
  <2>3. Held(x)' = Held(x)
    BY <2>2 DEF Held
  <2> QED BY <2>1, <2>2, <2>3, BaseKept
<1>7. StoredFacts'
  BY DEF RoomInv, StoredFacts, workVars
<1> QED BY <1>1, <1>2, <1>3, <1>4, <1>5, <1>6, <1>7 DEF RoomInv

LEMMA DropStep ==
    ASSUME RoomInv, NEW t \in Tabs, Drop(t)
    PROVE  RoomInv'
<1>1. /\ live \in [Tabs -> 0..Connections] /\ live' = [live EXCEPT ![t] = 0] /\ base' = [base EXCEPT ![t] = None]
      /\ inbox' = [inbox EXCEPT ![t] = <<>>] /\ inbox \in [Tabs -> Seq(Events)] /\ page' = page
      /\ base \in [Tabs -> {None} \cup SUBSET Messages] /\ page \in [Tabs -> Pages]
  BY DEF Drop, RoomInv, RoomTypeOK
<1>2. live' \in [Tabs -> 0..Connections] /\ base' \in [Tabs -> {None} \cup SUBSET Messages] /\ inbox' \in [Tabs -> Seq(Events)]
  BY <1>1, BoundAssumption
<1>3. live'[t] = 0 /\ base'[t] = None /\ inbox'[t] = <<>>
  BY <1>1
<1>4. HasLast(inbox'[t]) /\ HeldSound(t)' /\ Informed(t)' /\ BaseSound(t)'
  BY <1>3 DEF HasLast, ListsIn, HeldSound, Informed, BaseSound
<1>5. \A x \in Tabs \ {t} : live'[x] = live[x] /\ inbox'[x] = inbox[x] /\ page'[x] = page[x] /\ base'[x] = base[x]
  BY <1>1
<1>6. UNCHANGED <<authVars, stored, sock, presence, workVars, met>>
  BY DEF Drop
<1> QED BY <1>1, <1>2, <1>4, <1>5, <1>6, TabStep

LEMMA ConnectStep ==
    ASSUME RoomInv, NEW t \in Tabs, NEW p \in Pods, Connect(t, p)
    PROVE  RoomInv'
<1>0. /\ RoomTypeOK /\ SocketFacts /\ EntryFacts /\ sock \in [Sockets -> SocketStates] /\ met \in [Pods -> SUBSET Sockets]
      /\ live \in [Tabs -> 0..Connections] /\ session \in [Browsers -> {None} \cup [user : Users, ws : Workspaces]]
  BY DEF RoomInv, RoomTypeOK
<1>1. PICK m \in 0..Connections : \A i \in 1..Connections : sock[<<t, i>>].pc # "none" <=> i <= m
  BY <1>0 DEF SocketFacts, UsedInOrder
<1> DEFINE n == m + 1
           s == <<t, n>>
<1>2. Cardinality({i \in 1..Connections : sock[<<t, i>>].pc # "none"}) + 1 = n
  <2>1. {i \in 1..Connections : sock[<<t, i>>].pc # "none"} = 1..m
    BY <1>1, BoundAssumption
  <2>2. Cardinality(1..m) = m
    BY FS_Interval
  <2> QED BY <2>1, <2>2
<1>3. PICK who \in Handshake(t) :
          sock' = [sock EXCEPT ![s] = [Gone EXCEPT !.pc = "on", !.pod = p, !.ws = who.ws, !.user = who.user, !.reg = "asking"]]
  BY <1>2 DEF Connect
<1>4. who.ws \in Workspaces /\ who.user \in Identities
  <2>1. CASE t \in Listeners
    BY <1>3, <2>1, RoomAssumption DEF Handshake, Named, Identities
  <2>2. CASE t \notin Listeners
    BY <1>0, <1>3, <2>2 DEF Handshake, Browsers, Identities
  <2> QED BY <2>1, <2>2
<1> DEFINE k == [Gone EXCEPT !.pc = "on", !.pod = p, !.ws = who.ws, !.user = who.user, !.reg = "asking"]
<1>5. /\ k \in SocketStates /\ k.pc = "on" /\ k.pod = p /\ k.ws \in Workspaces /\ k.reg = "asking" /\ ~k.late /\ ~k.heard
      /\ ~Registers(k)
  BY <1>4 DEF Gone, SocketStates, Registers
<1>6. n \in 1..Connections /\ s \in Sockets /\ sock[s].pc = "none" /\ live[t] = 0 /\ page[t].open
  BY <1>1, <1>2, BoundAssumption DEF Connect, Sockets
<1>7. live' = [live EXCEPT ![t] = n] /\ met' = [met EXCEPT ![p] = @ \cup {s}]
  BY <1>2 DEF Connect
<1>8. UNCHANGED <<authVars, stored, presence, inbox, page, base, workVars>>
  BY DEF Connect
<1>9. sock' = [sock EXCEPT ![s] = k]
  BY <1>3
<1> HIDE DEF k
<1>10. sock' \in [Sockets -> SocketStates] /\ \A x \in Sockets : sock'[x] = IF x = s THEN k ELSE sock[x]
  BY <1>0, <1>5, <1>6, <1>9
<1>11. met' \in [Pods -> SUBSET Sockets] /\ \A q \in Pods : met'[q] = IF q = p THEN met[p] \cup {s} ELSE met[q]
  BY <1>0, <1>6, <1>7
<1>12. live' \in [Tabs -> 0..Connections] /\ \A x \in Tabs : live'[x] = IF x = t THEN n ELSE live[x]
  BY <1>0, <1>6, <1>7
<1>13. RoomTypeOK'
  BY <1>0, <1>8, <1>10, <1>11, <1>12 DEF RoomTypeOK, authVars, workVars
<1>14. \A q \in Pods : s \notin met[q]
  BY <1>0, <1>6 DEF SocketFacts, MetSound
<1>15. SocketFacts'
  <2>1. ASSUME NEW x \in Tabs PROVE UsedInOrder(x)'
    <3>1. CASE x = t
      <4>1. n \in 0..Connections /\ \A i \in 1..Connections : i <= n <=> i <= m \/ i = n
        BY <1>6
      <4>2. \A i \in 1..Connections : <<t, i>> \in Sockets /\ (<<t, i>> = s <=> i = n)
        BY DEF Sockets
      <4>3. \A i \in 1..Connections : sock'[<<t, i>>].pc # "none" <=> i <= n
        BY <1>1, <1>5, <1>10, <4>1, <4>2
      <4> HIDE DEF n
      <4> QED BY <3>1, <4>1, <4>3 DEF UsedInOrder
    <3>2. CASE x # t
      <4>1. \A i \in 1..Connections : <<x, i>> \in Sockets /\ <<x, i>> # s
        BY <3>2 DEF Sockets
      <4>2. \A i \in 1..Connections : sock'[<<x, i>>] = sock[<<x, i>>]
        BY <1>10, <4>1
      <4> QED BY <1>0, <4>2 DEF SocketFacts, UsedInOrder
    <3> QED BY <3>1, <3>2
  <2>2. ASSUME NEW x \in Sockets PROVE SocketSound(x)'
    <3>1. CASE x = s
      BY <1>5, <1>10, <1>11, <3>1 DEF SocketSound
    <3>2. CASE x # s
      <4>1. sock'[x] = sock[x]
        BY <1>10, <3>2
      <4>2. SocketSound(x) /\ sock[x] \in SocketStates
        BY <1>0 DEF SocketFacts
      <4>3. sock[x].pc = "on" \/ sock[x].reg = "asking" => sock[x].pod \in Pods
        BY <4>2 DEF SocketSound, Gone
      <4> QED BY <1>11, <4>1, <4>2, <4>3 DEF SocketSound
    <3> QED BY <3>1, <3>2
  <2>3. MetSound'
    <3> SUFFICES ASSUME NEW q \in Pods, NEW x \in met'[q] PROVE sock'[x].pc # "none" /\ sock'[x].pod = q
      BY DEF MetSound
    <3>1. CASE x = s
      BY <1>5, <1>6, <1>10, <1>11, <1>14, <3>1
    <3>2. CASE x # s
      <4>1. x \in met[q] /\ x \in Sockets
        BY <1>0, <1>11, <3>2
      <4> QED BY <1>0, <1>10, <3>2, <4>1 DEF SocketFacts, MetSound
    <3> QED BY <3>1, <3>2
  <2>4. ASSUME NEW x \in Tabs PROVE HeldSound(x)'
    <3>1. CASE x = t
      <4>1. Held(x)' = k
        BY <1>6, <1>10, <1>12, <3>1 DEF Held
      <4> QED BY <1>5, <1>6, <1>8, <3>1, <4>1 DEF HeldSound
    <3>2. CASE x # t
      <4>1. live'[x] = live[x] /\ page' = page
        BY <1>8, <1>12, <3>2
      <4>2. live[x] # 0 => Held(x)' = Held(x)
        BY <1>10, <3>2, <4>1, HeldKnown DEF Held
      <4>3. HeldSound(x)
        BY <1>0 DEF SocketFacts
      <4> QED BY <4>1, <4>2, <4>3 DEF HeldSound
    <3> QED BY <3>1, <3>2
  <2> QED BY <2>1, <2>2, <2>3, <2>4 DEF SocketFacts
<1>16. \A x \in Tabs \ {t} : live'[x] = live[x] /\ (live[x] # 0 => Held(x)' = Held(x))
  BY <1>10, <1>12, HeldKnown DEF Held
<1>17. \A q \in Pods : \A o \in met[q] : o \in Sockets /\ sock'[o] = sock[o] /\ o \in met'[q]
  <2>1. \A q \in Pods : met[q] \subseteq Sockets
    BY <1>0
  <2> QED BY <1>10, <1>11, <1>14, <2>1
<1>18. EntryFacts'
  BY <1>0, <1>8, <1>17 DEF EntryFacts
<1>19. ListedWhenPresent'
  <2> SUFFICES ASSUME NEW q \in Pods, NEW o \in met'[q], Alone(q, o)'
               PROVE  Listed(q, sock[o].ws, sock[o].user)' <=> Registers(sock'[o])
    BY DEF ListedWhenPresent
  <2>1. CASE o = s
    <3>1. q = p /\ sock'[o] = k
      BY <1>6, <1>10, <1>11, <1>14, <2>1
    <3>2. ASSUME NEW x \in presence[q], x.ws = k.ws, x.user = k.user PROVE FALSE
      <4>1. x.sock \in met[q] /\ sock[x.sock].ws = k.ws /\ sock[x.sock].user = k.user
        BY <1>0, <3>2 DEF EntryFacts
      <4>2. x.sock \in met'[q] /\ sock'[x.sock].ws = sock'[o].ws /\ sock'[x.sock].user = sock'[o].user
        BY <1>17, <3>1, <4>1
      <4>3. x.sock = o
        BY <4>2 DEF Alone
      <4> QED BY <1>14, <2>1, <4>1, <4>3
    <3> QED BY <1>5, <1>8, <3>1, <3>2 DEF Listed
  <2>2. CASE o # s
    <3>1. o \in met[q]
      BY <1>11, <2>2
    <3>2. Alone(q, o)
      BY <1>17, <3>1 DEF Alone
    <3>3. Listed(q, sock[o].ws, sock[o].user) <=> Registers(sock[o])
      BY <3>1, <3>2 DEF RoomInv, ListedWhenPresent
    <3> QED BY <1>8, <1>17, <3>1, <3>3 DEF Listed
  <2> QED BY <2>1, <2>2
<1>20. \A x \in Tabs \ Listeners : Informed(x)'
  <2> SUFFICES ASSUME NEW x \in Tabs \ Listeners PROVE Informed(x)'
    OBVIOUS
  <2>1. CASE x = t
    <3>1. Held(x)' = k
      BY <1>6, <1>10, <1>12, <2>1 DEF Held
    <3> QED BY <1>5, <3>1 DEF Informed
  <2>2. CASE x # t
    <3>1. Informed(x) /\ live'[x] = live[x] /\ (live[x] # 0 => Held(x)' = Held(x))
      BY <1>16, <2>2 DEF RoomInv
    <3> QED BY <1>8, <3>1 DEF Informed, ListOf
  <2> QED BY <2>1, <2>2
<1>21. \A x \in Tabs : BaseSound(x)'
  <2> SUFFICES ASSUME NEW x \in Tabs PROVE BaseSound(x)'
    OBVIOUS
  <2>1. CASE x = t
    <3>1. base[x] = None
      BY <1>6, <2>1 DEF RoomInv, BaseSound
    <3> QED BY <1>8, <3>1 DEF BaseSound
  <2>2. CASE x # t
    <3>1. BaseSound(x) /\ live'[x] = live[x] /\ (live[x] # 0 => Held(x)' = Held(x))
      BY <1>16, <2>2 DEF RoomInv
    <3> QED BY <1>8, <3>1, BaseKept
  <2> QED BY <2>1, <2>2
<1>22. StoredFacts' /\ \A x \in Tabs : HasLast(inbox'[x])
  BY <1>8 DEF RoomInv, StoredFacts, workVars
<1> QED BY <1>13, <1>15, <1>18, <1>19, <1>20, <1>21, <1>22 DEF RoomInv

LEMMA SocketRoomStep == RoomInv /\ SocketNext => RoomInv'
<1> SUFFICES ASSUME RoomInv, SocketNext PROVE RoomInv'
  OBVIOUS
<1>1. \A a \in {"composing", "reading"} : a \in Activities
  BY DEF Activities
<1> QED BY <1>1, DropStep, RecheckStep, ConnectStep, JoinStep, JoinFailsStep, DisconnectStep, ActStep, MoveCursorStep
        DEF SocketNext

-----------------------------------------------------------------------------
(* Pods.                                                                    *)

\* Whatever pods end, what is left is sound.
LEMMA PodRoomStep == RoomInv /\ PodStep => RoomInv'
<1> SUFFICES ASSUME RoomInv, PodStep PROVE RoomInv'
  OBVIOUS
<1>0. /\ RoomTypeOK /\ SocketFacts /\ EntryFacts /\ StoredFacts
      /\ sock \in [Sockets -> SocketStates] /\ met \in [Pods -> SUBSET Sockets]
      /\ live \in [Tabs -> 0..Connections] /\ inbox \in [Tabs -> Seq(Events)] /\ base \in [Tabs -> {None} \cup SUBSET Messages]
      /\ presence \in [Pods -> SUBSET Present] /\ post \in [Posts -> PostStates] /\ gen \in [Gens -> GenStates]
  BY DEF RoomInv, RoomTypeOK
<1>1. PICK dead \in SUBSET Pods, cut \in SUBSET Tabs :
        /\ cut = {t \in Tabs : live[t] # 0 /\ Held(t).pod \in dead}
        /\ sock' = [s \in Sockets |-> IF sock[s].pod \in dead
                                      THEN [sock[s] EXCEPT !.pc = "off", !.reg = IF @ = "asking" THEN "failed" ELSE @]
                                      ELSE sock[s]]
        /\ live' = [t \in Tabs |-> IF t \in cut THEN 0 ELSE live[t]]
        /\ inbox' = [t \in Tabs |-> IF t \in cut THEN <<>> ELSE inbox[t]]
        /\ base' = [t \in Tabs |-> IF t \in cut THEN None ELSE base[t]]
        /\ presence' = [p \in Pods |-> IF p \in dead THEN {} ELSE presence[p]]
        /\ met' = [p \in Pods |-> IF p \in dead THEN {} ELSE met[p]]
        /\ post' = [h \in Posts |-> IF post[h].pod \in dead /\ post[h].pc \in {"saving", "saved"}
                                    THEN [post[h] EXCEPT !.pc = "failed"] ELSE post[h]]
        /\ gen' = [g \in Gens |-> IF gen[g].pod \in dead /\ gen[g].pc # "ended"
                                  THEN [gen[g] EXCEPT !.pc = "dead"] ELSE gen[g]]
        /\ UNCHANGED <<authVars, stored, page>>
  <2> DEFINE D == {p \in Pods : Dies(p)}
             C == {t \in Tabs : live[t] # 0 /\ Held(t).pod \in D}
  <2>1. D \in SUBSET Pods /\ C \in SUBSET Tabs
    OBVIOUS
  <2>2. PICK dead, cut : dead = D /\ cut = C
    OBVIOUS
  <2> QED BY <2>1, <2>2 DEF PodStep
<1>2. \A s \in Sockets : /\ sock'[s] \in SocketStates
                         /\ sock'[s].pod = sock[s].pod /\ sock'[s].ws = sock[s].ws /\ sock'[s].user = sock[s].user
                         /\ sock'[s].late = sock[s].late /\ sock'[s].heard = sock[s].heard
                         /\ sock[s].pod \in dead => sock'[s].pc = "off" /\ sock'[s].reg # "asking"
                         /\ sock[s].pod \notin dead => sock'[s] = sock[s]
                         /\ sock'[s].pc = "none" <=> sock[s].pc = "none"
  <2> SUFFICES ASSUME NEW s \in Sockets
               PROVE  /\ sock'[s] \in SocketStates
                      /\ sock'[s].pod = sock[s].pod /\ sock'[s].ws = sock[s].ws /\ sock'[s].user = sock[s].user
                      /\ sock'[s].late = sock[s].late /\ sock'[s].heard = sock[s].heard
                      /\ sock[s].pod \in dead => sock'[s].pc = "off" /\ sock'[s].reg # "asking"
                      /\ sock[s].pod \notin dead => sock'[s] = sock[s]
                      /\ sock'[s].pc = "none" <=> sock[s].pc = "none"
    OBVIOUS
  <2>1. sock[s] \in SocketStates /\ SocketSound(s)
    BY <1>0 DEF SocketFacts
  <2>2. CASE sock[s].pod \in dead
    <3>1. sock'[s] = [sock[s] EXCEPT !.pc = "off", !.reg = IF sock[s].reg = "asking" THEN "failed" ELSE sock[s].reg]
      BY <1>1, <2>2
    <3>2. sock[s].pc # "none"
      BY <2>1, <2>2, PodAssumption DEF SocketSound, Gone
    <3> QED BY <2>1, <2>2, <3>1, <3>2 DEF SocketStates
  <2>3. CASE sock[s].pod \notin dead
    BY <1>1, <2>1, <2>3
  <2> QED BY <2>2, <2>3
<1>3. \A h \in Posts : /\ post'[h] \in PostStates /\ post'[h].ws = post[h].ws /\ post'[h].pod = post[h].pod
                       /\ post'[h].pc = "none" <=> post[h].pc = "none"
                       /\ post'[h].pc = "said" <=> post[h].pc = "said"
                       /\ post[h].pc \in {"saved", "said", "failed"} => post'[h].pc \in {"saved", "said", "failed"}
  BY <1>0, <1>1 DEF PostStates
<1>4. \A g \in Gens : /\ gen'[g] \in GenStates /\ gen'[g].ws = gen[g].ws /\ gen'[g].pod = gen[g].pod /\ gen'[g].text = gen[g].text
                      /\ gen'[g].pc = "none" <=> gen[g].pc = "none"
                      /\ gen'[g].pc = "ended" <=> gen[g].pc = "ended"
                      /\ gen[g].pc \in Over => gen'[g].pc \in Over
  <2> SUFFICES ASSUME NEW g \in Gens
               PROVE  /\ gen'[g] \in GenStates /\ gen'[g].ws = gen[g].ws /\ gen'[g].pod = gen[g].pod /\ gen'[g].text = gen[g].text
                      /\ gen'[g].pc = "none" <=> gen[g].pc = "none"
                      /\ gen'[g].pc = "ended" <=> gen[g].pc = "ended"
                      /\ gen[g].pc \in Over => gen'[g].pc \in Over
    OBVIOUS
  <2>1. gen[g] \in GenStates
    BY <1>0
  <2>2. CASE gen[g].pod \in dead /\ gen[g].pc # "ended"
    <3>1. gen'[g] = [gen[g] EXCEPT !.pc = "dead"]
      BY <1>1, <2>2
    <3>2. gen[g].pc # "none"
      BY <1>0, <2>2, PodAssumption DEF StoredFacts
    <3> QED BY <2>1, <2>2, <3>1, <3>2 DEF GenStates, Over
  <2>3. CASE ~(gen[g].pod \in dead /\ gen[g].pc # "ended")
    BY <1>1, <2>1, <2>3
  <2> QED BY <2>2, <2>3
<1>6. /\ \A t \in cut : live'[t] = 0 /\ inbox'[t] = <<>> /\ base'[t] = None
      /\ \A t \in Tabs \ cut : live'[t] = live[t] /\ inbox'[t] = inbox[t] /\ base'[t] = base[t]
      /\ page' = page
  BY <1>1
<1>7. RoomTypeOK'
  <2>1. sock' \in [Sockets -> SocketStates] /\ post' \in [Posts -> PostStates] /\ gen' \in [Gens -> GenStates]
    BY <1>1, <1>2, <1>3, <1>4
  <2>2. /\ live' \in [Tabs -> 0..Connections] /\ inbox' \in [Tabs -> Seq(Events)] /\ base' \in [Tabs -> {None} \cup SUBSET Messages]
        /\ presence' \in [Pods -> SUBSET Present] /\ met' \in [Pods -> SUBSET Sockets]
    <3>1. 0 \in 0..Connections /\ <<>> \in Seq(Events)
      BY BoundAssumption
    <3> QED BY <1>0, <1>1, <3>1
  <2> QED BY <1>0, <1>1, <2>1, <2>2 DEF RoomTypeOK, authVars
<1>8. ASSUME NEW t \in Tabs \ cut, live[t] # 0
      PROVE  /\ <<t, live[t]>> \in Sockets /\ Held(t).pod \in Pods \ dead
             /\ sock'[<<t, live[t]>>] = sock[<<t, live[t]>>] /\ Held(t)' = Held(t)
  <2>1. <<t, live[t]>> \in Sockets /\ Held(t).pod \in Pods
    BY <1>8, HeldKnown
  <2>2. Held(t).pod \notin dead
    BY <1>1, <1>8
  <2>3. sock'[<<t, live[t]>>] = sock[<<t, live[t]>>]
    BY <1>2, <2>1, <2>2 DEF Held
  <2> QED BY <1>6, <2>1, <2>2, <2>3 DEF Held
<1>9. \A p \in Pods \ dead : /\ met'[p] = met[p] /\ presence'[p] = presence[p]
                            /\ \A s \in met[p] : s \in Sockets /\ sock[s].pod = p /\ sock'[s] = sock[s]
  <2>1. \A p \in Pods : met[p] \subseteq Sockets /\ \A s \in met[p] : sock[s].pod = p
    BY <1>0 DEF SocketFacts, MetSound
  <2>2. \A p \in Pods \ dead : met'[p] = met[p] /\ presence'[p] = presence[p]
    BY <1>1
  <2>3. \A s \in Sockets : sock[s].pod \notin dead => sock'[s] = sock[s]
    BY <1>2
  <2> QED BY <2>1, <2>2, <2>3
<1>10. \A p \in dead : met'[p] = {} /\ presence'[p] = {}
  BY <1>1
<1>11. SocketFacts'
  <2>1. ASSUME NEW t \in Tabs PROVE UsedInOrder(t)'
    <3>1. \A n \in 1..Connections : <<t, n>> \in Sockets
      BY DEF Sockets
    <3>2. PICK m \in 0..Connections : \A n \in 1..Connections : sock[<<t, n>>].pc # "none" <=> n <= m
      BY <1>0 DEF SocketFacts, UsedInOrder
    <3>3. \A n \in 1..Connections : sock'[<<t, n>>].pc # "none" <=> n <= m
      BY <1>2, <3>1, <3>2
    <3> QED BY <3>3 DEF UsedInOrder
  <2>2. ASSUME NEW s \in Sockets PROVE SocketSound(s)'
    <3>1. SocketSound(s)
      BY <1>0 DEF SocketFacts
    <3>2. CASE sock[s].pod \in dead
      BY <1>2, <3>1, <3>2 DEF SocketSound
    <3>3. CASE sock[s].pod \notin dead
      <4>1. sock[s].pc = "on" \/ sock[s].reg = "asking" => sock[s].pod \in Pods
        BY <3>1 DEF SocketSound, Gone
      <4> QED BY <1>2, <1>9, <3>1, <3>3, <4>1 DEF SocketSound
    <3> QED BY <3>2, <3>3
  <2>3. MetSound'
    BY <1>0, <1>9, <1>10 DEF SocketFacts, MetSound
  <2>4. ASSUME NEW t \in Tabs PROVE HeldSound(t)'
    <3>1. CASE t \in cut
      BY <1>6, <3>1 DEF HeldSound
    <3>2. CASE t \notin cut
      <4>1. HeldSound(t) /\ live'[t] = live[t] /\ (live[t] # 0 => Held(t)' = Held(t))
        BY <1>0, <1>6, <1>8, <3>2 DEF SocketFacts
      <4> QED BY <1>6, <4>1 DEF HeldSound
    <3> QED BY <3>1, <3>2
  <2> QED BY <2>1, <2>2, <2>3, <2>4 DEF SocketFacts
<1>12. EntryFacts'
  <2> SUFFICES ASSUME NEW p \in Pods, NEW x \in presence'[p]
               PROVE  x.key = Key(x.ws, x.user) /\ x.sock \in met'[p] /\ sock'[x.sock].ws = x.ws /\ sock'[x.sock].user = x.user
    BY DEF EntryFacts
  <2>1. p \notin dead
    BY <1>10
  <2> QED BY <1>0, <1>9, <2>1 DEF EntryFacts
<1>13. ListedWhenPresent'
  <2> SUFFICES ASSUME NEW q \in Pods, NEW o \in met'[q], Alone(q, o)'
               PROVE  Listed(q, sock[o].ws, sock[o].user)' <=> Registers(sock'[o])
    BY DEF ListedWhenPresent
  <2>1. q \in Pods \ dead /\ o \in met[q]
    BY <1>9, <1>10
  <2>2. Alone(q, o)
    BY <1>9, <2>1 DEF Alone
  <2>3. Listed(q, sock[o].ws, sock[o].user) <=> Registers(sock[o])
    BY <2>1, <2>2 DEF RoomInv, ListedWhenPresent
  <2> QED BY <1>9, <2>1, <2>3 DEF Listed
<1>14. ASSUME NEW t \in Tabs \ Listeners PROVE Informed(t)'
  <2>1. CASE t \in cut
    BY <1>6, <2>1 DEF Informed
  <2>2. CASE t \notin cut /\ live[t] # 0
    <3>1. Informed(t) /\ Held(t)' = Held(t) /\ presence'[Held(t).pod] = presence[Held(t).pod]
      BY <1>8, <1>9, <2>2 DEF RoomInv
    <3>2. ListOf(Held(t).pod, Held(t).ws)' = ListOf(Held(t).pod, Held(t).ws)
      BY <3>1 DEF ListOf
    <3> QED BY <1>6, <2>2, <3>1, <3>2 DEF Informed
  <2>3. CASE t \notin cut /\ live[t] = 0
    BY <1>6, <2>3 DEF Informed
  <2> QED BY <2>1, <2>2, <2>3
<1>15. \A t \in Tabs : HasLast(inbox'[t])
  <2>1. HasLast(<<>>) /\ \A t \in Tabs : HasLast(inbox[t])
    BY DEF HasLast, ListsIn, RoomInv
  <2> QED BY <1>6, <2>1
<1>16. StoredFacts'
  <2>1. /\ \A w \in Workspaces : \A m \in ToSet(stored[w]) : m \notin Posts => m[1] \in Gens
        /\ stored' = stored
    BY <1>0, <1>1, StoredMessages
  <2>2. ASSUME NEW w \in Workspaces, NEW m \in ToSet(stored[w])
        PROVE  /\ m \in Posts => post'[m].pc \in {"saved", "said", "failed"} /\ post'[m].ws = w
               /\ m \notin Posts => gen'[m[1]].pc # "none" /\ gen'[m[1]].ws = w
               /\ m \notin Posts /\ m[2] = "answer" => gen'[m[1]].text /\ gen'[m[1]].pc \in {"ending", "ended", "dead"}
    <3>1. CASE m \in Posts
      BY <1>0, <1>3, <3>1 DEF StoredFacts
    <3>2. CASE m \notin Posts
      <4>1. m[1] \in Gens
        BY <2>1, <3>2
      <4>2. gen[m[1]].pc # "none" /\ gen[m[1]].ws = w /\ (m[2] = "answer" => gen[m[1]].text /\ gen[m[1]].pc \in Over)
        BY <1>0, <3>2 DEF StoredFacts, Over
      <4>3. /\ gen'[m[1]].ws = gen[m[1]].ws /\ gen'[m[1]].text = gen[m[1]].text
            /\ gen'[m[1]].pc = "none" <=> gen[m[1]].pc = "none"
            /\ gen[m[1]].pc \in Over => gen'[m[1]].pc \in Over
        BY <1>4, <4>1
      <4> QED BY <3>2, <4>2, <4>3 DEF Over
    <3> QED BY <3>1, <3>2
  <2>3. \A h \in Posts : post'[h].pc # "none" => post'[h].ws \in Workspaces /\ post'[h].pod \in Pods
    BY <1>0, <1>3 DEF StoredFacts
  <2>4. \A g \in Gens : /\ gen'[g].pc # "none" => gen'[g].ws \in Workspaces /\ gen'[g].pod \in Pods
                        /\ gen'[g].pc = "none" => gen'[g].pod = None
    <3>1. \A g \in Gens : /\ gen[g].pc # "none" => gen[g].ws \in Workspaces /\ gen[g].pod \in Pods
                          /\ gen[g].pc = "none" => gen[g].pod = None
      BY <1>0 DEF StoredFacts
    <3>2. \A g \in Gens : gen'[g].ws = gen[g].ws /\ gen'[g].pod = gen[g].pod /\ (gen'[g].pc = "none" <=> gen[g].pc = "none")
      BY <1>4
    <3> QED BY <3>1, <3>2
  <2> QED BY <2>1, <2>2, <2>3, <2>4 DEF StoredFacts
<1>17. ASSUME NEW t \in Tabs PROVE BaseSound(t)'
  <2>1. CASE t \in cut
    BY <1>6, <2>1 DEF BaseSound
  <2>2. CASE t \notin cut /\ base[t] = None
    BY <1>6, <2>2 DEF BaseSound
  <2>3. CASE t \notin cut /\ base[t] # None
    <3>1. BaseSound(t) /\ live[t] # 0
      BY <2>3 DEF RoomInv, BaseSound
    <3>2. Held(t)' = Held(t) /\ Held(t).ws \in Workspaces /\ stored' = stored
      BY <1>1, <1>8, <2>3, <3>1, HeldKnown
    <3>3. \A m : Reaches(t, m) => Reaches(t, m)'
      BY <1>6, <2>3 DEF Reaches, Shows, Coming
    <3>4. \A m \in Messages : Said(t, Held(t).pod, m)' => Said(t, Held(t).pod, m)
      <4>1. ASSUME NEW m \in Messages, Said(t, Held(t).pod, m)' PROVE Said(t, Held(t).pod, m)
        <5>1. CASE m \in Posts
          BY <1>3, <3>2, <4>1, <5>1 DEF Said, Role
        <5>2. CASE m \notin Posts
          <6>1. m[1] \in Gens
            BY <5>2 DEF Messages
          <6> QED BY <1>4, <3>2, <4>1, <5>2, <6>1 DEF Said
        <5> QED BY <5>1, <5>2
      <4> QED BY <4>1
    <3>5. \A m \in ToSet(stored[Held(t).ws]) : m \in Messages
      BY <1>0, <3>2, StoredMessages
    <3>6. ASSUME NEW m \in ToSet(stored[Held(t).ws]'), m \notin base[t], Said(t, Held(t).pod, m)'
          PROVE  Reaches(t, m)'
      BY <2>3, <3>1, <3>2, <3>3, <3>4, <3>5, <3>6 DEF BaseSound
    <3> QED BY <1>6, <2>3, <3>1, <3>6 DEF BaseSound
  <2> QED BY <2>1, <2>2, <2>3
<1> QED BY <1>7, <1>11, <1>12, <1>13, <1>14, <1>15, <1>16, <1>17 DEF RoomInv

-----------------------------------------------------------------------------
(* Tabs.                                                                    *)

\* A page that goes from P to Q shows at least what it did, and nothing but
\* an event of presence changes the list of users.
Goes(P, Q) ==
    /\ Q \in Pages /\ Q.open = P.open /\ Q.hears = P.hears /\ Q.history = P.history /\ Q.rows = P.rows
    /\ P.shown \subseteq Q.shown

LEMMA EventKinds ==
    ASSUME NEW e \in Events
    PROVE  /\ e.type \in {"presence", "cursor", "message", "start", "error", "chunk", "call", "result", "complete"}
           /\ e.type = "presence" => e.users \in SUBSET Present
           /\ e.type = "cursor" => e.user \in Identities /\ e.message \in Posts
           /\ e.type = "message" => e.message \in Posts
           /\ e.type \in {"chunk", "call", "result", "complete"} => e.gen \in Gens
           /\ e.type = "complete" => e.text \in BOOLEAN
BY DEF Events

LEMMA RowsTyped ==
    /\ \A m \in Messages : Row(m) \in [id : Messages, local : BOOLEAN] /\ Local(m) \in [id : Messages, local : BOOLEAN]
    /\ Posts \subseteq Messages
    /\ \A g \in Gens : <<g, "answer">> \in Messages /\ <<g, "tool">> \in Messages
BY DEF Row, Local, Messages

LEMMA ClassicGoes ==
    ASSUME NEW P \in Pages, NEW e \in Events
    PROVE  LET Q == Classically(P, e) IN
           /\ Goes(P, Q)
           /\ Q.users = IF e.type = "presence" THEN e.users ELSE P.users
           /\ e.type = "message" => Row(e.message) \in Q.shown
<1>0. /\ e.type \in {"presence", "cursor", "message", "start", "error", "chunk", "call", "result", "complete"}
      /\ e.type = "presence" => e.users \in SUBSET Present
      /\ e.type = "cursor" => e.user \in Identities /\ e.message \in Posts
      /\ e.type = "message" => e.message \in Posts
      /\ e.type \in {"chunk", "call", "result", "complete"} => e.gen \in Gens
  BY EventKinds
<1> DEFINE A == ClassicShows(P, e)
           B == ClassicCall(A, e)
           C == ClassicResult(B, e)
           D == ClassicCursor(C, e)
           Q == ClassicPresence(D, e)
<1>1. Goes(P, A) /\ A.users = P.users /\ (e.type = "message" => Row(e.message) \in A.shown)
  <2>1. CASE e.type = "message"
    <3>1. Row(e.message) \in [id : Messages, local : BOOLEAN]
      BY <1>0, <2>1, RowsTyped
    <3>2. A = [P EXCEPT !.shown = P.shown \cup {Row(e.message)}]
      BY <2>1 DEF ClassicShows
    <3> QED BY <3>1, <3>2 DEF Goes, Pages
  <2>2. CASE e.type = "chunk"
    <3>1. Local(<<e.gen, "answer">>) \in [id : Messages, local : BOOLEAN]
      BY <1>0, <2>2, RowsTyped
    <3>2. A = IF P.bubble THEN [P EXCEPT !.shown = P.shown \cup {Local(<<e.gen, "answer">>)}] ELSE P
      BY <2>2 DEF ClassicShows
    <3> QED BY <2>2, <3>1, <3>2 DEF Goes, Pages
  <2>3. CASE e.type = "start"
    <3>1. A = [P EXCEPT !.streaming = TRUE, !.bubble = TRUE]
      BY <2>3 DEF ClassicShows
    <3> QED BY <2>3, <3>1 DEF Goes, Pages
  <2>4. CASE e.type = "error"
    <3>1. A = [P EXCEPT !.streaming = FALSE]
      BY <2>4 DEF ClassicShows
    <3> QED BY <2>4, <3>1 DEF Goes, Pages
  <2>5. CASE e.type = "complete"
    <3>1. A = [P EXCEPT !.streaming = FALSE, !.bubble = FALSE]
      BY <2>5 DEF ClassicShows
    <3> QED BY <2>5, <3>1 DEF Goes, Pages
  <2>6. CASE e.type \in {"presence", "cursor", "call", "result"}
    <3>1. A = P
      BY <2>6 DEF ClassicShows
    <3> QED BY <2>6, <3>1 DEF Goes
  <2> QED BY <1>0, <2>1, <2>2, <2>3, <2>4, <2>5, <2>6
<1> HIDE DEF A
<1>2. Goes(A, B) /\ B.users = A.users
  <2>1. A \in Pages
    BY <1>1 DEF Goes
  <2> QED BY <1>0, <2>1 DEF ClassicCall, Goes, Pages
<1> HIDE DEF B
<1>3. Goes(B, C) /\ C.users = B.users
  <2>1. B \in Pages
    BY <1>2 DEF Goes
  <2>2. CASE e.type = "result" /\ B.tools[e.gen] = "called"
    <3>1. Local(<<e.gen, "tool">>) \in [id : Messages, local : BOOLEAN] /\ e.gen \in Gens
      BY <1>0, <2>2, RowsTyped
    <3>2. C = [B EXCEPT !.tools[e.gen] = "done", !.shown = B.shown \cup {Local(<<e.gen, "tool">>)}]
      BY <2>1, <2>2 DEF ClassicResult
    <3>3. [B.tools EXCEPT ![e.gen] = "done"] \in [Gens -> {"none", "called", "done"}]
      BY <2>1, <3>1 DEF Pages
    <3>4. B.shown \cup {Local(<<e.gen, "tool">>)} \in SUBSET [id : Messages, local : BOOLEAN]
      BY <2>1, <3>1 DEF Pages
    <3>5. PICK tools, shown : tools = [B.tools EXCEPT ![e.gen] = "done"] /\ shown = B.shown \cup {Local(<<e.gen, "tool">>)}
      OBVIOUS
    <3>6. C = [B EXCEPT !.tools = tools, !.shown = shown]
      BY <2>1, <3>2, <3>5
    <3>7. tools \in [Gens -> {"none", "called", "done"}] /\ shown \in SUBSET [id : Messages, local : BOOLEAN]
          /\ B.shown \subseteq shown
      BY <3>3, <3>4, <3>5
    <3> HIDE DEF C
    <3> QED BY <2>1, <3>6, <3>7 DEF Goes, Pages
  <2>3. CASE ~(e.type = "result" /\ B.tools[e.gen] = "called")
    BY <2>1, <2>3 DEF ClassicResult, Goes
  <2> QED BY <2>2, <2>3
<1> HIDE DEF C
<1>4. Goes(C, D) /\ D.users = C.users
  <2>1. C \in Pages
    BY <1>3 DEF Goes
  <2>2. CASE e.type = "cursor" /\ Row(e.message) \in C.shown
    <3>1. D = [C EXCEPT !.cursors = {c \in C.cursors : c[1] # e.user} \cup {<<e.user, e.message>>}]
      BY <2>1, <2>2 DEF ClassicCursor
    <3>2. <<e.user, e.message>> \in Identities \X Posts
      BY <1>0, <2>2
    <3> QED BY <2>1, <3>1, <3>2 DEF Goes, Pages
  <2>3. CASE ~(e.type = "cursor" /\ Row(e.message) \in C.shown)
    BY <2>1, <2>3 DEF ClassicCursor, Goes
  <2> QED BY <2>2, <2>3
<1> HIDE DEF D
<1>5. Goes(D, Q) /\ Q.users = IF e.type = "presence" THEN e.users ELSE D.users
  <2>1. D \in Pages
    BY <1>4 DEF Goes
  <2> QED BY <1>0, <2>1 DEF ClassicPresence, Goes, Pages
<1>6. Classically(P, e) = Q
  BY DEF Classically, A, B, C, D
<1> HIDE DEF Q
<1> QED BY <1>1, <1>2, <1>3, <1>4, <1>5, <1>6 DEF Goes

LEMMA ReactGoes ==
    ASSUME NEW P \in Pages, NEW e \in Events, NEW Q \in React(ReactPresence(P, e), e)
    PROVE  /\ Goes(P, Q)
           /\ Q.users = IF e.type = "presence" THEN e.users ELSE P.users
           /\ e.type = "message" => Row(e.message) \in Q.shown
           /\ e.type = "complete" /\ e.text => Local(<<e.gen, "answer">>) \in Q.shown
<1>0. /\ e.type \in {"presence", "cursor", "message", "start", "error", "chunk", "call", "result", "complete"}
      /\ e.type = "presence" => e.users \in SUBSET Present
      /\ e.type = "message" => e.message \in Posts
      /\ e.type \in {"chunk", "call", "result", "complete"} => e.gen \in Gens
      /\ e.type = "complete" => e.text \in BOOLEAN
  BY EventKinds
<1> DEFINE R == ReactPresence(P, e)
<1>1. Goes(P, R) /\ R.users = (IF e.type = "presence" THEN e.users ELSE P.users) /\ R \in Pages
  BY <1>0 DEF ReactPresence, Goes, Pages
<1>2. Q \in React(R, e)
  OBVIOUS
<1> HIDE DEF R
<1>3. Goes(R, Q) /\ Q.users = R.users /\ (e.type = "message" => Row(e.message) \in Q.shown)
      /\ (e.type = "complete" /\ e.text => Local(<<e.gen, "answer">>) \in Q.shown)
  <2>0. Blank.tools \in [Gens -> {"none", "called", "done"}]
    BY DEF Blank
  <2>1. CASE e.type = "message"
    <3>1. Row(e.message) \in [id : Messages, local : BOOLEAN]
      BY <1>0, <2>1, RowsTyped
    <3>2. Q = [R EXCEPT !.shown = R.shown \cup {Row(e.message)}]
      BY <1>2, <2>1 DEF React
    <3> QED BY <1>1, <2>1, <3>1, <3>2 DEF Goes, Pages
  <2>2. CASE e.type = "start"
    <3>1. Q = [R EXCEPT !.streaming = TRUE, !.tools = Blank.tools]
      BY <1>2, <2>2 DEF React
    <3> QED BY <1>1, <2>0, <2>2, <3>1 DEF Goes, Pages
  <2>3. CASE e.type = "call"
    <3>1. Q = [R EXCEPT !.tools[e.gen] = "called"]
      BY <1>2, <2>3 DEF React
    <3> QED BY <1>0, <1>1, <2>3, <3>1 DEF Goes, Pages
  <2>4. CASE e.type = "result"
    <3>1. Q = [R EXCEPT !.tools[e.gen] = IF R.tools[e.gen] = "called" THEN "done" ELSE R.tools[e.gen]]
      BY <1>0, <1>1, <1>2, <2>4 DEF React, Pages
    <3> QED BY <1>0, <1>1, <2>4, <3>1 DEF Goes, Pages
  <2>5. CASE e.type = "error"
    <3>1. Q = [R EXCEPT !.streaming = FALSE]
      BY <1>2, <2>5 DEF React
    <3> QED BY <1>1, <2>5, <3>1 DEF Goes, Pages
  <2>6. CASE e.type = "complete"
    <3> DEFINE results == {Local(<<g, "tool">>) : g \in {x \in Gens : R.tools[x] = "done"}}
               answer == IF e.text THEN {Local(<<e.gen, "answer">>)} ELSE {}
    <3>1. PICK r \in {results, {}} : Q = [R EXCEPT !.shown = R.shown \cup r \cup answer, !.streaming = FALSE, !.tools = Blank.tools]
      BY <1>2, <2>6 DEF React
    <3>2. r \subseteq [id : Messages, local : BOOLEAN] /\ answer \subseteq [id : Messages, local : BOOLEAN]
      BY <1>0, <2>6, RowsTyped
    <3>3. e.text => Local(<<e.gen, "answer">>) \in answer
      OBVIOUS
    <3> HIDE DEF results, answer
    <3>4. R.shown \cup r \cup answer \in SUBSET [id : Messages, local : BOOLEAN]
      BY <1>1, <3>2 DEF Pages
    <3> QED BY <1>1, <2>0, <2>6, <3>1, <3>3, <3>4 DEF Goes, Pages
  <2>7. CASE e.type \in {"presence", "cursor", "chunk"}
    <3>1. Q = R
      BY <1>2, <2>7 DEF React
    <3> QED BY <1>1, <2>7, <3>1 DEF Goes
  <2> QED BY <1>0, <2>1, <2>2, <2>3, <2>4, <2>5, <2>6, <2>7
<1> QED BY <1>1, <1>3 DEF Goes

\* What a tab is told, when it only changes what it shows of messages.
LEMMA PageStep ==
    ASSUME RoomInv, NEW t \in Tabs, NEW P \in Pages,
           page' = [page EXCEPT ![t] = P],
           P.users = page[t].users, P.open = page[t].open, page[t].hears => P.hears,
           base' \in [Tabs -> {None} \cup SUBSET Messages], \A x \in Tabs \ {t} : base'[x] = base[x],
           UNCHANGED <<authVars, stored, sock, live, presence, inbox, workVars, met>>,
           BaseSound(t)'
    PROVE  RoomInv'
<1>1. /\ page \in [Tabs -> Pages] /\ live \in [Tabs -> 0..Connections] /\ inbox \in [Tabs -> Seq(Events)]
      /\ \A x \in Tabs : HasLast(inbox[x]) /\ HeldSound(x)
      /\ t \notin Listeners => Informed(t)
  BY DEF RoomInv, RoomTypeOK, SocketFacts
<1>2. page' \in [Tabs -> Pages] /\ page'[t] = P /\ \A x \in Tabs \ {t} : page'[x] = page[x]
  BY <1>1
<1>3. HeldSound(t)' /\ (t \notin Listeners => Informed(t)')
  BY <1>1, <1>2 DEF HeldSound, Held, Informed, ListOf
<1> QED BY <1>1, <1>2, <1>3, TabStep

LEMMA OpenedStep ==
    ASSUME RoomInv, NEW t \in Tabs, NEW hears \in BOOLEAN, Opened(t, hears)
    PROVE  RoomInv'
<1>1. live[t] = 0
  BY HeldKnown DEF Opened
<1>2. base[t] = None
  BY <1>1 DEF RoomInv, BaseSound
<1> DEFINE P == [Blank EXCEPT !.open = TRUE, !.hears = hears]
<1>3. P \in Pages
  BY DEF Blank, Pages
<1>4. /\ page \in [Tabs -> Pages] /\ live \in [Tabs -> 0..Connections] /\ inbox \in [Tabs -> Seq(Events)]
      /\ base \in [Tabs -> {None} \cup SUBSET Messages] /\ HasLast(inbox[t])
  BY DEF RoomInv, RoomTypeOK
<1>5. page' = [page EXCEPT ![t] = P] /\ UNCHANGED <<authVars, stored, sock, live, presence, inbox, base, workVars, met>>
  BY DEF Opened
<1>6. page' \in [Tabs -> Pages] /\ \A x \in Tabs \ {t} : page'[x] = page[x]
  BY <1>3, <1>4, <1>5
<1>7. HeldSound(t)' /\ Informed(t)' /\ BaseSound(t)'
  BY <1>1, <1>2, <1>5 DEF HeldSound, Informed, BaseSound
<1> QED BY <1>4, <1>5, <1>6, <1>7, TabStep

LEMMA RenderStep ==
    ASSUME RoomInv, NEW t \in Tabs, Render(t)
    PROVE  RoomInv'
<1> DEFINE P == [page[t] EXCEPT !.hears = TRUE]
<1>1. page[t] \in Pages /\ base \in [Tabs -> {None} \cup SUBSET Messages]
  BY DEF RoomInv, RoomTypeOK
<1>2. P \in Pages /\ P.users = page[t].users /\ P.open = page[t].open /\ P.hears
  BY <1>1 DEF Pages
<1>3. page' = [page EXCEPT ![t] = P] /\ UNCHANGED <<authVars, stored, sock, live, presence, inbox, base, workVars, met>>
  BY DEF Render
<1>4. base[t] = None
  BY DEF RoomInv, BaseSound, Render
<1>5. BaseSound(t)'
  BY <1>3, <1>4 DEF BaseSound
<1> QED BY <1>1, <1>2, <1>3, <1>5, PageStep

LEMMA CloseStep ==
    ASSUME RoomInv, NEW t \in Tabs, Close(t)
    PROVE  RoomInv'
<1>1. /\ live \in [Tabs -> 0..Connections] /\ live' = [live EXCEPT ![t] = 0] /\ base' = [base EXCEPT ![t] = None]
      /\ inbox' = [inbox EXCEPT ![t] = <<>>] /\ inbox \in [Tabs -> Seq(Events)] /\ page' = [page EXCEPT ![t] = Blank]
      /\ base \in [Tabs -> {None} \cup SUBSET Messages] /\ page \in [Tabs -> Pages]
  BY DEF Close, RoomInv, RoomTypeOK
<1>2. Blank \in Pages
  BY DEF Blank, Pages
<1>3. /\ live' \in [Tabs -> 0..Connections] /\ base' \in [Tabs -> {None} \cup SUBSET Messages]
      /\ inbox' \in [Tabs -> Seq(Events)] /\ page' \in [Tabs -> Pages]
  BY <1>1, <1>2, BoundAssumption
<1>4. live'[t] = 0 /\ base'[t] = None /\ inbox'[t] = <<>>
  BY <1>1
<1>5. HasLast(inbox'[t]) /\ HeldSound(t)' /\ Informed(t)' /\ BaseSound(t)'
  BY <1>4 DEF HasLast, ListsIn, HeldSound, Informed, BaseSound
<1>6. \A x \in Tabs \ {t} : live'[x] = live[x] /\ inbox'[x] = inbox[x] /\ page'[x] = page[x] /\ base'[x] = base[x]
  BY <1>1
<1>7. UNCHANGED <<authVars, stored, sock, presence, workVars, met>>
  BY DEF Close
<1> QED BY <1>3, <1>5, <1>6, <1>7, TabStep

-----------------------------------------------------------------------------
(* The history.                                                             *)

LEMMA LatestOf ==
    ASSUME NEW all \in Seq(Messages)
    PROVE  ToSet(Latest(all)) \subseteq ToSet(all) /\ ToSet(all) \in SUBSET Messages
<1> DEFINE n == Len(all)
           from == IF n > Limit THEN n - Limit + 1 ELSE 1
           last == SubSeq(all, from, n)
<1>1. n \in Nat /\ from \in 1..n + 1 /\ DOMAIN all = 1..n
  BY BoundAssumption
<1>2. DOMAIN last = 1..n - from + 1 /\ \A k \in 1..n - from + 1 : last[k] = all[from + k - 1]
  BY <1>1
<1>3. \A k \in 1..n - from + 1 : from + k - 1 \in 1..n
  BY <1>1
<1>4. Latest(all) = last
  BY DEF Latest
<1>5. ToSet(last) \subseteq ToSet(all)
  <2> HIDE DEF last, from, n
  <2> QED BY <1>1, <1>2, <1>3 DEF ToSet
<1>6. ToSet(all) \in SUBSET Messages
  BY DEF ToSet
<1> QED BY <1>4, <1>5, <1>6

LEMMA ReadHistoryStep ==
    ASSUME RoomInv, NEW t \in Tabs, ReadHistory(t)
    PROVE  RoomInv'
<1> DEFINE w == session[BrowserOf[t]].ws
           rows == ToSet(Latest(stored[w]))
           P == [page[t] EXCEPT !.history = "read", !.rows = rows]
           B == IF live[t] # 0 /\ page[t].hears /\ Held(t).ws = w /\ Held(t).pc = "on" THEN ToSet(stored[w]) ELSE None
<1>1. /\ page \in [Tabs -> Pages] /\ base \in [Tabs -> {None} \cup SUBSET Messages] /\ page[t] \in Pages
      /\ stored \in [Workspaces -> Seq(Messages)] /\ session \in [Browsers -> {None} \cup [user : Users, ws : Workspaces]]
  BY DEF RoomInv, RoomTypeOK
<1>2. w \in Workspaces /\ stored[w] \in Seq(Messages) /\ t \notin Listeners
  <2>1. t \notin Listeners /\ session[BrowserOf[t]] # None /\ BrowserOf[t] \in Browsers
    BY DEF ReadHistory, Browsers
  <2> QED BY <1>1, <2>1
<1>3. rows \in SUBSET Messages /\ ToSet(stored[w]) \in SUBSET Messages
  BY <1>2, LatestOf
<1>4. /\ page' = [page EXCEPT ![t].history = "read", ![t].rows = rows] /\ base' = [base EXCEPT ![t] = B]
      /\ UNCHANGED <<authVars, stored, sock, live, presence, inbox, workVars, met>>
  BY DEF ReadHistory
<1>5. PICK shown : shown = rows
  OBVIOUS
<1>6. page' = [page EXCEPT ![t] = [page[t] EXCEPT !.history = "read", !.rows = shown]] /\ shown \in SUBSET Messages
  BY <1>1, <1>3, <1>4, <1>5
<1>7. /\ P = [page[t] EXCEPT !.history = "read", !.rows = shown]
      /\ P \in Pages /\ P.users = page[t].users /\ P.open = page[t].open /\ P.hears = page[t].hears /\ P.history = "read"
  <2>1. P = [page[t] EXCEPT !.history = "read", !.rows = shown]
    BY <1>5
  <2> HIDE DEF P
  <2> QED BY <1>1, <1>6, <2>1 DEF Pages
<1>8. PICK ws : ws = w
  OBVIOUS
<1>9. /\ ToSet(stored[ws]) \in SUBSET Messages /\ ws \in Workspaces
      /\ base' = [base EXCEPT ![t] = IF live[t] # 0 /\ page[t].hears /\ Held(t).ws = ws /\ Held(t).pc = "on"
                                     THEN ToSet(stored[ws]) ELSE None]
  BY <1>2, <1>3, <1>4, <1>8
<1> HIDE DEF w, P, rows, B
<1>10. /\ base' \in [Tabs -> {None} \cup SUBSET Messages] /\ \A x \in Tabs \ {t} : base'[x] = base[x]
       /\ base'[t] = IF live[t] # 0 /\ page[t].hears /\ Held(t).ws = ws /\ Held(t).pc = "on" THEN ToSet(stored[ws]) ELSE None
  BY <1>1, <1>9
<1>11. page' = [page EXCEPT ![t] = P] /\ page'[t] = P
  BY <1>1, <1>6, <1>7
<1>12. BaseSound(t)'
  <2> SUFFICES ASSUME base'[t] # None PROVE BaseSound(t)'
    BY DEF BaseSound
  <2>1. live[t] # 0 /\ page[t].hears /\ Held(t).ws = ws /\ base'[t] = ToSet(stored[ws])
    BY <1>10
  <2>2. Held(t)' = Held(t) /\ live' = live /\ stored' = stored
    BY <1>4 DEF Held
  <2> QED BY <1>2, <1>7, <1>11, <2>1, <2>2 DEF BaseSound
<1> QED BY <1>4, <1>7, <1>10, <1>11, <1>12, PageStep

LEMMA HistoryFailsStep ==
    ASSUME RoomInv, NEW t \in Tabs, HistoryFails(t)
    PROVE  RoomInv'
<1> DEFINE P == [page[t] EXCEPT !.history = "failed", !.rows = {}]
<1>1. page \in [Tabs -> Pages] /\ page[t] \in Pages /\ base \in [Tabs -> {None} \cup SUBSET Messages]
  BY DEF RoomInv, RoomTypeOK
<1>2. P \in Pages /\ P.users = page[t].users /\ P.open = page[t].open /\ P.hears = page[t].hears
  BY <1>1 DEF Pages
<1>3. /\ page' = [page EXCEPT ![t] = P] /\ base' = [base EXCEPT ![t] = None]
      /\ UNCHANGED <<authVars, stored, sock, live, presence, inbox, workVars, met>>
  BY <1>1 DEF HistoryFails
<1>4. base' \in [Tabs -> {None} \cup SUBSET Messages] /\ base'[t] = None /\ \A x \in Tabs \ {t} : base'[x] = base[x]
  BY <1>1, <1>3
<1>5. BaseSound(t)'
  BY <1>4 DEF BaseSound
<1> QED BY <1>2, <1>3, <1>4, <1>5, PageStep

\* Whatever shows the history, and what was shown, loses nothing.
LEMMA ShowingStep ==
    ASSUME RoomInv, NEW t \in Tabs, NEW shown \in SUBSET [id : Messages, local : BOOLEAN], Showing(t, shown),
           \A m \in page[t].rows : Row(m) \in shown,
           \A m : Shows(t, m) => Row(m) \in shown \/ Local(m) \in shown
    PROVE  RoomInv'
<1> DEFINE P == [page[t] EXCEPT !.history = "shown", !.shown = shown]
<1>1. page \in [Tabs -> Pages] /\ page[t] \in Pages /\ base \in [Tabs -> {None} \cup SUBSET Messages]
  BY DEF RoomInv, RoomTypeOK
<1>2. P \in Pages /\ P.users = page[t].users /\ P.open = page[t].open /\ P.hears = page[t].hears
      /\ P.history = "shown" /\ P.shown = shown /\ P.rows = page[t].rows
  BY <1>1 DEF Pages
<1>3. /\ page' = [page EXCEPT ![t] = P] /\ page[t].history = "read"
      /\ UNCHANGED <<authVars, stored, sock, live, presence, inbox, base, workVars, met>>
  BY <1>1 DEF Showing
<1> HIDE DEF P
<1>4. page'[t] = P
  BY <1>1, <1>3
<1>5. \A m : Reaches(t, m) => Reaches(t, m)'
  <2> SUFFICES ASSUME NEW m, Reaches(t, m) PROVE Reaches(t, m)'
    OBVIOUS
  <2>1. CASE Shows(t, m)
    <3>1. Shows(t, m)'
      BY <1>2, <1>4, <2>1 DEF Shows
    <3> QED BY <3>1 DEF Reaches
  <2>2. CASE m \in page[t].rows
    <3>1. Shows(t, m)'
      BY <1>2, <1>4, <2>2 DEF Shows
    <3> QED BY <3>1 DEF Reaches
  <2>3. CASE \E e \in ToSet(inbox[t]) : \/ e.type = "message" /\ e.message = m
                                        \/ e.type = "complete" /\ m = <<e.gen, "answer">> /\ e.text
    <3>1. Coming(t, m)'
      BY <1>3, <2>3 DEF Coming
    <3> QED BY <3>1 DEF Reaches
  <2> QED BY <2>1, <2>2, <2>3 DEF Reaches, Coming
<1>6. \A p, m : Said(t, p, m)' <=> Said(t, p, m)
  BY <1>3 DEF Said, workVars
<1>7. BaseSound(t)'
  <2>1. BaseSound(t) /\ Held(t)' = Held(t)
    BY <1>3 DEF RoomInv, Held
  <2> QED BY <1>2, <1>3, <1>4, <1>5, <1>6, <2>1 DEF BaseSound
<1> QED BY <1>1, <1>2, <1>3, <1>7, PageStep

LEMMA ShowHistoryStep ==
    ASSUME RoomInv, NEW t \in Tabs, ShowHistory(t) \/ ShowHistoryClassic(t)
    PROVE  RoomInv'
<1>1. page[t] \in Pages
  BY DEF RoomInv, RoomTypeOK
<1>2. page[t].rows \in SUBSET Messages /\ page[t].shown \in SUBSET [id : Messages, local : BOOLEAN]
  BY <1>1 DEF Pages
<1>3. PICK rows, shown : rows = page[t].rows /\ shown = page[t].shown
  OBVIOUS
<1>4. {Row(m) : m \in rows} \in SUBSET [id : Messages, local : BOOLEAN]
  BY <1>2, <1>3, RowsTyped
<1>5. \A m : Shows(t, m) => Row(m) \in shown \/ Local(m) \in shown
  BY <1>3 DEF Shows
<1>6. CASE ShowHistory(t)
  <2> DEFINE new == Merged(rows, shown)
  <2>1. Showing(t, new)
    BY <1>3, <1>6 DEF ShowHistory
  <2>2. new \in SUBSET [id : Messages, local : BOOLEAN]
    BY <1>2, <1>3, <1>4 DEF Merged
  <2>3. \A m \in rows : Row(m) \in new
    BY DEF Merged
  <2>4. ASSUME NEW m, Row(m) \in shown \/ Local(m) \in shown PROVE Row(m) \in new \/ Local(m) \in new
    <3>1. CASE m \in rows
      BY <2>3, <3>1
    <3>2. CASE m \notin rows
      <4>1. Row(m).id = m /\ Local(m).local
        BY DEF Row, Local
      <4> QED BY <2>4, <3>2, <4>1 DEF Merged
    <3> QED BY <3>1, <3>2
  <2> HIDE DEF new
  <2> QED BY <1>3, <1>5, <2>1, <2>2, <2>3, <2>4, ShowingStep
<1>7. CASE ShowHistoryClassic(t)
  <2> DEFINE new == shown \cup {Row(m) : m \in rows}
  <2>1. Showing(t, new)
    BY <1>3, <1>7 DEF ShowHistoryClassic
  <2>2. new \in SUBSET [id : Messages, local : BOOLEAN]
    BY <1>2, <1>3, <1>4
  <2>3. \A m \in rows : Row(m) \in new
    OBVIOUS
  <2>4. \A m : Row(m) \in shown \/ Local(m) \in shown => Row(m) \in new \/ Local(m) \in new
    OBVIOUS
  <2> HIDE DEF new
  <2> QED BY <1>3, <1>5, <2>1, <2>2, <2>3, <2>4, ShowingStep
<1> QED BY <1>6, <1>7

-----------------------------------------------------------------------------
(* An event arrives.                                                        *)

\* The page is told what the event tells; what it does not show yet of the
\* event is shown now.
Takes(t, P, e) ==
    /\ Goes(page[t], P)
    /\ P.users = IF e.type = "presence" THEN e.users ELSE page[t].users
    /\ e.type = "message" => Row(e.message) \in P.shown
    /\ t \notin ClassicTabs /\ e.type = "complete" /\ e.text => Local(<<e.gen, "answer">>) \in P.shown

LEMMA DeliverStep ==
    ASSUME RoomInv, NEW t \in Tabs, Deliver(t)
    PROVE  RoomInv'
<1> DEFINE e == Head(inbox[t])
<1>1. /\ page \in [Tabs -> Pages] /\ live \in [Tabs -> 0..Connections] /\ inbox \in [Tabs -> Seq(Events)]
      /\ base \in [Tabs -> {None} \cup SUBSET Messages] /\ page[t] \in Pages /\ inbox[t] \in Seq(Events)
      /\ HasLast(inbox[t]) /\ inbox[t] # <<>> /\ HeldSound(t) /\ BaseSound(t) /\ (t \notin Listeners => Informed(t))
  BY DEF RoomInv, RoomTypeOK, SocketFacts, Deliver
<1>2. /\ e \in Events /\ Tail(inbox[t]) \in Seq(Events) /\ HasLast(Tail(inbox[t]))
      /\ Told(inbox[t], page[t].users) = Told(Tail(inbox[t]), IF e.type = "presence" THEN e.users ELSE page[t].users)
      /\ ToSet(inbox[t]) = ToSet(Tail(inbox[t])) \cup {e}
  BY <1>1, ToldTail
<1>3. PICK P : /\ page' = [page EXCEPT ![t] = P]
               /\ P \in IF ~page[t].hears \/ t \in Listeners THEN {page[t]}
                        ELSE IF t \in ClassicTabs THEN {Classically(page[t], e)}
                        ELSE React(ReactPresence(page[t], e), e)
  BY DEF Deliver
<1>4. inbox' = [inbox EXCEPT ![t] = Tail(inbox[t])] /\ UNCHANGED <<authVars, stored, sock, live, presence, base, workVars, met>>
  BY DEF Deliver
<1> HIDE DEF e
<1>5. /\ inbox' \in [Tabs -> Seq(Events)] /\ inbox'[t] = Tail(inbox[t]) /\ page'[t] = P
      /\ \A x \in Tabs \ {t} : inbox'[x] = inbox[x] /\ page'[x] = page[x]
  BY <1>1, <1>2, <1>3, <1>4
<1>6. Held(t)' = Held(t) /\ live'[t] = live[t] /\ base'[t] = base[t]
  BY <1>4 DEF Held
<1>7. CASE ~page[t].hears \/ t \in Listeners
  <2>1. P = page[t]
    BY <1>3, <1>7
  <2>2. page' \in [Tabs -> Pages]
    BY <1>1, <1>3, <2>1
  <2>3. base[t] = None
    BY <1>1, <1>7 DEF BaseSound
  <2>4. BaseSound(t)'
    BY <1>6, <2>3 DEF BaseSound
  <2>5. HeldSound(t)'
    BY <1>1, <1>5, <1>6, <2>1 DEF HeldSound
  <2>6. t \notin Listeners => Informed(t)'
    BY <1>1, <1>6, <1>7 DEF HeldSound, Informed
  <2> QED BY <1>1, <1>2, <1>4, <1>5, <2>2, <2>4, <2>5, <2>6, TabStep
<1>8. CASE page[t].hears /\ t \notin Listeners
  <2>1. Takes(t, P, e)
    <3>1. CASE t \in ClassicTabs
      <4>1. P = Classically(page[t], e)
        BY <1>3, <1>8, <3>1
      <4> QED BY <1>1, <1>2, <3>1, <4>1, ClassicGoes DEF Takes
    <3>2. CASE t \notin ClassicTabs
      <4>1. P \in React(ReactPresence(page[t], e), e)
        BY <1>3, <1>8, <3>2
      <4> QED BY <1>1, <1>2, <4>1, ReactGoes DEF Takes
    <3> QED BY <3>1, <3>2
  <2>2. /\ P \in Pages /\ P.open = page[t].open /\ P.hears = page[t].hears /\ P.history = page[t].history
        /\ P.rows = page[t].rows /\ page[t].shown \subseteq P.shown
    BY <2>1 DEF Takes, Goes
  <2>3. page' \in [Tabs -> Pages]
    BY <1>1, <1>3, <2>2
  <2>4. HeldSound(t)'
    BY <1>1, <1>5, <1>6, <2>2 DEF HeldSound
  <2>5. Informed(t)'
    <3>1. Told(inbox'[t], page'[t].users) = Told(inbox[t], page[t].users)
      BY <1>2, <1>5, <2>1 DEF Takes
    <3>2. presence' = presence
      BY <1>4
    <3> QED BY <1>1, <1>6, <1>8, <3>1, <3>2 DEF Informed, ListOf
  <2>6. ASSUME base[t] # None, NEW m \in ToSet(stored[Held(t).ws]), m \notin base[t], Said(t, Held(t).pod, m)
        PROVE  Reaches(t, m)'
    <3>1. Reaches(t, m)
      BY <1>1, <2>6 DEF BaseSound
    <3>2. CASE Shows(t, m)
      <4>1. Shows(t, m)'
        BY <1>5, <2>2, <3>2 DEF Shows
      <4> QED BY <4>1 DEF Reaches
    <3>3. CASE page[t].history = "read" /\ m \in page[t].rows
      <4>1. Coming(t, m)'
        BY <1>5, <2>2, <3>3 DEF Coming
      <4> QED BY <4>1 DEF Reaches
    <3>4. CASE \E x \in ToSet(inbox[t]) : \/ x.type = "message" /\ x.message = m
                                          \/ x.type = "complete" /\ m = <<x.gen, "answer">> /\ x.text
      <4>1. PICK x \in ToSet(inbox[t]) : \/ x.type = "message" /\ x.message = m
                                         \/ x.type = "complete" /\ m = <<x.gen, "answer">> /\ x.text
        BY <3>4
      <4>2. CASE x \in ToSet(Tail(inbox[t]))
        <5>1. Coming(t, m)'
          BY <1>5, <4>1, <4>2 DEF Coming
        <5> QED BY <5>1 DEF Reaches
      <4>3. CASE x = e
        <5>1. CASE e.type = "message" /\ e.message = m
          <6>1. Shows(t, m)'
            BY <1>5, <2>1, <5>1 DEF Takes, Shows
          <6> QED BY <6>1 DEF Reaches
        <5>2. CASE e.type = "complete" /\ m = <<e.gen, "answer">> /\ e.text
          <6>1. e.gen \in Gens
            BY <1>2, <5>2, EventKinds
          <6>2. m \notin Posts
            BY <5>2, <6>1, MessageAssumption
          <6>3. t \notin ClassicTabs
            BY <2>6, <6>2 DEF Said
          <6>4. Shows(t, m)'
            BY <1>5, <2>1, <5>2, <6>3 DEF Takes, Shows
          <6> QED BY <6>4 DEF Reaches
        <5> QED BY <4>1, <4>3, <5>1, <5>2
      <4> QED BY <1>2, <4>1, <4>2, <4>3
    <3> QED BY <3>1, <3>2, <3>3, <3>4 DEF Reaches, Coming
  <2>7. \A p, m : Said(t, p, m)' <=> Said(t, p, m)
    BY <1>4 DEF Said, workVars
  <2>8. BaseSound(t)'
    <3>1. stored' = stored
      BY <1>4
    <3> QED BY <1>1, <1>5, <1>6, <2>2, <2>6, <2>7, <3>1 DEF BaseSound
  <2> QED BY <1>1, <1>2, <1>4, <1>5, <2>3, <2>4, <2>5, <2>8, TabStep
<1> QED BY <1>7, <1>8

LEMMA TabRoomStep == RoomInv /\ TabNext => RoomInv'
<1> SUFFICES ASSUME RoomInv, NEW t \in Tabs,
                    \/ Open(t) \/ OpenClassicPage(t) \/ Render(t) \/ Close(t)
                    \/ ReadHistory(t) \/ ShowHistory(t) \/ ShowHistoryClassic(t) \/ HistoryFails(t)
                    \/ Deliver(t)
             PROVE  RoomInv'
  BY DEF TabNext
<1>1. CASE Open(t) \/ OpenClassicPage(t)
  <2>1. Opened(t, FALSE) \/ Opened(t, TRUE)
    BY <1>1 DEF Open, OpenClassicPage
  <2> QED BY <2>1, OpenedStep
<1> QED BY <1>1, RenderStep, CloseStep, ReadHistoryStep, ShowHistoryStep, HistoryFailsStep, DeliverStep

-----------------------------------------------------------------------------
(* Sign-in, and the whole.                                                  *)

\* Who is signed in does not matter to what is open.
LEMMA SessionStep ==
    ASSUME RoomInv, accounts' \subseteq Users, session' \in [Browsers -> {None} \cup [user : Users, ws : Workspaces]],
           UNCHANGED <<stored, sock, presence, inbox, tabVars, workVars, met>>
    PROVE  RoomInv'
<1> USE DEF tabVars, workVars
<1>1. RoomTypeOK' /\ (\A t \in Tabs : HasLast(inbox[t]))'
  BY DEF RoomInv, RoomTypeOK
<1>2. SocketFacts'
  BY DEF RoomInv, SocketFacts, UsedInOrder, HeldSound, Held, SocketSound, MetSound
<1>3. EntryFacts' /\ ListedWhenPresent'
  BY DEF RoomInv, EntryFacts, ListedWhenPresent, Alone, Listed
<1>4. (\A t \in Tabs \ Listeners : Informed(t))'
  BY DEF RoomInv, Informed, Held, ListOf
<1>5. StoredFacts'
  BY DEF RoomInv, StoredFacts
<1>6. (\A t \in Tabs : BaseSound(t))'
  BY DEF RoomInv, BaseSound, Held, Said, Reaches, Shows, Coming
<1> QED BY <1>1, <1>2, <1>3, <1>4, <1>5, <1>6 DEF RoomInv

LEMMA AuthRoomStep == RoomInv /\ AuthNext => RoomInv'
<1> SUFFICES ASSUME RoomInv, NEW b \in Browsers,
                    SignOut(b) \/ \E u \in Users : SignUp(b, u) \/ Login(b, u) \/ Sso(b, u)
             PROVE  RoomInv'
  BY DEF AuthNext
<1>1. session \in [Browsers -> {None} \cup [user : Users, ws : Workspaces]] /\ accounts \subseteq Users
  BY DEF RoomInv, RoomTypeOK
<1>2. session' \in [Browsers -> {None} \cup [user : Users, ws : Workspaces]] /\ accounts' \subseteq Users
      /\ UNCHANGED <<stored, sock, presence, inbox, tabVars, workVars, met>>
  BY <1>1, RoomAssumption DEF SignOut, SignUp, Login, Sso, SignedIn, Enrolled
<1> QED BY <1>2, SessionStep

LEMMA RoomInductive == RoomInv /\ [Next]_vars => RoomInv'
<1> SUFFICES ASSUME RoomInv, [Next]_vars PROVE RoomInv'
  OBVIOUS
<1>1. CASE UNCHANGED roomVars
  BY <1>1, RoomRests
<1>2. CASE UNCHANGED vars
  BY <1>2, RoomRests DEF vars
<1> QED BY <1>1, <1>2, PodRoomStep, AuthRoomStep, SocketRoomStep, PostRoomStep, GenRoomStep, TabRoomStep DEF Next

\* Every variable of the room keeps its type.
THEOREM RoomTypes == Spec => []RoomTypeOK
<1>1. RoomInv => RoomTypeOK
  BY DEF RoomInv
<1> QED BY <1>1, RoomInitially, RoomInductive, PTL DEF Spec

\* Whatever order the history, the messages and the answers arrive in, a tab
\* that listened when its history was read, and has stayed connected since,
\* shows that history and what its pod has stored and announced, or will
\* when what is on its way has arrived (WorkspacePage.tsx, useSocket.tsx,
\* public/js/chat.js), for any number of tabs, pods and connections.
THEOREM MessagesNotLost == Spec => []NothingLost
BY RoomInitially, RoomInductive, NothingLostFollows, PTL DEF Spec

\* The list of a workspace has its user exactly when their only socket there
\* is registered, and the last list on its way to a registered tab is that of
\* its own workspace (workspaceHandler.js), whoever joins, acts and leaves
\* elsewhere and whichever pods end, where no adapter carries the lists of
\* one pod to the sockets of another.
THEOREM PresenceIsTrue == ~Adapter => (Spec => []PresenceTrue)
<1> SUFFICES ASSUME ~Adapter PROVE Spec => []PresenceTrue
  OBVIOUS
<1>1. RoomInv => PresenceTrue
  BY PresenceFollows
<1> QED BY <1>1, RoomInitially, RoomInductive, PTL DEF Spec

-----------------------------------------------------------------------------
(* The inductive invariant of the boot chain.                               *)

Written == owed # Empty /\ ~raced

\* The row exists once a pod has registered it.
Registered == \A p \in Pods : pod[p].pc \notin {"down", "dialing", "registering"} => row # None

\* What a pod is about to seed is provisioned and what it is about to write
\* back has been read; what a dialog is about to send has been filled in.
Filled ==
    /\ \A p \in Pods : pod[p].pc \in {"checking", "seeding"} => Env[p].prompt \in Prompts
    /\ \A p \in Pods : pod[p].pc = "syncing" => pod[p].read \in Ais
    /\ \A f \in Forms : form[f].pc \in {"checking", "writing"} => form[f].patch \in Patches

NoSeeder == Written => \A p \in Pods : pod[p].pc # "seeding"

IInv ==
    /\ BootTypeOK
    /\ pooled \/ owed # Empty => row # None
    /\ Registered
    /\ Filled
    /\ NoSeeder
    /\ PushSurvives

USE EnvAssumption, DefaultAssumption, PromptAssumption, NoneAssumption, AttemptsAssumption

-----------------------------------------------------------------------------
(* The row.                                                                 *)

LEMMA NewRowIsRow == NewRow \in Rows
BY DEF NewRow, Rows, Texts

\* An UPDATE keeps the row, its fields and, if it sets none, its prompt.
LEMMA UpdatedRow ==
    ASSUME NEW r \in {None} \cup Rows, NEW F,
           \/ F \in Patches
           \/ \E s \in {"active", "stopped"} : F = [status |-> s]
           \/ \E t \in Texts : F = [prompt |-> t]
           \/ \E a \in Ais : F = [ai |-> a]
           \/ \E p \in Pods : F = [allowed |-> Env[p].allowed]
    PROVE  /\ Updated(r, F) \in {None} \cup Rows
           /\ Updated(r, F) = None <=> r = None
           /\ r # None /\ "prompt" \notin DOMAIN F => Updated(r, F).prompt = r.prompt
           /\ r # None /\ "prompt" \in DOMAIN F => Updated(r, F).prompt = F.prompt
<1>1. CASE r = None
  BY <1>1 DEF Updated
<1>2. CASE r # None
  <2>1. r \in Rows
    BY <1>2
  <2>2. Updated(r, F) \in Rows
    BY <1>2, <2>1 DEF Updated, Rows, Patches, Texts
  <2> QED BY <1>2, <2>1, <2>2 DEF Updated, Rows, Patches
<1> QED BY <1>1, <1>2

-----------------------------------------------------------------------------
LEMMA Initially == BootInit => IInv
<1> SUFFICES ASSUME BootInit PROVE IInv
  OBVIOUS
<1>1. BootTypeOK
  BY NewRowIsRow DEF BootInit, BootTypeOK, PodPCs, Idle, Closed, Texts
<1>2. pooled \/ owed # Empty => row # None
  BY NewRowIsRow DEF BootInit
<1> QED BY <1>1, <1>2 DEF BootInit, IInv, Registered, Filled, NoSeeder, PushSurvives, Written, Idle, Closed

-----------------------------------------------------------------------------
(* The pods.                                                                *)

PodType == [pc : PodPCs, attempt : Nat, read : {None} \cup Ais, stopping : {"no", "asked", "written"}]

\* A step of a pod may go past the registration only where the row is, and
\* be about to seed only when nothing was written.  It may write the row as
\* long as it leaves what was written there.
LEMMA ChainStep ==
    ASSUME IInv, NEW p \in Pods, NEW q \in PodType,
           row' \in {None} \cup Rows,
           row # None => row' # None,
           row # None /\ Written => row'.prompt = row.prompt,
           q.pc \notin {"down", "dialing", "registering"} => row' # None,
           q.pc \in {"checking", "seeding"} => Env[p].prompt \in Prompts,
           q.pc = "syncing" => q.read \in Ais,
           q.pc = "seeding" => pod[p].pc = "seeding" \/ ~Written,
           pod' = [pod EXCEPT ![p] = q],
           UNCHANGED <<pooled, form, owed, raced>>
    PROVE  IInv'
<1>1. \A x \in Pods : pod'[x] = IF x = p THEN q ELSE pod[x]
  BY DEF IInv, BootTypeOK
<1>2. BootTypeOK'
  BY <1>1 DEF IInv, BootTypeOK, PodType
<1>3. Registered' /\ Filled'
  BY <1>1 DEF IInv, Registered, Filled
<1>4. NoSeeder' /\ PushSurvives'
  BY <1>1 DEF IInv, NoSeeder, PushSurvives, Written
<1> QED BY <1>2, <1>3, <1>4 DEF IInv

LEMMA PodsStep ==
    ASSUME IInv, NEW p \in Pods, NEW q \in PodType,
           q.pc \notin {"down", "dialing", "registering"} => row # None,
           q.pc \in {"checking", "seeding"} => Env[p].prompt \in Prompts,
           q.pc = "syncing" => q.read \in Ais,
           q.pc = "seeding" => pod[p].pc = "seeding" \/ ~Written,
           pod' = [pod EXCEPT ![p] = q],
           UNCHANGED <<pooled, row, form, owed, raced>>
    PROVE  IInv'
<1>1. row' \in {None} \cup Rows /\ row' = row
  BY DEF IInv, BootTypeOK
<1> QED BY <1>1, ChainStep

LEMMA PodRests ==
    ASSUME IInv, NEW p \in Pods,
           \/ Start(p) \/ Dial(p) \/ DialPooled(p) \/ DialFails(p) \/ BootFails(p)
           \/ Terminate(p) \/ StopPooled(p) \/ Exit(p) \/ Crash(p)
    PROVE  IInv'
<1>0. pod \in [Pods -> PodType] /\ pod[p] \in PodType /\ Idle \in PodType
  BY DEF IInv, BootTypeOK, Idle, PodPCs, PodType
<1>1. CASE Start(p)
  <2> DEFINE dialing == [pc |-> "dialing", attempt |-> 0, read |-> None, stopping |-> "no"]
  <2>1. pod' = [pod EXCEPT ![p] = dialing]
    <3>1. [Idle EXCEPT !.pc = "dialing"] = dialing
      BY DEF Idle
    <3> QED BY <1>1, <3>1 DEF Start
  <2>2. dialing \in PodType /\ dialing.pc = "dialing"
    BY DEF PodPCs, PodType
  <2> HIDE DEF dialing
  <2> QED BY <1>0, <1>1, <2>1, <2>2, PodsStep DEF Start
<1>2. CASE Dial(p)
  <2>1. pod' = [pod EXCEPT ![p] = [pod[p] EXCEPT !.pc = "registering"]]
    BY <1>0, <1>2 DEF Dial, At
  <2> QED BY <1>0, <1>2, <2>1, PodsStep DEF Dial, PodPCs, PodType
<1>3. CASE DialPooled(p)
  <2>1. pod' = [pod EXCEPT ![p] = [pod[p] EXCEPT !.pc = "ready"]]
    BY <1>0, <1>3 DEF DialPooled, At
  <2>2. row # None
    BY <1>3 DEF DialPooled, IInv
  <2> QED BY <1>0, <1>3, <2>1, <2>2, PodsStep DEF DialPooled, PodPCs, PodType
<1>4. CASE DialFails(p)
  <2>1. CASE pod[p].attempt + 1 < Attempts
    <3>1. pod' = [pod EXCEPT ![p] = [pod[p] EXCEPT !.attempt = pod[p].attempt + 1]]
      BY <1>0, <1>4, <2>1 DEF DialFails
    <3> DEFINE again == [pod[p] EXCEPT !.attempt = pod[p].attempt + 1]
    <3>2. again \in PodType /\ again.pc = "dialing"
      BY <1>0, <1>4 DEF DialFails, PodType
    <3>3. pod' = [pod EXCEPT ![p] = again]
      BY <3>1
    <3> HIDE DEF again
    <3> QED BY <1>4, <3>2, <3>3, PodsStep DEF DialFails
  <2>2. CASE ~(pod[p].attempt + 1 < Attempts)
    <3>1. pod' = [pod EXCEPT ![p] = Idle]
      BY <1>0, <1>4, <2>2 DEF DialFails
    <3> QED BY <1>0, <1>4, <3>1, PodsStep DEF DialFails, Idle
  <2> QED BY <2>1, <2>2
<1>5. CASE BootFails(p) \/ Exit(p) \/ Crash(p)
  BY <1>0, <1>5, PodsStep DEF BootFails, Exit, Crash, Idle
<1>6. CASE Terminate(p)
  <2>1. pod' = [pod EXCEPT ![p] = [pod[p] EXCEPT !.stopping = "asked"]]
    BY <1>0, <1>6 DEF Terminate
  <2> QED BY <1>0, <1>6, <2>1, PodsStep DEF Terminate, PodType, IInv, Registered, Filled
<1>7. CASE StopPooled(p)
  <2>1. pod' = [pod EXCEPT ![p] = [pod[p] EXCEPT !.stopping = "written"]]
    BY <1>0, <1>7 DEF StopPooled
  <2> QED BY <1>0, <1>7, <2>1, PodsStep DEF StopPooled, PodType, IInv, Registered, Filled
<1> QED BY <1>1, <1>2, <1>3, <1>4, <1>5, <1>6, <1>7

\* The chain, from the registration on.
LEMMA PodChain ==
    ASSUME IInv, NEW p \in Pods,
           \/ Register(p) \/ Check(p) \/ Seed(p) \/ ReadAi(p) \/ SyncAi(p) \/ RestrictProviders(p)
           \/ WriteStopped(p)
    PROVE  IInv'
<1>0. pod \in [Pods -> PodType] /\ pod[p] \in PodType /\ row \in {None} \cup Rows
  BY DEF IInv, BootTypeOK, PodType
<1>1. CASE Register(p)
  <2>1. PICK there \in {"reading", "checking"} :
            /\ pod' = [pod EXCEPT ![p] = [pod[p] EXCEPT !.pc = there]]
            /\ there = "checking" => Env[p].prompt \in Prompts
    BY <1>0, <1>1 DEF Register, At
  <2>2. row' \in Rows /\ (row # None => row'.prompt = row.prompt)
    BY <1>0, <1>1, NewRowIsRow DEF Register, Upserted, Rows
  <2> DEFINE next == [pod[p] EXCEPT !.pc = there]
  <2>3. next \in PodType /\ next.pc = there
    BY <1>0 DEF PodType, PodPCs
  <2>4. pod' = [pod EXCEPT ![p] = next]
    BY <2>1
  <2> HIDE DEF next
  <2>5. row' \in {None} \cup Rows /\ row' # None
    BY <2>2
  <2>6. UNCHANGED <<pooled, form, owed, raced>>
    BY <1>1 DEF Register
  <2>7. /\ next.pc \in {"checking", "seeding"} => Env[p].prompt \in Prompts
        /\ next.pc # "syncing" /\ next.pc # "seeding"
    BY <2>1, <2>3
  <2> QED BY <2>2, <2>3, <2>4, <2>5, <2>6, <2>7, ChainStep
<1>2. CASE Check(p)
  <2>1. PICK there \in {"reading", "seeding"} :
            /\ pod' = [pod EXCEPT ![p] = [pod[p] EXCEPT !.pc = there]]
            /\ there = "seeding" => row # None /\ row.prompt = Empty
    BY <1>0, <1>2 DEF Check, At, Seeds
  <2>2. there = "seeding" => ~Written
    BY <2>1 DEF IInv, PushSurvives, Written
  <2>3. row # None /\ Env[p].prompt \in Prompts
    BY <1>2 DEF Check, At, IInv, Registered, Filled
  <2> DEFINE next == [pod[p] EXCEPT !.pc = there]
  <2>4. next \in PodType /\ next.pc = there
    BY <1>0 DEF PodType, PodPCs
  <2>5. pod' = [pod EXCEPT ![p] = next]
    BY <2>1
  <2> HIDE DEF next
  <2> QED BY <1>2, <2>2, <2>3, <2>4, <2>5, PodsStep DEF Check
<1>3. CASE Seed(p)
  <2>1. pod' = [pod EXCEPT ![p] = [pod[p] EXCEPT !.pc = "reading"]]
    BY <1>0, <1>3 DEF Seed, At
  <2>2. row # None /\ ~Written /\ Env[p].prompt \in Texts
    BY <1>3 DEF Seed, At, IInv, Registered, Filled, NoSeeder, Texts
  <2>3. row' \in Rows
    BY <1>0, <1>3, <2>2, UpdatedRow DEF Seed
  <2> DEFINE next == [pod[p] EXCEPT !.pc = "reading"]
  <2>4. next \in PodType /\ next.pc = "reading"
    BY <1>0 DEF PodType, PodPCs
  <2>5. pod' = [pod EXCEPT ![p] = next]
    BY <2>1
  <2> HIDE DEF next
  <2> QED BY <1>3, <2>2, <2>3, <2>4, <2>5, ChainStep DEF Seed
<1>4. CASE ReadAi(p)
  <2>1. row \in Rows /\ row # None /\ row.ai \in Ais
    BY <1>0, <1>4 DEF ReadAi, IInv, Registered, Rows
  <2>2. PICK there \in {"syncing", "restricting"}, ai \in {None, row.ai} :
            /\ there = "syncing" => ai = row.ai
            /\ pod' = [pod EXCEPT ![p] = [pod[p] EXCEPT !.pc = there, !.read = ai]]
    BY <1>0, <1>4 DEF ReadAi
  <2> DEFINE next == [pod[p] EXCEPT !.pc = there, !.read = ai]
  <2>3. next \in PodType /\ next.pc = there /\ next.read = ai
    BY <1>0, <2>1 DEF PodType, PodPCs
  <2>4. pod' = [pod EXCEPT ![p] = next]
    BY <2>2
  <2> HIDE DEF next
  <2> QED BY <1>4, <2>1, <2>2, <2>3, <2>4, PodsStep DEF ReadAi
<1>5. CASE SyncAi(p)
  <2>1. Synced(p) \in Ais
    <3>1. pod[p].read \in Ais
      BY <1>5 DEF SyncAi, IInv, Filled
    <3> QED BY <3>1 DEF Synced, Ais
  <2>2. row \in Rows /\ row # None
    BY <1>0, <1>5 DEF SyncAi, IInv, Registered
  <2>3. row' \in Rows /\ row'.prompt = row.prompt
    BY <1>5, <2>1, <2>2, UpdatedRow DEF SyncAi
  <2> DEFINE next == [pod[p] EXCEPT !.pc = "restricting", !.read = None]
  <2>4. next \in PodType /\ next.pc = "restricting"
    BY <1>0 DEF PodType, PodPCs
  <2>5. pod' = [pod EXCEPT ![p] = next]
    BY <1>0, <1>5 DEF SyncAi
  <2> HIDE DEF next
  <2> QED BY <1>5, <2>2, <2>3, <2>4, <2>5, ChainStep DEF SyncAi
<1>6. CASE RestrictProviders(p)
  <2>1. row \in Rows /\ row # None
    BY <1>0, <1>6 DEF RestrictProviders, At, IInv, Registered
  <2>2. row' \in Rows /\ row'.prompt = row.prompt
    BY <1>6, <2>1, UpdatedRow DEF RestrictProviders
  <2> DEFINE next == [pod[p] EXCEPT !.pc = "ready"]
  <2>3. next \in PodType /\ next.pc = "ready"
    BY <1>0 DEF PodType, PodPCs
  <2>4. pod' = [pod EXCEPT ![p] = next]
    BY <1>0, <1>6 DEF RestrictProviders, At
  <2> HIDE DEF next
  <2> QED BY <1>6, <2>1, <2>2, <2>3, <2>4, ChainStep DEF RestrictProviders
<1>7. CASE WriteStopped(p)
  <2>1. /\ row' \in {None} \cup Rows
        /\ row # None => row' # None /\ row'.prompt = row.prompt
    BY <1>0, <1>7, UpdatedRow DEF WriteStopped
  <2> DEFINE next == [pod[p] EXCEPT !.stopping = "written"]
  <2>2. next \in PodType /\ next.pc = pod[p].pc /\ next.read = pod[p].read
    BY <1>0 DEF PodType
  <2>3. pod' = [pod EXCEPT ![p] = next]
    BY <1>0, <1>7 DEF WriteStopped
  <2> HIDE DEF next
  <2>4. /\ next.pc \notin {"down", "dialing", "registering"} => row # None
        /\ next.pc \in {"checking", "seeding"} => Env[p].prompt \in Prompts
        /\ next.pc = "syncing" => next.read \in Ais
    BY <2>2 DEF IInv, Registered, Filled
  <2> QED BY <1>7, <2>1, <2>2, <2>3, <2>4, ChainStep DEF WriteStopped
<1> QED BY <1>1, <1>2, <1>3, <1>4, <1>5, <1>6, <1>7

-----------------------------------------------------------------------------
(* The dialogs.                                                             *)

FormType == [pc : {"closed", "open", "checking", "writing"}, loaded : BOOLEAN, prompt : Texts, ai : Ais,
             tools : SUBSET Catalog, sources : SUBSET Sections, patch : {None} \cup Patches]

\* A step of a dialog that leaves the row alone.
LEMMA FormStep ==
    ASSUME IInv, NEW f \in Forms, NEW g \in FormType,
           g.pc \in {"checking", "writing"} => g.patch \in Patches,
           form' = [form EXCEPT ![f] = g],
           UNCHANGED <<pooled, row, pod, owed, raced>>
    PROVE  IInv'
<1>1. \A x \in Forms : form'[x] = IF x = f THEN g ELSE form[x]
  BY DEF IInv, BootTypeOK
<1>2. BootTypeOK'
  BY <1>1 DEF IInv, BootTypeOK, FormType
<1>3. Filled'
  BY <1>1 DEF IInv, Filled
<1> QED BY <1>2, <1>3 DEF IInv, Registered, NoSeeder, PushSurvives, Written

\* What a dialog edits and sends.
LEMMA EditStep ==
    ASSUME IInv, NEW f \in Forms, NEW fields, NEW patch, Edit(f, fields, patch),
           \/ /\ fields \in [prompt : Texts, ai : Ais] /\ patch \in [prompt : Texts, ai : Ais]
           \/ /\ fields \in [tools : SUBSET Catalog] /\ patch \in [tools : {None} \cup SUBSET Catalog]
           \/ /\ fields \in [sources : SUBSET Sections] /\ patch \in [sources : SUBSET Sections]
    PROVE  IInv'
<1> DEFINE g == [x \in DOMAIN form[f] |-> CASE x = "pc" -> IF "ai" \in DOMAIN patch THEN "checking" ELSE "writing"
                                            [] x = "patch" -> patch
                                            [] x \in DOMAIN fields -> fields[x]
                                            [] OTHER -> form[f][x]]
<1>1. form[f] \in FormType
  BY DEF IInv, BootTypeOK, FormType
<1>2. patch \in Patches
  BY DEF Patches
<1>3. g \in FormType /\ g.patch = patch
  BY <1>1, <1>2 DEF FormType
<1>4. form' = [form EXCEPT ![f] = g]
  BY DEF Edit
<1>5. UNCHANGED <<pooled, row, pod, owed, raced>>
  BY DEF Edit
<1> HIDE DEF g
<1> QED BY <1>2, <1>3, <1>4, <1>5, FormStep

LEMMA FormRests ==
    ASSUME IInv, NEW f \in Forms,
           \/ OpenForm(f) \/ OpenClassicForm(f) \/ LoadForm(f) \/ LoadClassicForm(f)
           \/ CheckProvider(f) \/ PatchFails(f) \/ CloseForm(f)
    PROVE  IInv'
<1>0. /\ form \in [Forms -> FormType] /\ form[f] \in FormType /\ row \in {None} \cup Rows
      /\ form[f].pc \in {"checking", "writing"} => form[f].patch \in Patches
  BY DEF IInv, BootTypeOK, FormType, Filled
<1>1. CASE OpenForm(f)
  <2> DEFINE g == [Closed EXCEPT !.pc = "open"]
  <2>1. g \in FormType /\ g.pc = "open"
    BY DEF Closed, FormType, Texts
  <2>2. form' = [form EXCEPT ![f] = g]
    BY <1>1 DEF OpenForm
  <2> HIDE DEF g
  <2> QED BY <1>1, <2>1, <2>2, FormStep DEF OpenForm
<1>2. CASE OpenClassicForm(f)
  <2> DEFINE g == [form[f] EXCEPT !.pc = "open", !.loaded = FALSE, !.tools = Catalog]
  <2>1. g \in FormType /\ g.pc = "open"
    BY <1>0 DEF FormType
  <2>2. form' = [form EXCEPT ![f] = g]
    BY <1>0, <1>2 DEF OpenClassicForm
  <2> HIDE DEF g
  <2> QED BY <1>2, <2>1, <2>2, FormStep DEF OpenClassicForm
<1>3. CASE LoadForm(f) \/ LoadClassicForm(f)
  <2>1. row \in Rows
    BY <1>0, <1>3 DEF LoadForm, LoadClassicForm
  <2>2. PICK sources \in SUBSET Sections : Load(f, sources)
    BY <1>3, <2>1 DEF LoadForm, LoadClassicForm, Rows
  <2> DEFINE g == [form[f] EXCEPT !.loaded = TRUE, !.prompt = row.prompt, !.ai = row.ai,
                                  !.tools = Boxes(row.tools), !.sources = sources]
  <2>3. Boxes(row.tools) \in SUBSET Catalog
    BY <2>1 DEF Boxes, Rows
  <2>4. g \in FormType /\ g.pc = form[f].pc /\ g.patch = form[f].patch
    BY <1>0, <2>1, <2>3 DEF FormType, Rows
  <2>5. form' = [form EXCEPT ![f] = g]
    BY <1>0, <2>2 DEF Load
  <2> HIDE DEF g
  <2> QED BY <1>0, <2>2, <2>4, <2>5, FormStep DEF Load
<1>4. CASE CheckProvider(f)
  <2>1. PICK there \in {"writing", "open"}, patch \in {None, form[f].patch} :
            /\ there = "writing" => patch = form[f].patch
            /\ form' = [form EXCEPT ![f] = [form[f] EXCEPT !.pc = there, !.patch = patch]]
    BY <1>0, <1>4 DEF CheckProvider
  <2> DEFINE g == [form[f] EXCEPT !.pc = there, !.patch = patch]
  <2>2. g \in FormType /\ g.pc = there /\ g.patch = patch
    BY <1>0 DEF FormType
  <2>3. form' = [form EXCEPT ![f] = g]
    BY <2>1
  <2>4. form[f].patch \in Patches
    BY <1>0, <1>4 DEF CheckProvider
  <2> HIDE DEF g
  <2> QED BY <1>4, <2>1, <2>2, <2>3, <2>4, FormStep DEF CheckProvider
<1>5. CASE PatchFails(f) \/ CloseForm(f)
  <2>1. PICK there \in {"open", "closed"}, patch \in {None, form[f].patch} :
            form' = [form EXCEPT ![f] = [form[f] EXCEPT !.pc = there, !.patch = patch]]
    <3>1. CASE PatchFails(f)
      BY <1>0, <3>1 DEF PatchFails
    <3>2. CASE CloseForm(f)
      <4>1. form' = [form EXCEPT ![f] = [form[f] EXCEPT !.pc = "closed", !.patch = form[f].patch]]
        BY <1>0, <3>2 DEF CloseForm, FormType
      <4> QED BY <4>1
    <3> QED BY <1>5, <3>1, <3>2
  <2> DEFINE g == [form[f] EXCEPT !.pc = there, !.patch = patch]
  <2>2. g \in FormType /\ g.pc = there
    BY <1>0 DEF FormType
  <2>3. form' = [form EXCEPT ![f] = g]
    BY <2>1
  <2> HIDE DEF g
  <2> QED BY <1>5, <2>2, <2>3, FormStep DEF PatchFails, CloseForm
<1> QED BY <1>1, <1>2, <1>3, <1>4, <1>5

LEMMA FormSaves ==
    ASSUME IInv, NEW f \in Forms, SaveAgent(f) \/ SaveTools(f) \/ SaveSources(f) \/ SaveWarehouses(f)
    PROVE  IInv'
<1>0. form[f] \in FormType
  BY DEF IInv, BootTypeOK, FormType
<1>1. CASE SaveAgent(f)
  <2>1. PICK prompt \in Prompts \cup {Empty, form[f].prompt}, provider \in Providers \cup {form[f].ai.provider} :
            LET agent == [prompt |-> prompt, ai |-> [form[f].ai EXCEPT !.provider = provider]]
            IN  Edit(f, agent, agent)
    BY <1>1 DEF SaveAgent
  <2>2. [prompt |-> prompt, ai |-> [form[f].ai EXCEPT !.provider = provider]] \in [prompt : Texts, ai : Ais]
    BY <1>0 DEF FormType, Texts, Ais
  <2> QED BY <2>1, <2>2, EditStep
<1>2. CASE SaveTools(f)
  <2>1. PICK tools \in SUBSET Catalog : Edit(f, [tools |-> tools], [tools |-> Restriction(tools)])
    BY <1>0, <1>2 DEF SaveTools, FormType
  <2>2. Restriction(tools) \in {None} \cup SUBSET Catalog
    BY DEF Restriction
  <2> QED BY <2>1, <2>2, EditStep
<1>3. CASE SaveSources(f)
  <2>1. PICK kept \in SUBSET Sections, sources \in SUBSET Sections : Edit(f, [sources |-> kept], [sources |-> sources])
    BY <1>0, <1>3 DEF SaveSources, FormType
  <2> QED BY <2>1, EditStep
<1>4. CASE SaveWarehouses(f)
  <2>1. PICK sources \in SUBSET Sections : Edit(f, [sources |-> sources], [sources |-> sources])
    BY <1>4 DEF SaveWarehouses, Sections
  <2> QED BY <2>1, EditStep
<1> QED BY <1>1, <1>2, <1>3, <1>4

-----------------------------------------------------------------------------
(* Prompts written on purpose.                                              *)

\* A write lands in the row, and no pod is about to seed after it unless it
\* is marked as raced.
LEMMA WriteStep ==
    ASSUME IInv, NEW prompt \in Texts, row # None,
           row' \in Rows, row'.prompt = prompt, Write(prompt),
           form' \in [Forms -> FormType],
           \A f \in Forms : form'[f].pc \in {"checking", "writing"} => form'[f].patch \in Patches,
           UNCHANGED <<pooled, pod>>
    PROVE  IInv'
<1>1. BootTypeOK' /\ Registered' /\ Filled'
  BY DEF IInv, BootTypeOK, Registered, Filled, FormType, Write
<1>2. NoSeeder' /\ PushSurvives'
  BY DEF Write, NoSeeder, PushSurvives, Written
<1> QED BY <1>1, <1>2 DEF IInv

LEMMA PushStep ==
    ASSUME IInv, NEW prompt \in Prompts, Push(prompt)
    PROVE  IInv'
<1>1. row \in Rows /\ prompt \in Texts
  BY DEF IInv, BootTypeOK, Push, Texts
<1>2. row' \in Rows /\ row'.prompt = prompt
  BY <1>1, UpdatedRow DEF Push
<1>3. form' \in [Forms -> FormType] /\ UNCHANGED form
  BY DEF Push, IInv, BootTypeOK, FormType
<1> QED BY <1>1, <1>2, <1>3, WriteStep DEF Push, IInv, Filled

LEMMA PatchStep ==
    ASSUME IInv, NEW f \in Forms, Patch(f)
    PROVE  IInv'
<1> DEFINE patch == form[f].patch
           g == [form[f] EXCEPT !.pc = "open", !.patch = None,
                                !.sources = IF "sources" \in DOMAIN patch THEN patch.sources ELSE form[f].sources]
<1>0. form[f] \in FormType /\ patch \in Patches /\ row \in {None} \cup Rows
  BY DEF IInv, BootTypeOK, FormType, Filled, Patch
<1>1. g \in FormType /\ g.pc = "open"
  BY <1>0 DEF FormType, Patches
<1>2. form' = [form EXCEPT ![f] = g]
  BY <1>0 DEF Patch
<1>3. /\ form' \in [Forms -> FormType]
      /\ \A x \in Forms : form'[x] = IF x = f THEN g ELSE form[x]
  BY <1>1, <1>2 DEF IInv, BootTypeOK, FormType
<1> HIDE DEF g
<1>4. \A x \in Forms : form'[x].pc \in {"checking", "writing"} => form'[x].patch \in Patches
  BY <1>1, <1>3 DEF IInv, Filled
<1>5. CASE row # None /\ "prompt" \in DOMAIN patch
  <2>1. patch.prompt \in Texts
    BY <1>0, <1>5 DEF Patches
  <2>2. row' \in Rows /\ row'.prompt = patch.prompt
    BY <1>0, <1>5, UpdatedRow DEF Patch
  <2> QED BY <1>3, <1>4, <1>5, <2>1, <2>2, WriteStep DEF Patch
<1>6. CASE ~(row # None /\ "prompt" \in DOMAIN patch)
  <2>1. /\ row' \in {None} \cup Rows
        /\ row' = None <=> row = None
        /\ row # None => row'.prompt = row.prompt
        /\ UNCHANGED <<pooled, pod>>
    BY <1>0, <1>6, UpdatedRow DEF Patch
  <2>2. owed' = owed /\ raced' \in BOOLEAN /\ (row # None => raced' = raced)
    <3>1. CASE "prompt" \in DOMAIN patch
      BY <1>6, <3>1 DEF Patch, Write
    <3>2. CASE "prompt" \notin DOMAIN patch
      BY <3>2 DEF Patch, IInv, BootTypeOK
    <3> QED BY <3>1, <3>2
  <2>3. BootTypeOK' /\ Registered' /\ Filled'
    BY <1>3, <1>4, <2>1, <2>2 DEF IInv, BootTypeOK, FormType, Registered, Filled
  <2>4. NoSeeder' /\ PushSurvives'
    BY <2>1, <2>2 DEF IInv, NoSeeder, PushSurvives, Written
  <2> QED BY <2>1, <2>2, <2>3, <2>4 DEF IInv
<1> QED BY <1>5, <1>6

-----------------------------------------------------------------------------
LEMMA Inductive == IInv /\ [BootNext]_bootVars => IInv'
<1> SUFFICES ASSUME IInv, [BootNext]_bootVars PROVE IInv'
  OBVIOUS
<1>1. CASE PodNext
  BY <1>1, PodRests, PodChain DEF PodNext
<1>2. CASE RowNext
  BY <1>2, PushStep, FormRests, FormSaves, PatchStep DEF RowNext
<1>3. CASE UNCHANGED bootVars
  BY <1>3 DEF bootVars, IInv, BootTypeOK, Registered, Filled, NoSeeder, PushSurvives, Written
<1> QED BY <1>1, <1>2, <1>3 DEF BootNext

(* The row, the pods and the dialogs keep their types: what a boot writes   *)
(* back has been read, what a dialog sends has been filled in.              *)
THEOREM BootTypes == BootSpec => []BootTypeOK
<1>1. IInv => BootTypeOK
  BY DEF IInv
<1> QED BY Initially, Inductive, <1>1, PTL DEF BootSpec

(* No boot replaces a prompt that was pushed or saved, for any number of    *)
(* pods with any environments (server/index.js:737-745).                    *)
THEOREM PromptSurvives == BootSpec => []PushSurvives
<1>1. IInv => PushSurvives
  BY DEF IInv
<1> QED BY Initially, Inductive, <1>1, PTL DEF BootSpec

-----------------------------------------------------------------------------
(* The composition.                                                         *)

LEMMA AuthRests == AuthNext => UNCHANGED bootVars
BY DEF AuthNext, SignOut, SignUp, Login, Sso

LEMMA SocketRests == SocketNext => UNCHANGED bootVars
<1>1. ASSUME NEW t \in Tabs, Drop(t) \/ Recheck(t) \/ \E p \in Pods : Connect(t, p)
      PROVE  UNCHANGED bootVars
  BY <1>1 DEF Drop, Recheck, Connect
<1>2. ASSUME NEW s \in Sockets,
             \/ Join(s) \/ JoinFails(s) \/ Disconnect(s)
             \/ \E a \in {"composing", "reading"} : Act(s, a)
             \/ \E m \in Posts : MoveCursor(s, m)
      PROVE  UNCHANGED bootVars
  BY <1>2 DEF Join, JoinFails, Disconnect, Act, MoveCursor
<1> QED BY <1>1, <1>2 DEF SocketNext

LEMMA PostRests == PostNext => UNCHANGED bootVars
BY ZenonT(60) DEF PostNext, Reset, Insert, Announce, PostFails, Send, Webhook, Quiet

LEMMA GenRests == GenNext => UNCHANGED bootVars
<1>1. ASSUME NEW g \in Gens,
             \/ Chunk(g) \/ SaveResult(g) \/ SaveAnswer(g) \/ EndAnswer(g) \/ FailAnswer(g)
             \/ \E h \in Posts : StartAnswer(g, h)
      PROVE  UNCHANGED bootVars
  BY <1>1 DEF Chunk, SaveResult, SaveAnswer, Save, EndAnswer, FailAnswer, StartAnswer, Quiet
<1>2. ASSUME NEW g \in Gens, CallTool(g) \/ ShowResult(g) \/ CompleteAnswer(g)
      PROVE  UNCHANGED bootVars
  BY <1>2 DEF CallTool, ShowResult, CompleteAnswer, Streams, Quiet
<1> QED BY <1>1, <1>2 DEF GenNext

LEMMA TabRests == TabNext => UNCHANGED bootVars
<1>1. ASSUME NEW t \in Tabs, Open(t) \/ OpenClassicPage(t) \/ Render(t) \/ Close(t)
      PROVE  UNCHANGED bootVars
  BY <1>1 DEF Open, OpenClassicPage, Opened, Render, Close
<1>2. ASSUME NEW t \in Tabs, ReadHistory(t) \/ HistoryFails(t) \/ Deliver(t)
      PROVE  UNCHANGED bootVars
  BY <1>2 DEF ReadHistory, HistoryFails, Deliver
<1>3. ASSUME NEW t \in Tabs, ShowHistory(t) \/ ShowHistoryClassic(t)
      PROVE  UNCHANGED bootVars
  BY <1>3 DEF ShowHistory, ShowHistoryClassic, Showing
<1> QED BY <1>1, <1>2, <1>3 DEF TabNext

-----------------------------------------------------------------------------
LEMMA RoomStep == [Next]_vars => [BootNext]_bootVars
<1>1. PodStep => BootNext
  BY DEF PodStep, BootNext
<1>2. RowNext => BootNext
  BY DEF BootNext
<1>3. UNCHANGED vars => UNCHANGED bootVars
  BY DEF vars
<1> QED BY <1>1, <1>2, <1>3, AuthRests, SocketRests, PostRests, GenRests, TabRests DEF Next

(* Each behaviour of the composition is one of the boot chain: nothing that *)
(* a tab, a socket or a stream does writes the row of the workspace or      *)
(* moves a pod, except through the settings dialogs (Boot).                 *)
THEOREM RoomImplementsBoot == Spec => BootSpec
<1>1. Init => BootInit
  BY DEF Init
<1> QED BY <1>1, RoomStep, PTL DEF Spec, BootSpec

(* No boot replaces a prompt that was pushed or saved, whatever the members *)
(* of the workspace do meanwhile (server/index.js:737-745).                 *)
THEOREM RoomPromptSurvives == Spec => []PushSurvives
BY RoomImplementsBoot, PromptSurvives, PTL
=============================================================================
