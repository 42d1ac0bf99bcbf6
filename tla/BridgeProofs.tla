---------------------------- MODULE BridgeProofs ----------------------------
(***************************************************************************)
(* Proofs about Bridge, for any numbers of calls, relays and copies, any   *)
(* time limits and any clocks that ClockAssumption allows.                 *)
(***************************************************************************)
EXTENDS Bridge, TLAPS

USE ActionAssumption, BoundAssumption, TimeAssumption, SignedAssumption

-----------------------------------------------------------------------------
(* Types.                                                                   *)

SenderTypes ==
    /\ spc \in [Calls -> SenderPCs]
    /\ key \in [Calls -> [kind : Kinds, version : 0..MaxVersion]]
    /\ tries \in [Calls -> 0..MaxTries]
    /\ since \in [Calls -> Nat] /\ wakeStart \in [Calls -> Nat]
    /\ outcome \in [Calls -> Outcomes]

HandlerTypes ==
    /\ turn \in [Attempts -> TurnPCs]
    /\ at \in [Copies -> RelayPCs] /\ arrived \in [Copies -> Nat]
    /\ reports \in [Copies -> Nat]

NonceTypes == until \in [Signed -> Nat] /\ stamp \in [Signed -> Nat]

ModeTypes == sigV \in {1, 2} /\ masters \subseteq Sides

ContractTypes ==
    /\ minted \in 0..MaxVersion
    /\ seen \in [Sides -> 0..MaxVersion] /\ held \in [Sides -> 0..MaxVersion]

PodTypes == pod \in {"asleep", "booting", "up"}

LEMMA TypeParts ==
    TypeOK <=> /\ now \in Nat /\ PodTypes /\ ModeTypes /\ ContractTypes
               /\ SenderTypes /\ HandlerTypes /\ NonceTypes
BY DEF TypeOK, PodTypes, ModeTypes, ContractTypes, SenderTypes, HandlerTypes, NonceTypes

LEMMA TypePartsNext ==
    TypeOK' <=> /\ now' \in Nat /\ PodTypes' /\ ModeTypes' /\ ContractTypes'
                /\ SenderTypes' /\ HandlerTypes' /\ NonceTypes'
BY DEF TypeOK, PodTypes, ModeTypes, ContractTypes, SenderTypes, HandlerTypes, NonceTypes

\* What a step leaves alone keeps its type.
LEMMA Rests ==
    ASSUME TypeOK
    PROVE  /\ UNCHANGED now => now' \in Nat
           /\ UNCHANGED pod => PodTypes'
           /\ UNCHANGED modeVars => ModeTypes'
           /\ UNCHANGED contractVars => ContractTypes'
           /\ UNCHANGED senderVars => SenderTypes'
           /\ UNCHANGED handlerVars => HandlerTypes'
           /\ UNCHANGED nonceVars => NonceTypes'
<1>1. UNCHANGED now => now' \in Nat
  BY TypeParts
<1>2. UNCHANGED pod => PodTypes'
  BY TypeParts DEF PodTypes
<1>3. UNCHANGED modeVars => ModeTypes'
  BY TypeParts DEF ModeTypes, modeVars
<1>4. UNCHANGED contractVars => ContractTypes'
  BY TypeParts DEF ContractTypes, contractVars
<1>5. UNCHANGED senderVars => SenderTypes'
  BY TypeParts DEF SenderTypes, senderVars
<1>6. UNCHANGED handlerVars => HandlerTypes'
  BY TypeParts DEF HandlerTypes, handlerVars
<1>7. UNCHANGED nonceVars => NonceTypes'
  BY TypeParts DEF NonceTypes, nonceVars
<1> QED BY <1>1, <1>2, <1>3, <1>4, <1>5, <1>6, <1>7

LEMMA InitTypes == Init => TypeOK
BY DEF Init, TypeOK, Sides, Kinds, SenderPCs, Outcomes, TurnPCs, RelayPCs

\* Where a call goes.
LEMMA GotoTypes ==
    ASSUME TypeOK, NEW c \in Calls, NEW p \in SenderPCs, Goto(c, p)
    PROVE  spc' \in [Calls -> SenderPCs] /\ since' \in [Calls -> Nat]
BY TypeParts DEF Goto, SenderTypes

LEMMA ReturnTypes ==
    ASSUME TypeOK, NEW c \in Calls, NEW o \in Outcomes, Return(c, o)
    PROVE  SenderTypes'
BY TypeParts DEF Return, SenderTypes, SenderPCs

LEMMA SendTypes ==
    ASSUME TypeOK, NEW c \in Calls, NEW p \in SenderPCs, Send(c, p)
    PROVE  /\ spc' \in [Calls -> SenderPCs] /\ since' \in [Calls -> Nat]
           /\ tries' \in [Calls -> 0..MaxTries]
           /\ stamp' \in [Signed -> Nat]
<1>1. Goto(c, p)
  BY DEF Send
<1>2. tries' \in [Calls -> 0..MaxTries]
  BY TypeParts DEF Send, SenderTypes
<1>3. stamp' \in [Signed -> Nat]
  BY TypeParts DEF Send, NonceTypes
<1> QED BY <1>1, <1>2, <1>3, GotoTypes

LEMMA SourceTypes ==
    ASSUME TypeOK, NEW c \in Calls, Source(c)
    PROVE  TypeOK'
<1>0. SenderTypes /\ ContractTypes /\ HandlerTypes /\ NonceTypes
  BY TypeParts
<1>1. ASSUME NEW fit \in BOOLEAN, Begin(c, fit) PROVE TypeOK'
  <2>1. SenderTypes'
    <3>1. CASE fit /\ seen["source"] # 0
      <4>1. key' \in [Calls -> [kind : Kinds, version : 0..MaxVersion]]
        BY <1>0, <1>1, <3>1 DEF Begin, SenderTypes, ContractTypes, Sides
      <4> QED BY <1>0, <1>1, <3>1, <4>1, GotoTypes DEF Begin, SenderTypes, SenderPCs
    <3>2. CASE ~(fit /\ seen["source"] # 0)
      BY <1>1, <3>2, ReturnTypes DEF Begin, Outcomes
    <3> QED BY <3>1, <3>2
  <2> QED BY <1>1, <2>1, Rests, TypePartsNext DEF Begin
<1>2. CASE SendFirst(c)
  <2>1. key' \in [Calls -> [kind : Kinds, version : 0..MaxVersion]]
    BY <1>0, <1>2 DEF SendFirst, KeyKind, Kinds, SenderTypes
  <2>2. SenderTypes' /\ NonceTypes'
    BY <1>0, <1>2, <2>1, SendTypes DEF SendFirst, SenderTypes, NonceTypes, SenderPCs
  <2> QED BY <1>2, <2>2, Rests, TypePartsNext DEF SendFirst
<1>3. CASE Retry(c)
  <2>1. SenderTypes' /\ NonceTypes'
    BY <1>0, <1>3, SendTypes DEF Retry, SenderTypes, NonceTypes, SenderPCs
  <2> QED BY <1>3, <2>1, Rests, TypePartsNext DEF Retry
<1>4. CASE FirstReply(c) \/ FirstThrows(c)
  <2>1. SenderTypes'
    BY <1>4, ReturnTypes DEF FirstReply, FirstThrows, Outcomes
  <2> QED BY <1>4, <2>1, Rests, TypePartsNext DEF FirstReply, FirstThrows
<1>5. CASE FirstUnserved(c)
  <2>1. SenderTypes'
    BY <1>0, <1>5, GotoTypes, ReturnTypes DEF FirstUnserved, SenderTypes, SenderPCs, Outcomes
  <2>2. HandlerTypes'
    BY <1>0, <1>5 DEF FirstUnserved, Dropped, HandlerTypes, TurnPCs
  <2> QED BY <1>5, <2>1, <2>2, Rests, TypePartsNext DEF FirstUnserved
<1>6. ASSUME NEW scaled \in BOOLEAN, WakeReturns(c, scaled) PROVE TypeOK'
  <2>1. SenderTypes'
    <3>1. wakeStart' \in [Calls -> Nat]
      BY <1>0, <1>6, TypeParts DEF WakeReturns, SenderTypes
    <3> QED BY <1>0, <1>6, <3>1, GotoTypes DEF WakeReturns, SenderTypes, SenderPCs
  <2>2. PodTypes'
    BY <1>6, TypeParts DEF WakeReturns, PodTypes
  <2> QED BY <1>6, <2>1, <2>2, Rests, TypePartsNext DEF WakeReturns
<1>7. CASE Loop(c)
  <2>1. SenderTypes'
    BY <1>0, <1>7, GotoTypes, ReturnTypes DEF Loop, SenderTypes, SenderPCs, Outcomes
  <2> QED BY <1>7, <2>1, Rests, TypePartsNext DEF Loop
<1>8. CASE RetryReply(c)
  <2>1. SenderTypes'
    BY <1>0, <1>8, GotoTypes, ReturnTypes DEF RetryReply, SenderTypes, SenderPCs, Outcomes
  <2>2. HandlerTypes'
    BY <1>0, <1>8 DEF RetryReply, HandlerTypes, TurnPCs
  <2> QED BY <1>8, <2>1, <2>2, Rests, TypePartsNext DEF RetryReply
<1> QED BY <1>1, <1>2, <1>3, <1>4, <1>5, <1>6, <1>7, <1>8 DEF Source

LEMMA EndpointTypes ==
    ASSUME TypeOK, NEW a \in Attempts, Endpoint(a)
    PROVE  TypeOK'
<1>0. HandlerTypes /\ NonceTypes /\ now \in Nat
  BY TypeParts
<1>1. CASE Deliver(a)
  <2>1. Verdict(a) \in TurnPCs
    BY DEF Verdict, TurnPCs
  <2>2. HandlerTypes'
    BY <1>0, <1>1, <2>1 DEF Deliver, HandlerTypes, TurnPCs
  <2> QED BY <1>1, <2>2, Rests, TypePartsNext DEF Deliver
<1>2. CASE Consume(a)
  <2>1. HandlerTypes'
    BY <1>0, <1>2 DEF Consume, HandlerTypes, TurnPCs
  <2>2. NonceTypes'
    BY <1>0, <1>2 DEF Consume, Remember, NonceTypes
  <2> QED BY <1>2, <2>1, <2>2, Rests, TypePartsNext DEF Consume
<1>3. ASSUME NEW answer \in {"ok", "rpcError"}, EndTurn(a, answer) PROVE TypeOK'
  <2>1. HandlerTypes'
    BY <1>0, <1>3 DEF EndTurn, HandlerTypes, TurnPCs
  <2> QED BY <1>3, <2>1, Rests, TypePartsNext DEF EndTurn
<1> QED BY <1>1, <1>2, <1>3 DEF Endpoint

LEMMA MoveTypes ==
    ASSUME TypeOK, NEW h \in Copies, NEW p \in RelayPCs, Move(h, p)
    PROVE  at' \in [Copies -> RelayPCs] /\ arrived' \in [Copies -> Nat]
BY TypeParts DEF Move, HandlerTypes

LEMMA RelayTypes ==
    ASSUME TypeOK, NEW h \in Copies, Receiver(h) \/ Delegation(h)
    PROVE  TypeOK'
<1>0. HandlerTypes /\ NonceTypes /\ now \in Nat
  BY TypeParts
<1>1. CASE Receive(h)
  <2>1. HandlerTypes'
    BY <1>0, <1>1, MoveTypes DEF Receive, HandlerTypes, RelayPCs
  <2> QED BY <1>1, <2>1, Rests, TypePartsNext DEF Receive
<1>2. CASE ConsumeRelay(h)
  <2>1. HandlerTypes'
    <3>1. Move(h, "answered") \/ Move(h, "gate")
      BY <1>2 DEF ConsumeRelay, TakeNonce
    <3>2. at' \in [Copies -> RelayPCs] /\ arrived' \in [Copies -> Nat]
      BY <3>1, MoveTypes DEF RelayPCs
    <3> QED BY <1>0, <1>2, <3>2 DEF ConsumeRelay, HandlerTypes
  <2>2. NonceTypes'
    BY <1>0, <1>2 DEF ConsumeRelay, TakeNonce, Remember, NonceTypes
  <2> QED BY <1>2, <2>1, <2>2, Rests, TypePartsNext DEF ConsumeRelay
<1>3. CASE ReportMessage(h) \/ ReportDelegation(h)
  <2>1. reports' \in [Copies -> Nat]
    BY <1>0, <1>3 DEF ReportMessage, ReportDelegation, Report, HandlerTypes
  <2>2. HandlerTypes'
    <3>1. Move(h, "answered") \/ Move(h, "over")
      BY <1>3 DEF ReportMessage, ReportDelegation
    <3>2. at' \in [Copies -> RelayPCs] /\ arrived' \in [Copies -> Nat]
      BY <3>1, MoveTypes DEF RelayPCs
    <3> QED BY <1>0, <1>3, <2>1, <3>2 DEF ReportMessage, ReportDelegation, HandlerTypes
  <2> QED BY <1>3, <2>2, Rests, TypePartsNext DEF ReportMessage, ReportDelegation
<1>4. CASE ToolResultFails(h) \/ StreamEnds(h)
  <2>1. HandlerTypes'
    BY <1>0, <1>4, MoveTypes DEF ToolResultFails, StreamEnds, HandlerTypes, RelayPCs
  <2> QED BY <1>4, <2>1, Rests, TypePartsNext DEF ToolResultFails, StreamEnds
<1>5. ASSUME NEW good \in BOOLEAN, Gate(h, good) \/ Read(h, good) \/ Store(h, good) PROVE TypeOK'
  <2>1. HandlerTypes'
    BY <1>0, <1>5, MoveTypes DEF Gate, Read, Store, HandlerTypes, RelayPCs
  <2> QED BY <1>5, <2>1, Rests, TypePartsNext DEF Gate, Read, Store
<1>6. ASSUME NEW good \in BOOLEAN, SaveMessage(h, good) PROVE TypeOK'
  <2>1. Action[h[1]] \in {"message", "delegate", "result"}
    BY DEF Copies
  <2>2. HandlerTypes'
    BY <1>0, <1>6, <2>1, MoveTypes DEF SaveMessage, HandlerTypes, RelayPCs
  <2> QED BY <1>6, <2>2, Rests, TypePartsNext DEF SaveMessage
<1> QED BY <1>1, <1>2, <1>3, <1>4, <1>5, <1>6 DEF Receiver, Delegation

LEMMA WorldTypes ==
    ASSUME TypeOK,
           \/ \E r \in Relays, ahead \in 0..Skew : Sign(r, ahead)
           \/ Stop \/ Boot \/ Govern \/ Tick
           \/ \E w \in Sides : Refetch(w) \/ Rekey(w)
    PROVE  TypeOK'
<1>0. HandlerTypes /\ NonceTypes /\ ContractTypes /\ now \in Nat
  BY TypeParts
<1>1. ASSUME NEW r \in Relays, NEW ahead \in 0..Skew, Sign(r, ahead) PROVE TypeOK'
  <2>1. NonceTypes'
    <3>1. Skew \in Nat /\ now + ahead \in Nat
      BY <1>0
    <3> QED BY <1>0, <1>1, <3>1 DEF Sign, NonceTypes
  <2> QED BY <1>1, <2>1, Rests, TypePartsNext DEF Sign
<1>2. CASE Stop
  <2>1. HandlerTypes' /\ PodTypes'
    BY <1>0, <1>2 DEF Stop, HandlerTypes, PodTypes, TurnPCs, RelayPCs
  <2> QED BY <1>2, <2>1, Rests, TypePartsNext DEF Stop
<1>3. CASE Boot
  BY <1>3, Rests, TypePartsNext DEF Boot, PodTypes
<1>4. CASE Tick
  BY <1>0, <1>4, Rests, TypePartsNext DEF Tick
<1>5. CASE Govern
  <2>1. ContractTypes'
    BY <1>0, <1>5 DEF Govern, ContractTypes
  <2> QED BY <1>5, <2>1, Rests, TypePartsNext DEF Govern
<1>6. ASSUME NEW w \in Sides, Refetch(w) \/ Rekey(w) PROVE TypeOK'
  <2>1. ContractTypes'
    BY <1>0, <1>6 DEF Refetch, Rekey, ContractTypes
  <2> QED BY <1>6, <2>1, Rests, TypePartsNext DEF Refetch, Rekey
<1> QED BY <1>1, <1>2, <1>3, <1>4, <1>5, <1>6

LEMMA TypeStep == TypeOK /\ [Next]_vars => TypeOK'
<1>1. TypeOK /\ UNCHANGED vars => TypeOK'
  BY Rests, TypePartsNext DEF vars
<1> QED BY <1>1, SourceTypes, EndpointTypes, RelayTypes, WorldTypes DEF Next

(* The state of a bridge keeps its types; the tries of a call and the       *)
(* versions of the contract stay within their bounds.                       *)
THEOREM BridgeTypes == Spec => []TypeOK
BY InitTypes, TypeStep, PTL DEF Spec

-----------------------------------------------------------------------------
(* Calls.                                                                   *)

\* Once a call asks for its target to be woken, nobody holds its first
\* request; until then there is no other.
CallGood(c) ==
    /\ spc[c] \in {"idle", "keying"} => tries[c] = 0
    /\ spc[c] = "calling" => tries[c] = 1
    /\ spc[c] \in {"asking", "looping", "pausing", "retrying"} => tries[c] >= 1 /\ turn[<<c, 1>>] = "lost"
    /\ tries[c] > 1 => turn[<<c, 1>>] = "lost"

CallInv == \A c \in Calls : CallGood(c)

\* What was lost stays lost.
LostStays == \A a \in Attempts : turn[a] = "lost" => turn'[a] = "lost"

\* The first request of a call that has sent one.
LEMMA FirstAttempt ==
    ASSUME TypeOK, NEW c \in Calls, tries[c] # 0
    PROVE  <<c, 1>> \in Attempts /\ tries[c] \in 1..MaxTries
BY TypeParts DEF SenderTypes, Attempts

LEMMA CallRests ==
    ASSUME TypeOK, NEW c \in Calls, CallGood(c), LostStays, spc'[c] = spc[c], tries'[c] = tries[c]
    PROVE  CallGood(c)'
<1>0. tries[c] \in Nat
  BY TypeParts DEF SenderTypes
<1>1. CASE tries[c] = 0
  BY <1>1 DEF CallGood
<1>2. CASE tries[c] # 0
  <2>1. turn[<<c, 1>>] = "lost" => turn'[<<c, 1>>] = "lost"
    BY <1>2, FirstAttempt DEF LostStays
  <2> QED BY <1>2, <2>1 DEF CallGood
<1> QED BY <1>1, <1>2

LEMMA CallsRest ==
    ASSUME TypeOK, CallInv, LostStays, UNCHANGED <<spc, tries>>
    PROVE  CallInv'
BY CallRests DEF CallInv

\* What the steps of a call do to it, and to its requests.
LEMMA CallMoves ==
    ASSUME TypeOK, CallInv, NEW c \in Calls, Source(c)
    PROVE  LostStays /\ CallGood(c)'
<1>0. SenderTypes /\ HandlerTypes /\ CallGood(c)
  BY TypeParts DEF CallInv
<1>a. SUFFICES LostStays /\ (LostStays => CallGood(c)')
  OBVIOUS
<1>1. ASSUME NEW fit \in BOOLEAN, Begin(c, fit) PROVE LostStays /\ (LostStays => CallGood(c)')
  <2>1. turn' = turn /\ tries[c] = 0 /\ tries' = tries /\ spc'[c] \in {"keying", "done"}
    BY <1>0, <1>1 DEF Begin, Goto, Return, CallGood, SenderTypes, handlerVars
  <2> QED BY <2>1 DEF LostStays, CallGood
<1>2. CASE SendFirst(c)
  <2>1. turn' = turn /\ tries'[c] = 1 /\ spc'[c] = "calling"
    BY <1>0, <1>2 DEF SendFirst, Send, Goto, CallGood, SenderTypes, handlerVars
  <2> QED BY <2>1 DEF LostStays, CallGood
<1>3. CASE Retry(c)
  <2>1. /\ turn' = turn /\ turn[<<c, 1>>] = "lost"
        /\ tries[c] \in Nat /\ tries[c] >= 1 /\ tries'[c] = tries[c] + 1
        /\ spc'[c] = "retrying"
    BY <1>0, <1>3 DEF Retry, Send, Goto, CallGood, SenderTypes, handlerVars
  <2> QED BY <2>1 DEF LostStays, CallGood
<1>4. CASE FirstReply(c) \/ FirstThrows(c)
  <2>1. turn' = turn /\ tries'[c] = 1 /\ spc'[c] = "done"
    BY <1>0, <1>4 DEF FirstReply, FirstThrows, Return, CallGood, SenderTypes, handlerVars
  <2> QED BY <2>1 DEF LostStays, CallGood
<1>5. CASE FirstUnserved(c)
  <2>1. tries[c] = 1 /\ tries'[c] = 1 /\ spc'[c] \in {"asking", "done"}
    BY <1>0, <1>5 DEF FirstUnserved, Goto, Return, CallGood, SenderTypes
  <2>2. <<c, 1>> \in Attempts
    BY <2>1, FirstAttempt
  <2>3. turn' = [turn EXCEPT ![<<c, 1>>] = "lost"]
    BY <1>5, <2>1 DEF FirstUnserved, Dropped, Current
  <2>4. LostStays /\ turn'[<<c, 1>>] = "lost"
    BY <1>0, <2>2, <2>3 DEF LostStays, HandlerTypes
  <2> QED BY <2>1, <2>4 DEF CallGood
<1>6. ASSUME NEW scaled \in BOOLEAN, WakeReturns(c, scaled) PROVE LostStays /\ (LostStays => CallGood(c)')
  <2>1. /\ turn' = turn /\ turn[<<c, 1>>] = "lost"
        /\ tries[c] >= 1 /\ tries' = tries
        /\ spc'[c] = "looping"
    BY <1>0, <1>6 DEF WakeReturns, Goto, CallGood, SenderTypes, handlerVars
  <2> QED BY <2>1 DEF LostStays, CallGood
<1>7. CASE Loop(c)
  <2>1. /\ turn' = turn /\ turn[<<c, 1>>] = "lost"
        /\ tries[c] >= 1 /\ tries' = tries
        /\ spc'[c] \in {"pausing", "done"}
    BY <1>0, <1>7 DEF Loop, Goto, Return, CallGood, SenderTypes, handlerVars
  <2> QED BY <2>1 DEF LostStays, CallGood
<1>8. CASE RetryReply(c)
  <2>1. /\ turn[<<c, 1>>] = "lost"
        /\ tries[c] >= 1 /\ tries' = tries
        /\ spc'[c] \in {"looping", "done"}
    BY <1>0, <1>8 DEF RetryReply, Goto, Return, CallGood, SenderTypes
  <2>2. LostStays
    BY <1>0, <1>8 DEF RetryReply, LostStays, HandlerTypes
  <2>3. <<c, 1>> \in Attempts
    BY <1>0, <2>1, FirstAttempt DEF SenderTypes
  <2> QED BY <2>1, <2>2, <2>3 DEF LostStays, CallGood
<1> QED BY <1>1, <1>2, <1>3, <1>4, <1>5, <1>6, <1>7, <1>8 DEF Source

LEMMA CallStep == TypeOK /\ CallInv /\ [Next]_vars => CallInv'
<1> SUFFICES ASSUME TypeOK, CallInv, [Next]_vars PROVE CallInv'
  OBVIOUS
<1>0. SenderTypes /\ HandlerTypes
  BY TypeParts
<1>1. ASSUME NEW c \in Calls, Source(c) PROVE CallInv'
  <2>1. LostStays /\ CallGood(c)'
    BY <1>1, CallMoves
  <2>2. ASSUME NEW d \in Calls, d # c PROVE spc'[d] = spc[d] /\ tries'[d] = tries[d]
    BY <1>0, <1>1, <2>2 DEF SenderTypes, Source, Begin, SendFirst, Retry, FirstReply, FirstUnserved, FirstThrows,
                       WakeReturns, Loop, RetryReply, Goto, Return, Send
  <2> QED BY <2>1, <2>2, CallRests DEF CallInv
<1>2. ASSUME NEW a \in Attempts, Endpoint(a) PROVE CallInv'
  <2>1. LostStays
    BY <1>0, <1>2 DEF LostStays, Endpoint, Deliver, Consume, EndTurn, HandlerTypes
  <2> QED BY <1>2, <2>1, CallsRest DEF Endpoint, Deliver, Consume, EndTurn, senderVars
<1>3. ASSUME NEW h \in Copies, Receiver(h) \/ Delegation(h) PROVE CallInv'
  <2>1. UNCHANGED <<senderVars, turn>>
    BY <1>3 DEF Receiver, Delegation, Receive, ConsumeRelay, ReportMessage, ToolResultFails, Gate, SaveMessage,
                Read, Store, StreamEnds, ReportDelegation
  <2> QED BY <2>1, CallsRest DEF LostStays, senderVars
<1>4. CASE Stop
  <2>1. LostStays
    BY <1>4 DEF LostStays, Stop
  <2> QED BY <1>4, <2>1, CallsRest DEF Stop, senderVars
<1>5. CASE \/ \E r \in Relays, ahead \in 0..Skew : Sign(r, ahead)
           \/ Boot \/ Govern \/ Tick
           \/ \E w \in Sides : Refetch(w) \/ Rekey(w)
  <2>1. UNCHANGED <<senderVars, handlerVars>>
    BY <1>5 DEF Sign, Boot, Govern, Tick, Refetch, Rekey
  <2> QED BY <2>1, CallsRest DEF LostStays, senderVars, handlerVars
<1>6. CASE UNCHANGED vars
  BY <1>6, CallsRest DEF LostStays, vars, senderVars, handlerVars
<1> QED BY <1>1, <1>2, <1>3, <1>4, <1>5, <1>6 DEF Next

(* A message or delegation is sent a second time only when nobody holds the *)
(* first request (bridgeWorkspace.ts:262-286).                              *)
THEOREM RepeatsOnlyWaking == Spec => []OnlyWakingIsRepeated
<1>1. Init => TypeOK /\ CallInv
  BY InitTypes DEF Init, CallInv, CallGood
<1>2. TypeOK /\ CallInv => OnlyWakingIsRepeated
  BY DEF CallInv, CallGood, OnlyWakingIsRepeated
<1> QED BY <1>1, <1>2, TypeStep, CallStep, PTL DEF Spec

-----------------------------------------------------------------------------
(* Requests: their nonces and the version of the contract.                  *)

AttemptGood(a) ==
    /\ turn[a] \in {"none", "checked"} => until[a] = 0
    /\ turn[a] # "replayed"
    /\ turn[a] = "badSignature" => minted # 1

\* Until it is amended or revoked, a contract has the version 1 everywhere.
Original ==
    minted = 1 => /\ \A w \in Sides : seen[w] = 1
                  /\ \A c \in Calls : spc[c] = "keying" \/ tries[c] # 0 => key[c].version = 1

AttemptInv == Original /\ \A a \in Attempts : AttemptGood(a)

\* A contract does not get its first version back.
LEMMA MintedStep == TypeOK /\ [Next]_vars => (minted' = 1 => minted = 1)
<1> SUFFICES ASSUME TypeOK, [Next]_vars PROVE minted' = 1 => minted = 1
  OBVIOUS
<1>1. CASE Govern
  BY <1>1 DEF Govern, TypeOK
<1>2. CASE UNCHANGED minted
  BY <1>2
<1>3. ASSUME NEW c \in Calls, Source(c) PROVE UNCHANGED minted
  BY <1>3 DEF Source, Begin, SendFirst, Retry, FirstReply, FirstUnserved, FirstThrows, WakeReturns, Loop, RetryReply,
              contractVars
<1>4. ASSUME NEW a \in Attempts, Endpoint(a) PROVE UNCHANGED minted
  BY <1>4 DEF Endpoint, Deliver, Consume, EndTurn, contractVars
<1>5. ASSUME NEW h \in Copies, Receiver(h) \/ Delegation(h) PROVE UNCHANGED minted
  BY <1>5 DEF Receiver, Delegation, Receive, ConsumeRelay, ReportMessage, ToolResultFails, Gate, SaveMessage,
              Read, Store, StreamEnds, ReportDelegation, contractVars
<1>6. CASE \/ \E r \in Relays, ahead \in 0..Skew : Sign(r, ahead)
           \/ Stop \/ Boot \/ Tick
           \/ \E w \in Sides : Refetch(w) \/ Rekey(w)
  BY <1>6 DEF Sign, Stop, Boot, Tick, Refetch, Rekey, contractVars
<1>7. CASE UNCHANGED vars
  BY <1>7 DEF vars, contractVars
<1> QED BY <1>1, <1>2, <1>3, <1>4, <1>5, <1>6, <1>7 DEF Next

LEMMA OriginalStep == TypeOK /\ Original /\ CallInv /\ [Next]_vars => Original'
<1> SUFFICES ASSUME TypeOK, Original, CallInv, [Next]_vars, minted = 1, minted' = 1 PROVE Original'
  BY MintedStep DEF Original
<1>0. SenderTypes /\ ContractTypes
  BY TypeParts
<1>1. ASSUME NEW c \in Calls, Source(c) PROVE Original'
  <2>1. UNCHANGED contractVars
    BY <1>1 DEF Source, Begin, SendFirst, Retry, FirstReply, FirstUnserved, FirstThrows, WakeReturns, Loop, RetryReply
  <2>2. ASSUME NEW d \in Calls, d # c PROVE spc'[d] = spc[d] /\ tries'[d] = tries[d] /\ key'[d] = key[d]
    BY <1>0, <1>1, <2>2 DEF SenderTypes, Source, Begin, SendFirst, Retry, FirstReply, FirstUnserved, FirstThrows,
                       WakeReturns, Loop, RetryReply, Goto, Return, Send
  <2>3. spc'[c] = "keying" \/ tries'[c] # 0 => key'[c].version = 1
    <3>1. ASSUME NEW fit \in BOOLEAN, Begin(c, fit) PROVE key'[c].version = 1 \/ (tries'[c] = 0 /\ spc'[c] = "done")
      <4>1. tries[c] = 0
        BY <3>1 DEF Begin, CallInv, CallGood
      <4>2. CASE fit /\ seen["source"] # 0
        BY <1>0, <3>1, <4>2 DEF Begin, SenderTypes, Original, Sides
      <4>3. CASE ~(fit /\ seen["source"] # 0)
        BY <1>0, <3>1, <4>1, <4>3 DEF Begin, Return, SenderTypes
      <4> QED BY <4>2, <4>3
    <3>2. CASE SendFirst(c)
      <4>1. key[c].version = 1
        BY <3>2 DEF SendFirst, Original
      <4> QED BY <1>0, <3>2, <4>1 DEF SendFirst, SenderTypes
    <3>3. CASE \/ Retry(c) \/ FirstReply(c) \/ FirstUnserved(c) \/ FirstThrows(c)
               \/ \E scaled \in BOOLEAN : WakeReturns(c, scaled)
               \/ Loop(c) \/ RetryReply(c)
      <4>1. key[c].version = 1
        <5>1. CallGood(c) /\ tries[c] \in Nat
          BY <1>0 DEF CallInv, SenderTypes
        <5>2. tries[c] # 0
          BY <3>3, <5>1 DEF Retry, FirstReply, FirstUnserved, FirstThrows, WakeReturns, Loop, RetryReply, CallGood
        <5> QED BY <5>2 DEF Original
      <4>2. key' = key
        BY <3>3 DEF Retry, FirstReply, FirstUnserved, FirstThrows, WakeReturns, Loop, RetryReply, Return
      <4> QED BY <4>1, <4>2
    <3> QED BY <1>1, <3>1, <3>2, <3>3 DEF Source
  <2> QED BY <2>1, <2>2, <2>3 DEF Original, contractVars
<1>2. ASSUME NEW a \in Attempts, Endpoint(a) PROVE Original'
  BY <1>2 DEF Original, Endpoint, Deliver, Consume, EndTurn, contractVars, senderVars
<1>3. ASSUME NEW h \in Copies, Receiver(h) \/ Delegation(h) PROVE Original'
  BY <1>3 DEF Original, Receiver, Delegation, Receive, ConsumeRelay, ReportMessage, ToolResultFails, Gate, SaveMessage,
              Read, Store, StreamEnds, ReportDelegation, contractVars, senderVars
<1>4. CASE \/ \E r \in Relays, ahead \in 0..Skew : Sign(r, ahead)
           \/ Stop \/ Boot \/ Tick
  BY <1>4 DEF Original, Sign, Stop, Boot, Tick, contractVars, senderVars
<1>5. CASE Govern
  BY <1>0, <1>5 DEF Govern, ContractTypes
<1>6. ASSUME NEW w \in Sides, Refetch(w) \/ Rekey(w) PROVE Original'
  BY <1>0, <1>6 DEF Original, Refetch, Rekey, ContractTypes, senderVars
<1>7. CASE UNCHANGED vars
  BY <1>7 DEF Original, vars, contractVars, senderVars
<1> QED BY <1>1, <1>2, <1>3, <1>4, <1>5, <1>6, <1>7 DEF Next

LEMMA AttemptStep == TypeOK /\ CallInv /\ AttemptInv /\ [Next]_vars => \A a \in Attempts : AttemptGood(a)'
<1> SUFFICES ASSUME TypeOK, CallInv, AttemptInv, [Next]_vars, NEW a \in Attempts PROVE AttemptGood(a)'
  OBVIOUS
<1>0. HandlerTypes /\ NonceTypes /\ AttemptGood(a) /\ a \in Signed
  BY TypeParts DEF AttemptInv, Signed
<1>m. minted' = 1 => minted = 1
  BY MintedStep
<1>r. ASSUME turn'[a] \in {turn[a], "lost"}, until'[a] = until[a] PROVE AttemptGood(a)'
  BY <1>0, <1>m, <1>r DEF AttemptGood
<1>1. ASSUME NEW c \in Calls, Source(c) PROVE AttemptGood(a)'
  <2>1. until' = until
    BY <1>1 DEF Source, Begin, SendFirst, Retry, FirstReply, FirstUnserved, FirstThrows, WakeReturns, Loop, RetryReply,
                nonceVars
  <2>2. turn'[a] \in {turn[a], "lost"}
    <3>1. CASE UNCHANGED turn
      BY <3>1
    <3>2. CASE FirstUnserved(c) \/ RetryReply(c)
      BY <1>0, <3>2 DEF FirstUnserved, Dropped, RetryReply, HandlerTypes
    <3>3. CASE ~(FirstUnserved(c) \/ RetryReply(c))
      BY <1>1, <3>3 DEF Source, Begin, SendFirst, Retry, FirstReply, FirstThrows, WakeReturns, Loop, handlerVars
    <3> QED BY <3>1, <3>2, <3>3
  <2> QED BY <2>1, <2>2, <1>r
<1>2. ASSUME NEW b \in Attempts, Endpoint(b) PROVE AttemptGood(a)'
  <2>1. CASE a # b
    <3>1. turn'[a] = turn[a] /\ until'[a] = until[a]
      BY <1>0, <1>2, <2>1 DEF Endpoint, Deliver, Consume, EndTurn, Remember, Signature, HandlerTypes, NonceTypes,
                          nonceVars, Attempts
    <3> QED BY <3>1, <1>r
  <2>2. CASE a = b /\ Deliver(a)
    <3>1. turn[a] = "none" /\ until'[a] = 0 /\ minted' = minted
      BY <1>0, <2>2 DEF Deliver, nonceVars, contractVars, AttemptGood
    <3>2. Verdict(a) = "badSignature" => minted # 1
      <4>1. a[1] \in Calls /\ a[2] \in 1..MaxTries /\ tries[a[1]] \in Nat
        BY TypeParts DEF Attempts, SenderTypes
      <4>2. tries[a[1]] # 0
        BY <2>2, <4>1 DEF Deliver
      <4>3. minted = 1 => key[a[1]].version = 1 /\ seen["target"] = 1
        BY <4>1, <4>2 DEF AttemptInv, Original, Sides
      <4> QED BY <4>3 DEF Verdict
    <3>3. Verdict(a) # "replayed"
      BY DEF Verdict
    <3>4. turn'[a] \in {Verdict(a), "turn", "forbidden"}
      BY <1>0, <2>2 DEF Deliver, HandlerTypes
    <3> QED BY <3>1, <3>2, <3>3, <3>4 DEF AttemptGood
  <2>3. CASE a = b /\ Consume(a)
    <3>1. a = Signature(a[1], a[2])
      BY DEF Signature, Attempts
    <3>2. ~Remembered(a)
      BY <1>0, <2>3 DEF Consume, Remembered, AttemptGood
    <3>3. turn'[a] = "turn"
      BY <1>0, <2>3, <3>1, <3>2 DEF Consume, HandlerTypes
    <3> QED BY <3>3 DEF AttemptGood
  <2>4. CASE a = b /\ \E answer \in {"ok", "rpcError"} : EndTurn(a, answer)
    <3>1. turn'[a] \in {"ok", "rpcError"}
      BY <1>0, <2>4 DEF EndTurn, HandlerTypes
    <3> QED BY <3>1 DEF AttemptGood
  <2> QED BY <1>2, <2>1, <2>2, <2>3, <2>4 DEF Endpoint
<1>3. ASSUME NEW h \in Copies, Receiver(h) \/ Delegation(h) PROVE AttemptGood(a)'
  <2>1. turn' = turn
    BY <1>3 DEF Receiver, Delegation, Receive, ConsumeRelay, ReportMessage, ToolResultFails, Gate, SaveMessage,
                Read, Store, StreamEnds, ReportDelegation
  <2>2. until'[a] = until[a]
    <3>1. CASE ConsumeRelay(h)
      <4>1. h[1] # a
        BY DEF Copies
      <4> QED BY <1>0, <3>1, <4>1 DEF ConsumeRelay, TakeNonce, Remember, NonceTypes
    <3>2. CASE ~ConsumeRelay(h)
      BY <1>3, <3>2 DEF Receiver, Delegation, Receive, ReportMessage, ToolResultFails, Gate, SaveMessage,
                        Read, Store, StreamEnds, ReportDelegation, nonceVars
    <3> QED BY <3>1, <3>2
  <2> QED BY <2>1, <2>2, <1>r
<1>4. CASE Stop
  <2>1. turn'[a] \in {turn[a], "lost"} /\ until'[a] = until[a]
    BY <1>4 DEF Stop, nonceVars
  <2> QED BY <2>1, <1>r
<1>5. CASE \/ \E r \in Relays, ahead \in 0..Skew : Sign(r, ahead)
           \/ Boot \/ Govern \/ Tick
           \/ \E w \in Sides : Refetch(w) \/ Rekey(w)
  <2>1. turn' = turn /\ until' = until
    BY <1>5 DEF Sign, Boot, Govern, Tick, Refetch, Rekey, handlerVars, nonceVars
  <2> QED BY <2>1, <1>r
<1>6. CASE UNCHANGED vars
  BY <1>6, <1>r DEF vars, handlerVars, nonceVars
<1> QED BY <1>1, <1>2, <1>3, <1>4, <1>5, <1>6 DEF Next

(* The target never takes a request of the wake loop for a replay, and it   *)
(* finds its signature bad only where the contract was amended or revoked   *)
(* (bridgeWorkspace.ts:193-245, contractAuth.js).                           *)
THEOREM RefusesForCause == Spec => []RefusedForCause
<1> DEFINE Inv == TypeOK /\ CallInv /\ AttemptInv
<1>1. Init => Inv
  BY InitTypes DEF Init, CallInv, CallGood, AttemptInv, Original, AttemptGood, Signed
<1>2. Inv /\ [Next]_vars => Inv'
  BY TypeStep, CallStep, OriginalStep, AttemptStep DEF AttemptInv
<1>3. Inv => RefusedForCause
  BY DEF AttemptInv, AttemptGood, RefusedForCause
<1> QED BY <1>1, <1>2, <1>3, PTL DEF Spec

-----------------------------------------------------------------------------
(* Relays: two checks on two clocks.                                        *)

\* A relay is stamped at most Skew ahead; a copy that passed the check of the
\* stamp is still near it when its nonce is looked up; a nonce that was
\* consumed is remembered until no copy can be that near.
Near(h) == /\ stamp[h[1]] # 0
           /\ arrived[h] <= stamp[h[1]] + Fresh
           /\ now <= arrived[h] + Delay
Kept(r) == /\ stamp[r] # 0
           /\ until[r] # 0
           /\ stamp[r] + Ttl <= until[r] + Skew

RelayInv ==
    /\ now # 0
    /\ \A r \in Relays : stamp[r] <= now + Skew
    /\ \A h \in Copies : at[h] = "checked" => Near(h)
    /\ sigV = 2 => \A h \in Copies : Passed(h) => Kept(h[1])
    /\ OncePerRelay

\* The whole argument: a copy that is still near finds the nonce.
LEMMA NearFindsKept ==
    ASSUME TypeOK, NEW h \in Copies, Near(h), Kept(h[1])
    PROVE  Remembered(h[1])
<1>1. {stamp[h[1]], until[h[1]], now, arrived[h], Skew, Fresh, Delay, Ttl} \subseteq Nat
  BY TypeParts DEF NonceTypes, HandlerTypes, Signed, Copies
<1> QED BY <1>1, ClockAssumption DEF Near, Kept, Remembered

\* Steps that touch no relay, or only move copies that have passed.
LEMMA RelaysRest ==
    ASSUME RelayInv, UNCHANGED <<now, sigV, at, arrived, reports>>,
           \A r \in Relays : stamp'[r] = stamp[r] /\ until'[r] = until[r]
    PROVE  RelayInv'
<1>1. \A h \in Copies : h[1] \in Relays
  BY DEF Copies
<1> QED BY <1>1 DEF RelayInv, Near, Kept, Passed, OncePerRelay

LEMMA PassedMoves ==
    ASSUME TypeOK, RelayInv, NEW h \in Copies, NEW p \in RelayPCs, Passed(h), Move(h, p), p # "checked",
           reports' \in [Copies -> Nat],
           \A g \in Copies : g # h => reports'[g] = reports[g],
           UNCHANGED <<now, sigV, stamp, until>>
    PROVE  RelayInv'
<1>0. HandlerTypes
  BY TypeParts
<1>1. \A g \in Copies : g # h => at'[g] = at[g] /\ arrived'[g] = arrived[g] /\ (Passed(g)' => Passed(g))
  BY <1>0 DEF Move, HandlerTypes, Passed
<1>2. at'[h] # "checked"
  BY <1>0 DEF Move, HandlerTypes
<1>3. \A g \in Copies : at'[g] = "checked" => Near(g)'
  BY <1>1, <1>2 DEF RelayInv, Near
<1>4. \A g \in Copies : Passed(g)' => Passed(g)
  BY <1>1
<1> QED BY <1>3, <1>4 DEF RelayInv, Kept, OncePerRelay

LEMMA RelayStep == TypeOK /\ RelayInv /\ [Next]_vars => RelayInv'
<1> SUFFICES ASSUME TypeOK, RelayInv, [Next]_vars PROVE RelayInv'
  OBVIOUS
<1>0. HandlerTypes /\ NonceTypes /\ now \in Nat /\ Skew \in Nat /\ \A h \in Copies : h[1] \in Relays
  BY TypeParts DEF Copies
<1>1. ASSUME NEW c \in Calls, Source(c) PROVE RelayInv'
  <2>1. \A r \in Relays : stamp'[r] = stamp[r]
    <3>1. CASE Send(c, "calling") \/ Send(c, "retrying")
      <4>1. Signature(c, tries[c] + 1) \in Attempts
        BY <3>1, TypeParts DEF Send, Signature, Attempts, SenderTypes
      <4>2. stamp' = [stamp EXCEPT ![Signature(c, tries[c] + 1)] = now]
        BY <3>1 DEF Send
      <4>3. \A r \in Relays : r # Signature(c, tries[c] + 1) /\ r \in Signed
        BY <4>1 DEF Signed
      <4> QED BY <1>0, <4>2, <4>3 DEF NonceTypes
    <3>2. CASE ~(SendFirst(c) \/ Retry(c))
      BY <1>1, <3>2 DEF Source, Begin, FirstReply, FirstUnserved, FirstThrows, WakeReturns, Loop, RetryReply, nonceVars
    <3> QED BY <3>1, <3>2 DEF SendFirst, Retry
  <2>2. UNCHANGED <<now, sigV, at, arrived, reports, until>>
    BY <1>1 DEF Source, Begin, SendFirst, Retry, FirstReply, FirstUnserved, FirstThrows, WakeReturns, Loop, RetryReply,
                modeVars, handlerVars, nonceVars
  <2> QED BY <2>1, <2>2, RelaysRest
<1>2. ASSUME NEW a \in Attempts, Endpoint(a) PROVE RelayInv'
  <2>1. \A r \in Relays : until'[r] = until[r]
    <3>1. CASE Remember(a)
      <4>1. \A r \in Relays : r # a /\ r \in Signed
        BY DEF Signed
      <4> QED BY <1>0, <3>1, <4>1 DEF Remember, NonceTypes
    <3>2. CASE UNCHANGED until
      BY <3>2
    <3>3. a = Signature(a[1], a[2])
      BY DEF Signature, Attempts
    <3> QED BY <1>2, <3>1, <3>2, <3>3 DEF Endpoint, Deliver, Consume, EndTurn, nonceVars
  <2>2. UNCHANGED <<now, sigV, at, arrived, reports, stamp>>
    BY <1>2 DEF Endpoint, Deliver, Consume, EndTurn, modeVars, nonceVars
  <2> QED BY <2>1, <2>2, RelaysRest
<1>3. ASSUME NEW h \in Copies, Receiver(h) \/ Delegation(h) PROVE RelayInv'
  <2>0. ASSUME NEW p \in RelayPCs, Move(h, p)
        PROVE  /\ at'[h] = p
               /\ p = "checked" => arrived'[h] = now
               /\ \A g \in Copies : g # h => at'[g] = at[g] /\ arrived'[g] = arrived[g]
    BY <1>0, <2>0 DEF Move, HandlerTypes
  <2>1. CASE Receive(h)
    <3>1. UNCHANGED <<now, sigV, stamp, until, reports>> /\ at[h] = "none" /\ stamp[h[1]] # 0
      BY <2>1 DEF Receive, modeVars, nonceVars
    <3>2. PICK p \in {"answered", "gate", "checked"} :
              /\ Move(h, p)
              /\ p = "gate" => sigV = 1
              /\ p = "checked" => now <= stamp[h[1]] + Fresh
      BY <2>1 DEF Receive, FreshNow
    <3>3. /\ at'[h] = p
          /\ p = "checked" => arrived'[h] = now
          /\ \A g \in Copies : g # h => at'[g] = at[g] /\ arrived'[g] = arrived[g]
      BY <2>0, <3>2 DEF RelayPCs
    <3>4. at'[h] = "checked" => Near(h)'
      BY <1>0, <3>1, <3>2, <3>3 DEF Near
    <3>5. \A g \in Copies : at'[g] = "checked" => Near(g)'
      BY <3>1, <3>3, <3>4 DEF RelayInv, Near
    <3>6. sigV = 2 => \A g \in Copies : Passed(g)' => Passed(g)
      BY <3>1, <3>2, <3>3 DEF Passed
    <3> QED BY <3>1, <3>5, <3>6 DEF RelayInv, Kept, OncePerRelay
  <2>2. CASE ConsumeRelay(h)
    <3>1. UNCHANGED <<now, sigV, stamp, reports>> /\ Near(h)
      BY <2>2 DEF ConsumeRelay, modeVars, RelayInv
    <3>2. CASE Remembered(h[1])
      <4>1. Move(h, "answered") /\ until' = until
        BY <2>2, <3>2 DEF ConsumeRelay, TakeNonce
      <4>2. \A g \in Copies : at'[g] = "checked" => Near(g)'
        BY <2>0, <3>1, <4>1 DEF RelayInv, Near, RelayPCs
      <4>3. \A g \in Copies : Passed(g)' => Passed(g)
        BY <2>0, <3>1, <4>1 DEF Passed, RelayPCs
      <4> QED BY <3>1, <4>1, <4>2, <4>3 DEF RelayInv, Kept, OncePerRelay
    <3>3. CASE ~Remembered(h[1])
      <4>1. Move(h, "gate") /\ until' = [until EXCEPT ![h[1]] = now + Ttl]
        BY <2>2, <3>3 DEF ConsumeRelay, TakeNonce, Remember
      <4>2. \A g \in Copies : at'[g] = "checked" => Near(g)'
        BY <2>0, <3>1, <4>1 DEF RelayInv, Near, RelayPCs
      <4>3. sigV = 2 => \A g \in Copies : g[1] = h[1] => ~Passed(g)
        BY <3>1, <3>3, NearFindsKept DEF RelayInv, Near
      <4>4. \A g \in Copies : g # h => (Passed(g)' => Passed(g))
        BY <2>0, <3>1, <4>1 DEF Passed, RelayPCs
      <4>5. \A r \in Relays : until'[r] = IF r = h[1] THEN now + Ttl ELSE until[r]
        BY <1>0, <4>1 DEF NonceTypes, Signed
      <4>6. Kept(h[1])'
        <5>1. {stamp[h[1]], now, Skew, Ttl} \subseteq Nat
          BY <1>0 DEF NonceTypes, Signed
        <5> QED BY <1>0, <3>1, <4>5, <5>1 DEF Kept, Near, RelayInv
      <4>7. sigV = 2 => \A g \in Copies : Passed(g)' => Kept(g[1])'
        BY <1>0, <3>1, <4>4, <4>5, <4>6 DEF RelayInv, Kept
      <4>8. OncePerRelay'
        BY <3>1, <4>3, <4>4 DEF RelayInv, OncePerRelay
      <4> QED BY <3>1, <4>2, <4>7, <4>8 DEF RelayInv
    <3> QED BY <3>2, <3>3
  <2>3. CASE ReportMessage(h) \/ ReportDelegation(h)
    <3>1. PICK p \in {"answered", "over"} : Move(h, p)
      BY <2>3 DEF ReportMessage, ReportDelegation
    <3>2. reports' \in [Copies -> Nat] /\ \A g \in Copies : g # h => reports'[g] = reports[g]
      BY <1>0, <2>3 DEF ReportMessage, ReportDelegation, Report, HandlerTypes
    <3>3. Passed(h) /\ UNCHANGED <<now, sigV, stamp, until>>
      BY <2>3 DEF ReportMessage, ReportDelegation, Tell, Passed, modeVars, nonceVars
    <3> QED BY <3>1, <3>2, <3>3, PassedMoves DEF RelayPCs
  <2>4. CASE ToolResultFails(h) \/ StreamEnds(h)
    <3>1. PICK p \in {"failing", "storing"} : Move(h, p)
      BY <2>4 DEF ToolResultFails, StreamEnds
    <3>2. Passed(h) /\ UNCHANGED <<now, sigV, stamp, until, reports>>
      BY <2>4 DEF ToolResultFails, StreamEnds, Passed, modeVars, nonceVars
    <3> QED BY <1>0, <3>1, <3>2, PassedMoves DEF RelayPCs, HandlerTypes
  <2>5. ASSUME NEW good \in BOOLEAN, Gate(h, good) \/ Read(h, good) \/ Store(h, good) \/ SaveMessage(h, good)
        PROVE  RelayInv'
    <3>1. PICK p \in RelayPCs \ {"checked"} : Move(h, p)
      <4>1. CASE Gate(h, good) \/ Read(h, good) \/ Store(h, good)
        BY <4>1 DEF Gate, Read, Store, RelayPCs
      <4>2. CASE SaveMessage(h, good)
        <5>1. Action[h[1]] \in {"message", "delegate", "result"}
          BY DEF Copies
        <5> QED BY <4>2, <5>1 DEF SaveMessage, RelayPCs
      <4> QED BY <2>5, <4>1, <4>2
    <3>2. Passed(h) /\ UNCHANGED <<now, sigV, stamp, until, reports>>
      BY <2>5 DEF Gate, Read, Store, SaveMessage, Passed, modeVars, nonceVars
    <3> QED BY <1>0, <3>1, <3>2, PassedMoves DEF HandlerTypes
  <2> QED BY <1>3, <2>1, <2>2, <2>3, <2>4, <2>5 DEF Receiver, Delegation
<1>4. ASSUME NEW r \in Relays, NEW ahead \in 0..Skew, Sign(r, ahead) PROVE RelayInv'
  <2>1. \A x \in Relays : stamp'[x] = IF x = r THEN now + ahead ELSE stamp[x]
    BY <1>0, <1>4 DEF Sign, NonceTypes, Signed
  <2>2. UNCHANGED <<now, sigV, at, arrived, reports, until>> /\ stamp[r] = 0
    BY <1>4 DEF Sign, modeVars, handlerVars
  <2>3. \A x \in Relays : stamp'[x] <= now + Skew
    BY <1>0, <2>1 DEF RelayInv
  <2>4. \A h \in Copies : at[h] = "checked" \/ (sigV = 2 /\ Passed(h)) => stamp'[h[1]] = stamp[h[1]]
    BY <1>0, <2>1, <2>2 DEF RelayInv, Near, Kept
  <2> QED BY <2>2, <2>3, <2>4 DEF RelayInv, Near, Kept, Passed, OncePerRelay
<1>5. CASE Stop
  <2>1. \A h \in Copies : at'[h] = IF at[h] = "checked" THEN "answered"
                                   ELSE IF Handled(at[h]) THEN "lost" ELSE at[h]
    BY <1>5 DEF Stop
  <2>2. UNCHANGED <<now, sigV, arrived, reports, stamp, until>>
    BY <1>5 DEF Stop, modeVars, nonceVars
  <2>3. \A h \in Copies : at'[h] # "checked" /\ (Passed(h)' => Passed(h))
    BY <2>1, <2>2 DEF Handled, Passed
  <2> QED BY <2>2, <2>3 DEF RelayInv, Kept, OncePerRelay
<1>6. CASE Tick
  <2>1. UNCHANGED <<sigV, at, arrived, reports, stamp, until>> /\ now' = now + 1
    BY <1>6 DEF Tick, modeVars, handlerVars, nonceVars
  <2>2. \A h \in Copies : at[h] = "checked" => now + 1 <= arrived[h] + Delay
    BY <1>0, <1>6 DEF Tick, HandlerTypes
  <2>3. \A r \in Relays : stamp[r] <= now + 1 + Skew
    <3>1. \A r \in Relays : stamp[r] \in Nat
      BY <1>0 DEF NonceTypes, Signed
    <3> QED BY <1>0, <3>1 DEF RelayInv
  <2>4. now + 1 # 0
    BY <1>0
  <2> QED BY <2>1, <2>2, <2>3, <2>4 DEF RelayInv, Near, Kept, Passed, OncePerRelay
<1>7. CASE Boot \/ Govern \/ \E w \in Sides : Refetch(w) \/ Rekey(w)
  BY <1>7, RelaysRest DEF Boot, Govern, Refetch, Rekey, modeVars, handlerVars, nonceVars
<1>8. CASE UNCHANGED vars
  BY <1>8, RelaysRest DEF vars, modeVars, handlerVars, nonceVars
<1> QED BY <1>1, <1>2, <1>3, <1>4, <1>5, <1>6, <1>7, <1>8 DEF Next

(* With v2 signatures, a relay that the control plane posts again passes    *)
(* only once, however its copies interleave, wherever the two clocks stand  *)
(* within the skew and however long the nonce store takes, as long as the   *)
(* nonce outlives freshness, skew and that delay (bridgeReceive.js:77-103,  *)
(* requireHmac.js).                                                         *)
THEOREM PassesOnce == Spec => []OncePerRelay
<1>1. Init => TypeOK /\ RelayInv
  <2> SUFFICES ASSUME Init PROVE TypeOK /\ RelayInv
    OBVIOUS
  <2>1. \A h \in Copies : ~Passed(h) /\ at[h] # "checked"
    BY DEF Init, Passed
  <2>2. \A r \in Relays : stamp[r] = 0
    BY DEF Init, Signed
  <2> QED BY <2>1, <2>2, InitTypes DEF Init, RelayInv, OncePerRelay
<1>2. RelayInv => OncePerRelay
  BY DEF RelayInv
<1> QED BY <1>1, <1>2, TypeStep, RelayStep, PTL DEF Spec
=============================================================================
