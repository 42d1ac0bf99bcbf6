------------------------ MODULE IntentExchangeProofs ------------------------
(***************************************************************************)
(* Proofs about IntentExchange, for any timeouts and any number of         *)
(* attempts.                                                               *)
(*                                                                         *)
(* The nonce admits one handler beyond Consume; what has to be kept is     *)
(* that this handler is alone (OneHolder), that the answers it leaves      *)
(* behind tell how the task ended (AnswersTrue), and that a slot of call   *)
(* is not used twice (SlotsFree).  For the bound, each state of the        *)
(* sender knows how late its timer may be.                                 *)
(*                                                                         *)
(* And about IntentRun, what the target makes of an intent, for any        *)
(* requests, contracts, tools and bounds of the cache.  Each execution     *)
(* keeps what it works on, what it may, and what it has done (Honest,      *)
(* Recent, Acted); the cache is not younger than what it holds             *)
(* (CacheHonest).  What the compiler makes of a batch of any length rests  *)
(* on the ranks of the positions that it keeps.                            *)
(***************************************************************************)
EXTENDS IntentExchange, IntentRun, FiniteSetTheorems, TLAPS

Holding == {"authorizing", "preparing", "running"}

OneHolder ==
    /\ \A a, b \in Attempts : call[a] \in Holding /\ call[b] \in Holding => a = b
    /\ \A a \in Attempts : call[a] \in Holding => used
    /\ \A a \in Attempts : call[a] \in {"authorizing", "preparing"} => runs = 0
    /\ \A a \in Attempts : call[a] = "running" => runs = 1 /\ ended = "no"
    /\ runs \in {0, 1}
    /\ runs = 1 => used
    /\ ended # "no" => runs = 1

AnswersTrue ==
    /\ \A a \in Attempts : call[a] = "success" => ended = "success"
    /\ \A a \in Attempts : call[a] = "denied" => Closed

SlotsFree ==
    /\ spc # "done" => outcome = None
    /\ spc = "ready" => attempt = 0
    /\ spc # "ready" => attempt > 0
    /\ \A a \in Attempts : a > attempt => call[a] = "unsent"

TimersBounded ==
    /\ spc = "ready" => now = 0
    /\ spc # "ready" /\ spc # "done" => now <= deadline
    /\ spc = "first" => deadline <= FirstTimeout
    /\ spc = "waking" => deadline <= FirstTimeout + WakeTimeout
    /\ spc \in {"paused", "retry"} => wakeStart <= FirstTimeout + WakeTimeout /\ wakeStart <= now
    /\ spc = "paused" => deadline <= wakeStart + MaxWake + Interval
    /\ spc = "retry" => deadline <= wakeStart + MaxWake + Interval + RetryTimeout

IInv == ExchangeTypeOK /\ OneHolder /\ AnswersTrue /\ SlotsFree

LEMMA Times ==
    /\ FirstTimeout \in Nat /\ WakeTimeout \in Nat /\ Interval \in Nat
    /\ RetryTimeout \in Nat /\ MaxWake \in Nat /\ Window \in Nat /\ MaxTime \in Nat
    /\ MaxWake > 0
BY ExchangeTimes

USE KeyAssumption, AttemptsAssumption, NoneAssumption, Times

LEMMA InitIInv == ExchangeInit => IInv /\ TimersBounded
<1> SUFFICES ASSUME ExchangeInit PROVE IInv /\ TimersBounded
  OBVIOUS
<1>1. ExchangeTypeOK
  <2>1. 0 \in Nat /\ 0 \in 0..MaxAttempts
    OBVIOUS
  <2>2. call \in [Attempts -> {"unsent"}] /\ sentAt \in [Attempts -> {0}]
    BY DEF ExchangeInit
  <2> QED BY <2>1, <2>2 DEF ExchangeInit, ExchangeTypeOK
<1>2. \A a \in Attempts : call[a] = "unsent"
  BY DEF ExchangeInit
<1> QED
  BY <1>1, <1>2 DEF ExchangeInit, IInv, OneHolder, AnswersTrue, SlotsFree, TimersBounded, Holding

-----------------------------------------------------------------------------
\* What the sender may do to the task: report it, or open another slot.
PostStep ==
    /\ \E a \in Attempts : call[a] = "unsent" /\ attempt' = a /\ attempt < a
                           /\ (\A b \in Attempts : b > a => call[b] = "unsent")
                           /\ call' = [call EXCEPT ![a] = "arriving"]
                           /\ sentAt' = [sentAt EXCEPT ![a] = now]
    /\ spc # "done" /\ spc' \in {"first", "retry"}
    /\ UNCHANGED <<outcome, up, contract, taskVars, now>>

ReportStep ==
    /\ outcome' = outcome \/ (outcome = None /\ outcome' \in Outcomes)
    /\ outcome' # outcome /\ outcome' \in Results => call[attempt] = outcome'
    /\ outcome' # outcome => spc' = "done"
    /\ spc' \in {"waking", "paused", "done"}
    /\ spc \in {"first", "waking", "retry"}
    /\ UNCHANGED <<attempt, netVars, up, contract, taskVars, now>>

LEMMA PostSteps ==
    ASSUME IInv, NEW a \in Attempts, a = attempt + 1, Post(a),
           spc # "done", spc' \in {"first", "retry"}, UNCHANGED <<outcome, up, contract, taskVars, now>>
    PROVE  PostStep
<1>1. call[a] = "unsent" /\ attempt < a /\ \A b \in Attempts : b > a => call[b] = "unsent"
  BY DEF IInv, ExchangeTypeOK, SlotsFree, Attempts
<1> QED BY <1>1 DEF Post, PostStep

LEMMA SenderSteps ==
    ASSUME IInv, Sender
    PROVE  /\ PostStep \/ ReportStep
           /\ deadline' \in Nat /\ wakeStart' \in Nat
<1> USE DEF IInv, ExchangeTypeOK, SlotsFree
<1>1. CASE SendFirst
  <2>1. 1 \in Attempts /\ attempt = 0
    BY <1>1 DEF SendFirst, Attempts
  <2> QED BY <1>1, <2>1, PostSteps DEF SendFirst, Await
<1>2. CASE FirstReply
  BY <1>2 DEF FirstReply, HttpAnswer, Await, ToolReturns, ReportStep, Outcomes, Results,
              RpcErrors, HttpErrors
<1>3. CASE FirstThrows
  BY <1>3 DEF FirstThrows, ToolReturns, ReportStep, Outcomes, Results
<1>4. CASE WakeReturns
  BY <1>4 DEF WakeReturns, ToolReturns, Await, ReportStep, Outcomes, Results
<1>5. CASE Retry
  <2>1. attempt + 1 \in Attempts
    BY <1>5 DEF Retry, Attempts
  <2> QED BY <1>5, <2>1, PostSteps DEF Retry, Await
<1>6. CASE RetryReply
  BY <1>6 DEF RetryReply, Loop, HttpAnswer, Await, ToolReturns, ReportStep, Outcomes,
              Results, RpcErrors
<1>7. CASE RetryThrows
  BY <1>7 DEF RetryThrows, Loop, Await, ToolReturns, ReportStep, Outcomes, Results
<1> QED BY <1>1, <1>2, <1>3, <1>4, <1>5, <1>6, <1>7 DEF Sender

-----------------------------------------------------------------------------
LEMMA NextIInv == IInv /\ [ExchangeNext]_exchangeVars => IInv'
<1> SUFFICES ASSUME IInv, [ExchangeNext]_exchangeVars PROVE IInv'
  OBVIOUS
<1> USE DEF IInv
<1>1. CASE Sender
  <2>0. (PostStep \/ ReportStep) /\ deadline' \in Nat /\ wakeStart' \in Nat
    BY <1>1, SenderSteps
  <2>1. CASE PostStep
    <3>1. ExchangeTypeOK'
      BY <2>0, <2>1 DEF ExchangeTypeOK, PostStep, Attempts, taskVars
    <3>2. OneHolder'
      BY <2>1 DEF OneHolder, ExchangeTypeOK, PostStep, Attempts, Holding, taskVars
    <3>3. AnswersTrue'
      BY <2>1 DEF AnswersTrue, Closed, ExchangeTypeOK, PostStep, Attempts, taskVars
    <3>4. SlotsFree'
      BY <2>1 DEF SlotsFree, ExchangeTypeOK, PostStep, Attempts
    <3> QED BY <3>1, <3>2, <3>3, <3>4
  <2>2. CASE ReportStep
    <3>1. ExchangeTypeOK'
      BY <2>0, <2>2 DEF ExchangeTypeOK, ReportStep, netVars, taskVars
    <3>2. OneHolder' /\ AnswersTrue'
      BY <2>2 DEF OneHolder, AnswersTrue, Closed, ReportStep, netVars, taskVars
    <3>3. SlotsFree'
      BY <2>2 DEF SlotsFree, ReportStep, netVars
    <3> QED BY <3>1, <3>2, <3>3
  <2> QED BY <2>0, <2>1, <2>2
<1>2. ASSUME NEW a \in Attempts, Target(a) PROVE IInv'
  <2> USE DEF Goto
  <2>1. ExchangeTypeOK'
    <3>1. \E r \in {"gone"} \cup Handling \cup HttpErrors \cup RpcErrors \cup Results :
             call' = [call EXCEPT ![a] = r]
      BY <1>2 DEF Target, Ingress, Door, Verify, Consume, Authorize, Execute, Finish,
                  Handling, HttpErrors, RpcErrors, Results
    <3>2. UNCHANGED <<senderVars, sentAt, up, contract, now>>
      BY <1>2 DEF Target, Ingress, Door, Verify, Consume, Authorize, Execute, Finish
    <3>3. used' \in BOOLEAN /\ ended' \in {"no", "success", "error"}
      BY <1>2 DEF Target, Ingress, Door, Verify, Consume, Authorize, Execute, Finish,
                  ExchangeTypeOK, taskVars
    <3>4. runs' = runs \/ runs' = runs + 1
      BY <1>2 DEF Target, Ingress, Door, Verify, Consume, Authorize, Execute, Finish, taskVars
    <3> QED BY <3>1, <3>2, <3>3, <3>4 DEF ExchangeTypeOK, senderVars
  <2>2. SlotsFree'
    BY <1>2 DEF Target, Ingress, Door, Verify, Consume, Authorize, Execute, Finish,
                SlotsFree, ExchangeTypeOK, senderVars
  <2>3. OneHolder'
    <3>1. CASE Ingress(a) \/ Door(a) \/ Verify(a)
      BY <3>1 DEF Ingress, Door, Verify, OneHolder, ExchangeTypeOK, Holding, taskVars
    <3>2. CASE Consume(a)
      BY <3>2 DEF Consume, OneHolder, ExchangeTypeOK, Holding
    <3>3. CASE Authorize(a)
      BY <3>3 DEF Authorize, OneHolder, ExchangeTypeOK, Holding, taskVars
    <3>4. CASE Execute(a)
      BY <3>4 DEF Execute, OneHolder, ExchangeTypeOK, Holding
    <3>5. CASE Finish(a)
      BY <3>5 DEF Finish, OneHolder, ExchangeTypeOK, Holding
    <3> QED BY <1>2, <3>1, <3>2, <3>3, <3>4, <3>5 DEF Target
  <2>4. AnswersTrue'
    <3>1. CASE Ingress(a) \/ Door(a) \/ Verify(a)
      BY <3>1 DEF Ingress, Door, Verify, AnswersTrue, Closed, ExchangeTypeOK, taskVars
    <3>2. CASE Consume(a)
      BY <3>2 DEF Consume, AnswersTrue, Closed, ExchangeTypeOK
    <3>3. CASE Authorize(a)
      BY <3>3 DEF Authorize, AnswersTrue, Closed, OneHolder, ExchangeTypeOK, Holding, taskVars
    <3>4. CASE Execute(a)
      BY <3>4 DEF Execute, AnswersTrue, Closed, OneHolder, ExchangeTypeOK, Holding
    <3>5. CASE Finish(a)
      BY <3>5 DEF Finish, AnswersTrue, Closed, OneHolder, ExchangeTypeOK, Holding
    <3> QED BY <1>2, <3>1, <3>2, <3>3, <3>4, <3>5 DEF Target
  <2> QED BY <2>1, <2>2, <2>3, <2>4
<1>3. CASE Stop
  <2>1. \A a \in Attempts :
            \/ call'[a] = call[a] /\ call[a] \notin Holding
            \/ call'[a] = "gone" /\ call[a] \in Handling
    BY <1>3 DEF Stop, Holding, Handling
  <2>2. ExchangeTypeOK'
    <3>1. call' \in [Attempts -> {"unsent", "arriving", "gone"} \cup Handling
                                    \cup HttpErrors \cup RpcErrors \cup Results]
      BY <1>3 DEF Stop, ExchangeTypeOK
    <3> QED BY <1>3, <3>1 DEF Stop, ExchangeTypeOK, senderVars, taskVars
  <2>3. OneHolder'
    BY <1>3, <2>1 DEF Stop, OneHolder, Holding, taskVars
  <2>4. Closed => Closed'
    BY <1>3, <2>1 DEF Stop, Closed, taskVars
  <2>5. AnswersTrue'
    BY <1>3, <2>1, <2>4 DEF Stop, AnswersTrue, taskVars
  <2>6. SlotsFree'
    BY <1>3, <2>1 DEF Stop, SlotsFree, Handling, senderVars
  <2> QED BY <2>2, <2>3, <2>5, <2>6
<1>4. CASE Boot \/ Govern \/ ExchangeTick \/ UNCHANGED exchangeVars
  <2>1. UNCHANGED <<senderVars, netVars, taskVars>>
    BY <1>4 DEF Boot, Govern, ExchangeTick, exchangeVars
  <2>2. ExchangeTypeOK'
    <3>1. up' \in BOOLEAN
      BY <1>4 DEF Boot, Govern, ExchangeTick, exchangeVars, ExchangeTypeOK
    <3>2. contract' \in {"granted", "narrowed", "rotated", "revoked"}
      BY <1>4 DEF Boot, Govern, ExchangeTick, exchangeVars, ExchangeTypeOK
    <3>3. now' \in Nat
      BY <1>4 DEF Boot, Govern, ExchangeTick, exchangeVars, ExchangeTypeOK
    <3> QED
      BY <2>1, <3>1, <3>2, <3>3 DEF ExchangeTypeOK, senderVars, netVars, taskVars
  <2>3. OneHolder' /\ AnswersTrue' /\ SlotsFree'
    BY <2>1 DEF OneHolder, AnswersTrue, SlotsFree, Closed, senderVars, netVars, taskVars
  <2> QED BY <2>2, <2>3
<1> QED BY <1>1, <1>2, <1>3, <1>4 DEF ExchangeNext

LEMMA Invariance == ExchangeSpec => []IInv
BY InitIInv, NextIInv, PTL DEF ExchangeSpec

-----------------------------------------------------------------------------
\* The variables of the exchange keep their types.
THEOREM TypeCorrect == ExchangeSpec => []ExchangeTypeOK
BY Invariance, PTL DEF IInv

\* An intent is executed at most once however often its token is sent, and
\* what the caller is told of a success or a denial is true.
THEOREM ExchangeImplementsTask == ExchangeSpec => ImplementsTask
<1>1. ExchangeInit => Task!Init
  BY DEF ExchangeInit, Task!Init, Closed
<1>2. ASSUME IInv, [ExchangeNext]_exchangeVars PROVE [Task!Next]_(Task!vars)
  <2> USE <1>2 DEF IInv
  <2>1. CASE Sender
    <3>0. PostStep \/ ReportStep
      BY <2>1, SenderSteps
    <3>1. CASE PostStep
      BY <3>1 DEF PostStep, ExchangeTypeOK, Closed, taskVars, Task!vars
    <3>2. CASE ReportStep
      <4>1. UNCHANGED <<runs, ended, Closed>>
        BY <3>2 DEF ReportStep, Closed, netVars, taskVars
      <4>2. CASE outcome' # outcome
        <5>1. outcome = None /\ outcome' \in Outcomes /\ attempt \in Attempts
          BY <3>2, <4>2 DEF ReportStep, SlotsFree, ExchangeTypeOK, Attempts
        <5>2. outcome' = "success" => ended = "success"
          BY <3>2, <4>2, <5>1 DEF ReportStep, AnswersTrue, Results
        <5>3. outcome' = "denied" => Closed
          BY <3>2, <4>2, <5>1 DEF ReportStep, AnswersTrue, Results
        <5> QED BY <4>1, <5>1, <5>2, <5>3 DEF Task!Next, Task!Report
      <4> QED BY <4>1, <4>2 DEF Task!vars
    <3> QED BY <3>0, <3>1, <3>2
  <2>2. ASSUME NEW a \in Attempts, Ingress(a) \/ Door(a) \/ Verify(a) \/ Consume(a)
        PROVE  UNCHANGED Task!vars
    BY <2>2 DEF Ingress, Door, Verify, Consume, Goto, ExchangeTypeOK, OneHolder, Holding, Closed,
                senderVars, taskVars, Task!vars
  <2>3. ASSUME NEW a \in Attempts, Authorize(a)
        PROVE  Task!Close \/ UNCHANGED Task!vars
    BY <2>3 DEF Authorize, Goto, ExchangeTypeOK, OneHolder, Holding, Closed, senderVars,
                taskVars, Task!Close, Task!vars
  <2>4. ASSUME NEW a \in Attempts, Execute(a) PROVE Task!Close \/ Task!Start
    BY <2>4 DEF Execute, Goto, ExchangeTypeOK, OneHolder, Holding, Closed, senderVars,
                Task!Close, Task!Start
  <2>5. ASSUME NEW a \in Attempts, Finish(a)
        PROVE  \E e \in {"success", "error"} : Task!End(e)
    BY <2>5 DEF Finish, Goto, ExchangeTypeOK, OneHolder, Holding, Closed, senderVars, Task!End
  <2>6. CASE Stop
    BY <2>6 DEF Stop, ExchangeTypeOK, OneHolder, Holding, Handling, Closed, senderVars,
                taskVars, Task!Close, Task!vars, Task!Next
  <2>7. CASE Boot \/ Govern \/ ExchangeTick \/ UNCHANGED exchangeVars
    BY <2>7 DEF Boot, Govern, ExchangeTick, exchangeVars, Closed, senderVars, netVars, taskVars, Task!vars
  <2> QED
    BY <2>1, <2>2, <2>3, <2>4, <2>5, <2>6, <2>7 DEF ExchangeNext, Target, Task!Next
<1> QED
  BY <1>1, <1>2, Invariance, PTL DEF ExchangeSpec, Task!Spec, ImplementsTask

-----------------------------------------------------------------------------
\* The bound on the whole call.
LEMMA NextTimersBounded == IInv /\ TimersBounded /\ [ExchangeNext]_exchangeVars => TimersBounded'
<1> SUFFICES ASSUME IInv, TimersBounded, [ExchangeNext]_exchangeVars PROVE TimersBounded'
  OBVIOUS
<1> USE DEF TimersBounded, IInv, ExchangeTypeOK, Await, ToolReturns
<1>1. CASE SendFirst
  BY <1>1 DEF SendFirst
<1>2. CASE FirstReply \/ FirstThrows
  BY <1>2 DEF FirstReply, FirstThrows
<1>3. CASE WakeReturns
  BY <1>3 DEF WakeReturns
<1>4. CASE Retry
  BY <1>4 DEF Retry
<1>5. CASE RetryReply \/ RetryThrows
  BY <1>5 DEF RetryReply, RetryThrows, Loop
<1>6. CASE ExchangeTick
  BY <1>6 DEF ExchangeTick, senderVars
<1>7. CASE UNCHANGED <<senderVars, now>>
  BY <1>7 DEF senderVars
<1> QED
  BY <1>1, <1>2, <1>3, <1>4, <1>5, <1>6, <1>7
  DEF ExchangeNext, Sender, Target, Ingress, Door, Verify, Consume, Authorize, Execute, Finish,
      Stop, Boot, Govern, exchangeVars

\* intent_bridge returns within the sum of its timeouts.
THEOREM CallIsBounded == ExchangeSpec => []BoundedCall
<1>1. IInv /\ TimersBounded => BoundedCall
  BY DEF IInv, ExchangeTypeOK, TimersBounded, BoundedCall
<1> QED
  BY <1>1, InitIInv, NextTimersBounded, Invariance, PTL DEF ExchangeSpec

-----------------------------------------------------------------------------
\* A retry is signed when it is sent, so its headers are young when it is
\* answered in time.
RetryIsYoung ==
    spc = "retry" =>
        /\ deadline <= sentAt[attempt] + RetryTimeout
        /\ contract = "granted" => call[attempt] # "refused"

\* With the key of the organisation, which needs no X-Contract-Sender, a
\* retry is not turned away while the contract stands.
THEOREM OrgKeyNotTurnedAway ==
    ~PartyKey /\ RetryTimeout <= Window => (ExchangeSpec => []NotTurnedAway)
<1> SUFFICES ASSUME ~PartyKey, RetryTimeout <= Window PROVE ExchangeSpec => []NotTurnedAway
  OBVIOUS
<1> DEFINE J == RetryIsYoung /\ NotTurnedAway
<1>1. ExchangeInit => J
  BY DEF ExchangeInit, RetryIsYoung, NotTurnedAway
<1>2. ASSUME IInv, TimersBounded, J, [ExchangeNext]_exchangeVars PROVE J'
  <2> USE <1>2 DEF IInv
  <2>0. spc = "retry" => attempt \in Attempts
    BY DEF ExchangeTypeOK, SlotsFree, Attempts
  <2>1. CASE Sender
    <3>1. CASE SendFirst \/ FirstReply \/ FirstThrows \/ WakeReturns
      BY <3>1 DEF SendFirst, FirstReply, FirstThrows, WakeReturns, Await, ToolReturns, Post,
                  RetryIsYoung, NotTurnedAway, SlotsFree, HttpAnswer, RpcErrors, Results
    <3>2. CASE Retry
      <4>1. attempt + 1 \in Attempts
        BY <3>2 DEF Retry, ExchangeTypeOK, Attempts
      <4>2. call'[attempt'] = "arriving" /\ sentAt'[attempt'] = now /\ deadline' = now + RetryTimeout
        BY <3>2, <4>1 DEF Retry, Post, Await, ExchangeTypeOK
      <4> QED
        BY <3>2, <4>2 DEF Retry, RetryIsYoung, NotTurnedAway, ExchangeTypeOK
    <3>3. CASE RetryReply \/ RetryThrows
      BY <3>3 DEF RetryReply, RetryThrows, Loop, HttpAnswer, Await, ToolReturns, RetryIsYoung,
                  NotTurnedAway, RpcErrors, Results
    <3> QED BY <2>1, <3>1, <3>2, <3>3 DEF Sender
  <2>2. ASSUME NEW a \in Attempts, Door(a) PROVE J'
    <3>1. CASE spc = "retry" /\ a = attempt
      <4>1. now <= deadline /\ now - sentAt[a] <= Window
        BY <3>1, <2>0 DEF TimersBounded, RetryIsYoung, ExchangeTypeOK
      <4> QED
        BY <2>2, <3>1, <4>1 DEF Door, Goto, KeyMatches, HeadersFresh, RetryIsYoung, NotTurnedAway,
                                senderVars, ExchangeTypeOK
    <3>2. CASE ~(spc = "retry" /\ a = attempt)
      BY <2>2, <3>2, <2>0 DEF Door, Goto, RetryIsYoung, NotTurnedAway, senderVars, ExchangeTypeOK
    <3> QED BY <3>1, <3>2
  <2>3. ASSUME NEW a \in Attempts, Ingress(a) \/ Verify(a) \/ Consume(a) \/ Authorize(a)
                                    \/ Execute(a) \/ Finish(a)
        PROVE  J'
    <3>1. \E r : r # "refused" /\ call' = [call EXCEPT ![a] = r]
      BY <2>3 DEF Ingress, Verify, Consume, Authorize, Execute, Finish, Goto
    <3>2. UNCHANGED <<senderVars, sentAt, contract>>
      BY <2>3 DEF Ingress, Verify, Consume, Authorize, Execute, Finish
    <3> QED
      BY <2>0, <3>1, <3>2 DEF RetryIsYoung, NotTurnedAway, senderVars, ExchangeTypeOK
  <2>4. CASE Stop
    BY <2>0, <2>4 DEF Stop, RetryIsYoung, NotTurnedAway, senderVars, ExchangeTypeOK
  <2>5. CASE Govern
    BY <2>5 DEF Govern, RetryIsYoung, NotTurnedAway, senderVars, netVars
  <2>6. CASE Boot \/ ExchangeTick \/ UNCHANGED exchangeVars
    BY <2>6 DEF Boot, ExchangeTick, exchangeVars, RetryIsYoung, NotTurnedAway, senderVars, netVars
  <2> QED BY <2>1, <2>2, <2>3, <2>4, <2>5, <2>6 DEF ExchangeNext, Target
<1> QED
  BY <1>1, <1>2, InitIInv, NextTimersBounded, Invariance, PTL DEF ExchangeSpec

-----------------------------------------------------------------------------
(* IntentRun: the positions that the compiler keeps, and their order.       *)

\* How many of the positions I are not behind i.
Rank(I, i) == Cardinality({j \in I : j <= i})

\* Earlier positions have smaller ranks.
LEMMA RankGrows ==
    ASSUME NEW I \in SUBSET Nat, IsFiniteSet(I), NEW i \in I
    PROVE  /\ Rank(I, i) \in 1..Cardinality(I)
           /\ \A j \in I : j < i => Rank(I, j) < Rank(I, i)
<1> DEFINE upTo(k) == {l \in I : l <= k}
<1>1. \A k \in I : IsFiniteSet(upTo(k)) /\ Cardinality(upTo(k)) \in Nat /\ Cardinality(upTo(k)) <= Cardinality(I)
  <2> TAKE k \in I
  <2>1. upTo(k) \in SUBSET I
    OBVIOUS
  <2> QED BY <2>1, FS_Subset, FS_CardinalityType
<1>2. Cardinality(I) \in Nat
  BY FS_CardinalityType
<1>3. Rank(I, i) # 0
  <2>1. i \in upTo(i)
    OBVIOUS
  <2>2. Cardinality(upTo(i)) # 0
    BY <1>1, <2>1, FS_EmptySet
  <2> QED BY <2>2 DEF Rank
<1>4. ASSUME NEW j \in I, j < i PROVE Rank(I, j) < Rank(I, i)
  <2>1. upTo(j) \in SUBSET upTo(i) /\ i \in upTo(i) /\ i \notin upTo(j)
    <3>1. i \in Nat /\ \A l \in I : l \in Nat
      OBVIOUS
    <3>2. \A l \in I : l <= j => l <= i
      BY <1>4, <3>1
    <3>3. ~ (i <= j) /\ i <= i
      BY <1>4, <3>1
    <3> QED BY <3>2, <3>3
  <2>2. /\ Cardinality(upTo(j)) <= Cardinality(upTo(i))
        /\ Cardinality(upTo(i)) = Cardinality(upTo(j)) => upTo(i) = upTo(j)
    BY <1>1, <2>1, FS_Subset
  <2> QED BY <1>1, <2>1, <2>2 DEF Rank
<1> QED BY <1>1, <1>2, <1>3, <1>4 DEF Rank

\* Nth and Rank are inverse to each other: each position has its place.
LEMMA NthRank ==
    ASSUME NEW I \in SUBSET Nat, IsFiniteSet(I), NEW i \in I
    PROVE  Nth(I, Rank(I, i)) = i
<1>1. \A j \in I : Rank(I, j) = Rank(I, i) => j = i
  <2> TAKE j \in I
  <2> HAVE Rank(I, j) = Rank(I, i)
  <2>1. ~ (j < i) /\ ~ (i < j)
    BY RankGrows
  <2> QED BY <2>1
<1> QED BY <1>1 DEF Nth, Rank

\* and each place its position.
LEMMA RankNth ==
    ASSUME NEW I \in SUBSET Nat, IsFiniteSet(I), NEW k \in 1..Cardinality(I)
    PROVE  Nth(I, k) \in I /\ Rank(I, Nth(I, k)) = k
<1> DEFINE rank == [i \in I |-> Rank(I, i)]
<1>1. rank \in [I -> 1..Cardinality(I)]
  BY RankGrows
<1>2. \A i, j \in I : rank[i] = rank[j] => i = j
  <2> TAKE i, j \in I
  <2> HAVE rank[i] = rank[j]
  <2>1. ~ (j < i) /\ ~ (i < j)
    BY RankGrows
  <2> QED BY <2>1
<1>3. Cardinality(I) \in Nat
  BY FS_CardinalityType
<1>4. IsFiniteSet(1..Cardinality(I)) /\ Cardinality(1..Cardinality(I)) = Cardinality(I)
  BY <1>3, FS_Interval
<1>5. rank \in Injection(I, 1..Cardinality(I))
  BY <1>1, <1>2 DEF Injection, IsInjective
<1>6. rank \in Surjection(I, 1..Cardinality(I))
  BY <1>4, <1>5, FS_Injection
<1>7. \E i \in I : rank[i] = k
  BY <1>6 DEF Surjection
<1>8. \E i \in I : Cardinality({j \in I : j <= i}) = k
  BY <1>7 DEF Rank
<1> QED BY <1>8 DEF Nth, Rank

LEMMA FirstIsLeast ==
    ASSUME NEW I \in SUBSET Nat, IsFiniteSet(I), I # {}
    PROVE  First(I) \in I /\ \A k \in I : First(I) <= k
<1>1. Cardinality(I) \in Nat /\ Cardinality(I) # 0
  BY FS_CardinalityType, FS_EmptySet
<1>2. First(I) \in I /\ Rank(I, First(I)) = 1
  BY <1>1, RankNth DEF First
<1>3. ASSUME NEW k \in I, ~ (First(I) <= k) PROVE FALSE
  <2>1. k \in Nat /\ First(I) \in Nat
    BY <1>2
  <2>2. k < First(I)
    BY <1>3, <2>1
  <2>3. Rank(I, k) < 1 /\ Rank(I, k) \in 1..Cardinality(I)
    BY <1>2, <2>2, RankGrows
  <2> QED BY <2>3
<1> QED BY <1>2, <1>3

\* At is a sequence of the elements at the positions, and of no others.
LEMMA AtElements ==
    ASSUME NEW s, NEW I \in SUBSET Nat, IsFiniteSet(I)
    PROVE  /\ At(s, I) \in Seq(Elements(At(s, I)))
           /\ Len(At(s, I)) = Cardinality(I)
           /\ DOMAIN At(s, I) = 1..Cardinality(I)
           /\ Cardinality(I) \in Nat
           /\ Elements(At(s, I)) = {s[i] : i \in I}
           /\ \A k \in 1..Cardinality(I) : At(s, I)[k] = s[Nth(I, k)]
<1> DEFINE t == At(s, I)
<1>1. Cardinality(I) \in Nat
  BY FS_CardinalityType
<1>2. t = [k \in 1..Cardinality(I) |-> s[Nth(I, k)]]
  BY DEF At
<1> HIDE DEF t
<1>3. t \in Seq(Elements(t))
  BY <1>1, <1>2 DEF Elements
<1>4. Len(t) = Cardinality(I) /\ DOMAIN t = 1..Cardinality(I)
  BY <1>1, <1>2, <1>3
<1>5. Elements(t) \subseteq {s[i] : i \in I}
  BY <1>2, RankNth DEF Elements
<1>6. ASSUME NEW i \in I PROVE s[i] \in Elements(t)
  <2>1. Rank(I, i) \in 1..Cardinality(I) /\ Nth(I, Rank(I, i)) = i
    BY RankGrows, NthRank
  <2>2. t[Rank(I, i)] = s[i]
    BY <1>2, <2>1
  <2> QED BY <1>2, <2>1, <2>2 DEF Elements
<1> QED BY <1>1, <1>2, <1>3, <1>4, <1>5, <1>6 DEF t

\* The positions of a sequence are finitely many.
LEMMA PositionsFinite ==
    ASSUME NEW E, NEW s \in Seq(E), NEW I \in SUBSET DOMAIN s
    PROVE  I \in SUBSET Nat /\ IsFiniteSet(I)
<1>1. DOMAIN s = 1..Len(s) /\ Len(s) \in Nat
  OBVIOUS
<1>2. IsFiniteSet(DOMAIN s)
  BY <1>1, FS_Interval
<1> QED BY <1>1, <1>2, FS_Subset

\* Equal steps are merged, none is lost.
LEMMA DeduplicatedElements ==
    ASSUME NEW E, NEW s \in Seq(E)
    PROVE  /\ Deduplicated(s) \in Seq(Elements(Deduplicated(s)))
           /\ Elements(Deduplicated(s)) = Elements(s)
<1> DEFINE I == {k \in DOMAIN s : \A j \in 1..k - 1 : s[j] # s[k]}
<1>1. I \in SUBSET Nat /\ IsFiniteSet(I)
  <2>1. I \in SUBSET DOMAIN s
    OBVIOUS
  <2> HIDE DEF I
  <2> QED BY <2>1, PositionsFinite
<1>2. ASSUME NEW k \in DOMAIN s PROVE \E i \in I : s[i] = s[k]
  <2> DEFINE J == {j \in DOMAIN s : s[j] = s[k]}
  <2>1. J \in SUBSET DOMAIN s /\ k \in J
    OBVIOUS
  <2>2. J \in SUBSET Nat /\ IsFiniteSet(J) /\ J # {}
    BY <2>1, PositionsFinite
  <2>3. First(J) \in J /\ \A j \in J : First(J) <= j
    BY <2>2, FirstIsLeast
  <2>4. \A j \in 1..First(J) - 1 : s[j] # s[First(J)]
    <3> TAKE j \in 1..First(J) - 1
    <3>1. First(J) \in 1..Len(s) /\ Len(s) \in Nat
      BY <2>3
    <3>2. j \in DOMAIN s /\ ~ (First(J) <= j)
      BY <3>1
    <3>3. j \notin J
      BY <2>3, <3>2
    <3> QED BY <2>3, <3>2, <3>3
  <2> QED BY <2>3, <2>4
<1>3. Deduplicated(s) = At(s, I)
  BY DEF Deduplicated
<1>4. \A i \in I : i \in DOMAIN s
  OBVIOUS
<1> HIDE DEF I
<1>5. Elements(At(s, I)) = {s[i] : i \in I} /\ At(s, I) \in Seq(Elements(At(s, I)))
  BY <1>1, AtElements
<1>6. {s[i] : i \in I} = Elements(s)
  BY <1>2, <1>4 DEF Elements
<1> QED BY <1>3, <1>5, <1>6

\* What Fused makes of the step at k: the group it is merged into.
MembersOf(s, k) ==
    IF Candidate(s[k]) /\ k \in GroupOf(s, k) /\ Fuses(s, GroupOf(s, k)) THEN GroupOf(s, k) ELSE {k}

Merged(s) == [k \in DOMAIN s |-> IF MembersOf(s, k) = {k} THEN s[k] ELSE Fusion(s, MembersOf(s, k))]

Kept(s) == {k \in DOMAIN s : k = First(MembersOf(s, k))}

LEMMA FusedIsAt ==
    ASSUME NEW s
    PROVE  Fused(s) = At(Merged(s), Kept(s))
BY DEF Fused, Merged, Kept, MembersOf

\* A group is a set of queries of one tool on one table, and the same group
\* whichever of its members one asks.
LEMMA GroupsAgree ==
    ASSUME NEW E, NEW s \in Seq(E), NEW k \in DOMAIN s
    PROVE  /\ MembersOf(s, k) \subseteq DOMAIN s /\ k \in MembersOf(s, k)
           /\ \A j \in MembersOf(s, k) : MembersOf(s, j) = MembersOf(s, k)
           /\ MembersOf(s, k) # {k} =>
                  \A j \in MembersOf(s, k) :
                      /\ Candidate(s[j]) /\ Candidate(s[k])
                      /\ s[j].tool = s[k].tool /\ s[j].table = s[k].table
                      /\ AliasRead(s[j]) = AliasRead(s[k])
                      /\ s[j].where = s[k].where /\ s[j].group = s[k].group
<1> DEFINE G == GroupOf(s, k)
<1>1. /\ G \subseteq DOMAIN s
      /\ \A j \in G : /\ Candidate(s[j]) /\ s[j].tool = s[k].tool /\ s[j].table = s[k].table
                      /\ AliasRead(s[j]) = AliasRead(s[k])
  BY DEF GroupOf
<1>2. \A j \in G : GroupOf(s, j) = G
  <2> TAKE j \in G
  <2>1. s[j].tool = s[k].tool /\ s[j].table = s[k].table /\ AliasRead(s[j]) = AliasRead(s[k])
    BY <1>1
  <2> QED BY <2>1 DEF GroupOf
<1>3. CASE Candidate(s[k]) /\ k \in G /\ Fuses(s, G)
  <2>1. MembersOf(s, k) = G
    BY <1>3 DEF MembersOf
  <2>2. \A j \in G : MembersOf(s, j) = G
    BY <1>1, <1>2, <1>3 DEF MembersOf
  <2>3. \A j \in G : s[j].where = s[k].where /\ s[j].group = s[k].group
    BY <1>3 DEF Fuses
  <2> QED BY <1>1, <1>3, <2>1, <2>2, <2>3
<1>4. CASE ~ (Candidate(s[k]) /\ k \in G /\ Fuses(s, G))
  BY <1>4 DEF MembersOf
<1> QED BY <1>3, <1>4

LEMMA KeptPositions ==
    ASSUME NEW E, NEW s \in Seq(E)
    PROVE  /\ Kept(s) \in SUBSET Nat /\ IsFiniteSet(Kept(s))
           /\ \A k \in DOMAIN s : /\ First(MembersOf(s, k)) \in Kept(s)
                                  /\ First(MembersOf(s, k)) \in MembersOf(s, k)
<1>1. Kept(s) \in SUBSET DOMAIN s
  BY DEF Kept
<1>2. ASSUME NEW k \in DOMAIN s
      PROVE  /\ First(MembersOf(s, k)) \in Kept(s)
             /\ First(MembersOf(s, k)) \in MembersOf(s, k)
  <2>1. MembersOf(s, k) \in SUBSET DOMAIN s /\ MembersOf(s, k) # {}
    BY GroupsAgree
  <2>2. First(MembersOf(s, k)) \in MembersOf(s, k)
    BY <2>1, PositionsFinite, FirstIsLeast
  <2>3. MembersOf(s, First(MembersOf(s, k))) = MembersOf(s, k)
    BY <2>2, GroupsAgree
  <2> QED BY <2>1, <2>2, <2>3 DEF Kept
<1> QED BY <1>1, <1>2, PositionsFinite

QueryShaped(q) == q.op = "query" => q = [f \in QueryFields |-> q[f]]

SQL(q) == q.op = "query" => WellFormed(q)

\* A limit is no loss.
LEMMA LimitedCovers ==
    ASSUME NEW q, QueryShaped(q), SQL(q)
    PROVE  Covers(Limited(q), q)
<1>1. CASE q.op = "query"
  <2>1. q = [f \in QueryFields |-> q[f]]
    BY <1>1 DEF QueryShaped
  <2>2. CASE q.limit = "none" /\ ~(q.cols \subseteq Totals)
    <3>1. Limited(q) = [q EXCEPT !.limit = "default"]
      BY <1>1, <2>2 DEF Limited
    <3>2. [q EXCEPT !.limit = "default"].op = q.op /\ [q EXCEPT !.limit = "default"].cols = q.cols
          /\ [q EXCEPT !.limit = "default"].limit = "default"
          /\ WellFormed([q EXCEPT !.limit = "default"])
      BY <1>1, <2>1 DEF QueryFields, SQL, WellFormed
    <3>3. [[q EXCEPT !.limit = "default"] EXCEPT !.cols = q.cols, !.limit = q.limit] = q
      BY <2>1 DEF QueryFields
    <3> QED BY <1>1, <2>2, <3>1, <3>2, <3>3 DEF Covers
  <2>3. CASE ~ (q.limit = "none" /\ ~(q.cols \subseteq Totals))
    <3>1. Limited(q) = q
      BY <1>1, <2>3 DEF Limited
    <3>2. [q EXCEPT !.cols = q.cols, !.limit = q.limit] = q
      BY <2>1 DEF QueryFields
    <3> QED BY <1>1, <3>1, <3>2 DEF Covers, SQL
  <2> QED BY <2>2, <2>3
<1>2. CASE q.op # "query"
  BY <1>2 DEF Limited, Covers
<1> QED BY <1>1, <1>2

\* What NothingToLose says of an intent, of its steps E.
Whole(q) == AliasRead(q) = q.alias /\ q.rest = "" /\ q.options = "" /\ q.cols \cap Distinct = {}

Pure(q, o) ==
    q.group = "" /\ o.group = "" =>
        (q.cols \cup o.cols) \subseteq Totals \/ (q.cols \cup o.cols) \cap Totals = {}

Unharmed(E) ==
    /\ \A q \in E : SQL(q)
    /\ \A q \in E : Candidate(q) => Whole(q)
    /\ \A q, o \in E : Candidate(q) /\ Candidate(o) => Pure(q, o)

\* Nor is a fusion, to any of those it merges.
LEMMA FusionCovers ==
    ASSUME NEW E, NEW s \in Seq(E), NEW k \in DOMAIN s, QueryShaped(s[k]), Unharmed(E),
           MembersOf(s, k) # {k}, QueryShaped(s[First(MembersOf(s, k))])
    PROVE  Covers(Limited(Fusion(s, MembersOf(s, k))), s[k])
<1> DEFINE G == MembersOf(s, k)
           q == s[First(G)]
           o == s[k]
           cols == UNION {s[j].cols : j \in G}
           f == [q EXCEPT !.alias = AliasRead(q), !.cols = cols, !.rest = "", !.limit = "default", !.options = ""]
<1>1. k \in G /\ First(G) \in G /\ G \subseteq DOMAIN s
  BY GroupsAgree, KeptPositions
<1>2. \A j \in G : /\ s[j] \in E /\ Candidate(s[j]) /\ Whole(s[j])
                    /\ s[j].tool = o.tool /\ s[j].table = o.table /\ s[j].alias = o.alias
                    /\ s[j].where = o.where /\ s[j].group = o.group
  <2> TAKE j \in G
  <2>1. s[j] \in E /\ o \in E
    BY <1>1
  <2>2. /\ Candidate(s[j]) /\ Candidate(o) /\ AliasRead(s[j]) = AliasRead(o)
        /\ s[j].tool = o.tool /\ s[j].table = o.table /\ s[j].where = o.where /\ s[j].group = o.group
    BY GroupsAgree
  <2>3. Whole(s[j]) /\ Whole(o)
    BY <2>1, <2>2 DEF Unharmed
  <2> QED BY <2>1, <2>2, <2>3 DEF Whole
<1>3. \A j, l \in G : Pure(s[j], s[l])
  BY <1>2 DEF Unharmed
<1>4. /\ o.op = "query" /\ q.op = "query" /\ o.shape = q.shape /\ o.limit = "none"
      /\ q.tool = o.tool /\ q.table = o.table /\ q.where = o.where /\ q.group = o.group
      /\ AliasRead(q) = o.alias /\ o.rest = "" /\ o.options = ""
  BY <1>1, <1>2 DEF Candidate, Whole
<1>5. q = [x \in QueryFields |-> q[x]] /\ o = [x \in QueryFields |-> o[x]]
  BY <1>4 DEF QueryShaped
<1>6. Fusion(s, G) = f
  BY DEF Fusion
<1>7. o.cols \subseteq cols
  BY <1>1
<1>8. cols \cap Distinct = {}
  BY <1>2 DEF Whole
<1>9. o.group = "" => cols \subseteq Totals \/ cols \cap Totals = {}
  <2> SUFFICES ASSUME o.group = "", ~ (cols \subseteq Totals) PROVE cols \cap Totals = {}
    OBVIOUS
  <2>1. PICK j \in G : ~ (s[j].cols \subseteq Totals)
    OBVIOUS
  <2>2. \A l \in G : (s[j].cols \cup s[l].cols) \cap Totals = {}
    BY <1>2, <1>3, <2>1 DEF Pure
  <2> QED BY <2>2
<1>10. o.alias \notin Keywords
  BY <1>1, <1>2, <1>4 DEF Unharmed, SQL, WellFormed
<1> HIDE DEF q, o, cols, G
<1>11. /\ f.op = "query" /\ f.limit = "default" /\ f.cols = cols
       /\ f.alias = o.alias /\ f.group = o.group
  BY <1>4, <1>5 DEF QueryFields
<1>12. Limited(f) = f
  BY <1>11 DEF Limited
<1>13. [f EXCEPT !.cols = o.cols, !.limit = o.limit] = o
  <2> DEFINE h == [f EXCEPT !.cols = o.cols, !.limit = o.limit]
  <2>1. h = [x \in QueryFields |-> h[x]]
    BY <1>5
  <2>2. /\ h.op = q.op /\ h.tool = q.tool /\ h.table = q.table /\ h.alias = AliasRead(q)
        /\ h.cols = o.cols /\ h.where = q.where /\ h.group = q.group /\ h.rest = ""
        /\ h.shape = q.shape /\ h.limit = o.limit /\ h.options = ""
    BY <1>5 DEF QueryFields
  <2> HIDE DEF h
  <2>3. \A x \in QueryFields : h[x] = o[x]
    BY <1>4, <2>2 DEF QueryFields
  <2>4. [x \in QueryFields |-> h[x]] = [x \in QueryFields |-> o[x]]
    BY <2>3
  <2>5. h = o
    BY <1>5, <2>1, <2>4
  <2> QED BY <2>5 DEF h
<1>14. WellFormed(f)
  BY <1>9, <1>10, <1>11 DEF WellFormed
<1>15. Covers(f, o)
  <2> HIDE DEF f
  <2> QED BY <1>4, <1>7, <1>8, <1>11, <1>13, <1>14 DEF Covers
<1> HIDE DEF f
<1> QED BY <1>6, <1>12, <1>15 DEF G, o

\* The compiler returns statements, and answers every step if a merge takes
\* nothing from them: for each there is a statement that covers it, whatever
\* else the batch holds and however large it is.
LEMMA CompiledCovers ==
    ASSUME NEW E, NEW s \in Seq(E), s # <<>>, \A k \in DOMAIN s : QueryShaped(s[k])
    PROVE  /\ Compiled(s) \in Seq(Elements(Compiled(s)))
           /\ Compiled(s) # <<>>
           /\ Unharmed(Elements(s)) =>
                  \A k \in DOMAIN s : \E q \in Elements(Compiled(s)) : Covers(q, s[k])
<1> DEFINE t == IF Len(s) = 1 THEN s ELSE Fused(Deduplicated(s))
           c == Compiled(s)
<1>1. c = [k \in DOMAIN t |-> Limited(t[k])]
  BY DEF Compiled
<1>2. /\ t \in Seq(Elements(t)) /\ Elements(t) # {}
      /\ Unharmed(Elements(s)) => \A k \in DOMAIN s : \E q \in Elements(t) : Covers(Limited(q), s[k])
  <2>1. CASE Len(s) = 1
    <3>1. t = s
      BY <2>1
    <3>2. \A k \in DOMAIN s : s[k] \in Elements(s)
      BY DEF Elements
    <3>3. Unharmed(Elements(s)) => \A k \in DOMAIN s : Covers(Limited(s[k]), s[k])
      BY <3>2, LimitedCovers DEF Unharmed
    <3>4. s \in Seq(Elements(s)) /\ 1 \in DOMAIN s
      BY DEF Elements
    <3> QED BY <3>1, <3>2, <3>3, <3>4
  <2>2. CASE Len(s) # 1
    <3> DEFINE d == Deduplicated(s)
    <3>1. d \in Seq(Elements(d)) /\ Elements(d) = Elements(s)
      BY DeduplicatedElements
    <3>2. \A k \in DOMAIN d : QueryShaped(d[k]) /\ d[k] \in Elements(s)
      BY <3>1 DEF Elements
    <3>3. t = At(Merged(d), Kept(d))
      BY <2>2, FusedIsAt
    <3>4. Kept(d) \in SUBSET Nat /\ IsFiniteSet(Kept(d))
      BY <3>1, KeptPositions
    <3> HIDE DEF d, t
    <3>5. t \in Seq(Elements(t)) /\ Elements(t) = {Merged(d)[k] : k \in Kept(d)}
      BY <3>3, <3>4, AtElements
    <3>6. ASSUME NEW k \in DOMAIN d, Unharmed(Elements(s))
          PROVE  \E q \in Elements(t) : Covers(Limited(q), d[k])
      <4> DEFINE m == First(MembersOf(d, k))
      <4>1. m \in Kept(d) /\ m \in MembersOf(d, k) /\ MembersOf(d, m) = MembersOf(d, k) /\ m \in DOMAIN d
        BY <3>1, KeptPositions, GroupsAgree
      <4>2. Merged(d)[m] \in Elements(t)
        BY <3>5, <4>1
      <4>3. CASE MembersOf(d, k) = {k}
        <5>1. m = k /\ Merged(d)[m] = d[k]
          BY <4>1, <4>3 DEF Merged
        <5>2. SQL(d[k])
          BY <3>2, <3>6 DEF Unharmed
        <5> QED BY <3>2, <4>2, <5>1, <5>2, LimitedCovers
      <4>4. CASE MembersOf(d, k) # {k}
        <5>1. MembersOf(d, m) # {m}
          BY <4>1, <4>4, <3>1, GroupsAgree
        <5>2. Merged(d)[m] = Fusion(d, MembersOf(d, k))
          BY <4>1, <5>1 DEF Merged
        <5>3. d \in Seq(Elements(s))
          BY <3>1
        <5>4. Covers(Limited(Fusion(d, MembersOf(d, k))), d[k])
          BY <3>2, <3>6, <4>1, <4>4, <5>3, FusionCovers
        <5> QED BY <4>2, <5>2, <5>4
      <4> QED BY <4>3, <4>4
    <3>7. \A k \in DOMAIN s : \E j \in DOMAIN d : d[j] = s[k]
      BY <3>1 DEF Elements
    <3>8. Elements(t) # {}
      <4>1. 1 \in DOMAIN s
        OBVIOUS
      <4>2. PICK j \in DOMAIN d : d[j] = s[1]
        BY <3>7, <4>1
      <4>3. First(MembersOf(d, j)) \in Kept(d)
        BY <3>1, KeptPositions
      <4> QED BY <3>5, <4>3
    <3> QED BY <3>5, <3>6, <3>7, <3>8
  <2> QED BY <2>1, <2>2
<1> HIDE DEF t, c
<1>3. DOMAIN t = 1..Len(t) /\ Len(t) \in Nat
  BY <1>2
<1>4. c \in Seq(Elements(c))
  BY <1>1, <1>3 DEF Elements
<1>5. \A q \in Elements(t) : Limited(q) \in Elements(c)
  BY <1>1 DEF Elements
<1>6. Unharmed(Elements(s)) => \A k \in DOMAIN s : \E q \in Elements(c) : Covers(q, s[k])
  BY <1>2, <1>5
<1>7. c # <<>>
  <2>1. Elements(c) # {}
    BY <1>2, <1>5
  <2> QED BY <2>1 DEF Elements
<1> QED BY <1>4, <1>6, <1>7 DEF c

-----------------------------------------------------------------------------
(* The executions.  What is kept of one, e, whatever the others do.          *)

Running == {"tool", "hop", "worked"}

\* It works on the plan of an intent it may run.
Planned(e) ==
    /\ e.pc = "none" => e = Idle
    /\ e.pc # "none" => e.intent \in Intents /\ e.contract \in Contracts /\ e.ws \in Workspaces
    /\ e.pc \in Running \cup {"prerequisites"} =>
           Valid(e.intent) /\ Authorized(e.contract, e.intent) /\ e.answer = NoAnswer
    /\ e.pc = "prerequisites" => e.results = <<>> /\ e.trace = <<>> /\ e.effects = <<>>
    /\ e.pc \in Running =>
           /\ e.intent.op # "discover"
           /\ e.todo = Plan(e.intent) /\ e.at \in 1..Len(e.todo)
           /\ Len(e.results) = e.at - 1
           /\ \A k \in 1..e.at - 1 : e.results[k].step = e.todo[k]
    /\ e.pc = "worked" => e.seen \in 1..MaxVersion

AllMet(e) == \A p \in e.contract.prerequisites : Satisfied(e, p)

StepsGranted(e) ==
    \A k \in DOMAIN StepsOf(e.intent) :
        e.intent.op = "aggregate" => Granted(e.contract, e.intent.steps[k])

\* It goes on only as far as its contract allows, in its own workspace.
Allowed(e) ==
    e.pc \in Running =>
        AllMet(e) /\ StepsGranted(e) /\ \A d \in Elements(e.results) : d.ws = e.ws

\* The trace has the queries asked so far.
Traced(e) ==
    e.pc \in Running => Elements(e.trace) = {q \in {e.todo[k] : k \in 1..e.at} : q.op = "query"}

\* AuthorizedOnly and StepsAnswered, of e.
Entitled(e) ==
    e.answer.status = "ok" =>
        /\ e.intent.op = "discover" \/ Granted(e.contract, e.intent)
        /\ StepsGranted(e) /\ AllMet(e)
        /\ \A d \in Elements(e.answer.data) : d.ws = e.ws

AnsweredAll(e) ==
    e.answer.status = "ok" /\ ~e.answer.cached =>
        /\ AllSQL(e.intent) /\ NothingToLose(e.intent) =>
               \A k \in DOMAIN StepsOf(e.intent) :
                   e.intent.op # "discover" =>
                       \E d \in Elements(e.answer.data) : Covers(d.step, StepsOf(e.intent)[k])
        /\ Elements(e.answer.sql) = {d.step : d \in {x \in Elements(e.answer.data) : x.step.op = "query"}}

\* The data that v stands for was true at t or later.
TrueSince(w, v, t) == version[w] = v \/ t <= lastTrue[w][v]

\* What a tool saw was true when it was asked or later.
Recent(e) ==
    /\ e.pc \in Running => e.asked <= now /\ now <= e.asked + Delay
    /\ e.pc = "worked" => TrueSince(e.ws, e.seen, e.asked)

Honest(e) == Planned(e) /\ Allowed(e) /\ Traced(e) /\ Entitled(e) /\ AnsweredAll(e)

\* Entries are of their workspace, and not younger than what they hold by
\* more than the time a tool takes.
CacheHonest ==
    \A e \in cache :
        /\ e.created <= now
        /\ \A d \in Elements(e.data) :
               /\ d.ws = e.ws
               /\ version[d.ws] = d.version \/ e.created <= lastTrue[d.ws][d.version] + Delay

RunInv ==
    /\ RunTypeOK
    /\ \A r \in Runs : Honest(run[r]) /\ Recent(run[r])
    /\ CacheHonest

LEMMA NothingToLoseMeans ==
    ASSUME NEW i, AllSQL(i), NothingToLose(i)
    PROVE  Unharmed(Elements(StepsOf(i)))
BY DEF AllSQL, NothingToLose, Unharmed, SQL, Whole, Pure

\* The plan of an intent is a sequence, and answers each of its steps if it
\* has nothing to lose.
LEMMA PlanCovers ==
    ASSUME NEW i \in Intents, Valid(i)
    PROVE  /\ Plan(i) \in Seq(Statements) /\ Plan(i) # <<>>
           /\ AllSQL(i) /\ NothingToLose(i) =>
                  \A k \in DOMAIN StepsOf(i) : \E q \in Elements(Plan(i)) : Covers(q, StepsOf(i)[k])
<1> DEFINE s == StepsOf(i)
<1>1. s \in Seq(Elements(s)) /\ \A k \in DOMAIN s : QueryShaped(s[k])
  <2>0. PICK r \in Runs : \E ask \in Asks[r] : ask.intent = i
    BY DEF Intents, Requests
  <2>1. PICK ask \in Asks[r] : ask.intent = i
    BY <2>0
  <2>2. /\ StepsOf(i) \in Seq(Elements(StepsOf(i)))
        /\ \A k \in DOMAIN StepsOf(i) :
               StepsOf(i)[k].op = "query" => StepsOf(i)[k] = [f \in QueryFields |-> StepsOf(i)[k][f]]
    BY <2>1, AsksAssumption
  <2> QED BY <2>2 DEF QueryShaped
<1>2. /\ Plan(i) \in Seq(Elements(Plan(i))) /\ Plan(i) # <<>>
      /\ Unharmed(Elements(s)) => \A k \in DOMAIN s : \E q \in Elements(Plan(i)) : Covers(q, s[k])
  <2>1. CASE i.op = "aggregate"
    <3>1. Plan(i) = Compiled(s) /\ s # <<>>
      BY <2>1 DEF Plan, StepsOf, Valid
    <3> HIDE DEF s
    <3> QED BY <1>1, <3>1, CompiledCovers
  <2>2. CASE i.op # "aggregate"
    <3>1. Plan(i) = <<i>> /\ s = <<i>>
      BY <2>2 DEF Plan, StepsOf
    <3>2. QueryShaped(i) /\ i \in Elements(s)
      BY <1>1, <3>1 DEF Elements
    <3>3. ASSUME Unharmed(Elements(s)) PROVE Covers(i, i)
      <4>0. SQL(i)
        BY <3>2, <3>3 DEF Unharmed
      <4>1. CASE i.op = "query"
        <5>1. i = [f \in QueryFields |-> i[f]]
          BY <3>2, <4>1 DEF QueryShaped
        <5>2. [i EXCEPT !.cols = i.cols, !.limit = i.limit] = i
          BY <5>1 DEF QueryFields
        <5> QED BY <4>0, <4>1, <5>2 DEF Covers, SQL
      <4>2. CASE i.op # "query"
        BY <4>2 DEF Covers
      <4> QED BY <4>1, <4>2
    <3> QED BY <3>1, <3>3 DEF Elements
  <2> QED BY <2>1, <2>2
<1>3. Elements(Plan(i)) \subseteq Statements
  BY DEF Statements
<1> HIDE DEF s
<1>4. Plan(i) \in Seq(Statements)
  BY <1>2, <1>3
<1> QED BY <1>2, <1>4, NothingToLoseMeans DEF s

LEMMA RunInitInv == RunInit => RunInv
<1> SUFFICES ASSUME RunInit PROVE RunInv
  OBVIOUS
<1>1. Idle \in Executions
  BY DEF Idle, Executions, Answers, NoAnswer
<1>2. RunTypeOK
  BY <1>1, NumberAssumption DEF RunInit, RunTypeOK
<1>3. \A r \in Runs : run[r] = Idle
  BY DEF RunInit
<1>4. Honest(Idle) /\ Recent(Idle)
  BY DEF Honest, Planned, Allowed, Traced, Entitled, AnsweredAll, Recent, Idle, NoAnswer, Running
<1>5. CacheHonest
  BY DEF RunInit, CacheHonest
<1> QED BY <1>2, <1>3, <1>4, <1>5 DEF RunInv

\* e is s, answered by a.
Rests(e, s, a) ==
    e = [s EXCEPT !.pc = "answered", !.todo = <<>>, !.at = 0, !.asked = 0, !.seen = 0,
                  !.results = <<>>, !.trace = <<>>, !.answer = a]

LEMMA RestTyped ==
    ASSUME NEW s \in Executions, NEW a \in Answers, NEW e, Rests(e, s, a)
    PROVE  /\ e \in Executions
           /\ e.pc = "answered" /\ e.intent = s.intent /\ e.contract = s.contract
           /\ e.ws = s.ws /\ e.effects = s.effects /\ e.answer = a
           /\ e.judged = s.judged /\ e.verified = s.verified
<1>1. <<>> \in Seq(Statements) /\ <<>> \in Seq(Data)
  OBVIOUS
<1>2. e \in Executions
  BY <1>1 DEF Rests, Executions
<1> QED BY <1>2 DEF Rests, Executions

\* An answered execution does nothing any more.
LEMMA AnsweredRests ==
    ASSUME NEW s \in Executions, Planned(s), s.pc # "none", NEW a \in Answers, NEW e, Rests(e, s, a)
    PROVE  /\ e \in Executions /\ Planned(e) /\ Allowed(e) /\ Traced(e) /\ Recent(e)
           /\ e.pc = "answered" /\ e.intent = s.intent /\ e.contract = s.contract
           /\ e.ws = s.ws /\ e.effects = s.effects /\ e.answer = a
           /\ e.judged = s.judged /\ e.verified = s.verified
<1>1. /\ e \in Executions
      /\ e.pc = "answered" /\ e.intent = s.intent /\ e.contract = s.contract
      /\ e.ws = s.ws /\ e.effects = s.effects /\ e.answer = a
      /\ e.judged = s.judged /\ e.verified = s.verified
  BY RestTyped
<1>2. Planned(e) /\ Allowed(e) /\ Traced(e) /\ Recent(e)
  BY <1>1 DEF Planned, Allowed, Traced, Recent, Running
<1> QED BY <1>1, <1>2

\* An answer that is not a result owes nothing.
LEMMA RefusedRests ==
    ASSUME RunTypeOK, NEW r \in Runs, Planned(run[r]), run[r].pc # "none",
           NEW status \in {"denied", "error"}, NEW e, e = Refused(r, status)
    PROVE  /\ e \in Executions /\ Honest(e) /\ Recent(e) /\ e.pc = "answered"
           /\ e.answer.status = status /\ e.effects = run[r].effects /\ e.intent = run[r].intent
<1> DEFINE a == [status |-> status, data |-> <<>>, cached |-> FALSE, sql |-> <<>>]
<1>1. a \in Answers /\ a.status = status
  BY DEF Answers
<1>2. Rests(e, run[r], a)
  BY DEF Refused, Answered, Rests
<1>3. run[r] \in Executions
  BY DEF RunTypeOK
<1> HIDE DEF a
<1>4. /\ e \in Executions /\ Planned(e) /\ Allowed(e) /\ Traced(e) /\ Recent(e)
      /\ e.pc = "answered" /\ e.intent = run[r].intent /\ e.effects = run[r].effects /\ e.answer = a
  BY <1>1, <1>2, <1>3, AnsweredRests
<1>5. Entitled(e) /\ AnsweredAll(e)
  BY <1>1, <1>4 DEF Entitled, AnsweredAll
<1> QED BY <1>1, <1>4, <1>5 DEF Honest

\* One execution becomes e, the clock and the data stay: the others stay what
\* they are.
LEMMA OneStep ==
    ASSUME RunInv, NEW r \in Runs, NEW e \in Executions, Honest(e), Recent(e),
           run' = [run EXCEPT ![r] = e], UNCHANGED <<now, modeVars, dataVars>>,
           (cache \subseteq Entries)', CacheHonest'
    PROVE  RunInv'
<1>1. run \in [Runs -> Executions]
  BY DEF RunInv, RunTypeOK
<1>2. run' \in [Runs -> Executions] /\ \A q \in Runs : run'[q] = IF q = r THEN e ELSE run[q]
  BY <1>1
<1>3. RunTypeOK'
  BY <1>2 DEF RunInv, RunTypeOK, modeVars, dataVars
<1>4. \A q \in Runs : Honest(run'[q]) /\ Recent(run'[q])
  BY <1>2 DEF RunInv
<1>5. \A q \in Runs : Honest(run[q])' /\ Recent(run[q])'
  BY <1>4 DEF dataVars, Recent, TrueSince
<1> QED BY <1>3, <1>5 DEF RunInv

LEMMA CacheStays ==
    ASSUME RunInv, UNCHANGED <<now, modeVars, dataVars>>, cache' \subseteq cache
    PROVE  (cache \subseteq Entries)' /\ CacheHonest'
BY DEF RunInv, RunTypeOK, CacheHonest, dataVars

\* A transport action is not granted but needs no grant: only discovery.
LEMMA AuthorizedGranted ==
    ASSUME NEW c, NEW i, Authorized(c, i)
    PROVE  i.op = "discover" \/ Granted(c, i)
<1>1. ASSUME ActionOf(i) = <<"discover">> PROVE i.op = "discover"
  <2>1. /\ \A a : <<"query", a>> # <<"discover">>
        /\ \A a : <<"tool", a>> # <<"discover">>
        /\ \A a : <<"capability", a>> # <<"discover">>
    OBVIOUS
  <2>2. i.op \notin {"query", "tool_call", "capability"}
    BY <1>1, <2>1 DEF ActionOf
  <2>3. <<i.op>> = <<"discover">>
    BY <1>1, <2>2 DEF ActionOf
  <2> QED BY <2>3
<1> QED BY <1>1 DEF Authorized, Transport

LEMMA ReceiveKeeps ==
    ASSUME RunInv, NEW r \in Runs, NEW ask \in Asks[r], Receive(r, ask)
    PROVE  RunInv'
<1>1. PICK w, e :
          w \in Workspaces /\
          LET begun == [run[r] EXCEPT !.intent = ask.intent, !.contract = ask.contract, !.names = ask.names,
                                      !.ws = w, !.pc = "prerequisites",
                             !.judged = IF ask.contract.prerequisites = {} THEN 0 ELSE now]
              over(status) == [begun EXCEPT !.pc = "answered", !.answer.status = status]
          IN  /\ run' = [run EXCEPT ![r] = e]
              /\ \/ e = begun /\ Valid(ask.intent) /\ Authorized(ask.contract, ask.intent)
                 \/ e = over("error") \/ e = over("denied")
  BY HomeAssumption DEF Receive
<1>2. w \in Workspaces /\ ask.intent \in Intents /\ ask.contract \in Contracts /\ ask.names \in Names
  BY <1>1 DEF Intents, Contracts, Names, Requests
<1>3. run[r] = Idle
  BY DEF Receive, RunInv, Honest, Planned
<1> DEFINE b == [Idle EXCEPT !.intent = ask.intent, !.contract = ask.contract, !.names = ask.names,
                             !.ws = w, !.pc = "prerequisites",
                             !.judged = IF ask.contract.prerequisites = {} THEN 0 ELSE now]
           f(status) == [b EXCEPT !.pc = "answered", !.answer.status = status]
<1>4. Idle \in Executions
  BY DEF Idle, Executions, Answers, NoAnswer
<1>5. /\ b \in Executions /\ b.intent = ask.intent /\ b.contract = ask.contract /\ b.ws = w
      /\ b.pc = "prerequisites" /\ b.answer = NoAnswer
      /\ b.results = <<>> /\ b.trace = <<>> /\ b.effects = <<>>
  <2>1. now \in Nat
    BY DEF RunInv, RunTypeOK
  <2> QED BY <1>2, <1>4, <2>1 DEF Executions, Idle
<1>6. CASE e = b /\ Valid(ask.intent) /\ Authorized(ask.contract, ask.intent)
  <2> HIDE DEF b
  <2>1. Planned(e)
    BY <1>2, <1>5, <1>6 DEF Planned, Running
  <2>2. Allowed(e) /\ Traced(e) /\ Entitled(e) /\ AnsweredAll(e) /\ Recent(e)
    BY <1>5, <1>6 DEF Allowed, Traced, Entitled, AnsweredAll, Recent, Running, NoAnswer
  <2>3. (cache \subseteq Entries)' /\ CacheHonest'
    BY CacheStays DEF Receive
  <2> QED BY <1>1, <1>5, <1>6, <2>1, <2>2, <2>3, OneStep DEF Honest, Receive
<1>7. ASSUME NEW status \in {"error", "denied"}, e = f(status) PROVE RunInv'
  <2> HIDE DEF b
  <2>1. e \in Executions
    BY <1>5, <1>7 DEF Executions, Answers
  <2>2. e.pc = "answered" /\ e.intent = b.intent /\ e.contract = b.contract /\ e.ws = b.ws
    BY <1>5, <1>7 DEF Executions
  <2>3. e.answer.status = status
    BY <1>5, <1>7 DEF Executions, NoAnswer
  <2>4. Planned(e)
    BY <1>2, <1>5, <2>2 DEF Planned, Running
  <2>5. Allowed(e) /\ Traced(e) /\ Entitled(e) /\ AnsweredAll(e) /\ Recent(e)
    BY <2>2, <2>3 DEF Allowed, Traced, Entitled, AnsweredAll, Recent, Running
  <2>6. (cache \subseteq Entries)' /\ CacheHonest'
    BY CacheStays DEF Receive
  <2> QED BY <1>1, <2>1, <2>4, <2>5, <2>6, OneStep DEF Honest, Receive
<1> QED BY <1>1, <1>3, <1>6, <1>7

LEMMA EvaluatedKeeps ==
    ASSUME RunInv, NEW r \in Runs, Evaluated(r)
    PROVE  RunInv'
<1> DEFINE s == run[r]
           i == s.intent
<1>1. /\ s \in Executions /\ Honest(s) /\ Planned(s) /\ RunTypeOK
      /\ s.pc = "prerequisites" /\ UNCHANGED <<now, modeVars, dataVars>>
  BY DEF Evaluated, RunInv, RunTypeOK, Honest
<1>2. /\ i \in Intents /\ Valid(i) /\ Authorized(s.contract, i) /\ s.ws \in Workspaces
      /\ s.answer = NoAnswer /\ s.results = <<>> /\ s.trace = <<>>
  BY <1>1 DEF Planned, Running
<1>3. i.op = "discover" \/ Granted(s.contract, i)
  BY <1>2, AuthorizedGranted
<1>4. CASE Denied(r)
  <2> DEFINE e == Refused(r, "denied")
  <2>1. e \in Executions /\ Honest(e) /\ Recent(e)
    BY <1>1, RefusedRests
  <2>2. run' = [run EXCEPT ![r] = e] /\ cache' = cache
    BY <1>4 DEF Denied
  <2> HIDE DEF e
  <2>3. (cache \subseteq Entries)' /\ CacheHonest'
    BY <1>1, <2>2, CacheStays
  <2> QED BY <1>1, <2>1, <2>2, <2>3, OneStep
<1> SUFFICES ASSUME NEW verified \in BOOLEAN, Met(s.contract, i, s.judged, verified),
                    Dispatch(r, verified) \/ \E c \in cache : Hit(r, c, verified)
             PROVE  RunInv'
  BY <1>4 DEF Evaluated, Verdicts
<1> DEFINE p == Passed(s, verified)
<1>5. /\ p \in Executions /\ Planned(p) /\ p.pc = "prerequisites" /\ p.intent = i /\ p.contract = s.contract
      /\ p.ws = s.ws /\ p.answer = s.answer /\ p.results = s.results /\ p.trace = s.trace
      /\ p.judged = s.judged /\ p.verified = verified
  <2>1. /\ p \in Executions /\ p.pc = s.pc /\ p.intent = i /\ p.contract = s.contract
        /\ p.ws = s.ws /\ p.answer = s.answer /\ p.results = s.results /\ p.trace = s.trace
        /\ p.judged = s.judged /\ p.verified = verified /\ p.effects = s.effects
    BY <1>1 DEF Passed, Executions
  <2> HIDE DEF p, s
  <2> QED BY <1>1, <2>1 DEF Planned, Running
<1>5a. AllMet(p)
  <2> HIDE DEF p, s
  <2> SUFFICES ASSUME NEW q \in p.contract.prerequisites PROVE Satisfied(p, q)
    BY DEF AllMet
  <2>1. Meets(q, ParamsOf(i), s.judged, verified)
    BY <1>5 DEF Met
  <2> QED BY <1>5, <2>1 DEF Meets, Satisfied
<1>6. ASSUME NEW c \in cache, Hit(r, c, verified) PROVE RunInv'
  <2> DEFINE a == [status |-> "ok", data |-> c.data, cached |-> TRUE, sql |-> <<>>]
             e == Passed(Answered(r, "ok", c.data, TRUE, <<>>), verified)
  <2>1. c \in Entries /\ c.ws = s.ws /\ c.intent = i /\ Cacheable(i)
    BY <1>1, <1>6 DEF Hit, EntryOf, RunTypeOK
  <2>2. a \in Answers /\ a.status = "ok" /\ a.data = c.data /\ a.cached = TRUE
    BY <2>1 DEF Answers, Entries
  <2>3. Rests(e, p, a)
    BY <1>1 DEF Answered, Rests, Passed, Executions
  <2>4. run' = [run EXCEPT ![r] = e] /\ cache' = (cache \ {c}) \cup {Touched(c)}
    BY <1>6 DEF Hit
  <2> HIDE DEF a, e, s, p
  <2>5. /\ e \in Executions /\ Planned(e) /\ Allowed(e) /\ Traced(e) /\ Recent(e)
        /\ e.pc = "answered" /\ e.intent = s.intent /\ e.contract = s.contract
        /\ e.ws = s.ws /\ e.answer = a /\ e.judged = p.judged /\ e.verified = p.verified
    BY <1>1, <1>5, <2>2, <2>3, AnsweredRests
  <2>6. \A d \in Elements(c.data) : d.ws = s.ws
    BY <2>1 DEF RunInv, CacheHonest
  <2>7. StepsGranted(e) /\ AllMet(e)
    <3>1. i.op # "aggregate"
      BY <2>1 DEF Cacheable, CacheableKind
    <3> QED BY <1>5, <1>5a, <2>5, <3>1 DEF StepsGranted, AllMet, Satisfied
  <2>8. Entitled(e) /\ AnsweredAll(e)
    BY <1>3, <2>2, <2>5, <2>6, <2>7 DEF Entitled, AnsweredAll
  <2>9. (cache \subseteq Entries)' /\ CacheHonest'
    <3> DEFINE f == Touched(c)
    <3>1. f \in Entries /\ f.ws = c.ws /\ f.data = c.data /\ f.created = c.created
      BY <2>1, <1>1 DEF Touched, Entries, RunTypeOK
    <3> HIDE DEF f
    <3>2. \A x \in cache' : x \in cache \/ x = f
      BY <2>4 DEF f
    <3> QED BY <1>1, <3>1, <3>2 DEF RunInv, RunTypeOK, CacheHonest, dataVars
  <2> QED BY <1>1, <2>4, <2>5, <2>8, <2>9, OneStep DEF Honest
<1>7. ASSUME Dispatch(r, verified) PROVE RunInv'
  <2>1. cache' \subseteq cache
    BY <1>7 DEF Dispatch
  <2>2. (cache \subseteq Entries)' /\ CacheHonest'
    BY <1>1, <2>1, CacheStays
  <2>3. CASE i.op = "discover"
    <3> DEFINE a == [status |-> "ok", data |-> <<>>, cached |-> FALSE, sql |-> <<>>]
               e == Passed(Answered(r, "ok", <<>>, FALSE, <<>>), verified)
    <3>1. a \in Answers /\ a.status = "ok" /\ a.data = <<>> /\ a.sql = <<>>
      BY DEF Answers
    <3>2. Rests(e, p, a)
      BY <1>1 DEF Answered, Rests, Passed, Executions
    <3>3. run' = [run EXCEPT ![r] = e]
      BY <1>7, <2>3 DEF Dispatch
    <3> HIDE DEF a, e, s, p
    <3>4. /\ e \in Executions /\ Planned(e) /\ Allowed(e) /\ Traced(e) /\ Recent(e)
          /\ e.intent = s.intent /\ e.contract = s.contract /\ e.answer = a
          /\ e.judged = p.judged /\ e.verified = p.verified
      BY <1>1, <1>5, <3>1, <3>2, AnsweredRests
    <3>5. Elements(e.answer.data) = {} /\ Elements(e.answer.sql) = {}
      BY <3>1, <3>4 DEF Elements
    <3>6. StepsGranted(e) /\ AllMet(e)
      BY <1>5, <1>5a, <2>3, <3>4 DEF StepsGranted, AllMet, Satisfied
    <3>7. Entitled(e) /\ AnsweredAll(e)
      BY <2>3, <3>4, <3>5, <3>6 DEF Entitled, AnsweredAll
    <3> QED BY <1>1, <2>2, <3>3, <3>4, <3>7, OneStep DEF Honest
  <2>4. CASE i.op = "aggregate" /\ run' = [run EXCEPT ![r] = Refused(r, "denied")]
    <3>1. Refused(r, "denied") \in Executions /\ Honest(Refused(r, "denied")) /\ Recent(Refused(r, "denied"))
      BY <1>1, RefusedRests
    <3> QED BY <1>1, <2>2, <2>4, <3>1, OneStep
  <2>5. CASE /\ i.op # "discover" /\ run' = [run EXCEPT ![r] = Passed(Begun(r, Plan(i)), verified)]
             /\ i.op = "aggregate" => StepsAuthorized(s.contract, i.steps)
    <3> DEFINE t == Plan(i)
               e == Passed(Begun(r, t), verified)
               trace == IF t[1].op = "query" THEN Append(<<>>, t[1]) ELSE <<>>
    <3>1. t \in Seq(Statements) /\ t # <<>>
      BY <1>2, PlanCovers
    <3>2. trace \in Seq(Statements) /\ Elements(trace) = {q \in {t[1]} : q.op = "query"}
      <4>1. t[1] \in Statements
        BY <3>1
      <4>2. Append(<<>>, t[1]) = <<t[1]>>
        OBVIOUS
      <4> HIDE DEF t
      <4> QED BY <4>1, <4>2 DEF Elements
    <3>3. e = [p EXCEPT !.todo = t, !.at = 1, !.asked = now, !.pc = "tool", !.trace = trace]
      BY <1>1, <1>2 DEF Begun, Passed, Executions
    <3> HIDE DEF e, s, p, t, trace
    <3>4. /\ e \in Executions /\ e.pc = "tool" /\ e.todo = t /\ e.at = 1 /\ e.asked = now
          /\ e.trace = trace
      BY <1>1, <1>5, <3>1, <3>2, <3>3 DEF Executions, RunTypeOK
    <3>5. /\ e.intent = s.intent /\ e.contract = s.contract /\ e.ws = s.ws
          /\ e.answer = s.answer /\ e.results = s.results
          /\ e.judged = p.judged /\ e.verified = p.verified
      BY <1>1, <1>5, <3>3 DEF Executions
    <3>6. Planned(e)
      <4>1. Len(t) \in Nat /\ Len(t) # 0
        BY <3>1
      <4> QED BY <1>1, <1>2, <2>5, <3>4, <3>5, <4>1 DEF Planned, Running, t, s
    <3>7. StepsGranted(e)
      BY <2>5, <3>5 DEF StepsGranted, StepsAuthorized, StepsOf
    <3>8. Allowed(e)
      <4>1. Elements(e.results) = {}
        BY <1>2, <3>5 DEF Elements, s
      <4>2. AllMet(e)
        BY <1>5, <1>5a, <3>5 DEF AllMet, Satisfied
      <4> QED BY <3>7, <4>1, <4>2 DEF Allowed
    <3>9. Traced(e)
      <4>1. {e.todo[k] : k \in 1..e.at} = {t[1]}
        BY <3>4
      <4> QED BY <3>2, <3>4, <4>1 DEF Traced
    <3>10. Entitled(e) /\ AnsweredAll(e)
      BY <1>2, <3>5 DEF Entitled, AnsweredAll, NoAnswer, s
    <3>11. Recent(e)
      BY <1>1, <3>4, NumberAssumption DEF Recent, RunTypeOK
    <3> QED BY <1>1, <2>2, <2>5, <3>4, <3>6, <3>8, <3>9, <3>10, <3>11, OneStep DEF Honest, e, t
  <2> QED BY <1>7, <2>3, <2>4, <2>5 DEF Dispatch
<1> QED BY <1>6, <1>7

\* When the data of a workspace changes, what was true stays true of its time.
LEMMA RaisedKeepsTruth ==
    ASSUME RunInv, NEW w \in Workspaces, Raised(w), now' = now
    PROVE  /\ version' \in [Workspaces -> 1..MaxVersion]
           /\ lastTrue' \in [Workspaces -> [1..MaxVersion -> Nat]]
           /\ version'[w] = version[w] + 1
           /\ \A x \in Workspaces, v \in 1..MaxVersion, t \in Nat, n \in Nat :
                  t <= now + n /\ (version[x] = v \/ t <= lastTrue[x][v] + n)
                  => (version'[x] = v \/ t <= lastTrue'[x][v] + n)
<1>1. /\ version \in [Workspaces -> 1..MaxVersion] /\ now \in Nat
      /\ lastTrue \in [Workspaces -> [1..MaxVersion -> Nat]]
  BY DEF RunInv, RunTypeOK
<1>2. /\ version[w] < MaxVersion /\ version[w] \in 1..MaxVersion
      /\ version' = [version EXCEPT ![w] = @ + 1]
      /\ lastTrue' = [lastTrue EXCEPT ![w][version[w]] = now]
  BY <1>1 DEF Raised
<1>3. version' \in [Workspaces -> 1..MaxVersion] /\ version'[w] = version[w] + 1
  BY <1>1, <1>2, NumberAssumption
<1>4. lastTrue' \in [Workspaces -> [1..MaxVersion -> Nat]]
  BY <1>1, <1>2
<1>5. ASSUME NEW x \in Workspaces, NEW v \in 1..MaxVersion, NEW t \in Nat, NEW n \in Nat,
             t <= now + n, version[x] = v \/ t <= lastTrue[x][v] + n
      PROVE  version'[x] = v \/ t <= lastTrue'[x][v] + n
  <2>1. CASE x = w /\ version[w] = v
    <3>1. lastTrue'[x][v] = now
      BY <1>1, <1>2, <2>1
    <3> QED BY <1>5, <3>1
  <2>2. CASE x = w /\ version[w] # v
    <3>1. lastTrue'[x][v] = lastTrue[x][v]
      BY <1>1, <1>2, <2>2
    <3> QED BY <1>5, <2>2, <3>1
  <2>3. CASE x # w
    <3>1. lastTrue'[x] = lastTrue[x] /\ version'[x] = version[x]
      BY <1>1, <1>2, <2>3
    <3> QED BY <1>5, <3>1
  <2> QED BY <2>1, <2>2, <2>3
<1> QED BY <1>3, <1>4, <1>5

LEMMA TruthStays ==
    ASSUME RunInv, NEW w \in Workspaces, Raised(w), now' = now, cache' = cache
    PROVE  /\ CacheHonest'
           /\ \A q \in Runs : Recent(run[q]) => (\A e : e = run[q] => Recent(e)')
<1>1. CacheHonest'
  <2> SUFFICES ASSUME NEW e \in cache PROVE
           /\ e.created <= now'
           /\ \A d \in Elements(e.data) :
                  /\ d.ws = e.ws
                  /\ version'[d.ws] = d.version \/ e.created <= lastTrue'[d.ws][d.version] + Delay
    BY DEF CacheHonest
  <2>1. e \in Entries /\ e.created \in Nat /\ now \in Nat /\ e.created <= now
    BY DEF RunInv, RunTypeOK, CacheHonest, Entries
  <2>2. ASSUME NEW d \in Elements(e.data)
        PROVE  /\ d.ws = e.ws
               /\ version'[d.ws] = d.version \/ e.created <= lastTrue'[d.ws][d.version] + Delay
    <3>1. e.data \in Seq(Data)
      BY <2>1 DEF Entries
    <3>2. d \in Data
      BY <3>1, <2>2 DEF Elements
    <3>3. d.ws \in Workspaces /\ d.version \in 1..MaxVersion
      BY <3>2 DEF Data
    <3>4. d.ws = e.ws /\ (version[d.ws] = d.version \/ e.created <= lastTrue[d.ws][d.version] + Delay)
      BY <2>2 DEF RunInv, CacheHonest
    <3>5. Delay \in Nat /\ e.created <= now + Delay
      BY <2>1, NumberAssumption
    <3> QED BY <2>1, <3>3, <3>4, <3>5, RaisedKeepsTruth
  <2> QED BY <2>1, <2>2
<1>2. ASSUME NEW q \in Runs, Recent(run[q]), NEW e, e = run[q] PROVE Recent(e)'
  <2>1. e \in Executions /\ Planned(e) /\ now \in Nat
    BY <1>2 DEF RunInv, RunTypeOK, Honest
  <2>2. e.asked \in Nat
    BY <2>1 DEF Executions
  <2>3. e.pc \in Running => e.asked <= now' /\ now' <= e.asked + Delay
    BY <1>2 DEF Recent
  <2>4. ASSUME e.pc = "worked" PROVE TrueSince(e.ws, e.seen, e.asked)'
    <3>1. e.ws \in Workspaces /\ e.seen \in 1..MaxVersion /\ e.asked <= now
      BY <1>2, <2>1, <2>4 DEF Planned, Recent, Running
    <3>2. version[e.ws] = e.seen \/ e.asked <= lastTrue[e.ws][e.seen]
      BY <1>2, <2>4 DEF Recent, TrueSince
    <3>3. lastTrue[e.ws][e.seen] \in Nat /\ lastTrue'[e.ws][e.seen] \in Nat
      <4>1. lastTrue \in [Workspaces -> [1..MaxVersion -> Nat]]
        BY DEF RunInv, RunTypeOK
      <4>2. lastTrue' \in [Workspaces -> [1..MaxVersion -> Nat]]
        BY RaisedKeepsTruth
      <4> QED BY <3>1, <4>1, <4>2
    <3>4. version'[e.ws] = e.seen \/ e.asked <= lastTrue'[e.ws][e.seen] + 0
      <4>1. e.asked <= now + 0 /\ (version[e.ws] = e.seen \/ e.asked <= lastTrue[e.ws][e.seen] + 0)
        BY <2>1, <2>2, <3>1, <3>2, <3>3
      <4> QED BY <2>2, <3>1, <4>1, RaisedKeepsTruth
    <3> QED BY <2>2, <3>3, <3>4 DEF TrueSince
  <2> QED BY <2>3, <2>4 DEF Recent
<1> QED BY <1>1, <1>2

\* A running execution, in words the steps below use.
LEMMA RunningFacts ==
    ASSUME RunInv, NEW r \in Runs, run[r].pc \in Running
    PROVE  /\ run[r] \in Executions /\ Honest(run[r]) /\ Recent(run[r])
           /\ run[r].todo \in Seq(Statements) /\ run[r].at \in 1..Len(run[r].todo)
           /\ Step(r) \in Statements /\ run[r].ws \in Workspaces
           /\ version[run[r].ws] \in 1..MaxVersion /\ now \in Nat /\ run[r].asked \in Nat
<1>1. run[r] \in Executions /\ Honest(run[r]) /\ Recent(run[r]) /\ Planned(run[r])
  BY DEF RunInv, RunTypeOK, Honest
<1>2. run[r].todo \in Seq(Statements) /\ run[r].asked \in Nat
  BY <1>1 DEF Executions
<1>3. run[r].at \in 1..Len(run[r].todo) /\ run[r].ws \in Workspaces
  BY <1>1 DEF Planned, Running
<1>4. Step(r) \in Statements
  BY <1>2, <1>3 DEF Step
<1>5. version[run[r].ws] \in 1..MaxVersion /\ now \in Nat
  BY <1>3 DEF RunInv, RunTypeOK
<1> QED BY <1>1, <1>2, <1>3, <1>4, <1>5

LEMMA WorkKeeps ==
    ASSUME RunInv, NEW r \in Runs, Work(r)
    PROVE  RunInv'
<1> DEFINE s == run[r]
           w == s.ws
           effectful == Effectful(Step(r))
           seen == IF effectful THEN version[w] + 1 ELSE version[w]
           effects == IF effectful THEN Append(s.effects, Step(r)) ELSE s.effects
           e == [s EXCEPT !.pc = "worked", !.seen = seen, !.effects = effects]
<1>1. /\ s.pc \in {"tool", "hop"} /\ s.pc \in Running
      /\ UNCHANGED <<now, modeVars, cache>>
      /\ effectful => Raised(w)
      /\ ~effectful => UNCHANGED dataVars
  BY DEF Work, Running
<1>2. /\ s \in Executions /\ Honest(s) /\ Recent(s) /\ Step(r) \in Statements /\ w \in Workspaces
      /\ version[w] \in 1..MaxVersion /\ now \in Nat /\ s.asked \in Nat
  BY <1>1, RunningFacts
<1>3. run \in [Runs -> Executions]
  BY DEF RunInv, RunTypeOK
<1>4. run' = [run EXCEPT ![r] = e]
  <2>1. CASE effectful
    <3>1. run' = [run EXCEPT ![r].pc = "worked", ![r].seen = version[w] + 1, ![r].effects = Append(@, Step(r))]
      BY <2>1 DEF Work
    <3>2. e = [s EXCEPT !.pc = "worked", !.seen = version[w] + 1, !.effects = Append(s.effects, Step(r))]
      BY <2>1
    <3> QED BY <1>2, <1>3, <3>1, <3>2 DEF Executions
  <2>2. CASE ~effectful
    <3>1. run' = [run EXCEPT ![r].pc = "worked", ![r].seen = version[w]]
      BY <2>2 DEF Work
    <3>2. e = [s EXCEPT !.pc = "worked", !.seen = version[w]]
      BY <1>2, <2>2 DEF Executions
    <3> QED BY <1>2, <1>3, <3>1, <3>2 DEF Executions
  <2> QED BY <2>1, <2>2
<1>5. effects \in Seq(Statements) /\ seen \in Nat
  BY <1>2 DEF Executions
<1>6. seen \in 1..MaxVersion
  BY <1>1, <1>2, NumberAssumption DEF Raised
<1> HIDE DEF s, w, effectful, seen, effects
<1>7. /\ e \in Executions /\ e.pc = "worked" /\ e.seen = seen /\ e.intent = s.intent
      /\ e.contract = s.contract /\ e.ws = s.ws /\ e.todo = s.todo /\ e.at = s.at /\ e.asked = s.asked
      /\ e.results = s.results /\ e.trace = s.trace /\ e.answer = s.answer
      /\ e.judged = s.judged /\ e.verified = s.verified
  BY <1>2, <1>5 DEF Executions
<1> HIDE DEF e
<1>8. Planned(e) /\ Allowed(e) /\ Traced(e)
  BY <1>1, <1>2, <1>6, <1>7 DEF Honest, Planned, Allowed, AllMet, Satisfied, StepsGranted, Traced, Running
<1>9. Entitled(e) /\ AnsweredAll(e)
  BY <1>2, <1>7 DEF Honest, Entitled, AnsweredAll, AllMet, Satisfied, StepsGranted
<1>10. /\ version' \in [Workspaces -> 1..MaxVersion]
       /\ lastTrue' \in [Workspaces -> [1..MaxVersion -> Nat]]
       /\ version'[w] = seen
       /\ CacheHonest'
       /\ \A q \in Runs : Recent(run[q]) => (\A x : x = run[q] => Recent(x)')
  <2>1. CASE effectful
    <3>1. Raised(w) /\ now' = now /\ cache' = cache /\ seen = version[w] + 1
      BY <1>1, <2>1 DEF seen
    <3> QED BY <1>2, <3>1, RaisedKeepsTruth, TruthStays
  <2>2. CASE ~effectful
    <3>1. version' = version /\ lastTrue' = lastTrue /\ now' = now /\ cache' = cache /\ seen = version[w]
      BY <1>1, <2>2 DEF seen, dataVars
    <3> QED BY <3>1 DEF RunInv, RunTypeOK, CacheHonest, Recent, TrueSince
  <2> QED BY <2>1, <2>2
<1>11. e.asked <= now' /\ now' <= e.asked + Delay /\ version'[e.ws] = e.seen
  <2>1. e.asked <= now' /\ now' <= e.asked + Delay
    BY <1>1, <1>2, <1>7 DEF Recent
  <2> QED BY <1>7, <1>10, <2>1 DEF w
<1>12. run' \in [Runs -> Executions] /\ \A q \in Runs : run'[q] = IF q = r THEN e ELSE run[q]
  BY <1>3, <1>4, <1>7
<1>13. RunTypeOK'
  BY <1>1, <1>10, <1>12 DEF RunInv, RunTypeOK, modeVars
<1>14. \A q \in Runs : Honest(run'[q])
  BY <1>8, <1>9, <1>12 DEF RunInv, Honest
<1>15. \A q \in Runs : Recent(run[q])'
  <2> TAKE q \in Runs
  <2>1. CASE q = r
    <3>1. run'[q] = e
      BY <1>12, <2>1
    <3> QED BY <1>11, <3>1 DEF Recent, TrueSince
  <2>2. CASE q # r
    <3>1. run'[q] = run[q] /\ Recent(run[q])
      BY <1>12, <2>2 DEF RunInv
    <3> QED BY <1>10, <3>1
  <2> QED BY <2>1, <2>2
<1> QED BY <1>10, <1>13, <1>14, <1>15 DEF RunInv

LEMMA HopKeeps ==
    ASSUME RunInv, NEW r \in Runs, Hop(r)
    PROVE  RunInv'
<1> DEFINE s == run[r]
           e == [s EXCEPT !.pc = "hop"]
<1>1. s.pc = "tool" /\ s.pc \in Running /\ UNCHANGED <<now, modeVars, dataVars, cache>>
  BY DEF Hop, Running
<1>2. s \in Executions /\ Honest(s) /\ Recent(s) /\ run \in [Runs -> Executions]
  BY <1>1, RunningFacts DEF RunInv, RunTypeOK
<1>3. run' = [run EXCEPT ![r] = e]
  BY <1>2 DEF Hop, Executions
<1> HIDE DEF s
<1>4. /\ e \in Executions /\ e.pc = "hop" /\ e.intent = s.intent
      /\ e.contract = s.contract /\ e.ws = s.ws /\ e.todo = s.todo /\ e.at = s.at /\ e.asked = s.asked
      /\ e.results = s.results /\ e.trace = s.trace /\ e.answer = s.answer
      /\ e.judged = s.judged /\ e.verified = s.verified
  BY <1>2 DEF Executions
<1> HIDE DEF e
<1>5. Planned(e) /\ Allowed(e) /\ Traced(e) /\ Recent(e)
  BY <1>1, <1>2, <1>4 DEF Honest, Planned, Allowed, AllMet, Satisfied, StepsGranted, Traced, Running, Recent
<1>6. Entitled(e) /\ AnsweredAll(e)
  BY <1>2, <1>4 DEF Honest, Entitled, AnsweredAll, AllMet, Satisfied, StepsGranted
<1>7. (cache \subseteq Entries)' /\ CacheHonest'
  BY <1>1, CacheStays
<1> QED BY <1>1, <1>3, <1>4, <1>5, <1>6, <1>7, OneStep DEF Honest

LEMMA FailKeeps ==
    ASSUME RunInv, NEW r \in Runs, Fail(r)
    PROVE  RunInv'
<1>1. /\ run[r].pc \in Running /\ UNCHANGED <<now, modeVars, dataVars, cache>>
      /\ run' = [run EXCEPT ![r] = Refused(r, "error")]
  BY DEF Fail, Running
<1>2. Planned(run[r]) /\ RunTypeOK /\ run[r].pc # "none"
  BY <1>1 DEF RunInv, Honest, Running
<1>3. Refused(r, "error") \in Executions /\ Honest(Refused(r, "error")) /\ Recent(Refused(r, "error"))
  BY <1>2, RefusedRests
<1>4. (cache \subseteq Entries)' /\ CacheHonest'
  BY <1>1, CacheStays
<1> QED BY <1>1, <1>3, <1>4, OneStep

\* What a tool answered is a result of this run.
LEMMA ResultTyped ==
    ASSUME RunInv, NEW r \in Runs, run[r].pc = "worked"
    PROVE  /\ Result(r) \in Data /\ Result(r).step = Step(r) /\ Result(r).ws = run[r].ws
           /\ Result(r).version = run[r].seen
<1>1. Step(r) \in Statements /\ run[r].ws \in Workspaces /\ run[r].seen \in 1..MaxVersion
  <2>1. run[r].pc \in Running
    BY DEF Running
  <2> QED BY <2>1, RunningFacts DEF Honest, Planned
<1> QED BY <1>1 DEF Result, Data

LEMMA ReplyKeeps ==
    ASSUME RunInv, NEW r \in Runs, Reply(r)
    PROVE  RunInv'
<1> DEFINE s == run[r]
           t == s.todo
           next == t[s.at + 1]
           results == Append(s.results, Result(r))
           trace == IF next.op = "query" THEN Append(s.trace, next) ELSE s.trace
           e == [s EXCEPT !.results = results, !.at = s.at + 1, !.pc = "tool", !.asked = now, !.trace = trace]
<1>1. /\ s.pc = "worked" /\ s.pc \in Running /\ s.at < Len(t)
      /\ UNCHANGED <<now, modeVars, dataVars, cache>>
  BY DEF Reply, Running
<1>2. /\ s \in Executions /\ Honest(s) /\ Planned(s) /\ t \in Seq(Statements) /\ s.at \in 1..Len(t)
      /\ now \in Nat /\ run \in [Runs -> Executions]
  BY <1>1, RunningFacts DEF RunInv, RunTypeOK, Honest
<1>3. run' = [run EXCEPT ![r] = e]
  BY <1>2 DEF Reply, Executions
<1>4. next \in Statements /\ s.at + 1 \in 1..Len(t)
  BY <1>1, <1>2
<1>5. /\ Result(r) \in Data /\ Result(r).step = t[s.at] /\ Result(r).ws = s.ws
  BY <1>1, ResultTyped DEF Step
<1>6. s.results \in Seq(Data) /\ s.trace \in Seq(Statements)
  BY <1>2 DEF Executions
<1>7. /\ results \in Seq(Data) /\ Len(results) = s.at
      /\ \A k \in 1..s.at : results[k].step = t[k]
      /\ \A d \in Elements(results) : d.ws = s.ws
  <2>1. /\ Len(s.results) = s.at - 1 /\ \A k \in 1..s.at - 1 : s.results[k].step = t[k]
        /\ \A d \in Elements(s.results) : d.ws = s.ws
    BY <1>1, <1>2 DEF Planned, Honest, Allowed
  <2> HIDE DEF s, t
  <2>2. /\ results \in Seq(Data) /\ Len(results) = s.at
        /\ results[s.at] = Result(r)
        /\ \A k \in 1..s.at - 1 : results[k] = s.results[k]
    BY <1>2, <1>5, <1>6, <2>1
  <2> HIDE DEF results
  <2>3. \A k \in 1..s.at : k = s.at \/ k \in 1..s.at - 1
    BY <1>2
  <2>4. \A k \in 1..s.at - 1 : s.results[k] \in Elements(s.results)
    BY <1>6, <2>1 DEF Elements
  <2>5. \A k \in 1..s.at : results[k].ws = s.ws /\ results[k].step = t[k]
    BY <1>5, <2>1, <2>2, <2>3, <2>4
  <2>6. \A d \in Elements(results) : \E k \in 1..s.at : d = results[k]
    BY <2>2 DEF Elements
  <2> QED BY <2>2, <2>5, <2>6
<1>8. trace \in Seq(Statements) /\ Elements(trace) = {q \in {t[k] : k \in 1..s.at + 1} : q.op = "query"}
  <2>1. Elements(s.trace) = {q \in {t[k] : k \in 1..s.at} : q.op = "query"}
    BY <1>1, <1>2 DEF Honest, Traced
  <2>2. {t[k] : k \in 1..s.at + 1} = {t[k] : k \in 1..s.at} \cup {next}
    <3>1. 1..s.at + 1 = 1..s.at \cup {s.at + 1}
      BY <1>2
    <3> HIDE DEF s, t
    <3> QED BY <3>1
  <2>3. Elements(Append(s.trace, next)) = Elements(s.trace) \cup {next}
    <3> HIDE DEF s, next
    <3> DEFINE x == Append(s.trace, next)
    <3>1. /\ DOMAIN x = 1..Len(s.trace) + 1 /\ DOMAIN s.trace = 1..Len(s.trace) /\ Len(s.trace) \in Nat
          /\ x[Len(s.trace) + 1] = next /\ \A k \in 1..Len(s.trace) : x[k] = s.trace[k]
      BY <1>4, <1>6
    <3>2. 1..Len(s.trace) + 1 = 1..Len(s.trace) \cup {Len(s.trace) + 1}
      BY <3>1
    <3> HIDE DEF x
    <3> QED BY <3>1, <3>2 DEF Elements, x
  <2>4. Append(s.trace, next) \in Seq(Statements)
    BY <1>4, <1>6
  <2> HIDE DEF s, t, next
  <2> QED BY <1>6, <2>1, <2>2, <2>3, <2>4
<1> HIDE DEF s, t, next, results, trace
<1>9. /\ e \in Executions /\ e.pc = "tool" /\ e.intent = s.intent /\ e.at = s.at + 1 /\ e.asked = now
      /\ e.contract = s.contract /\ e.ws = s.ws /\ e.todo = t
      /\ e.results = results /\ e.trace = trace /\ e.answer = s.answer
      /\ e.judged = s.judged /\ e.verified = s.verified
  <2>1. s.at + 1 \in Nat /\ now \in Nat /\ results \in Seq(Data) /\ trace \in Seq(Statements)
    BY <1>2, <1>7, <1>8
  <2>2. e \in Executions
    BY <1>2, <2>1 DEF Executions
  <2>3. DOMAIN s = DOMAIN e /\ DOMAIN s = {"pc", "intent", "contract", "names", "ws", "judged", "verified",
                          "todo", "at", "asked", "seen", "results", "trace", "effects", "answer"}
    BY <1>2 DEF Executions
  <2> QED BY <2>2, <2>3 DEF t
<1> HIDE DEF e
<1>10. Planned(e)
  BY <1>1, <1>2, <1>4, <1>7, <1>9 DEF Planned, Running, t
<1>11. Allowed(e)
  BY <1>1, <1>2, <1>7, <1>9 DEF Honest, Allowed, AllMet, Satisfied, StepsGranted
<1>12. Traced(e)
  BY <1>8, <1>9 DEF Traced
<1>13. Recent(e)
  BY <1>2, <1>9, NumberAssumption DEF Recent
<1>14. Entitled(e) /\ AnsweredAll(e)
  BY <1>2, <1>9 DEF Honest, Entitled, AnsweredAll, AllMet, Satisfied, StepsGranted
<1>15. (cache \subseteq Entries)' /\ CacheHonest'
  BY <1>1, CacheStays
<1> QED BY <1>1, <1>3, <1>9, <1>10, <1>11, <1>12, <1>13, <1>14, <1>15, OneStep DEF Honest

LEMMA CompleteKeeps ==
    ASSUME RunInv, NEW r \in Runs, Complete(r)
    PROVE  RunInv'
<1> DEFINE s == run[r]
           t == s.todo
           data == Append(s.results, Result(r))
           a == [status |-> "ok", data |-> data, cached |-> FALSE, sql |-> s.trace]
           e == Answered(r, "ok", data, FALSE, Proven(r))
<1>1. /\ s.pc = "worked" /\ s.pc \in Running /\ s.at = Len(t)
      /\ UNCHANGED <<now, modeVars, dataVars>> /\ run' = [run EXCEPT ![r] = e]
  BY DEF Complete, Running
<1>2. /\ s \in Executions /\ Honest(s) /\ Planned(s) /\ t \in Seq(Statements) /\ s.at \in 1..Len(t)
      /\ now \in Nat /\ RunTypeOK
  BY <1>1, RunningFacts DEF RunInv, Honest
<1>3. /\ Result(r) \in Data /\ Result(r).step = t[s.at] /\ Result(r).ws = s.ws
      /\ Result(r).version = s.seen
  BY <1>1, ResultTyped DEF Step
<1>4. s.results \in Seq(Data) /\ s.trace \in Seq(Statements)
  BY <1>2 DEF Executions
<1>5. /\ data \in Seq(Data) /\ Len(data) = s.at
      /\ \A k \in 1..s.at : data[k].step = t[k] /\ data[k].ws = s.ws
      /\ data[s.at] = Result(r)
  <2>1. /\ Len(s.results) = s.at - 1 /\ \A k \in 1..s.at - 1 : s.results[k].step = t[k]
        /\ \A d \in Elements(s.results) : d.ws = s.ws
    BY <1>1, <1>2 DEF Planned, Honest, Allowed
  <2> HIDE DEF s, t
  <2>2. /\ data \in Seq(Data) /\ Len(data) = s.at
        /\ data[s.at] = Result(r)
        /\ \A k \in 1..s.at - 1 : data[k] = s.results[k]
    BY <1>2, <1>3, <1>4, <2>1
  <2> HIDE DEF data
  <2>3. \A k \in 1..s.at : k = s.at \/ k \in 1..s.at - 1
    BY <1>2
  <2>4. \A k \in 1..s.at - 1 : s.results[k] \in Elements(s.results)
    BY <1>4, <2>1 DEF Elements
  <2>5. \A k \in 1..s.at : data[k].ws = s.ws /\ data[k].step = t[k]
    BY <1>3, <2>1, <2>2, <2>3, <2>4
  <2> QED BY <2>2, <2>5
<1>6. a \in Answers /\ a.status = "ok" /\ a.data = data /\ a.sql = s.trace
  BY <1>4, <1>5 DEF Answers
<1>7. Rests(e, s, a)
  BY DEF Answered, Rests, Proven
<1> HIDE DEF a, e, data
<1>8. /\ e \in Executions /\ Planned(e) /\ Allowed(e) /\ Traced(e) /\ Recent(e)
      /\ e.pc = "answered" /\ e.intent = s.intent /\ e.contract = s.contract
      /\ e.ws = s.ws /\ e.answer = a
      /\ e.judged = s.judged /\ e.verified = s.verified
  BY <1>1, <1>2, <1>6, <1>7, AnsweredRests
<1>9. /\ DOMAIN data = 1..s.at /\ DOMAIN t = 1..s.at
  BY <1>1, <1>2, <1>5
<1>10. Entitled(e)
  <2>1. \A d \in Elements(data) : d.ws = s.ws
    BY <1>5, <1>9 DEF Elements
  <2>2. s.intent.op = "discover" \/ Granted(s.contract, s.intent)
    BY <1>1, <1>2, AuthorizedGranted DEF Planned
  <2>3. StepsGranted(s) /\ AllMet(s)
    BY <1>1, <1>2 DEF Honest, Allowed
  <2> QED BY <1>6, <1>8, <2>1, <2>2, <2>3 DEF Entitled, StepsGranted, AllMet, Satisfied
<1>11. AnsweredAll(e)
  <2>1. s.intent \in Intents /\ Valid(s.intent) /\ t = Plan(s.intent)
    BY <1>1, <1>2 DEF Planned, Running
  <2>2. AllSQL(s.intent) /\ NothingToLose(s.intent) =>
            \A k \in DOMAIN StepsOf(s.intent) : \E q \in Elements(t) : Covers(q, StepsOf(s.intent)[k])
    BY <2>1, PlanCovers
  <2> HIDE DEF s, t
  <2>3. \A q \in Elements(t) : \E d \in Elements(data) : d.step = q
    BY <1>5, <1>9 DEF Elements
  <2>4. \A d \in Elements(data) : \E k \in 1..s.at : d = data[k] /\ d.step = t[k]
    BY <1>5, <1>9 DEF Elements
  <2>5. Elements(s.trace) = {q \in {t[k] : k \in 1..s.at} : q.op = "query"}
    BY <1>1, <1>2 DEF Honest, Traced, t
  <2>6. \A k \in 1..s.at : t[k] \in Elements(t)
    BY <1>9 DEF Elements
  <2>7. Elements(s.trace) = {d.step : d \in {x \in Elements(data) : x.step.op = "query"}}
    <3>1. ASSUME NEW q \in Elements(s.trace)
          PROVE  \E d \in Elements(data) : d.step = q /\ d.step.op = "query"
      BY <2>3, <2>5, <2>6
    <3>2. ASSUME NEW d \in Elements(data), d.step.op = "query" PROVE d.step \in Elements(s.trace)
      BY <2>4, <2>5, <3>2
    <3> QED BY <3>1, <3>2
  <2>8. AllSQL(s.intent) /\ NothingToLose(s.intent) =>
            \A k \in DOMAIN StepsOf(s.intent) : \E d \in Elements(data) : Covers(d.step, StepsOf(s.intent)[k])
    <3> SUFFICES ASSUME AllSQL(s.intent), NothingToLose(s.intent), NEW k \in DOMAIN StepsOf(s.intent)
                 PROVE  \E d \in Elements(data) : Covers(d.step, StepsOf(s.intent)[k])
      OBVIOUS
    <3>1. PICK q \in Elements(t) : Covers(q, StepsOf(s.intent)[k])
      BY <2>2
    <3>2. PICK d \in Elements(data) : d.step = q
      BY <2>3
    <3> QED BY <3>1, <3>2
  <2> QED BY <1>6, <1>8, <2>7, <2>8 DEF AnsweredAll
<1>12. (cache \subseteq Entries)' /\ CacheHonest'
  <2>1. CASE ~Cacheable(s.intent)
    <3>1. cache' = cache
      BY <2>1 DEF Complete
    <3> QED BY <1>1, <3>1, CacheStays
  <2>2. CASE Cacheable(s.intent)
    <3> DEFINE c == [ws |-> s.ws, intent |-> s.intent, data |-> data, created |-> now, used |-> now]
    <3>1. cache' \in Stored(s.ws, s.intent, data)
      BY <2>2 DEF Complete, data
    <3>2. cache' \subseteq cache \cup {c}
      BY <3>1 DEF Stored
    <3>3. c \in Entries /\ c.ws = s.ws /\ c.data = data /\ c.created = now
      BY <1>1, <1>2, <1>5 DEF Entries, Planned, Running
    <3>4. s.at = 1
      <4>1. s.intent.op # "aggregate"
        BY <2>2 DEF Cacheable, CacheableKind
      <4>2. t = <<s.intent>>
        BY <1>1, <1>2, <4>1 DEF Planned, Plan
      <4> HIDE DEF t
      <4> QED BY <1>1, <4>2
    <3>5. Elements(data) = {Result(r)}
      BY <1>5, <1>9, <3>4 DEF Elements
    <3>6. version[s.ws] = s.seen \/ now <= lastTrue[s.ws][s.seen] + Delay
      <4>1. s.asked \in Nat /\ s.ws \in Workspaces /\ s.seen \in 1..MaxVersion
        BY <1>1, <1>2 DEF Executions, Planned, Running
      <4>2. lastTrue[s.ws][s.seen] \in Nat
        BY <1>2, <4>1 DEF RunTypeOK
      <4>3. /\ now <= s.asked + Delay
            /\ version[s.ws] = s.seen \/ s.asked <= lastTrue[s.ws][s.seen]
        BY <1>1 DEF RunInv, Recent, TrueSince
      <4>4. Delay \in Nat /\ now \in Nat
        BY <1>2, NumberAssumption
      <4> DEFINE x == lastTrue[s.ws][s.seen]
                 asked == s.asked
      <4>5. x \in Nat /\ asked \in Nat /\ now <= asked + Delay
        BY <4>1, <4>2, <4>3
      <4>6. asked <= x => now <= x + Delay
        <5> HIDE DEF x, asked
        <5> QED BY <4>4, <4>5
      <4> QED BY <4>3, <4>6
    <3> HIDE DEF c
    <3>7. \A x \in cache' : x \in cache \/ x = c
      BY <3>2
    <3>8. cache' \subseteq Entries
      BY <1>2, <3>3, <3>7 DEF RunTypeOK
    <3>9. \A d \in Elements(c.data) :
             d.ws = c.ws /\ (version[d.ws] = d.version \/ c.created <= lastTrue[d.ws][d.version] + Delay)
      BY <1>3, <3>3, <3>5, <3>6
    <3>10. version' = version /\ lastTrue' = lastTrue /\ now' = now
      BY <1>1 DEF dataVars
    <3>11. c.created <= now
      BY <1>2, <3>3
    <3>12. CacheHonest
      BY DEF RunInv
    <3> HIDE DEF s
    <3>13. CacheHonest'
      BY <3>7, <3>9, <3>10, <3>11, <3>12 DEF CacheHonest
    <3> QED BY <3>8, <3>13
  <2> QED BY <2>1, <2>2
<1> QED BY <1>1, <1>8, <1>10, <1>11, <1>12, OneStep DEF Honest

LEMMA RestartKeeps ==
    ASSUME RunInv, Restart
    PROVE  RunInv'
<1>1. UNCHANGED <<now, modeVars, dataVars>> /\ cache' = {}
  BY DEF Restart
<1>2. run \in [Runs -> Executions]
  BY DEF RunInv, RunTypeOK
<1>3. ASSUME NEW r \in Runs
      PROVE  run'[r] \in Executions /\ Honest(run'[r]) /\ Recent(run'[r])
  <2> DEFINE s == run[r]
             e == [s EXCEPT !.pc = "answered", !.answer.status = "lost"]
  <2>1. CASE r \notin Underway
    <3>1. run'[r] = s
      BY <2>1 DEF Restart
    <3> QED BY <1>2, <3>1 DEF RunInv
  <2>2. CASE r \in Underway
    <3>1. run'[r] = e
      BY <2>2 DEF Restart
    <3>2. s \in Executions /\ Planned(s) /\ s.pc # "none" /\ s.pc # "answered"
      BY <1>2, <2>2 DEF Underway, RunInv, Honest
    <3>3. s.answer = NoAnswer
      BY <3>2 DEF Planned, Running, Executions
    <3> HIDE DEF s
    <3>4. e \in Executions
      BY <3>2 DEF Executions, Answers
    <3>5. e.pc = "answered" /\ e.intent = s.intent /\ e.contract = s.contract /\ e.ws = s.ws
          /\ e.answer.status = "lost"
      BY <3>2, <3>3 DEF Executions, NoAnswer
    <3> HIDE DEF e
    <3>6. Planned(e) /\ Allowed(e) /\ Traced(e) /\ Entitled(e) /\ AnsweredAll(e) /\ Recent(e)
      BY <3>2, <3>5 DEF Planned, Allowed, Traced, Entitled, AnsweredAll, Recent, Running
    <3> QED BY <3>1, <3>4, <3>6 DEF Honest
  <2> QED BY <2>1, <2>2
<1>4. run' \in [Runs -> Executions]
  <2>1. run' = [r \in Runs |-> run'[r]]
    BY DEF Restart
  <2> QED BY <1>3, <2>1
<1>5. RunTypeOK'
  BY <1>1, <1>4 DEF RunInv, RunTypeOK, modeVars, dataVars
<1>6. \A r \in Runs : Honest(run[r])' /\ Recent(run[r])'
  BY <1>1, <1>3 DEF dataVars, Recent, TrueSince
<1>7. CacheHonest'
  BY <1>1 DEF CacheHonest
<1> QED BY <1>5, <1>6, <1>7 DEF RunInv

LEMMA TickKeeps ==
    ASSUME RunInv, RunTick
    PROVE  RunInv'
<1>1. now' = now + 1 /\ now \in Nat /\ UNCHANGED <<modeVars, dataVars, cache, run>>
  BY DEF RunTick, RunInv, RunTypeOK
<1>2. RunTypeOK'
  BY <1>1 DEF RunInv, RunTypeOK, modeVars, dataVars
<1>3. ASSUME NEW r \in Runs PROVE Recent(run[r])'
  <2>1. run[r].asked \in Nat
    BY DEF RunInv, RunTypeOK, Executions
  <2>2. Recent(run[r])
    BY DEF RunInv
  <2>3. run[r].pc \in Running => now < run[r].asked + Delay
    BY DEF RunTick, Running
  <2> QED BY <1>1, <2>1, <2>2, <2>3, NumberAssumption DEF Recent, TrueSince, dataVars
<1>4. \A r \in Runs : Honest(run[r])'
  BY <1>1 DEF RunInv
<1>5. CacheHonest'
  <2>1. \A e \in cache : e.created \in Nat
    BY DEF RunInv, RunTypeOK, Entries
  <2> QED BY <1>1, <2>1 DEF RunInv, CacheHonest, dataVars
<1> QED BY <1>2, <1>3, <1>4, <1>5 DEF RunInv

LEMMA ChangeKeeps ==
    ASSUME RunInv, NEW w \in Workspaces, Change(w)
    PROVE  RunInv'
<1>1. Raised(w) /\ now' = now /\ cache' = cache /\ run' = run /\ UNCHANGED modeVars
  BY DEF Change
<1>2. /\ version' \in [Workspaces -> 1..MaxVersion]
      /\ lastTrue' \in [Workspaces -> [1..MaxVersion -> Nat]]
  BY <1>1, RaisedKeepsTruth
<1>3. RunTypeOK'
  BY <1>1, <1>2 DEF RunInv, RunTypeOK, modeVars
<1>4. CacheHonest' /\ \A q \in Runs : Recent(run[q]) => (\A e : e = run[q] => Recent(e)')
  BY <1>1, TruthStays
<1>5. \A q \in Runs : Honest(run[q])' /\ Recent(run[q])'
  BY <1>1, <1>4 DEF RunInv
<1> QED BY <1>3, <1>4, <1>5 DEF RunInv

LEMMA StutterKeeps ==
    ASSUME RunInv, cache' \subseteq cache, UNCHANGED <<now, modeVars, dataVars, run>>
    PROVE  RunInv'
<1>1. (cache \subseteq Entries)' /\ CacheHonest'
  BY CacheStays
<1>2. RunTypeOK'
  BY <1>1 DEF RunInv, RunTypeOK, modeVars, dataVars
<1>3. \A q \in Runs : Honest(run[q])' /\ Recent(run[q])'
  BY DEF RunInv, Recent, TrueSince, dataVars
<1> QED BY <1>1, <1>2, <1>3 DEF RunInv

LEMMA RunNextInv == RunInv /\ [RunNext]_runVars => RunInv'
<1> SUFFICES ASSUME RunInv, [RunNext]_runVars PROVE RunInv'
  OBVIOUS
<1>1. ASSUME NEW r \in Runs, NEW ask \in Asks[r], Receive(r, ask) PROVE RunInv'
  BY <1>1, ReceiveKeeps
<1>2. ASSUME NEW r \in Runs,
             Evaluated(r) \/ Work(r) \/ Hop(r) \/ Fail(r) \/ Reply(r) \/ Complete(r)
      PROVE  RunInv'
  BY <1>2, EvaluatedKeeps, WorkKeeps, HopKeeps, FailKeeps, ReplyKeeps, CompleteKeeps
<1>3. ASSUME NEW w \in Workspaces, Change(w) PROVE RunInv'
  BY <1>3, ChangeKeeps
<1>4. CASE Cleanup
  <2>1. cache' \subseteq cache /\ UNCHANGED <<now, modeVars, dataVars, run>>
    BY <1>4 DEF Cleanup
  <2> QED BY <2>1, StutterKeeps
<1>5. CASE Restart
  BY <1>5, RestartKeeps
<1>6. CASE RunTick
  BY <1>6, TickKeeps
<1>7. CASE UNCHANGED runVars
  <2>1. cache' \subseteq cache /\ UNCHANGED <<now, modeVars, dataVars, run>>
    BY <1>7 DEF runVars
  <2> QED BY <2>1, StutterKeeps
<1> QED BY <1>1, <1>2, <1>3, <1>4, <1>5, <1>6, <1>7 DEF RunNext

LEMMA RunInvariance == RunSpec => []RunInv
BY RunInitInv, RunNextInv, PTL DEF RunSpec

\* The executions, the entries and the data keep their types.
THEOREM RunTypes == RunSpec => []RunTypeOK
BY RunInvariance, PTL DEF RunInv

\* For any requests and contracts, nobody gets a result that the own contract
\* does not grant, step by step, or whose prerequisites the request did not
\* meet, or one of another workspace (AuthorizedOnly).
THEOREM ResultsAuthorized == RunSpec => []AuthorizedOnly
<1>1. RunInv => AuthorizedOnly
  <2> SUFFICES ASSUME RunInv, NEW r \in Runs, run[r].answer.status = "ok"
               PROVE  /\ run[r].intent.op = "discover" \/ Granted(run[r].contract, run[r].intent)
                      /\ StepsGranted(run[r]) /\ AllMet(run[r])
                      /\ \A d \in Elements(run[r].answer.data) : d.ws = run[r].ws
    BY DEF AuthorizedOnly, Succeeded, DataOf, StepsGranted, AllMet, Elements
  <2> QED BY DEF RunInv, Honest, Entitled
<1> QED BY <1>1, RunInvariance, PTL

\* For any batch of steps, however long and whatever the compiler merges: if
\* its queries have nothing to lose by a merge, each step is answered by a
\* statement that covers it; and of every intent the proof names just the
\* statements that ran (StepsAnswered).  The condition is one on the request
\* alone; without it the claim is false (MergePreserves).
THEOREM WholeStepsAnswered == RunSpec => []StepsAnswered
<1>1. RunInv => StepsAnswered
  <2> SUFFICES ASSUME RunInv, NEW r \in Runs, run[r].answer.status = "ok", ~run[r].answer.cached
               PROVE  /\ AllSQL(run[r].intent) /\ NothingToLose(run[r].intent) =>
                             \A k \in DOMAIN StepsOf(run[r].intent) :
                                 run[r].intent.op # "discover" =>
                                     \E d \in Elements(run[r].answer.data) :
                                         Covers(d.step, StepsOf(run[r].intent)[k])
                      /\ Elements(run[r].answer.sql)
                             = {d.step : d \in {x \in Elements(run[r].answer.data) : x.step.op = "query"}}
    BY DEF StepsAnswered, EachAnswered, Succeeded, DataOf, Elements
  <2> QED BY DEF RunInv, Honest, AnsweredAll
<1> QED BY <1>1, RunInvariance, PTL

\* A result from the cache was true not longer ago than the time to live and
\* the time a tool takes, whoever stored it, touched it or replaced it since
\* (CachedIsRecent).
THEOREM CacheIsRecent == RunSpec => CachedIsRecent
<1> DEFINE Only == \A r \in Runs :
               run[r].pc = "prerequisites" /\ run'[r].answer.cached
               => \A k \in DOMAIN run'[r].answer.data : WasTrue(run'[r].answer.data[k], Ttl + Delay)
<1>1. RunInv /\ [RunNext]_runVars => [Only]_runVars
  <2> SUFFICES ASSUME RunInv, RunNext, NEW r \in Runs,
                      run[r].pc = "prerequisites", run'[r].answer.cached
               PROVE  \A k \in DOMAIN run'[r].answer.data : WasTrue(run'[r].answer.data[k], Ttl + Delay)
    OBVIOUS
  <2>1. run[r] \in Executions /\ run[r].answer = NoAnswer /\ run \in [Runs -> Executions]
    BY DEF RunInv, RunTypeOK, Honest, Planned
  <2>2. ~run[r].answer.cached /\ run'[r] # run[r]
    BY <2>1 DEF NoAnswer
  <2>3. Evaluated(r)
    <3>1. ASSUME NEW q \in Runs, q # r,
                 (\E ask \in Asks[q] : Receive(q, ask)) \/ Evaluated(q) \/ Work(q) \/ Hop(q) \/ Fail(q) \/ Reply(q) \/ Complete(q)
          PROVE  run'[r] = run[r]
      BY <2>1, <3>1 DEF Receive, Evaluated, Denied, Hit, Dispatch, Passed, Work, Hop, Fail, Reply, Complete
    <3>2. ~ ((\E ask \in Asks[r] : Receive(r, ask)) \/ Work(r) \/ Hop(r) \/ Fail(r) \/ Reply(r) \/ Complete(r))
      BY DEF Receive, Work, Hop, Fail, Reply, Complete
    <3>3. ~ (Cleanup \/ RunTick \/ \E w \in Workspaces : Change(w))
      BY <2>2 DEF Cleanup, RunTick, Change
    <3>4. ~Restart
      <4> SUFFICES ASSUME Restart PROVE FALSE
        OBVIOUS
      <4>1. run'[r] = [run[r] EXCEPT !.pc = "answered", !.answer.status = "lost"]
        BY DEF Restart, Underway
      <4>2. run'[r].answer.cached = run[r].answer.cached
        <5> DEFINE s == run[r]
                   e == [s EXCEPT !.pc = "answered", !.answer.status = "lost"]
        <5> HIDE DEF s
        <5>1. e.answer.cached = s.answer.cached
          BY <2>1 DEF Executions, NoAnswer, s
        <5> QED BY <4>1, <5>1 DEF s
      <4> QED BY <2>2, <4>2
    <3> QED BY <2>2, <3>1, <3>2, <3>3, <3>4 DEF RunNext
  <2>4. \E c \in cache, verified \in Verdicts(run[r].contract) : Hit(r, c, verified)
    <3>1. ~Denied(r)
      <4> SUFFICES ASSUME Denied(r) PROVE FALSE
        OBVIOUS
      <4>1. run'[r].answer.cached = FALSE
        BY <2>1 DEF Denied, Refused, Answered, Executions
      <4> QED BY <4>1
    <3>2. ASSUME NEW verified, Dispatch(r, verified) PROVE FALSE
      <4>1. \/ run'[r] = Passed(Answered(r, "ok", <<>>, FALSE, <<>>), verified)
            \/ run'[r] = Refused(r, "denied")
            \/ run'[r] = Passed(Begun(r, Plan(run[r].intent)), verified)
        BY <2>1, <3>2 DEF Dispatch
      <4>2. CASE run'[r] = Passed(Answered(r, "ok", <<>>, FALSE, <<>>), verified)
        BY <2>1, <4>2 DEF Passed, Answered, Executions
      <4>3. CASE run'[r] = Refused(r, "denied")
        BY <2>1, <4>3 DEF Refused, Answered, Executions
      <4>4. CASE run'[r] = Passed(Begun(r, Plan(run[r].intent)), verified)
        <5>1. run'[r].answer = run[r].answer
          BY <2>1, <4>4 DEF Passed, Begun, Executions
        <5> QED BY <2>2, <5>1
      <4> QED BY <2>2, <4>1, <4>2, <4>3, <4>4
    <3> QED BY <2>3, <3>1, <3>2 DEF Evaluated
  <2>10. PICK c \in cache : \E verified \in Verdicts(run[r].contract) : Hit(r, c, verified)
    BY <2>4
  <2>11. PICK verified \in Verdicts(run[r].contract) : Hit(r, c, verified)
    BY <2>10
  <2>5. run'[r].answer.data = c.data
    BY <2>1, <2>11 DEF Hit, Passed, Answered, Executions
  <2>6. c \in Entries /\ ~Expired(c) /\ CacheHonest /\ now \in Nat
    BY <2>11 DEF Hit, RunInv, RunTypeOK
  <2>7. ASSUME NEW k \in DOMAIN c.data PROVE WasTrue(c.data[k], Ttl + Delay)
    <3> DEFINE d == c.data[k]
    <3>1. d \in Data /\ d \in Elements(c.data)
      BY <2>6 DEF Entries, Elements
    <3>2. c.created \in Nat /\ c.created <= now
      BY <2>6 DEF Entries, CacheHonest
    <3>3. version[d.ws] = d.version \/ c.created <= lastTrue[d.ws][d.version] + Delay
      BY <2>6, <3>1 DEF CacheHonest
    <3>4. lastTrue[d.ws][d.version] \in Nat
      <4>1. lastTrue \in [Workspaces -> [1..MaxVersion -> Nat]]
        BY DEF RunInv, RunTypeOK
      <4> HIDE DEF d
      <4> QED BY <3>1, <4>1 DEF Data
    <3>5. now <= c.created + Ttl
      BY <2>6, <3>2, NumberAssumption DEF Expired
    <3> HIDE DEF d
    <3>6. version[d.ws] = d.version \/ now <= lastTrue[d.ws][d.version] + (Ttl + Delay)
      BY <2>6, <3>2, <3>3, <3>4, <3>5, NumberAssumption
    <3>7. d.version = version[d.ws] \/ lastTrue[d.ws][d.version] + (Ttl + Delay) >= now
      BY <2>6, <3>4, <3>6, NumberAssumption
    <3> QED BY <3>7 DEF WasTrue, d
  <2> QED BY <2>5, <2>7
<1> QED BY <1>1, RunInvariance, PTL DEF RunSpec, CachedIsRecent

-----------------------------------------------------------------------------
(* Effects, in the order asked for.                                         *)

\* Positions that are mapped in order keep their number and their order.
LEMMA AtAt ==
    ASSUME NEW s, NEW P \in SUBSET Nat, IsFiniteSet(P), NEW Q \in SUBSET 1..Cardinality(P)
    PROVE  /\ {Nth(P, q) : q \in Q} \in SUBSET P
           /\ At(At(s, P), Q) = At(s, {Nth(P, q) : q \in Q})
<1> DEFINE f == [q \in Q |-> Nth(P, q)]
           R == {f[q] : q \in Q}
<1>1. Cardinality(P) \in Nat /\ IsFiniteSet(1..Cardinality(P)) /\ IsFiniteSet(Q)
  <2>1. Cardinality(P) \in Nat
    BY FS_CardinalityType
  <2>2. IsFiniteSet(1..Cardinality(P))
    BY <2>1, FS_Interval
  <2> QED BY <2>1, <2>2, FS_Subset
<1>2. \A q \in Q : f[q] \in P /\ Rank(P, f[q]) = q /\ q \in Nat
  BY <1>1, RankNth
<1>3. \A p, q \in Q : p <= q <=> f[p] <= f[q]
  <2> TAKE p, q \in Q
  <2>1. /\ f[p] \in P /\ f[q] \in P /\ Rank(P, f[p]) = p /\ Rank(P, f[q]) = q
        /\ f[p] \in Nat /\ f[q] \in Nat /\ p \in Nat /\ q \in Nat
    BY <1>2
  <2>2. f[p] < f[q] => p < q
    BY <2>1, RankGrows
  <2>3. f[q] < f[p] => q < p
    BY <2>1, RankGrows
  <2> HIDE DEF f
  <2> QED BY <2>1, <2>2, <2>3
<1> HIDE DEF f
<1>4. R \in SUBSET P /\ R \in SUBSET Nat /\ IsFiniteSet(R)
  <2>1. R \in SUBSET P
    BY <1>2
  <2> QED BY <2>1, FS_Subset
\* The part of Q below some limit and its image are equally many.
<1>5. ASSUME NEW A \in SUBSET Q PROVE Cardinality({f[q] : q \in A}) = Cardinality(A)
  <2> DEFINE B == {f[q] : q \in A}
             g == [q \in A |-> f[q]]
  <2>1. g \in Bijection(A, B)
    <3>1. \A p, q \in A : g[p] = g[q] => p = q
      <4> TAKE p, q \in A
      <4> HAVE g[p] = g[q]
      <4>1. f[p] = f[q] /\ f[p] \in Nat
        BY <1>2
      <4>2. p <= q /\ q <= p /\ p \in Nat /\ q \in Nat
        BY <4>1, <1>2, <1>3
      <4> QED BY <4>2
    <3> QED BY <3>1 DEF Bijection, Injection, Surjection, IsInjective
  <2>2. IsFiniteSet(A)
    BY <1>1, FS_Subset
  <2>3. ExistsBijection(A, B)
    BY <2>1 DEF ExistsBijection
  <2> HIDE DEF B
  <2>4. Cardinality(B) = Cardinality(A)
    BY <2>2, <2>3, FS_Bijection
  <2> QED BY <2>4 DEF B
<1>6. Cardinality(R) = Cardinality(Q)
  BY <1>5
<1>7. ASSUME NEW q \in Q PROVE Rank(R, f[q]) = Rank(Q, q)
  <2> DEFINE A == {p \in Q : p <= q}
  <2>1. {x \in R : x <= f[q]} = {f[p] : p \in A}
    BY <1>3
  <2>2. Cardinality({f[p] : p \in A}) = Cardinality(A)
    BY <1>5
  <2> HIDE DEF R
  <2> QED BY <2>1, <2>2 DEF Rank
<1>8. ASSUME NEW k \in 1..Cardinality(Q)
      PROVE  Nth(Q, k) \in Q /\ Nth(R, k) = f[Nth(Q, k)]
  <2>1. Q \in SUBSET Nat
    BY <1>2
  <2>2. Nth(Q, k) \in Q /\ Rank(Q, Nth(Q, k)) = k
    BY <1>1, <2>1, RankNth
  <2>3. f[Nth(Q, k)] \in R /\ Rank(R, f[Nth(Q, k)]) = k
    BY <1>7, <2>2
  <2> HIDE DEF R
  <2> QED BY <1>4, <2>2, <2>3, NthRank
<1>9. ASSUME NEW k \in 1..Cardinality(Q) PROVE At(s, P)[Nth(Q, k)] = s[Nth(R, k)]
  <2>1. Nth(Q, k) \in 1..Cardinality(P) /\ Nth(R, k) = Nth(P, Nth(Q, k))
    BY <1>8 DEF f
  <2> HIDE DEF R
  <2> QED BY <2>1 DEF At
<1>10. R = {Nth(P, q) : q \in Q}
  BY DEF f
<1> HIDE DEF R
<1>11. At(At(s, P), Q) = At(s, R)
  BY <1>6, <1>9 DEF At
<1> QED BY <1>4, <1>10, <1>11

\* One position more behind the others is one element more at the end.
LEMMA AtAppend ==
    ASSUME NEW s, NEW I \in SUBSET Nat, IsFiniteSet(I), NEW k \in Nat, \A i \in I : i < k
    PROVE  At(s, I \cup {k}) = Append(At(s, I), s[k])
<1> DEFINE J == I \cup {k}
           n == Cardinality(I)
<1>1. J \in SUBSET Nat /\ IsFiniteSet(J) /\ n \in Nat /\ Cardinality(J) = n + 1
  <2>1. k \notin I
    OBVIOUS
  <2> QED BY <2>1, FS_AddElement, FS_CardinalityType
<1>2. \A i \in I : Rank(J, i) = Rank(I, i)
  <2> TAKE i \in I
  <2>1. {j \in J : j <= i} = {j \in I : j <= i}
    OBVIOUS
  <2> QED BY <2>1 DEF Rank
<1>3. Rank(J, k) = n + 1
  <2>1. {j \in J : j <= k} = J
    <3>1. \A i \in I : i \in Nat /\ i <= k
      OBVIOUS
    <3>2. \A j \in J : j <= k
      BY <3>1
    <3> HIDE DEF J
    <3> QED BY <3>2
  <2> QED BY <1>1, <2>1 DEF Rank
<1>4. \A j \in 1..n : Nth(J, j) = Nth(I, j)
  <2> TAKE j \in 1..n
  <2>1. Nth(I, j) \in I /\ Rank(I, Nth(I, j)) = j
    BY RankNth
  <2>2. Nth(I, j) \in J /\ Rank(J, Nth(I, j)) = j
    BY <1>2, <2>1
  <2> HIDE DEF J
  <2> QED BY <1>1, <2>2, NthRank
<1>5. Nth(J, n + 1) = k
  <2>1. k \in J
    OBVIOUS
  <2> HIDE DEF J
  <2> QED BY <1>1, <1>3, <2>1, NthRank
<1>6. /\ At(s, I) \in Seq(Elements(At(s, I))) /\ Len(At(s, I)) = n
      /\ \A j \in 1..n : At(s, I)[j] = s[Nth(I, j)]
  BY AtElements
<1> HIDE DEF J, n
<1>7. At(s, J) = [j \in 1..n + 1 |-> s[Nth(J, j)]]
  BY <1>1 DEF At
<1>8. Append(At(s, I), s[k]) = [j \in 1..n + 1 |-> IF j = n + 1 THEN s[k] ELSE At(s, I)[j]]
  BY <1>1, <1>6
<1>9. \A j \in 1..n + 1 : j = n + 1 \/ j \in 1..n
  BY <1>1
<1>10. \A j \in 1..n + 1 : s[Nth(J, j)] = IF j = n + 1 THEN s[k] ELSE At(s, I)[j]
  BY <1>1, <1>4, <1>5, <1>6, <1>9
<1>11. At(s, J) = Append(At(s, I), s[k])
  BY <1>7, <1>8, <1>10
<1> QED BY <1>11 DEF J

\* The first positions give the first elements.
LEMMA AtPrefix ==
    ASSUME NEW s, NEW I \in SUBSET Nat, IsFiniteSet(I), NEW J \in SUBSET I,
           \A j \in J, i \in I : i <= j => i \in J
    PROVE  IsPrefix(At(s, J), At(s, I))
<1> DEFINE m == Cardinality(J)
           n == Cardinality(I)
<1>1. IsFiniteSet(J) /\ m \in Nat /\ n \in Nat /\ m <= n /\ J \in SUBSET Nat
  BY FS_Subset, FS_CardinalityType
<1>2. \A j \in J : Rank(I, j) = Rank(J, j)
  <2> TAKE j \in J
  <2>1. {i \in I : i <= j} = {i \in J : i <= j}
    OBVIOUS
  <2> QED BY <2>1 DEF Rank
<1>3. \A k \in 1..m : Nth(I, k) = Nth(J, k)
  <2> TAKE k \in 1..m
  <2>1. Nth(J, k) \in J /\ Rank(J, Nth(J, k)) = k
    BY <1>1, RankNth
  <2> QED BY <1>2, <2>1, NthRank
<1>4. /\ At(s, J) \in Seq(Elements(At(s, J))) /\ Len(At(s, J)) = m
      /\ At(s, I) \in Seq(Elements(At(s, I))) /\ Len(At(s, I)) = n
      /\ \A k \in 1..m : At(s, J)[k] = s[Nth(J, k)]
      /\ \A k \in 1..n : At(s, I)[k] = s[Nth(I, k)]
  BY <1>1, AtElements
<1> HIDE DEF m, n
<1>5. SubSeq(At(s, J), 1, m) = SubSeq(At(s, I), 1, m)
  <2>1. SubSeq(At(s, J), 1, m) = [k \in 1..m |-> At(s, J)[k]]
    BY <1>1, <1>4
  <2>2. SubSeq(At(s, I), 1, m) = [k \in 1..m |-> At(s, I)[k]]
    BY <1>1, <1>4
  <2>3. \A k \in 1..m : k \in 1..n
    BY <1>1
  <2> QED BY <1>3, <1>4, <2>1, <2>2, <2>3
<1> QED BY <1>1, <1>4, <1>5 DEF IsPrefix

\* The same positions of two sequences that agree there.
LEMMA AtAgrees ==
    ASSUME NEW s, NEW t, NEW I \in SUBSET Nat, IsFiniteSet(I), \A i \in I : s[i] = t[i]
    PROVE  At(s, I) = At(t, I)
BY RankNth DEF At

LEMMA SingleDeduplicated ==
    ASSUME NEW E, NEW s \in Seq(E), Len(s) = 1
    PROVE  Deduplicated(s) = s
<1>1. DOMAIN s = {1} /\ s = [k \in {1} |-> s[1]]
  OBVIOUS
<1>2. {k \in DOMAIN s : \A j \in 1..k - 1 : s[j] # s[k]} = {1}
  BY <1>1
<1>3. IsFiniteSet({1}) /\ Cardinality({1}) = 1
  BY FS_Singleton
<1>4. Nth({1}, 1) = 1
  <2>1. 1 \in 1..Cardinality({1})
    BY <1>3
  <2> QED BY <1>3, <2>1, RankNth
<1>5. At(s, {1}) = [k \in 1..1 |-> s[1]]
  BY <1>3, <1>4 DEF At
<1>6. 1..1 = {1}
  OBVIOUS
<1>7. Deduplicated(s) = At(s, {1})
  BY <1>2 DEF Deduplicated
<1> QED BY <1>1, <1>5, <1>6, <1>7

\* A query of an aggregate that cannot have an effect.
Quiet(q) == QueryShaped(q) /\ (q.op = "query" => q.tool \in ReadOnly)

LEMMA QuietReads ==
    ASSUME NEW q, Quiet(q), q.op = "query"
    PROVE  /\ ~Effectful(q)
           /\ \A alias, cols : LET x == [q EXCEPT !.alias = alias, !.cols = cols, !.rest = "", !.limit = "default",
                                               !.options = ""]
                               IN  Quiet(x) /\ x.op = "query" /\ ~Effectful(x)
           /\ \A limit : ~Effectful([q EXCEPT !.limit = limit])
<1>1. q = [f \in QueryFields |-> q[f]] /\ q.tool \in ReadOnly
  BY DEF Quiet, QueryShaped
<1>2. ~Effectful(q)
  BY <1>1 DEF Effectful, NameOf
<1>3. ASSUME NEW alias, NEW cols
      PROVE  LET x == [q EXCEPT !.alias = alias, !.cols = cols, !.rest = "", !.limit = "default", !.options = ""]
             IN  Quiet(x) /\ x.op = "query" /\ ~Effectful(x)
  <2> DEFINE x == [q EXCEPT !.alias = alias, !.cols = cols, !.rest = "", !.limit = "default", !.options = ""]
  <2>1. x.op = "query" /\ x.tool = q.tool /\ x = [f \in QueryFields |-> x[f]]
    BY <1>1 DEF QueryFields
  <2> HIDE DEF x
  <2>2. Quiet(x) /\ x.op = "query" /\ ~Effectful(x)
    BY <1>1, <2>1 DEF Quiet, QueryShaped, Effectful, NameOf
  <2> QED BY <2>2 DEF x
<1>4. ASSUME NEW limit PROVE ~Effectful([q EXCEPT !.limit = limit])
  <2> DEFINE x == [q EXCEPT !.limit = limit]
  <2>1. x.op = "query" /\ x.tool = q.tool
    BY <1>1 DEF QueryFields
  <2> HIDE DEF x
  <2>2. ~Effectful(x)
    BY <1>1, <2>1 DEF Effectful, NameOf
  <2> QED BY <2>2 DEF x
<1> QED BY <1>2, <1>3, <1>4

LEMMA LimitedEffects ==
    ASSUME NEW E, NEW t \in Seq(E), \A k \in DOMAIN t : Quiet(t[k])
    PROVE  Effects([k \in DOMAIN t |-> Limited(t[k])]) = Effects(t)
<1> DEFINE c == [k \in DOMAIN t |-> Limited(t[k])]
           I == {k \in DOMAIN t : Effectful(t[k])}
<1>1. ASSUME NEW k \in DOMAIN t
      PROVE  /\ Effectful(t[k]) => Limited(t[k]) = t[k]
             /\ ~Effectful(t[k]) => ~Effectful(Limited(t[k]))
  <2>1. CASE t[k].op = "query"
    BY <2>1, QuietReads DEF Limited
  <2>2. CASE t[k].op # "query"
    BY <2>2 DEF Limited
  <2> QED BY <2>1, <2>2
<1>2. {k \in DOMAIN c : Effectful(c[k])} = I
  BY <1>1
<1>3. \A k \in I : c[k] = t[k]
  BY <1>1
<1>4. I \in SUBSET DOMAIN t
  OBVIOUS
<1>5. Effects(c) = At(c, I) /\ Effects(t) = At(t, I)
  BY <1>2 DEF Effects
<1> HIDE DEF I, c
<1>6. I \in SUBSET Nat /\ IsFiniteSet(I)
  BY <1>4, PositionsFinite
<1>7. At(c, I) = At(t, I)
  BY <1>3, <1>6, AtAgrees
<1>8. Effects(c) = Effects(t)
  BY <1>5, <1>7
<1> QED BY <1>8 DEF c

\* What is merged are queries: the rest stays where it was, in order.
LEMMA FusedEffects ==
    ASSUME NEW E, NEW d \in Seq(E), \A k \in DOMAIN d : Quiet(d[k])
    PROVE  /\ Effects(Fused(d)) = Effects(d)
           /\ Fused(d) \in Seq(Elements(Fused(d)))
           /\ \A k \in DOMAIN Fused(d) : Quiet(Fused(d)[k])
<1> DEFINE P == Kept(d)
           M == Merged(d)
           t == At(M, P)
           Q == {q \in DOMAIN t : Effectful(t[q])}
           W == {k \in DOMAIN d : Effectful(d[k])}
<1>1. Fused(d) = t
  BY FusedIsAt
<1>2. P \in SUBSET Nat /\ IsFiniteSet(P) /\ P \subseteq DOMAIN d
  BY KeptPositions DEF Kept
<1>3. ASSUME NEW k \in DOMAIN d
      PROVE  /\ Quiet(M[k])
             /\ Effectful(d[k]) => k \in P /\ M[k] = d[k]
             /\ Effectful(M[k]) => Effectful(d[k])
  <2>1. CASE MembersOf(d, k) = {k}
    <3>1. M[k] = d[k]
      BY <2>1 DEF Merged
    <3>2. k \in P
      BY <2>1, KeptPositions DEF Kept
    <3> QED BY <3>1, <3>2
  <2>2. CASE MembersOf(d, k) # {k}
    <3> DEFINE q == d[First(MembersOf(d, k))]
    <3>1. First(MembersOf(d, k)) \in MembersOf(d, k) /\ First(MembersOf(d, k)) \in DOMAIN d
      BY KeptPositions, GroupsAgree
    <3>2. Candidate(q) /\ Candidate(d[k]) /\ Quiet(q)
      BY <2>2, <3>1, GroupsAgree
    <3>3. M[k] = Fusion(d, MembersOf(d, k))
      BY <2>2 DEF Merged
    <3>4. q.op = "query" /\ d[k].op = "query"
      BY <3>2 DEF Candidate
    <3>5. ~Effectful(d[k])
      BY <3>4, QuietReads
    <3> DEFINE cols == UNION {d[j].cols : j \in MembersOf(d, k)}
               x == [q EXCEPT !.alias = AliasRead(q), !.cols = cols, !.rest = "", !.limit = "default", !.options = ""]
    <3>6. M[k] = x
      BY <3>3 DEF Fusion
    <3> HIDE DEF q, cols
    <3>7. Quiet(x) /\ ~Effectful(x)
      BY <3>2, <3>4, QuietReads
    <3> QED BY <3>5, <3>6, <3>7
  <2> QED BY <2>1, <2>2
<1> HIDE DEF P, M
<1>4. /\ t \in Seq(Elements(t)) /\ DOMAIN t = 1..Cardinality(P)
      /\ \A q \in 1..Cardinality(P) : t[q] = M[Nth(P, q)]
  BY <1>2, AtElements
<1>5. \A q \in DOMAIN t : Nth(P, q) \in P /\ Nth(P, q) \in DOMAIN d /\ t[q] = M[Nth(P, q)]
  BY <1>2, <1>4, RankNth
<1>6. \A k \in DOMAIN t : Quiet(t[k])
  BY <1>3, <1>5
<1>7. Q \in SUBSET 1..Cardinality(P)
  BY <1>4
<1> HIDE DEF t
<1>8. {Nth(P, q) : q \in Q} = W
  <2>1. ASSUME NEW q \in Q PROVE Nth(P, q) \in W
    BY <1>3, <1>5
  <2>2. ASSUME NEW k \in W PROVE \E q \in Q : Nth(P, q) = k
    <3>1. k \in P /\ M[k] = d[k]
      BY <1>3
    <3>2. Rank(P, k) \in DOMAIN t /\ Nth(P, Rank(P, k)) = k
      BY <1>2, <1>4, <3>1, RankGrows, NthRank
    <3>3. t[Rank(P, k)] = d[k]
      BY <1>5, <3>1, <3>2
    <3> QED BY <3>2, <3>3
  <2> QED BY <2>1, <2>2
<1>9. Effects(t) = At(t, Q) /\ Effects(d) = At(d, W)
  BY DEF Effects
<1>10. W \in SUBSET DOMAIN d /\ \A k \in W : M[k] = d[k]
  BY <1>3
<1> HIDE DEF Q, W
<1>11. At(At(M, P), Q) = At(M, W)
  BY <1>2, <1>7, <1>8, AtAt
<1>12. W \in SUBSET Nat /\ IsFiniteSet(W)
  BY <1>10, PositionsFinite
<1>13. At(M, W) = At(d, W)
  BY <1>10, <1>12, AtAgrees
<1>14. Effects(t) = Effects(d)
  BY <1>9, <1>11, <1>13 DEF t
<1> QED BY <1>1, <1>4, <1>6, <1>14

\* The compiler neither drops, repeats nor moves an effect.
LEMMA CompiledEffects ==
    ASSUME NEW E, NEW s \in Seq(E), \A k \in DOMAIN s : Quiet(s[k])
    PROVE  Effects(Compiled(s)) = Effects(Deduplicated(s))
<1> DEFINE d == Deduplicated(s)
           t == IF Len(s) = 1 THEN s ELSE Fused(d)
<1>1. d \in Seq(Elements(d)) /\ Elements(d) = Elements(s)
  BY DeduplicatedElements
<1>2. \A k \in DOMAIN d : Quiet(d[k])
  BY <1>1 DEF Elements
<1>3. Compiled(s) = [k \in DOMAIN t |-> Limited(t[k])]
  BY DEF Compiled
<1>4. t \in Seq(Elements(t)) /\ (\A k \in DOMAIN t : Quiet(t[k])) /\ Effects(t) = Effects(d)
  <2>1. CASE Len(s) = 1
    <3>1. t = s /\ d = s
      BY <2>1, SingleDeduplicated
    <3> QED BY <1>1, <3>1
  <2>2. CASE Len(s) # 1
    <3>1. t = Fused(d)
      BY <2>2
    <3> HIDE DEF d, t
    <3> QED BY <1>1, <1>2, <3>1, FusedEffects
  <2> QED BY <2>1, <2>2
<1> HIDE DEF d, t
<1>5. Effects(Compiled(s)) = Effects(d)
  BY <1>3, <1>4, LimitedEffects
<1> QED BY <1>5 DEF d

\* No query of an aggregate goes through a tool that has effects: the compiler
\* merges queries whatever their tool is.
QueriesRead ==
    \A i \in Intents : i.op = "aggregate" =>
        \A k \in DOMAIN i.steps : i.steps[k].op = "query" => i.steps[k].tool \in ReadOnly

\* The effects that an intent asks for.
Owed(i) == Effects(Deduplicated(StepsOf(i)))

LEMMA NothingAt ==
    ASSUME NEW s
    PROVE  At(s, {}) = <<>>
BY FS_EmptySet DEF At

LEMMA OwedIsSequence ==
    ASSUME NEW i \in Intents
    PROVE  /\ StepsOf(i) \in Seq(Elements(StepsOf(i)))
           /\ \A k \in DOMAIN StepsOf(i) : QueryShaped(StepsOf(i)[k])
           /\ \E J \in SUBSET Nat : IsFiniteSet(J) /\ Owed(i) = At(Deduplicated(StepsOf(i)), J)
           /\ Len(Owed(i)) \in Nat
           /\ IsPrefix(<<>>, Owed(i))
<1> DEFINE s == StepsOf(i)
           d == Deduplicated(s)
           J == {k \in DOMAIN d : Effectful(d[k])}
<1>1. s \in Seq(Elements(s)) /\ \A k \in DOMAIN s : QueryShaped(s[k])
  <2>1. PICK r \in Runs : \E ask \in Asks[r] : ask.intent = i
    BY DEF Intents, Requests
  <2>2. PICK ask \in Asks[r] : ask.intent = i
    BY <2>1
  <2> QED BY <2>2, AsksAssumption DEF QueryShaped
<1> HIDE DEF s
<1>2. d \in Seq(Elements(d))
  BY <1>1, DeduplicatedElements
<1>3. J \in SUBSET DOMAIN d
  OBVIOUS
<1>4. Owed(i) = At(d, J)
  BY DEF Owed, Effects, s
<1> HIDE DEF d, J
<1>5. J \in SUBSET Nat /\ IsFiniteSet(J)
  BY <1>2, <1>3, PositionsFinite
<1>6. Len(Owed(i)) \in Nat
  BY <1>4, <1>5, AtElements
<1>7. IsPrefix(<<>>, Owed(i))
  <2>1. {} \in SUBSET J /\ \A j \in {}, x \in J : x <= j => x \in {}
    OBVIOUS
  <2>2. IsPrefix(At(d, {}), At(d, J))
    BY <1>5, <2>1, AtPrefix
  <2> QED BY <1>4, <2>2, NothingAt
<1> QED BY <1>1, <1>4, <1>5, <1>6, <1>7 DEF d, s

\* A single step without effect owes none.
LEMMA NothingOwed ==
    ASSUME NEW i \in Intents, i.op # "aggregate", ~Effectful(i)
    PROVE  Owed(i) = <<>>
<1>1. StepsOf(i) = <<i>>
  BY DEF StepsOf
<1>2. Deduplicated(<<i>>) = <<i>>
  <2>1. <<i>> \in Seq({i}) /\ Len(<<i>>) = 1
    OBVIOUS
  <2> QED BY <2>1, SingleDeduplicated
<1>3. {k \in DOMAIN <<i>> : Effectful(<<i>>[k])} = {}
  OBVIOUS
<1> QED BY <1>1, <1>2, <1>3, NothingAt DEF Owed, Effects

\* The plan of an intent has the effects that were asked for.
LEMMA PlanEffects ==
    ASSUME QueriesRead, NEW i \in Intents
    PROVE  Effects(Plan(i)) = Owed(i)
<1> DEFINE s == StepsOf(i)
<1>1. s \in Seq(Elements(s)) /\ \A k \in DOMAIN s : QueryShaped(s[k])
  BY OwedIsSequence
<1>2. CASE i.op = "aggregate"
  <2>1. s = i.steps /\ Plan(i) = Compiled(s)
    BY <1>2 DEF StepsOf, Plan
  <2>2. \A k \in DOMAIN s : Quiet(s[k])
    BY <1>1, <1>2, <2>1 DEF QueriesRead, Quiet
  <2> HIDE DEF s
  <2>3. Effects(Compiled(s)) = Effects(Deduplicated(s))
    BY <1>1, <2>2, CompiledEffects
  <2> QED BY <2>1, <2>3 DEF Owed, s
<1>3. CASE i.op # "aggregate"
  <2>1. s = <<i>> /\ Plan(i) = <<i>>
    BY <1>3 DEF StepsOf, Plan
  <2>2. Deduplicated(<<i>>) = <<i>>
    <3>1. <<i>> \in Seq({i}) /\ Len(<<i>>) = 1
      OBVIOUS
    <3> QED BY <3>1, SingleDeduplicated
  <2> QED BY <2>1, <2>2 DEF Owed
<1> QED BY <1>2, <1>3

\* How many of the steps of e have run.
Done(e) == IF e.pc = "worked" THEN e.at ELSE e.at - 1

\* An execution had the effects of the steps that have run, once each.
Acted(e) ==
    /\ e.pc \in Running => e.effects = At(e.todo, {k \in 1..Done(e) : Effectful(e.todo[k])})
    /\ e.pc = "answered" =>
           /\ IsPrefix(e.effects, Owed(e.intent))
           /\ e.answer.status = "ok" => Len(e.effects) = Len(Owed(e.intent))
           /\ e.answer.status = "denied" => e.effects = <<>>

AllActed == \A r \in Runs : Acted(run[r])

LEMMA RunningActed ==
    ASSUME QueriesRead, NEW e \in Executions, Planned(e), Acted(e), e.pc \in Running
    PROVE  /\ IsPrefix(e.effects, Owed(e.intent))
           /\ Done(e) = Len(e.todo) => e.effects = Owed(e.intent)
<1> DEFINE t == e.todo
           I == {k \in DOMAIN t : Effectful(t[k])}
           J == {k \in 1..Done(e) : Effectful(t[k])}
<1>1. /\ t \in Seq(Statements) /\ e.at \in 1..Len(t) /\ e.at \in Nat /\ e.intent \in Intents
      /\ t = Plan(e.intent) /\ DOMAIN t = 1..Len(t) /\ Len(t) \in Nat
  BY DEF Executions, Planned, Running
<1>2. Owed(e.intent) = At(t, I)
  BY <1>1, PlanEffects DEF Effects
<1>3. e.effects = At(t, J)
  BY DEF Acted
<1>4. I \in SUBSET DOMAIN t
  OBVIOUS
<1> HIDE DEF t
<1>5. I \in SUBSET Nat /\ IsFiniteSet(I)
  BY <1>1, <1>4, PositionsFinite
<1>6. Done(e) \in Nat /\ Done(e) <= Len(t)
  BY <1>1 DEF Done
<1>7. J \in SUBSET I /\ \A j \in J, i \in I : i <= j => i \in J
  BY <1>1, <1>6
<1>8. Done(e) = Len(t) => J = I
  BY <1>1
<1> HIDE DEF I, J
<1>9. IsPrefix(At(t, J), At(t, I))
  BY <1>5, <1>7, AtPrefix
<1> QED BY <1>2, <1>3, <1>8, <1>9 DEF t

LEMMA OneActed ==
    ASSUME RunInv, AllActed, NEW r \in Runs, NEW e, run' = [run EXCEPT ![r] = e], Acted(e)
    PROVE  AllActed'
<1>1. run \in [Runs -> Executions]
  BY DEF RunInv, RunTypeOK
<1>2. \A q \in Runs : run'[q] = IF q = r THEN e ELSE run[q]
  BY <1>1
<1>3. \A q \in Runs : Acted(run'[q])
  BY <1>2 DEF AllActed
<1> QED BY <1>3 DEF AllActed

\* An answer without a result, before a step has run.
LEMMA UnactedAnswer ==
    ASSUME NEW e, e.pc = "answered", e.intent \in Intents, e.effects = <<>>,
           e.answer.status = "ok" => Owed(e.intent) = <<>>
    PROVE  Acted(e)
BY OwedIsSequence DEF Acted, Running

LEMMA ReceiveActed ==
    ASSUME RunInv, AllActed, NEW r \in Runs, NEW ask \in Asks[r], Receive(r, ask)
    PROVE  AllActed'
<1>1. PICK w, e :
          w \in Workspaces /\
          LET begun == [run[r] EXCEPT !.intent = ask.intent, !.contract = ask.contract, !.names = ask.names,
                                      !.ws = w, !.pc = "prerequisites",
                             !.judged = IF ask.contract.prerequisites = {} THEN 0 ELSE now]
              over(status) == [begun EXCEPT !.pc = "answered", !.answer.status = status]
          IN  /\ run' = [run EXCEPT ![r] = e]
              /\ e = begun \/ e = over("error") \/ e = over("denied")
  BY HomeAssumption DEF Receive
<1>2. ask.intent \in Intents
  BY DEF Intents, Requests
<1>3. run[r] = Idle
  BY DEF Receive, RunInv, Honest, Planned
<1> DEFINE b == [Idle EXCEPT !.intent = ask.intent, !.contract = ask.contract, !.names = ask.names,
                             !.ws = w, !.pc = "prerequisites",
                             !.judged = IF ask.contract.prerequisites = {} THEN 0 ELSE now]
           f(status) == [b EXCEPT !.pc = "answered", !.answer.status = status]
<1>4. /\ b.pc = "prerequisites" /\ b.intent = ask.intent /\ b.effects = <<>>
      /\ b.answer = NoAnswer
      /\ b = [x \in DOMAIN b |-> b[x]] /\ DOMAIN b = DOMAIN Idle
  BY DEF Idle
<1>5. CASE e = b
  <2> HIDE DEF b
  <2>1. Acted(e)
    BY <1>4, <1>5 DEF Acted, Running
  <2> QED BY <1>1, <2>1, OneActed
<1>6. ASSUME NEW status \in {"error", "denied"}, e = f(status) PROVE AllActed'
  <2> HIDE DEF b
  <2>1. e.pc = "answered" /\ e.intent = ask.intent /\ e.effects = <<>> /\ e.answer.status = status
    BY <1>4, <1>6 DEF Idle, NoAnswer
  <2>2. Acted(e)
    BY <1>2, <2>1, UnactedAnswer
  <2> QED BY <1>1, <2>2, OneActed
<1> QED BY <1>1, <1>3, <1>5, <1>6

LEMMA EvaluatedActed ==
    ASSUME RunInv, AllActed, NEW r \in Runs, Evaluated(r)
    PROVE  AllActed'
<1> DEFINE s == run[r]
           i == s.intent
<1>1. /\ s \in Executions /\ i \in Intents /\ s.effects = <<>> /\ s.pc = "prerequisites" /\ Valid(i)
  BY DEF Evaluated, RunInv, RunTypeOK, Honest, Planned, Running
<1>2. ASSUME NEW e, NEW status, NEW data, NEW cached, NEW sql, NEW verified,
             e = Passed(Answered(r, status, data, cached, sql), verified), status = "ok" => Owed(i) = <<>>,
             run' = [run EXCEPT ![r] = e]
      PROVE  AllActed'
  <2>1. e.pc = "answered" /\ e.intent = i /\ e.effects = s.effects /\ e.answer.status = status
    BY <1>1, <1>2 DEF Passed, Answered, Executions
  <2>2. Acted(e)
    BY <1>1, <1>2, <2>1, UnactedAnswer
  <2> QED BY <1>2, <2>2, OneActed
<1>3. CASE run' = [run EXCEPT ![r] = Refused(r, "denied")]
  <2> DEFINE e == Refused(r, "denied")
  <2>1. e.pc = "answered" /\ e.intent = i /\ e.effects = s.effects /\ e.answer.status = "denied"
    BY <1>1 DEF Refused, Answered, Executions
  <2> HIDE DEF e
  <2>2. Acted(e)
    BY <1>1, <2>1, UnactedAnswer
  <2> QED BY <1>3, <2>2, OneActed DEF e
<1>4. CASE Denied(r)
  BY <1>3, <1>4 DEF Denied
<1>5. ASSUME NEW c \in cache, NEW verified, Hit(r, c, verified) PROVE AllActed'
  <2>1. i.op # "aggregate" /\ ~Effectful(i)
    BY <1>5 DEF Hit, Cacheable, CacheableKind, Effectful
  <2>2. Owed(i) = <<>>
    BY <1>1, <2>1, NothingOwed
  <2>3. run' = [run EXCEPT ![r] = Passed(Answered(r, "ok", c.data, TRUE, <<>>), verified)]
    BY <1>5 DEF Hit
  <2> QED BY <1>2, <2>2, <2>3
<1>6. ASSUME NEW verified, Dispatch(r, verified) PROVE AllActed'
  <2>1. CASE i.op = "discover"
    <3>1. Owed(i) = <<>>
      BY <1>1, <2>1, NothingOwed DEF Effectful
    <3>2. run' = [run EXCEPT ![r] = Passed(Answered(r, "ok", <<>>, FALSE, <<>>), verified)]
      BY <1>6, <2>1 DEF Dispatch
    <3> QED BY <1>2, <3>1, <3>2
  <2>2. CASE i.op # "discover" /\ run' = [run EXCEPT ![r] = Passed(Begun(r, Plan(i)), verified)]
    <3> DEFINE t == Plan(i)
               trace == IF t[1].op = "query" THEN Append(s.trace, t[1]) ELSE s.trace
               e == [s EXCEPT !.todo = t, !.at = 1, !.asked = now, !.pc = "tool", !.trace = trace,
                            !.verified = verified]
    <3>1. run' = [run EXCEPT ![r] = e]
      BY <2>2 DEF Begun, Passed
    <3> HIDE DEF t, trace
    <3>2. e.pc = "tool" /\ e.effects = <<>> /\ e.todo = t /\ e.at = 1
      BY <1>1 DEF Executions
    <3> HIDE DEF e
    <3>3. {k \in 1..Done(e) : Effectful(e.todo[k])} = {}
      BY <3>2 DEF Done
    <3>4. Acted(e)
      BY <3>2, <3>3, NothingAt DEF Acted
    <3> QED BY <3>1, <3>4, OneActed
  <2> QED BY <1>3, <1>6, <2>1, <2>2 DEF Dispatch
<1> QED BY <1>4, <1>5, <1>6 DEF Evaluated

LEMMA WorkActed ==
    ASSUME RunInv, AllActed, NEW r \in Runs, Work(r)
    PROVE  AllActed'
<1> DEFINE s == run[r]
           effectful == Effectful(Step(r))
           seen == IF effectful THEN version[s.ws] + 1 ELSE version[s.ws]
           effects == IF effectful THEN Append(s.effects, Step(r)) ELSE s.effects
           e == [s EXCEPT !.pc = "worked", !.seen = seen, !.effects = effects]
           t == s.todo
           I == {k \in 1..s.at - 1 : Effectful(t[k])}
           J == {k \in 1..s.at : Effectful(t[k])}
<1>1. s.pc \in {"tool", "hop"} /\ s.pc \in Running
  BY DEF Work, Running
<1>2. s \in Executions /\ s.at \in 1..Len(t) /\ t \in Seq(Statements) /\ run \in [Runs -> Executions]
  BY <1>1, RunningFacts DEF RunInv, RunTypeOK
<1>3. run' = [run EXCEPT ![r] = e]
  <2>1. CASE effectful
    <3>1. run' = [run EXCEPT ![r].pc = "worked", ![r].seen = version[s.ws] + 1, ![r].effects = Append(@, Step(r))]
      BY <2>1 DEF Work
    <3>2. e = [s EXCEPT !.pc = "worked", !.seen = version[s.ws] + 1, !.effects = Append(s.effects, Step(r))]
      BY <2>1
    <3> QED BY <1>2, <3>1, <3>2 DEF Executions
  <2>2. CASE ~effectful
    <3>1. run' = [run EXCEPT ![r].pc = "worked", ![r].seen = version[s.ws]]
      BY <2>2 DEF Work
    <3>2. e = [s EXCEPT !.pc = "worked", !.seen = version[s.ws]]
      BY <1>2, <2>2 DEF Executions
    <3> QED BY <1>2, <3>1, <3>2 DEF Executions
  <2> QED BY <2>1, <2>2
<1>4. s.effects = At(t, I)
  BY <1>1 DEF AllActed, Acted, Done
<1>5. Step(r) = t[s.at]
  BY DEF Step
<1>6. I \in SUBSET Nat /\ IsFiniteSet(I) /\ (\A k \in I : k < s.at) /\ s.at \in Nat
  <2>1. Len(t) \in Nat
    BY <1>2
  <2>2. s.at \in Nat /\ 1..s.at - 1 \subseteq DOMAIN t
    BY <1>2
  <2>3. I \in SUBSET DOMAIN t
    BY <2>2
  <2> HIDE DEF t
  <2>4. \A k \in I : k < s.at
    BY <2>2
  <2> HIDE DEF I
  <2> QED BY <1>2, <2>2, <2>3, <2>4, PositionsFinite
<1>7. effectful => J = I \cup {s.at}
  BY <1>2, <1>5, <1>6
<1>8. ~effectful => J = I
  BY <1>2, <1>5, <1>6
<1> HIDE DEF I, J, t, effectful
<1>9. effects = At(t, J)
  BY <1>4, <1>5, <1>6, <1>7, <1>8, AtAppend
<1> HIDE DEF seen, effects
<1>10. e.pc = "worked" /\ e.effects = effects /\ e.todo = t /\ e.at = s.at
  BY <1>2 DEF Executions, t
<1> HIDE DEF e
<1>11. Acted(e)
  BY <1>9, <1>10 DEF Acted, Done, J
<1> QED BY <1>3, <1>11, OneActed

LEMMA HopActed ==
    ASSUME RunInv, AllActed, NEW r \in Runs, Hop(r)
    PROVE  AllActed'
<1> DEFINE s == run[r]
           e == [s EXCEPT !.pc = "hop"]
<1>1. s \in Executions /\ run' = [run EXCEPT ![r] = e] /\ s.pc = "tool" /\ Acted(s)
  BY DEF Hop, RunInv, RunTypeOK, AllActed
<1> HIDE DEF s
<1>2. e.pc = "hop" /\ e.effects = s.effects /\ e.todo = s.todo /\ e.at = s.at
  BY <1>1 DEF Executions
<1> HIDE DEF e
<1>3. Acted(e)
  BY <1>1, <1>2 DEF Acted, Done, Running
<1> QED BY <1>1, <1>3, OneActed

LEMMA FailActed ==
    ASSUME QueriesRead, RunInv, AllActed, NEW r \in Runs, Fail(r)
    PROVE  AllActed'
<1> DEFINE s == run[r]
           e == Refused(r, "error")
<1>1. s \in Executions /\ run' = [run EXCEPT ![r] = e] /\ s.pc \in Running /\ Acted(s) /\ Planned(s)
  BY DEF Fail, RunInv, RunTypeOK, AllActed, Running, Honest
<1>2. e.pc = "answered" /\ e.effects = s.effects /\ e.intent = s.intent /\ e.answer.status = "error"
  BY <1>1 DEF Refused, Answered, Executions
<1> HIDE DEF s, e
<1>3. Acted(e)
  BY <1>1, <1>2, RunningActed DEF Acted, Running
<1> QED BY <1>1, <1>3, OneActed

LEMMA ReplyActed ==
    ASSUME RunInv, AllActed, NEW r \in Runs, Reply(r)
    PROVE  AllActed'
<1> DEFINE s == run[r]
           trace == IF s.todo[s.at + 1].op = "query" THEN Append(s.trace, s.todo[s.at + 1]) ELSE s.trace
           results == Append(s.results, Result(r))
           at == s.at + 1
           e == [s EXCEPT !.results = results, !.at = at, !.pc = "tool", !.asked = now, !.trace = trace]
<1>1. s \in Executions /\ s.pc = "worked" /\ Acted(s) /\ s.at \in Nat
  BY DEF Reply, RunInv, RunTypeOK, AllActed, Executions
<1>2. run' = [run EXCEPT ![r] = e]
  BY <1>1 DEF Reply, Executions
<1> HIDE DEF s, trace, results, at
<1>3. e.pc = "tool" /\ e.effects = s.effects /\ e.todo = s.todo /\ e.at = at
  BY <1>1 DEF Executions
<1> HIDE DEF e
<1>4. Done(e) = Done(s)
  BY <1>1, <1>3 DEF Done, at
<1>5. Acted(e)
  BY <1>1, <1>3, <1>4 DEF Acted, Running
<1> QED BY <1>2, <1>5, OneActed

LEMMA CompleteActed ==
    ASSUME QueriesRead, RunInv, AllActed, NEW r \in Runs, Complete(r)
    PROVE  AllActed'
<1> DEFINE s == run[r]
           data == Append(s.results, Result(r))
           e == Answered(r, "ok", data, FALSE, Proven(r))
<1>1. /\ s \in Executions /\ run' = [run EXCEPT ![r] = e] /\ s.pc = "worked" /\ s.pc \in Running
      /\ s.at = Len(s.todo) /\ Acted(s) /\ Planned(s)
  BY DEF Complete, RunInv, RunTypeOK, AllActed, Running, Honest
<1> HIDE DEF data
<1>2. e.pc = "answered" /\ e.effects = s.effects /\ e.intent = s.intent /\ e.answer.status = "ok"
  BY <1>1 DEF Answered, Executions
<1> HIDE DEF s, e
<1>3. IsPrefix(e.effects, Owed(e.intent)) /\ e.effects = Owed(e.intent)
  BY <1>1, <1>2, RunningActed DEF Done
<1>4. Acted(e)
  BY <1>2, <1>3 DEF Acted, Running
<1> QED BY <1>1, <1>4, OneActed

LEMMA RestartActed ==
    ASSUME QueriesRead, RunInv, AllActed, Restart
    PROVE  AllActed'
<1> SUFFICES ASSUME NEW r \in Runs PROVE Acted(run'[r])
  BY DEF AllActed
<1> DEFINE s == run[r]
           e == [s EXCEPT !.pc = "answered", !.answer.status = "lost"]
<1>1. CASE r \notin Underway
  <2>1. run'[r] = s
    BY <1>1 DEF Restart
  <2> QED BY <2>1 DEF AllActed
<1>2. CASE r \in Underway
  <2>1. run'[r] = e
    BY <1>2 DEF Restart
  <2>2. s \in Executions /\ Planned(s) /\ Acted(s) /\ s.pc \in Running \cup {"prerequisites"}
    BY <1>2 DEF Underway, RunInv, RunTypeOK, Honest, AllActed, Executions, Running
  <2>3. s.answer = NoAnswer /\ s.intent \in Intents
    BY <2>2 DEF Planned, Running
  <2> HIDE DEF s
  <2>4. e.pc = "answered" /\ e.intent = s.intent /\ e.effects = s.effects /\ e.answer.status = "lost"
    BY <2>2, <2>3 DEF Executions, NoAnswer
  <2> HIDE DEF e
  <2>5. IsPrefix(s.effects, Owed(s.intent))
    <3>1. CASE s.pc \in Running
      BY <2>2, <3>1, RunningActed
    <3>2. CASE s.pc = "prerequisites"
      BY <2>2, <2>3, <3>2, OwedIsSequence DEF Planned
    <3> QED BY <2>2, <3>1, <3>2
  <2>6. Acted(e)
    BY <2>4, <2>5 DEF Acted, Running
  <2> QED BY <2>1, <2>6
<1> QED BY <1>1, <1>2

LEMMA NextActed == QueriesRead /\ RunInv /\ AllActed /\ [RunNext]_runVars => AllActed'
<1> SUFFICES ASSUME QueriesRead, RunInv, AllActed, [RunNext]_runVars PROVE AllActed'
  OBVIOUS
<1>1. ASSUME NEW r \in Runs, NEW ask \in Asks[r], Receive(r, ask) PROVE AllActed'
  BY <1>1, ReceiveActed
<1>2. ASSUME NEW r \in Runs,
             Evaluated(r) \/ Work(r) \/ Hop(r) \/ Fail(r) \/ Reply(r) \/ Complete(r)
      PROVE  AllActed'
  BY <1>2, EvaluatedActed, WorkActed, HopActed, FailActed, ReplyActed, CompleteActed
<1>3. CASE Restart
  BY <1>3, RestartActed
<1>4. CASE (\E w \in Workspaces : Change(w)) \/ Cleanup \/ RunTick \/ UNCHANGED runVars
  <2>1. run' = run
    BY <1>4 DEF Change, Cleanup, RunTick, runVars
  <2> QED BY <2>1 DEF AllActed
<1> QED BY <1>1, <1>2, <1>3, <1>4 DEF RunNext

\* For any requests whose queries only read: the effects of an intent are
\* those it asks for, once each and in their order, none is lost or repeated
\* by the compiler, the cache or a restart, and a denied intent has none
\* (EffectsAccounted).
THEOREM EffectsAsAsked == QueriesRead => (RunSpec => []EffectsAccounted)
<1> SUFFICES ASSUME QueriesRead PROVE RunSpec => []EffectsAccounted
  OBVIOUS
<1>1. RunInit => AllActed
  <2> SUFFICES ASSUME RunInit PROVE AllActed
    OBVIOUS
  <2>1. \A r \in Runs : run[r] = Idle
    BY DEF RunInit
  <2>2. Acted(Idle)
    BY DEF Acted, Idle, Running
  <2> QED BY <2>1, <2>2 DEF AllActed
<1>2. RunInv /\ AllActed /\ [RunNext]_runVars => AllActed'
  BY NextActed
<1>3. RunInv /\ AllActed => EffectsAccounted
  <2> SUFFICES ASSUME RunInv, AllActed, NEW r \in Runs
               PROVE  LET status == run[r].answer.status
                      IN  /\ run[r].intent # None => IsPrefix(run[r].effects, Owed(run[r].intent))
                          /\ status = "ok" => Len(run[r].effects) = Len(Owed(run[r].intent))
                          /\ status = "denied" => run[r].effects = <<>>
    BY DEF EffectsAccounted, Wanted, Owed
  <2> DEFINE s == run[r]
  <2>1. s \in Executions /\ Planned(s) /\ Acted(s)
    BY DEF RunInv, RunTypeOK, Honest, AllActed
  <2> HIDE DEF s
  <2>2. CASE s.pc = "none"
    <3>1. s = Idle
      BY <2>1, <2>2 DEF Planned
    <3> QED BY <3>1 DEF Idle, NoAnswer, s
  <2>3. CASE s.pc = "prerequisites"
    <3>1. s.answer = NoAnswer /\ s.effects = <<>> /\ s.intent \in Intents
      BY <2>1, <2>3 DEF Planned, Running
    <3> QED BY <3>1, OwedIsSequence DEF NoAnswer, s
  <2>4. CASE s.pc \in Running
    <3>1. s.answer = NoAnswer
      BY <2>1, <2>4 DEF Planned, Running
    <3>2. IsPrefix(s.effects, Owed(s.intent))
      BY <2>1, <2>4, RunningActed
    <3> QED BY <3>1, <3>2 DEF NoAnswer, s
  <2>5. CASE s.pc = "answered"
    BY <2>1, <2>5 DEF Acted, s
  <2>6. s.pc \in {"none", "prerequisites", "answered"} \cup Running
    BY <2>1 DEF Executions, Running
  <2> QED BY <2>2, <2>3, <2>4, <2>5, <2>6
<1> QED BY <1>1, <1>2, <1>3, RunInvariance, PTL DEF RunSpec
=============================================================================
