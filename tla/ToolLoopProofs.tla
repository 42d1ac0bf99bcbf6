--------------------------- MODULE ToolLoopProofs ---------------------------
(***************************************************************************)
(* Proofs about ToolLoop, for any targets, any contract with them, any     *)
(* width of a round and any limits.                                        *)
(*                                                                         *)
(* What the breaker counts agrees with what happened (BreakerAgrees): a    *)
(* key that has not tripped counts every error recorded at it, a key of    *)
(* errors that are never transient trips with the first, and nothing is    *)
(* charged to a target or an action without a cause of its own.  A call that*)
(* still runs had passed the breaker, so that since then at most the       *)
(* results recorded before it in the same round have been added to its     *)
(* keys (RunningPassed).                                                   *)
(***************************************************************************)
EXTENDS ToolLoop, SequenceTheorems, TLAPS

\* Targets that are gone, and actions: keys of errors that do not pass.
Lasting == Absent \cup Calls

Counted == \A k \in Keys : failures[k] < MaxFailures => tries[k] = failures[k]
Once == \A k \in Lasting : tries[k] > 0 => failures[k] >= MaxFailures

BreakerType ==
    /\ failures \in [Keys -> Nat]
    /\ tries \in [Keys -> Nat]
    /\ flaws \in [Targets -> Nat]
    /\ useless \subseteq Targets
    /\ rejected \subseteq Calls

\* What is charged to a target it has earned, and so has an action.
Charged ==
    /\ \A t \in Targets \ useless : failures[t] <= flaws[t]
    /\ \A c \in Calls \ rejected : failures[c] = 0

BreakerAgrees == Counted /\ Once /\ Charged

\* The calls of the round whose tools run, and what may have been recorded
\* at their keys since they passed the breaker.
Running ==
    {i \in 1..Len(calls) : done < i /\ i \notin blocked /\ (Serial => i = done + 1)}
KeysOf(c) == {c.to, c}
Budget == IF Serial THEN 0 ELSE done
Passed(k) ==
    /\ tries[k] < MaxFailures + Budget
    /\ k \in Lasting => tries[k] <= Budget
RunningPassed ==
    pc = "tools" => \A i \in Running : \A k \in KeysOf(calls[i]) : Passed(k)

InRound == IF pc \in {"request", "stream", "calls", "tools"} THEN 1 ELSE 0
Spare == IF model = "fallback" THEN 1 ELSE 0
RequestsCounted ==
    /\ pc \in {"request", "stream", "calls", "tools"} => round < MaxRounds
    /\ pc # "ended" => requests <= round + InRound + Spare
    /\ RequestsBounded

IInv ==
    /\ TypeOK /\ BreakerAgrees /\ BreakerTrips /\ RequestsCounted /\ RunningPassed
    /\ BlockedForCause

LEMMA Constants ==
    /\ Absent \subseteq Targets /\ Permitted \subseteq Calls /\ Existing \subseteq Calls
    /\ Targets \cap Calls = {}
    /\ Width \in Nat /\ 0 < Width /\ MaxRounds \in Nat /\ 0 < MaxRounds
    /\ MaxFailures \in Nat /\ 0 < MaxFailures /\ PermFail \in Nat /\ MaxFailures <= PermFail
BY TargetsAssumption, BoundsAssumption

LEMMA BatchIsSeq ==
    ASSUME NEW b \in Batches
    PROVE  b \in Seq(Calls) /\ Len(b) \in 1..Width
<1>1. PICK n \in 1..Width : b \in [1..n -> Calls]
  BY DEF Batches
<1>2. n \in Nat /\ n \in 1..Width
  BY Constants
<1> QED
  BY <1>1, <1>2

LEMMA CallHasKeys == ASSUME NEW c \in Calls PROVE c.to \in Targets /\ c \in Keys /\ c.to \in Keys
BY DEF Calls, Keys

LEMMA ResultKinds ==
    ASSUME NEW c \in Calls, NEW r \in Results(c)
    PROVE  r \in Errors \cup {"ok"} /\ (c.to \in Absent => r = "gone")
BY DEF Results

LEMMA InitIInv == Init => IInv
<1> SUFFICES ASSUME Init PROVE IInv
  OBVIOUS
<1>1. TypeOK
  <2>1. calls \in Seq(Calls) /\ Len(calls) = 0
    BY EmptySeq DEF Init
  <2>2. done \in 0..Len(calls) /\ blocked \subseteq 1..Len(calls)
    BY <2>1 DEF Init
  <2>3. round \in 0..MaxRounds /\ requests \in Nat /\ Len(calls) <= Width
    BY <2>1, Constants DEF Init
  <2>4. nudged \in BOOLEAN /\ aborted \in BOOLEAN
    BY DEF Init
  <2>5. /\ failures \in [Keys -> Nat] /\ tries \in [Keys -> Nat]
        /\ flaws \in [Targets -> Nat] /\ useless \subseteq Targets /\ rejected \subseteq Calls
    BY DEF Init
  <2>6. /\ provider \in Providers /\ consumer \in {"chat", "task"} /\ pc = "top"
        /\ model \in {"requested", "fallback"} /\ event = None
    BY DEF Init
  <2> QED
    BY <2>1, <2>2, <2>3, <2>4, <2>5, <2>6 DEF TypeOK
<1>2. BreakerAgrees
  BY Constants DEF Init, BreakerAgrees, Counted, Once, Charged, Lasting, Keys
<1>3. BreakerTrips
  BY Constants DEF Init, BreakerTrips, Together, Keys
<1>4. RequestsCounted
  BY Constants DEF Init, RequestsCounted, RequestsBounded, InRound, Spare
<1>5. RunningPassed
  BY DEF Init, RunningPassed
<1>6. BlockedForCause
  BY DEF Init, BlockedForCause
<1> QED
  BY <1>1, <1>2, <1>3, <1>4, <1>5, <1>6 DEF IInv

\* One result, recorded: what the breaker counts still agrees, and only the
\* keys of the call may have one error more.
LEMMA RecordKeeps ==
    ASSUME NEW c \in Calls, NEW r \in Results(c), BreakerType, BreakerAgrees, Record(c, r)
    PROVE  /\ BreakerType' /\ BreakerAgrees'
           /\ \A k \in KeysOf(c) : tries'[k] <= tries[k] + 1
           /\ \A k \in Keys \ KeysOf(c) : tries'[k] = tries[k]
           /\ \A d \in Calls : HasCause(d) => HasCause(d)'
<1>1. CASE r = "ok"
  <2>1. /\ failures' = failures /\ tries' = tries
        /\ flaws' = flaws /\ useless' = useless /\ rejected' = rejected
    BY <1>1 DEF Record, breakerVars
  <2>2. \A k \in Keys : tries[k] \in Nat
    BY DEF BreakerType
  <2>3. KeysOf(c) \subseteq Keys
    BY CallHasKeys DEF KeysOf
  <2> QED
    BY <2>1, <2>2, <2>3 DEF BreakerType, BreakerAgrees, Counted, Once, Charged, HasCause
<1>2. CASE r # "ok"
  <2> DEFINE key == KeyOf(c, r)
             passing == r \in {"transient", "denied"}
  <2>1. /\ failures' = [failures EXCEPT ![key] = IF passing THEN @ + 1 ELSE PermFail]
        /\ tries' = [tries EXCEPT ![key] = @ + 1]
        /\ flaws' = [flaws EXCEPT ![c.to] = IF passing THEN @ + 1 ELSE @]
        /\ useless' = useless \cup {t \in {c.to} : r \in {"gone", "unknown"}}
        /\ rejected' = rejected \cup {d \in {c} : r = "unpermitted"}
    BY <1>2 DEF Record
  <2>2. key \in Keys /\ key \in KeysOf(c) /\ c.to \in Targets /\ c.to \in Keys /\ c \in Keys
    BY CallHasKeys DEF KeyOf, KeysOf
  <2>3. /\ r \in Errors /\ (c.to \in Absent => r = "gone")
        /\ key = IF r = "unpermitted" THEN c ELSE c.to
        /\ r = "unpermitted" => ~passing
        /\ ~passing => r \in {"gone", "unknown", "unpermitted"}
    BY ResultKinds, <1>2 DEF KeyOf, Errors
  <2> HIDE DEF key, passing
  <2>4. /\ failures'[key] = IF passing THEN failures[key] + 1 ELSE PermFail
        /\ tries'[key] = tries[key] + 1
        /\ failures[key] \in Nat /\ tries[key] \in Nat
        /\ \A k \in Keys \ {key} : failures'[k] = failures[k] /\ tries'[k] = tries[k]
    BY <2>1, <2>2 DEF BreakerType
  <2>5. /\ flaws[c.to] \in Nat
        /\ flaws'[c.to] = IF passing THEN flaws[c.to] + 1 ELSE flaws[c.to]
        /\ \A t \in Targets \ {c.to} : flaws'[t] = flaws[t]
        /\ \A t \in Targets : flaws[t] \in Nat /\ flaws'[t] \in Nat /\ flaws[t] <= flaws'[t]
        /\ flaws' \in [Targets -> Nat]
    BY <2>1, <2>2 DEF BreakerType
  <2>10. BreakerType'
    <3>1. (IF passing THEN failures[key] + 1 ELSE PermFail) \in Nat
      BY <2>4, Constants
    <3>3. failures' \in [Keys -> Nat]
      BY <2>1, <2>2, <2>4, <3>1 DEF BreakerType
    <3>4. tries' \in [Keys -> Nat]
      BY <2>1, <2>2, <2>4 DEF BreakerType
    <3>5. useless' \subseteq Targets /\ rejected' \subseteq Calls
      BY <2>1, <2>2 DEF BreakerType
    <3> QED
      BY <2>5, <3>3, <3>4, <3>5 DEF BreakerType
  <2>6. Counted'
    <3>1. CASE passing
      BY <3>1, <2>4, Constants DEF Counted, BreakerAgrees
    <3>2. CASE ~passing
      <4>1. ~(failures'[key] < MaxFailures)
        BY <3>2, <2>4, Constants
      <4> QED
        BY <4>1, <2>4 DEF Counted, BreakerAgrees
    <3> QED
      BY <3>1, <3>2
  <2>7. Once'
    <3>1. Lasting \subseteq Keys
      BY Constants DEF Lasting, Keys
    <3>2. key \in Lasting => ~passing
      <4>1. r = "gone" => ~passing
        BY DEF passing
      <4> QED
        BY <4>1, <2>2, <2>3, Constants DEF Lasting
    <3>3. key \in Lasting => failures'[key] >= MaxFailures
      BY <3>2, <2>4, Constants
    <3> QED
      BY <3>1, <3>3, <2>4 DEF Once, BreakerAgrees
  <2>8. Charged'
    <3>1. ASSUME NEW t \in Targets \ useless' PROVE failures'[t] <= flaws'[t]
      <4>1. t \in Keys /\ t \notin useless /\ t \notin Calls
        BY <2>1, <3>1, Constants DEF Keys
      <4>2. failures[t] <= flaws[t] /\ failures[t] \in Nat
        BY <3>1, <4>1 DEF BreakerAgrees, Charged, BreakerType
      <4>3. CASE t = key
        <5>1. r # "unpermitted" /\ t = c.to
          BY <2>3, <4>1, <4>3
        <5>2. passing
          BY <2>1, <2>3, <3>1, <5>1
        <5> QED
          BY <2>4, <2>5, <4>2, <4>3, <5>1, <5>2
      <4>4. CASE t # key
        BY <2>4, <2>5, <3>1, <4>1, <4>2, <4>4
      <4> QED
        BY <4>3, <4>4
    <3>2. ASSUME NEW d \in Calls \ rejected' PROVE failures'[d] = 0
      <4>1. d \in Keys /\ d \notin rejected /\ d \notin Targets
        BY <2>1, <3>2, Constants DEF Keys
      <4>2. d # key
        BY <2>1, <2>2, <2>3, <3>2, <4>1
      <4> QED
        BY <2>4, <4>1, <4>2, <3>2 DEF BreakerAgrees, Charged
    <3> QED
      BY <3>1, <3>2 DEF Charged
  <2>11. ASSUME NEW d \in Calls, HasCause(d) PROVE HasCause(d)'
    <3>1. d.to \in Targets /\ useless \subseteq useless' /\ rejected \subseteq rejected'
      BY <2>1, CallHasKeys
    <3> QED
      BY <2>5, <2>11, <3>1, Constants DEF HasCause
  <2>9. /\ \A k \in KeysOf(c) : tries'[k] <= tries[k] + 1
        /\ \A k \in Keys \ KeysOf(c) : tries'[k] = tries[k]
    <3>1. \A k \in KeysOf(c) : k \in Keys /\ tries[k] \in Nat
      BY <2>2 DEF KeysOf, BreakerType
    <3> QED
      BY <3>1, <2>2, <2>4
  <2> QED
    BY <2>6, <2>7, <2>8, <2>9, <2>10, <2>11 DEF BreakerAgrees
<1> QED
  BY <1>1, <1>2

LEMMA RunningAreCalls ==
    ASSUME TypeOK, NEW i \in 1..Len(calls)
    PROVE  calls[i] \in Calls
BY ElementOfSeq DEF TypeOK

LEMMA TypeStep ==
    ASSUME TypeOK, RequestsCounted, BreakerType', Next
    PROVE  TypeOK'
<1> USE Constants
<1>1. ASSUME End("done") \/ End("error") \/ End(None), UNCHANGED <<turnVars, aborted>>
      PROVE  TypeOK'
  <2>1. calls' \in Seq(Calls) /\ Len(calls') = 0 /\ done' = 0 /\ blocked' = {}
    BY <1>1, EmptySeq DEF End, NoCalls
  <2>2. event' \in {"done", "error", None} /\ pc' = "ended"
    BY <1>1 DEF End
  <2>3. UNCHANGED <<round, requests, model, nudged, provider, consumer, aborted>>
    BY <1>1 DEF End, turnVars
  <2> QED
    BY <2>1, <2>2, <2>3 DEF TypeOK, BreakerType
<1>2. ASSUME NEW b, b \subseteq 1..Len(calls), Advance(b), pc \in {"calls", "tools"}
      PROVE  TypeOK'
  <2>1. UNCHANGED <<provider, consumer, requests, model, nudged, aborted, event>>
    BY <1>2 DEF Advance, turnVars
  <2>2. CASE done + 1 = Len(calls)
    <3>1. pc' = "top" /\ round' = round + 1 /\ calls' = <<>> /\ done' = 0 /\ blocked' = {}
      BY <1>2, <2>2 DEF Advance, NoCalls
    <3>2. calls' \in Seq(Calls) /\ Len(calls') = 0
      BY <3>1, EmptySeq
    <3>3. round' \in 0..MaxRounds
      BY <1>2, <3>1 DEF RequestsCounted, TypeOK
    <3> QED
      BY <2>1, <3>1, <3>2, <3>3 DEF TypeOK, BreakerType
  <2>3. CASE done + 1 < Len(calls)
    <3>1. /\ pc' \in {"calls", "tools"} /\ done' = done + 1 /\ blocked' = b
          /\ UNCHANGED <<round, calls>>
      BY <1>2, <2>3 DEF Advance
    <3>2. Len(calls) \in Nat /\ done \in Nat
      BY LenProperties DEF TypeOK
    <3>3. done' \in 0..Len(calls') /\ done' < Len(calls')
      BY <2>3, <3>1, <3>2
    <3> QED
      BY <1>2, <2>1, <3>1, <3>3 DEF TypeOK, BreakerType
  <2> QED
    BY <1>2, <2>2, <2>3 DEF Advance
<1>3. CASE StartRound
  <2>1. CASE End("done")
    BY <1>1, <1>3, <2>1 DEF StartRound
  <2>2. CASE /\ requests' = requests + 1 /\ pc' = "request"
             /\ UNCHANGED <<turnVars, round, model, nudged, roundVars, event, aborted>>
    BY <2>2 DEF turnVars, roundVars, TypeOK, BreakerType
  <2> QED
    BY <1>3, <2>1, <2>2 DEF StartRound
<1>4. CASE Fail
  BY <1>1, <1>4 DEF Fail
<1>5. CASE Fallback
  BY <1>5 DEF Fallback, turnVars, roundVars, TypeOK, BreakerType
<1>6. CASE Accept
  BY <1>6 DEF Accept, turnVars, roundVars, TypeOK, BreakerType
<1>7. CASE Answer
  BY <1>1, <1>7 DEF Answer
<1>8. CASE Nudge
  <2>1. round' \in 0..MaxRounds
    BY <1>8 DEF Nudge, RequestsCounted, TypeOK
  <2> QED
    BY <1>8, <2>1 DEF Nudge, turnVars, roundVars, TypeOK, BreakerType
<1>9. CASE AskTools
  <2>1. calls' \in Seq(Calls) /\ Len(calls') \in 1..Width /\ done' = 0 /\ blocked' = {}
    BY <1>9, BatchIsSeq DEF AskTools
  <2>2. /\ pc' = "calls"
        /\ UNCHANGED <<provider, consumer, round, requests, model, nudged, aborted, event>>
    BY <1>9 DEF AskTools, turnVars
  <2>3. Len(calls') <= Width /\ done' \in 0..Len(calls') /\ done' < Len(calls')
    BY <2>1
  <2> QED
    BY <2>1, <2>2, <2>3 DEF TypeOK, BreakerType
<1>10. CASE Leave
  BY <1>1, <1>10 DEF Leave
<1>11. CASE Begin
  BY <1>11 DEF Begin, turnVars, TypeOK, BreakerType
<1>12. CASE BeginNext
  <2>1. CASE Tripped(calls[done + 1]) /\ Advance(blocked \cup {done + 1})
    <3>1. blocked \cup {done + 1} \subseteq 1..Len(calls)
      BY <1>12, LenProperties DEF BeginNext, TypeOK
    <3> QED
      BY <1>2, <1>12, <2>1, <3>1 DEF BeginNext
  <2>2. CASE pc' = "tools" /\ UNCHANGED <<turnVars, round, requests, model, nudged, calls, done, blocked, aborted, event>>
    BY <1>12, <2>2 DEF BeginNext, turnVars, TypeOK, BreakerType
  <2> QED
    BY <1>12, <2>1, <2>2 DEF BeginNext
<1>13. CASE Deliver
  BY <1>2, <1>13 DEF Deliver, TypeOK
<1>14. CASE Throw
  BY <1>1, <1>14 DEF Throw
<1>15. CASE Abort
  BY <1>15 DEF Abort, turnVars, roundVars, TypeOK, BreakerType
<1> QED
  BY <1>3, <1>4, <1>5, <1>6, <1>7, <1>8, <1>9, <1>10, <1>11, <1>12, <1>13, <1>14, <1>15
  DEF Next, Step

LEMMA SumOfRound ==
    ASSUME NEW sent \in Nat, NEW n \in 0..MaxRounds, NEW i \in 0..1, NEW f \in 0..1,
           i = 1 => n < MaxRounds, sent <= n + i + f
    PROVE  sent <= MaxRounds + 1
BY Constants

\* Requests: a round sends one, and the fallback one more.
LEMMA RequestsStep ==
    ASSUME TypeOK, RequestsCounted, TypeOK', Next
    PROVE  RequestsCounted'
<1> USE Constants
<1> DEFINE Sent == requests <= round + InRound + Spare
<1>0. /\ requests \in Nat /\ round \in 0..MaxRounds /\ requests <= MaxRounds + 1
      /\ pc # "ended" => Sent
      /\ pc \in {"request", "stream", "calls", "tools"} => round < MaxRounds
  BY DEF TypeOK, RequestsCounted, RequestsBounded
<1>1. ASSUME pc' = "ended", requests' = requests
      PROVE  RequestsCounted'
  BY <1>0, <1>1 DEF RequestsCounted, RequestsBounded
<1>2. ASSUME Sent', pc' \in {"request", "stream", "calls", "tools"} => round' < MaxRounds
      PROVE  RequestsCounted'
  <2>1. requests' \in Nat /\ round' \in 0..MaxRounds
    BY DEF TypeOK
  <2>2. RequestsBounded'
    <3>1. Spare' \in 0..1 /\ InRound' \in 0..1 /\ (InRound' = 1 => round' < MaxRounds)
      BY <1>2 DEF InRound, Spare
    <3>2. requests' <= round' + InRound' + Spare'
      BY <1>2
    <3>3. requests' <= MaxRounds + 1
      BY <2>1, <3>1, <3>2, SumOfRound
    <3> QED
      BY <3>3 DEF RequestsBounded
  <2> QED
    BY <1>2, <2>2 DEF RequestsCounted
<1>3. ASSUME NEW e, End(e)
      PROVE  RequestsCounted'
  BY <1>1, <1>3 DEF End
<1>4. ASSUME NEW b, Advance(b), pc \in {"calls", "tools"}
      PROVE  RequestsCounted'
  <2>1. Sent'
    BY <1>0, <1>4 DEF Advance, InRound, Spare
  <2>2. pc' \in {"request", "stream", "calls", "tools"} => round' < MaxRounds
    BY <1>0, <1>4 DEF Advance
  <2> QED
    BY <1>2, <2>1, <2>2
<1>5. CASE StartRound
  <2>1. CASE End("done")
    BY <1>3, <2>1
  <2>2. CASE /\ ~aborted /\ round < MaxRounds /\ requests' = requests + 1 /\ pc' = "request"
             /\ UNCHANGED <<round, model>> /\ pc = "top"
    BY <1>0, <1>2, <2>2 DEF InRound, Spare
  <2> QED
    BY <1>5, <2>1, <2>2 DEF StartRound
<1>6. CASE Fail
  BY <1>3, <1>6 DEF Fail
<1>7. CASE Fallback
  BY <1>0, <1>2, <1>7 DEF Fallback, InRound, Spare
<1>8. CASE Accept \/ Begin \/ AskTools
  BY <1>0, <1>2, <1>8 DEF Accept, Begin, AskTools, InRound, Spare
<1>9. CASE Answer \/ Leave \/ Throw
  <2>1. pc' = "ended" /\ requests' = requests
    BY <1>9 DEF Answer, Leave, Throw, End
  <2> QED
    BY <1>1, <2>1
<1>10. CASE Nudge
  BY <1>0, <1>2, <1>10 DEF Nudge, InRound, Spare
<1>11. CASE BeginNext
  <2>1. CASE Advance(blocked \cup {done + 1})
    BY <1>4, <1>11, <2>1 DEF BeginNext
  <2>2. CASE pc = "calls" /\ pc' = "tools" /\ UNCHANGED <<round, requests, model>>
    BY <1>0, <1>2, <2>2 DEF InRound, Spare
  <2> QED
    BY <1>11, <2>1, <2>2 DEF BeginNext
<1>12. CASE Deliver
  BY <1>4, <1>12 DEF Deliver
<1>13. CASE Abort
  BY <1>0, <1>2, <1>13 DEF Abort, InRound, Spare
<1> QED
  BY <1>5, <1>6, <1>7, <1>8, <1>9, <1>10, <1>11, <1>12, <1>13 DEF Next, Step

\* A call that runs has keys that had not tripped when it passed.
LEMMA UntrippedPasses ==
    ASSUME TypeOK, BreakerAgrees, NEW c \in Calls, ~Tripped(c), NEW k \in KeysOf(c)
    PROVE  Passed(k)
<1> USE Constants
<1>1. k \in Keys /\ failures[k] \in Nat /\ tries[k] \in Nat
  BY CallHasKeys DEF KeysOf, TypeOK
<1>2. failures[k] < MaxFailures
  BY <1>1 DEF Tripped, KeysOf, TypeOK, Keys
<1>3. tries[k] < MaxFailures
  BY <1>1, <1>2 DEF BreakerAgrees, Counted
<1>4. k \in Lasting => tries[k] = 0
  BY <1>1, <1>2 DEF BreakerAgrees, Once
<1>5. Budget \in Nat
  BY LenProperties DEF Budget, TypeOK
<1> QED
  BY <1>1, <1>3, <1>4, <1>5 DEF Passed

\* The result of a running call: its keys have one error more at most.
LEMMA RunningRecorded ==
    ASSUME TypeOK, BreakerAgrees, BreakerTrips, RunningPassed, pc = "tools",
           done + 1 \notin blocked, UNCHANGED provider,
           NEW r \in Results(calls[done + 1]), Record(calls[done + 1], r)
    PROVE  /\ BreakerType' /\ BreakerAgrees' /\ BreakerTrips'
           /\ \A k \in Keys : tries'[k] <= tries[k] + 1
           /\ \A d \in Calls : HasCause(d) => HasCause(d)'
<1> USE Constants
<1> DEFINE c == calls[done + 1]
<1>1. done + 1 \in 1..Len(calls) /\ done \in Nat /\ Len(calls) \in Nat
  BY LenProperties DEF TypeOK
<1>2. c \in Calls
  BY <1>1, RunningAreCalls
<1>3. \A k \in KeysOf(c) : Passed(k)
  BY <1>1 DEF RunningPassed, Running
<1>4. BreakerType
  BY DEF TypeOK, BreakerType
<1> HIDE DEF c
<1>5. /\ BreakerType' /\ BreakerAgrees'
      /\ \A k \in KeysOf(c) : tries'[k] <= tries[k] + 1
      /\ \A k \in Keys \ KeysOf(c) : tries'[k] = tries[k]
      /\ \A d \in Calls : HasCause(d) => HasCause(d)'
  BY <1>2, <1>4, RecordKeeps DEF c
<1>6. \A k \in Keys : tries[k] \in Nat /\ tries'[k] \in Nat
  BY <1>4, <1>5 DEF BreakerType
<1>7. \A k \in Keys : tries'[k] <= tries[k] + 1
  BY <1>5, <1>6
<1>8. Budget + 1 <= Together /\ Budget \in Nat /\ Together \in Nat
  BY <1>1 DEF Budget, Together, TypeOK
<1>9. \A k \in Keys : /\ tries'[k] < MaxFailures + Together
                      /\ k \in Lasting => tries'[k] <= Together
  <2> TAKE k \in Keys
  <2>1. CASE k \in KeysOf(c)
    BY <1>3, <1>6, <1>7, <1>8, <2>1 DEF Passed
  <2>2. CASE k \notin KeysOf(c)
    BY <1>5, <2>2 DEF BreakerTrips, Lasting
  <2> QED
    BY <2>1, <2>2
<1>10. BreakerTrips'
  <2>1. Together' = Together
    BY DEF Together, Serial
  <2> QED
    BY <1>9, <2>1 DEF BreakerTrips, Lasting, Keys
<1> QED
  BY <1>5, <1>7, <1>10

\* The breaker changes in one action only.
LEMMA BreakerStep ==
    ASSUME IInv, Next
    PROVE  /\ BreakerType' /\ BreakerAgrees' /\ BreakerTrips'
           /\ \A d \in Calls : HasCause(d) => HasCause(d)'
<1>1. TypeOK /\ BreakerAgrees /\ BreakerTrips /\ RunningPassed /\ BreakerType
  BY DEF IInv, TypeOK, BreakerType
<1>2. UNCHANGED provider
  BY DEF Next, Step, StartRound, Fail, Fallback, Accept, Answer, Nudge, AskTools,
         Leave, Begin, BeginNext, Deliver, Throw, Abort, Advance, turnVars
<1>3. CASE UNCHANGED breakerVars
  <2>1. /\ failures' = failures /\ tries' = tries
        /\ flaws' = flaws /\ useless' = useless /\ rejected' = rejected
    BY <1>3 DEF breakerVars
  <2>2. Together' = Together
    BY <1>2 DEF Together, Serial
  <2> QED
    BY <1>1, <2>1, <2>2
    DEF BreakerType, BreakerAgrees, Counted, Once, Charged, BreakerTrips, HasCause
<1>4. CASE Deliver /\ done + 1 \notin blocked
  <2>1. PICK r \in Results(calls[done + 1]) : Record(calls[done + 1], r)
    BY <1>4 DEF Deliver
  <2>2. pc = "tools"
    BY <1>4 DEF Deliver
  <2> QED
    BY <1>1, <1>2, <1>4, <2>1, <2>2, RunningRecorded
<1>5. CASE Deliver /\ done + 1 \in blocked
  BY <1>3, <1>5 DEF Deliver
<1>6. CASE ~Deliver
  <2>1. UNCHANGED breakerVars
    BY <1>6 DEF Next, Step, StartRound, Fail, Fallback, Accept, Answer, Nudge, AskTools,
                Leave, Begin, BeginNext, Throw, Abort
  <2> QED
    BY <1>3, <2>1
<1> QED
  BY <1>4, <1>5, <1>6

\* A call that runs has passed the breaker, at Begin or at BeginNext; each
\* result of the round adds one error at most.
LEMMA PassedStep ==
    ASSUME IInv, TypeOK', Next
    PROVE  RunningPassed'
<1>1. TypeOK /\ BreakerAgrees /\ BreakerTrips /\ RunningPassed
  BY DEF IInv
<1> SUFFICES ASSUME pc' = "tools",
                    NEW i \in Running', NEW k \in KeysOf(calls[i])'
             PROVE  Passed(k)'
  BY DEF RunningPassed
<1>2. UNCHANGED <<provider, calls>>
  BY DEF Next, Step, StartRound, Fail, Fallback, Accept, Answer, Nudge, AskTools, End,
         Leave, Begin, BeginNext, Deliver, Throw, Abort, Advance, turnVars, roundVars
<1>3. i \in 1..Len(calls) /\ calls[i] \in Calls /\ k \in KeysOf(calls[i])
  BY <1>1, <1>2, RunningAreCalls DEF Running, KeysOf
<1>4. k \in Keys
  BY <1>3, CallHasKeys DEF KeysOf
<1>5. CASE Begin
  <2>1. i \notin blocked' /\ blocked' = {j \in 1..Len(calls) : Tripped(calls[j])}
    BY <1>5 DEF Begin, Running
  <2>2. Passed(k)
    BY <1>1, <1>3, <2>1, UntrippedPasses
  <2>3. tries' = tries /\ done' = done
    BY <1>5 DEF Begin, breakerVars
  <2> QED
    BY <1>2, <2>2, <2>3 DEF Passed, Budget, Serial
<1>6. CASE BeginNext
  <2>1. ~Tripped(calls[done + 1]) /\ Serial /\ done' = done /\ tries' = tries
    BY <1>6 DEF BeginNext, Advance, breakerVars
  <2>2. i = done + 1
    BY <1>2, <2>1 DEF Running, Serial
  <2>3. Passed(k)
    BY <1>1, <1>3, <2>1, <2>2, UntrippedPasses
  <2> QED
    BY <1>2, <2>1, <2>3 DEF Passed, Budget, Serial
<1>7. CASE Deliver
  <2>1. /\ ~Serial /\ pc = "tools" /\ done' = done + 1 /\ blocked' = blocked
    BY <1>7 DEF Deliver, Advance
  <2>2. done \in Nat /\ i \in Nat
    BY <1>1, <1>3, LenProperties DEF TypeOK
  <2>3. i \in Running
    BY <1>2, <1>3, <2>1, <2>2 DEF Running, Serial
  <2>4. Passed(k)
    BY <1>1, <1>3, <2>1, <2>3 DEF RunningPassed
  <2>5. tries'[k] <= tries[k] + 1 /\ tries[k] \in Nat /\ tries'[k] \in Nat
    <3>1. tries[k] \in Nat /\ tries'[k] \in Nat
      BY <1>1, <1>4 DEF TypeOK
    <3>2. CASE done + 1 \in blocked
      BY <1>7, <3>1, <3>2 DEF Deliver, breakerVars
    <3>3. CASE done + 1 \notin blocked
      <4>1. PICK r \in Results(calls[done + 1]) : Record(calls[done + 1], r)
        BY <1>7, <3>3 DEF Deliver
      <4> QED
        BY <1>1, <1>2, <1>4, <2>1, <3>1, <3>3, <4>1, RunningRecorded
    <3> QED
      BY <3>2, <3>3
  <2>6. Budget' = Budget + 1 /\ Budget \in Nat
    BY <1>2, <2>1, <2>2 DEF Budget, Serial
  <2> QED
    BY <2>4, <2>5, <2>6, Constants DEF Passed
<1>8. CASE Abort
  <2>1. pc = "tools" /\ UNCHANGED <<tries, done, blocked>>
    BY <1>8 DEF Abort, roundVars, breakerVars
  <2>2. i \in Running
    BY <1>2, <1>3, <2>1 DEF Running, Serial
  <2>3. Passed(k)
    BY <1>1, <1>3, <2>1, <2>2 DEF RunningPassed
  <2> QED
    BY <1>2, <2>1, <2>3 DEF Passed, Budget, Serial
<1> QED
  BY <1>5, <1>6, <1>7, <1>8
  DEF Next, Step, StartRound, Fail, Fallback, Accept, Answer, Nudge, AskTools, Leave, Throw, End

\* What has tripped the breaker is a cause.
LEMMA TrippedHasCause ==
    ASSUME TypeOK, BreakerAgrees, NEW c \in Calls, Tripped(c)
    PROVE  HasCause(c)
<1>1. c.to \in Targets /\ flaws[c.to] \in Nat /\ failures[c.to] \in Nat
  BY CallHasKeys DEF TypeOK
<1>2. CASE failures[c.to] >= MaxFailures
  BY <1>1, <1>2, Constants DEF BreakerAgrees, Charged, HasCause
<1>3. CASE failures[c] >= MaxFailures
  BY <1>3, Constants DEF BreakerAgrees, Charged, HasCause
<1> QED
  BY <1>2, <1>3 DEF Tripped

\* Only what has tripped is blocked, and a cause stays one.
LEMMA BlockedStep ==
    ASSUME IInv, TypeOK', Next
    PROVE  BlockedForCause'
<1>1. TypeOK /\ BreakerAgrees /\ BlockedForCause
  BY DEF IInv
<1>2. \A d \in Calls : HasCause(d) => HasCause(d)'
  BY BreakerStep
<1>3. ASSUME blocked' = {}
      PROVE  BlockedForCause'
  BY <1>3 DEF BlockedForCause
<1>4. ASSUME calls' = calls,
             \A i \in blocked' \ blocked : i \in 1..Len(calls) /\ Tripped(calls[i])
      PROVE  BlockedForCause'
  <2> SUFFICES ASSUME NEW i \in blocked'
               PROVE  HasCause(calls[i])'
    BY DEF BlockedForCause
  <2>1. i \in 1..Len(calls) /\ calls[i] \in Calls
    BY <1>1, <1>4, RunningAreCalls DEF TypeOK
  <2>2. HasCause(calls[i])
    BY <1>1, <1>4, <2>1, TrippedHasCause DEF BlockedForCause
  <2>3. HasCause(calls[i])' <=> \/ calls[i] \in rejected' \/ calls[i].to \in useless'
                               \/ flaws'[calls[i].to] >= MaxFailures
    BY <1>4 DEF HasCause
  <2>4. calls[i] \in rejected' \/ calls[i].to \in useless' \/ flaws'[calls[i].to] >= MaxFailures
    BY <1>2, <2>1, <2>2 DEF HasCause
  <2> QED
    BY <2>3, <2>4
<1>5. ASSUME NEW e, End(e)
      PROVE  BlockedForCause'
  BY <1>3, <1>5 DEF End, NoCalls
<1>6. ASSUME NEW b, Advance(b),
             \A i \in b \ blocked : i \in 1..Len(calls) /\ Tripped(calls[i])
      PROVE  BlockedForCause'
  BY <1>3, <1>4, <1>6 DEF Advance, NoCalls
<1>7. CASE StartRound \/ Fail \/ Answer \/ Leave \/ Throw
  <2>1. \/ \E e \in {"done", "error", None} : End(e)
        \/ UNCHANGED <<calls, blocked>>
    BY <1>7 DEF StartRound, Fail, Answer, Leave, Throw, roundVars
  <2> QED
    BY <1>4, <1>5, <2>1
<1>8. CASE Fallback \/ Accept \/ Nudge \/ Abort
  BY <1>4, <1>8 DEF Fallback, Accept, Nudge, Abort, roundVars
<1>9. CASE AskTools
  BY <1>3, <1>9 DEF AskTools
<1>10. CASE Begin
  BY <1>4, <1>10 DEF Begin
<1>11. CASE BeginNext
  <2>1. done + 1 \in 1..Len(calls)
    BY <1>1, <1>11, LenProperties DEF BeginNext, TypeOK
  <2>2. CASE Tripped(calls[done + 1]) /\ Advance(blocked \cup {done + 1})
    BY <1>6, <2>1, <2>2
  <2>3. CASE UNCHANGED <<calls, blocked>>
    BY <1>4, <2>3
  <2> QED
    BY <1>11, <2>2, <2>3 DEF BeginNext
<1>12. CASE Deliver
  BY <1>6, <1>12 DEF Deliver
<1> QED
  BY <1>7, <1>8, <1>9, <1>10, <1>11, <1>12 DEF Next, Step

LEMMA NextIInv == IInv /\ [Next]_vars => IInv'
<1> SUFFICES ASSUME IInv, [Next]_vars PROVE IInv'
  OBVIOUS
<1>1. CASE Next
  <2>1. BreakerType' /\ BreakerAgrees' /\ BreakerTrips'
    BY <1>1, BreakerStep
  <2>2. TypeOK'
    BY <1>1, <2>1, TypeStep DEF IInv
  <2>3. RequestsCounted'
    BY <1>1, <2>2, RequestsStep DEF IInv
  <2>4. RunningPassed'
    BY <1>1, <2>2, PassedStep
  <2>5. BlockedForCause'
    BY <1>1, <2>2, BlockedStep
  <2> QED
    BY <2>1, <2>2, <2>3, <2>4, <2>5 DEF IInv
<1>2. CASE UNCHANGED vars
  BY <1>2 DEF vars, turnVars, roundVars, breakerVars, IInv, TypeOK, BreakerAgrees, Counted,
      Once, Charged, BlockedForCause, HasCause, BreakerTrips, Together, RequestsCounted, RequestsBounded, InRound,
      Spare, RunningPassed, Running, Passed, Budget, Serial
<1> QED
  BY <1>1, <1>2

LEMMA Invariant == Spec => []IInv
BY InitIInv, NextIInv, PTL DEF Spec

-----------------------------------------------------------------------------
\* The variables of a turn keep their types, for any model and any tools.
THEOREM TypeCorrect == Spec => []TypeOK
BY Invariant, PTL DEF IInv

\* However many calls a round has and whether they run one by one or all at
\* once, no more errors are recorded at a key than the limit and the calls
\* that had started together; at an action or a missing target, only those.
THEOREM BreakerStops == Spec => []BreakerTrips
BY Invariant, PTL DEF IInv

\* A call the breaker answers has been turned away itself, or its own
\* target has failed or denied calls up to the limit or cannot succeed.
THEOREM BlockedWithCause == Spec => []BlockedForCause
BY Invariant, PTL DEF IInv

\* A turn sends at most one request per round and one for the fallback.
THEOREM RequestsAreBounded == Spec => []RequestsBounded
BY Invariant, PTL DEF IInv, RequestsCounted

\* After the user's stop nothing is sent, and after a timeout only the
\* request to the fallback model.
THEOREM NothingSentAfterStop == Spec => StopSendsNothing
<1>1. TypeOK /\ [Next]_vars
      => [aborted /\ requests' # requests => consumer = "task" /\ pc = "request"]_vars
  <2> SUFFICES ASSUME TypeOK, Next, aborted, requests' # requests
               PROVE  consumer = "task" /\ pc = "request"
    OBVIOUS
  <2>1. Fallback
    BY DEF Next, Step, StartRound, Fail, Accept, Answer, Nudge, AskTools, End,
           Leave, Begin, BeginNext, Deliver, Throw, Abort, Advance
  <2> QED
    BY <2>1 DEF Fallback, Leaving, TypeOK
<1> QED
  BY <1>1, TypeCorrect, PTL DEF Spec, StopSendsNothing

\* After the user's stop no tool starts.
THEOREM NothingStartsAfterStop == Spec => StopStartsNothing
<1>1. [Next]_vars => [Leaving /\ pc' = "tools" => pc = "tools"]_vars
  BY DEF Next, Step, StartRound, Fail, Fallback, Accept, Answer, Nudge, AskTools, End,
         Leave, Begin, BeginNext, Deliver, Throw, Abort, Advance, Leaving, vars
<1> QED
  BY <1>1, PTL DEF Spec, StopStartsNothing
=============================================================================
