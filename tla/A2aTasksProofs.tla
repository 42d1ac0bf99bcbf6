--------------------------- MODULE A2aTasksProofs ---------------------------
(***************************************************************************)
(* Proofs about A2aTasks, for any tasks, tenants, chart blocks, bounds and *)
(* time limits with TurnLimit <= Hour.                                     *)
(*                                                                         *)
(* The properties speak of tasks that have ended; the invariant adds what  *)
(* a running turn must keep for them: its status is not final, the timer   *)
(* cannot have removed it, its retry starts from a text with every chart   *)
(* block, and it has left no span yet.                                     *)
(***************************************************************************)
EXTENDS A2aTasks, FiniteSetTheorems, TLAPS

\* The status follows the turn; a cancel reaches a running one only.
StatusOfTurn(t) ==
    /\ pc[t] \in {"idle", "lost"} => state[t] = "none"
    /\ Running(t) => state[t] \in {"working", "canceled"}
    /\ pc[t] = "ended" => state[t] \in {"completed", "failed"}

\* A running turn is in the store, and its status is younger than it.
Timely(t) ==
    /\ Running(t) =>
          /\ t \in store
          /\ startedAt[t] <= now
          /\ startedAt[t] <= stamp[t]
          /\ now <= startedAt[t] + TurnLimit
    /\ pc[t] = "ended" => t \in store \/ stamp[t] + Hour < now

\* The answer, and the text that a retry starts from.
Whole(t) ==
    /\ pc[t] = "retrying" => charts[t] \subseteq text[t].charts
    /\ pc[t] = "ended" /\ state[t] = "completed" =>
          /\ charts[t] \subseteq text[t].charts
          /\ tools[t] > 0 => text[t].len > 0

\* A span is in one place, and in none before its turn has ended.
InFlight(t) == \E b \in flights : t \in b
Apart ==
    /\ \A b \in flights : b \cap buffer = {}
    /\ \A b, c \in flights : b = c \/ b \cap c = {}
Span(t) ==
    /\ logged[t] <= 1
    /\ t \in buffer \/ InFlight(t) => logged[t] = 0
    /\ pc[t] = "idle" \/ Running(t) => t \notin buffer /\ ~InFlight(t) /\ logged[t] = 0
    /\ pc[t] = "ended" /\ (state[t] = "failed" \/ sampled[t]) =>
          t \in buffer \/ InFlight(t) \/ logged[t] = 1

IInv ==
    /\ TypeOK
    /\ \A t \in Tasks : StatusOfTurn(t)
    /\ \A t \in Tasks : Timely(t)
    /\ \A t \in Tasks : Whole(t)
    /\ Apart
    /\ \A t \in Tasks : Span(t)

USE NoneAssumption, LengthAssumption, TimeAssumption

-----------------------------------------------------------------------------
(* What a step of a turn does to all but its texts.                         *)

RunsOn(t) ==
    /\ \E q \in {"consulting", "streaming", "retrying"} : pc' = [pc EXCEPT ![t] = q]
    /\ UNCHANGED <<mode, store, state, stamp, originVars, spanVars, now>>

Ends(t) ==
    /\ Answer(t)
    /\ \/ SetStatus(t, "completed") /\ Record(t, "completed")
       \/ SetStatus(t, "failed") /\ Record(t, "error")
    /\ UNCHANGED <<mode, store, tenant, sampled, now>>

LEMMA TurnEffect ==
    ASSUME TypeOK, NEW t \in Tasks, TurnStep(t)
    PROVE  Running(t) /\ (RunsOn(t) \/ Ends(t))
<1>1. CASE PreConsult(t) \/ StartStream(t) \/ (\E c \in Charts : ToolResult(t, {c})) \/ ToolResult(t, {})
  <2>1. pc = [pc EXCEPT ![t] = pc[t]]
    BY DEF TypeOK
  <2> QED BY <1>1, <2>1 DEF PreConsult, StartStream, ToolResult, Running, RunsOn
<1>2. ASSUME NEW echo \in SUBSET Charts, TextDelta(t, echo)
      PROVE  Running(t) /\ RunsOn(t)
  <2>1. pc = [pc EXCEPT ![t] = pc[t]]
    BY DEF TypeOK
  <2> QED BY <1>2, <2>1 DEF TextDelta, Running, RunsOn
<1>3. ASSUME NEW echo \in SUBSET Charts, NEW n \in 0..MaxText[t], StreamDone(t, n, echo)
      PROVE  Running(t) /\ (RunsOn(t) \/ Ends(t))
  BY <1>3 DEF StreamDone, Retry, Complete, Running, RunsOn, Ends
<1>4. ASSUME NEW n \in 0..MaxText[t], RetryDone(t, n)
      PROVE  Running(t) /\ Ends(t)
  BY <1>4 DEF RetryDone, Complete, Running, Ends
<1>5. CASE Fail(t)
  BY <1>5 DEF Fail, Running, Ends
<1> QED BY <1>1, <1>2, <1>3, <1>4, <1>5 DEF TurnStep

\* What is not a turn's, by name.
Sends(t) == \E how \in {"key", "hmac", "contract"}, granted, found \in BOOLEAN,
               c \in Callers, header \in TraceHeaders :
               Send(t, how, granted, c, found, header)

LEMMA Kinds ==
    ASSUME [Next]_vars
    PROVE  \/ \E t \in Tasks : TurnStep(t) \/ Sends(t) \/ (\E c \in Callers : TasksCancel(t, c))
           \/ \E batch \in flights : Inserted(batch)
           \/ Flush \/ Cleanup \/ Restart \/ Tick \/ UNCHANGED vars
BY DEF Next, Request, Sends

-----------------------------------------------------------------------------
(* Types.                                                                   *)

LEMMA EmptyText == Empty \in Texts
BY DEF Empty, Texts

LEMMA RecordTypes ==
    ASSUME TypeOK, NEW t \in Tasks, NEW s, Record(t, s)
    PROVE  buffer' \subseteq Tasks /\ flights' \subseteq SUBSET Tasks /\ logged' \in [Tasks -> Nat]
<1> DEFINE full == buffer \cup {t}
<1>1. full \subseteq Tasks
  BY DEF TypeOK
<1>2. UNCHANGED spanVars \/ (buffer' \in {{}, full} /\ flights' \in {flights, flights \cup {full}} /\ UNCHANGED logged)
  BY DEF Record
<1> HIDE DEF full
<1>3. CASE UNCHANGED spanVars
  BY <1>3 DEF spanVars, TypeOK
<1>4. CASE buffer' \in {{}, full} /\ flights' \in {flights, flights \cup {full}} /\ UNCHANGED logged
  BY <1>1, <1>4 DEF TypeOK
<1> QED BY <1>2, <1>3, <1>4

LEMMA ChosenType ==
    ASSUME TypeOK, NEW t \in Tasks, NEW n \in Nat, NEW echo \in SUBSET Charts
    PROVE  /\ Chosen(t, n, echo) \in Texts
           /\ FinalText(t, n, echo) \in Texts
           /\ charts[t] \subseteq FinalText(t, n, echo).charts
<1>1. Chosen(t, n, echo) \in Texts
  BY DEF Chosen, TypeOK, Texts
<1>2. charts[t] \in SUBSET Charts
  BY DEF TypeOK
<1>3. Cardinality(charts[t] \ Chosen(t, n, echo).charts) \in Nat
  <2>1. IsFiniteSet(charts[t] \ Chosen(t, n, echo).charts)
    BY <1>2, FiniteAssumption, FS_Subset
  <2> QED BY <2>1, FS_CardinalityType
<1> QED BY <1>1, <1>2, <1>3 DEF FinalText, Texts

LEMMA CompleteTypes ==
    ASSUME TypeOK, NEW t \in Tasks, NEW answer \in Texts, Complete(t, answer)
    PROVE  TypeOK'
<1>1. buffer' \subseteq Tasks /\ flights' \subseteq SUBSET Tasks /\ logged' \in [Tasks -> Nat]
  BY RecordTypes DEF Complete
<1> QED BY <1>1, EmptyText DEF Complete, Answer, SetStatus, TypeOK, PCs, States

LEMMA TurnTypes ==
    ASSUME TypeOK, NEW t \in Tasks, TurnStep(t)
    PROVE  TypeOK'
<1> USE DEF originVars, turnVars, spanVars
<1>1. CASE PreConsult(t)
  BY <1>1 DEF PreConsult, TypeOK
<1>2. CASE StartStream(t)
  BY <1>2 DEF StartStream, TypeOK, PCs
<1>3. ASSUME NEW echo \in SUBSET Charts, TextDelta(t, echo)
      PROVE  TypeOK'
  <2>1. [len |-> text[t].len + 1, charts |-> text[t].charts \cup echo] \in Texts
    BY DEF TypeOK, Texts
  <2>2. text' \in [Tasks -> Texts]
    BY <1>3, <2>1 DEF TextDelta, TypeOK
  <2> QED BY <1>3, <2>2 DEF TextDelta, TypeOK
<1>4. ASSUME NEW echo \in SUBSET Charts, NEW n \in 0..MaxText[t], StreamDone(t, n, echo)
      PROVE  TypeOK'
  <2>1. n \in Nat
    OBVIOUS
  <2> DEFINE final == FinalText(t, n, echo)
  <2>2. final \in Texts
    BY <2>1, ChosenType
  <2>3. Retry(t, final) \/ Complete(t, final)
    BY <1>4 DEF StreamDone
  <2> HIDE DEF final
  <2>4. CASE Retry(t, final)
    BY <2>2, <2>4 DEF Retry, TypeOK, PCs
  <2> QED BY <2>2, <2>3, <2>4, CompleteTypes
<1>5. ASSUME NEW blocks \in SUBSET Charts, ToolResult(t, blocks)
      PROVE  TypeOK'
  <2>1. snapshot' \in [Tasks -> Texts]
    BY <1>5 DEF ToolResult, TypeOK
  <2>2. charts' \in [Tasks -> SUBSET Charts]
    BY <1>5 DEF ToolResult, TypeOK
  <2> QED BY <1>5, <2>1, <2>2 DEF ToolResult, TypeOK
<1>6. ASSUME NEW n \in 0..MaxText[t], RetryDone(t, n)
      PROVE  TypeOK'
  <2> DEFINE said == IF n > 0 THEN n ELSE text[t].len
             length == IF said = 0 THEN 1 ELSE said
             answer == [text[t] EXCEPT !.len = length]
  <2>0. text[t] \in Texts
    BY DEF TypeOK
  <2>1. answer \in Texts
    <3>1. length \in Nat
      BY <2>0 DEF Texts
    <3> HIDE DEF length
    <3> QED BY <2>0, <3>1 DEF Texts
  <2>2. Complete(t, answer)
    BY <1>6 DEF RetryDone
  <2> HIDE DEF answer
  <2> QED BY <2>1, <2>2, CompleteTypes
<1>7. CASE Fail(t)
  <2>1. buffer' \subseteq Tasks /\ flights' \subseteq SUBSET Tasks /\ logged' \in [Tasks -> Nat]
    BY <1>7, RecordTypes DEF Fail
  <2> QED BY <1>7, <2>1, EmptyText DEF Fail, Answer, SetStatus, TypeOK, PCs, States
<1>8. \A c \in Charts : {c} \in SUBSET Charts
  OBVIOUS
<1> QED BY <1>1, <1>2, <1>3, <1>4, <1>5, <1>6, <1>7, <1>8 DEF TurnStep

LEMMA Types == TypeOK /\ [Next]_vars => TypeOK'
<1> SUFFICES ASSUME TypeOK, [Next]_vars PROVE TypeOK'
  OBVIOUS
<1> USE DEF originVars, turnVars, spanVars
<1>1. ASSUME NEW t \in Tasks, Sends(t)
      PROVE  TypeOK'
  <2>1. PICK how, granted, found, header : \E c \in Callers : Send(t, how, granted, c, found, header)
    BY <1>1 DEF Sends
  <2> QED BY <2>1 DEF Send, SetStatus, SampledBy, TypeOK, PCs, States
<1>2. ASSUME NEW t \in Tasks, NEW c \in Callers, TasksCancel(t, c)
      PROVE  TypeOK'
  BY <1>2 DEF TasksCancel, SetStatus, TypeOK, States
<1>3. ASSUME NEW batch \in flights, Inserted(batch)
      PROVE  TypeOK'
  <2>1. logged' \in [Tasks -> Nat]
    BY <1>3 DEF Inserted, TypeOK
  <2> QED BY <1>3, <2>1 DEF Inserted, TypeOK
<1>4. CASE Flush
  BY <1>4 DEF Flush, TypeOK
<1>5. CASE Cleanup
  BY <1>5 DEF Cleanup, TypeOK
<1>6. CASE Restart
  <2>1. pc' \in [Tasks -> PCs]
    BY <1>6 DEF Restart, PCs
  <2> QED BY <1>6, <2>1, EmptyText DEF Restart, TypeOK, States
<1>7. CASE Tick
  BY <1>7 DEF Tick, TypeOK
<1>8. CASE UNCHANGED vars
  BY <1>8 DEF vars, TypeOK
<1> QED BY Kinds, TurnTypes, <1>1, <1>2, <1>3, <1>4, <1>5, <1>6, <1>7, <1>8

-----------------------------------------------------------------------------
(* The invariant.                                                           *)

LEMMA Initially == Init => IInv
<1> SUFFICES ASSUME Init PROVE IInv
  OBVIOUS
<1>1. TypeOK
  BY EmptyText DEF Init, TypeOK, PCs, States, Callers, Modes
<1> QED BY <1>1 DEF Init, IInv, StatusOfTurn, Timely, Whole, Apart, Span, InFlight, Running

LEMMA Statuses ==
    ASSUME IInv, [Next]_vars
    PROVE  \A u \in Tasks : StatusOfTurn(u)'
<1> SUFFICES ASSUME NEW u \in Tasks PROVE StatusOfTurn(u)'
  OBVIOUS
<1>0. /\ TypeOK /\ StatusOfTurn(u)
      /\ pc \in [Tasks -> PCs] /\ state \in [Tasks -> States]
  BY DEF IInv, TypeOK
<1> USE DEF StatusOfTurn, Running
<1>1. ASSUME NEW t \in Tasks, TurnStep(t)
      PROVE  StatusOfTurn(u)'
  <2>1. Running(t) /\ (RunsOn(t) \/ Ends(t)) /\ StatusOfTurn(t)
    BY <1>0, <1>1, TurnEffect DEF IInv
  <2> QED BY <1>0, <2>1 DEF RunsOn, Ends, Answer, SetStatus
<1>2. ASSUME NEW t \in Tasks, Sends(t)
      PROVE  StatusOfTurn(u)'
  BY <1>0, <1>2 DEF Sends, Send, SetStatus
<1>3. ASSUME NEW t \in Tasks, NEW c \in Callers, TasksCancel(t, c)
      PROVE  StatusOfTurn(u)'
  <2>1. StatusOfTurn(t)
    BY DEF IInv
  <2>2. pc[t] \in PCs
    BY <1>0
  <2> QED BY <1>0, <1>3, <2>1, <2>2 DEF TasksCancel, Cancels, SetStatus, PCs
<1>4. ASSUME NEW batch \in flights, Inserted(batch)
      PROVE  StatusOfTurn(u)'
  BY <1>0, <1>4 DEF Inserted
<1>5. CASE Restart
  BY <1>0, <1>5 DEF Restart
<1>6. CASE Flush \/ Cleanup \/ Tick \/ UNCHANGED vars
  BY <1>0, <1>6 DEF Flush, Cleanup, Tick, vars
<1> QED BY Kinds, <1>1, <1>2, <1>3, <1>4, <1>5, <1>6

LEMMA Times ==
    ASSUME IInv, [Next]_vars
    PROVE  \A u \in Tasks : Timely(u)'
<1> SUFFICES ASSUME NEW u \in Tasks PROVE Timely(u)'
  OBVIOUS
<1>0. /\ TypeOK /\ Timely(u)
      /\ pc \in [Tasks -> PCs] /\ state \in [Tasks -> States]
      /\ startedAt \in [Tasks -> Nat] /\ stamp \in [Tasks -> Nat] /\ now \in Nat
  BY DEF IInv, TypeOK
<1> USE DEF Timely, Running
<1>1. ASSUME NEW t \in Tasks, TurnStep(t)
      PROVE  Timely(u)'
  <2>1. Running(t) /\ (RunsOn(t) \/ Ends(t)) /\ Timely(t)
    BY <1>0, <1>1, TurnEffect DEF IInv
  <2>2. CASE RunsOn(t)
    BY <1>0, <2>1, <2>2 DEF RunsOn, originVars
  <2>3. CASE Ends(t)
    BY <1>0, <2>1, <2>3 DEF Ends, Answer, SetStatus
  <2> QED BY <2>1, <2>2, <2>3
<1>2. ASSUME NEW t \in Tasks, Sends(t)
      PROVE  Timely(u)'
  BY <1>0, <1>2 DEF Sends, Send, SetStatus
<1>3. ASSUME NEW t \in Tasks, NEW c \in Callers, TasksCancel(t, c)
      PROVE  Timely(u)'
  BY <1>0, <1>3 DEF TasksCancel, Knows, SetStatus, originVars
<1>4. ASSUME NEW batch \in flights, Inserted(batch)
      PROVE  Timely(u)'
  BY <1>0, <1>4 DEF Inserted, originVars
\* The timer leaves a running turn: its status is not older than TurnLimit.
<1>5. CASE Cleanup
  BY <1>0, <1>5 DEF Cleanup, Old, originVars
<1>6. CASE Restart
  BY <1>0, <1>6 DEF Restart
<1>7. CASE Tick
  BY <1>0, <1>7 DEF Tick, originVars
<1>8. CASE Flush \/ UNCHANGED vars
  BY <1>0, <1>8 DEF Flush, vars, originVars
<1> QED BY Kinds, <1>1, <1>2, <1>3, <1>4, <1>5, <1>6, <1>7, <1>8

\* An answer with every chart block, and not empty after a tool result.
LEMMA CompleteIsWhole ==
    ASSUME IInv, NEW t \in Tasks, NEW answer \in Texts, Complete(t, answer),
           charts[t] \subseteq answer.charts,
           tools[t] > 0 => answer.len > 0,
           NEW u \in Tasks
    PROVE  Whole(u)'
BY DEF Complete, Answer, SetStatus, IInv, TypeOK, Whole

LEMMA TurnIsWhole ==
    ASSUME IInv, NEW t \in Tasks, TurnStep(t), NEW u \in Tasks
    PROVE  Whole(u)'
<1>0. TypeOK /\ Whole(u) /\ Whole(t)
  BY DEF IInv
<1>1. CASE PreConsult(t)
  BY <1>0, <1>1 DEF PreConsult, TypeOK, Whole
<1>2. CASE StartStream(t)
  BY <1>0, <1>2 DEF StartStream, TypeOK, Whole, turnVars
<1>3. ASSUME NEW echo \in SUBSET Charts, TextDelta(t, echo)
      PROVE  Whole(u)'
  <2> DEFINE more == [len |-> text[t].len + 1, charts |-> text[t].charts \cup echo]
  <2>1. text' = [text EXCEPT ![t] = more]
    BY <1>3 DEF TextDelta
  <2>2. text[t].charts \subseteq more.charts
    OBVIOUS
  <2> HIDE DEF more
  <2> QED BY <1>0, <1>3, <2>1, <2>2 DEF TextDelta, TypeOK, Whole
<1>4. ASSUME NEW echo \in SUBSET Charts, NEW n \in 0..MaxText[t], StreamDone(t, n, echo)
      PROVE  Whole(u)'
  <2>1. n \in Nat
    OBVIOUS
  <2> DEFINE final == FinalText(t, n, echo)
  <2>2. final \in Texts /\ charts[t] \subseteq final.charts
    BY <1>0, <2>1, ChosenType
  <2>3. Retry(t, final) \/ (Complete(t, final) /\ ~(final.len = 0 /\ tools[t] > 0))
    BY <1>4 DEF StreamDone
  <2> HIDE DEF final
  <2>4. CASE Retry(t, final)
    BY <1>0, <2>2, <2>4 DEF Retry, TypeOK, Whole
  <2>5. CASE Complete(t, final) /\ ~(final.len = 0 /\ tools[t] > 0)
    <3>1. tools[t] > 0 => final.len > 0
      BY <2>2, <2>5 DEF Texts
    <3> QED BY <2>2, <2>5, <3>1, CompleteIsWhole
  <2> QED BY <2>3, <2>4, <2>5
<1>5. ASSUME NEW blocks, ToolResult(t, blocks)
      PROVE  Whole(u)'
  BY <1>0, <1>5 DEF ToolResult, TypeOK, Whole
<1>6. ASSUME NEW n \in 0..MaxText[t], RetryDone(t, n)
      PROVE  Whole(u)'
  <2> DEFINE said == IF n > 0 THEN n ELSE text[t].len
             length == IF said = 0 THEN 1 ELSE said
             answer == [text[t] EXCEPT !.len = length]
  <2>1. text[t] \in Texts
    BY <1>0 DEF TypeOK
  <2>2. length \in Nat /\ length > 0
    BY <2>1 DEF Texts
  <2>3. Complete(t, answer) /\ pc[t] = "retrying"
    BY <1>6 DEF RetryDone
  <2> HIDE DEF length
  <2>4. answer \in Texts /\ answer.charts = text[t].charts /\ answer.len > 0
    BY <2>1, <2>2 DEF Texts
  <2>5. charts[t] \subseteq text[t].charts
    BY <1>0, <2>3 DEF Whole
  <2> HIDE DEF answer
  <2> QED BY <2>3, <2>4, <2>5, CompleteIsWhole
<1>7. CASE Fail(t)
  BY <1>0, <1>7 DEF Fail, Answer, SetStatus, TypeOK, Whole
<1> QED BY <1>1, <1>2, <1>3, <1>4, <1>5, <1>6, <1>7 DEF TurnStep

LEMMA Wholes ==
    ASSUME IInv, [Next]_vars
    PROVE  \A u \in Tasks : Whole(u)'
<1> SUFFICES ASSUME NEW u \in Tasks PROVE Whole(u)'
  OBVIOUS
<1>0. /\ TypeOK /\ Whole(u)
      /\ pc \in [Tasks -> PCs] /\ state \in [Tasks -> States]
  BY DEF IInv, TypeOK
<1> USE DEF Whole, turnVars
<1>2. ASSUME NEW t \in Tasks, Sends(t)
      PROVE  Whole(u)'
  BY <1>0, <1>2 DEF Sends, Send, SetStatus
<1>3. ASSUME NEW t \in Tasks, NEW c \in Callers, TasksCancel(t, c)
      PROVE  Whole(u)'
  BY <1>0, <1>3 DEF TasksCancel, SetStatus
<1>4. ASSUME NEW batch \in flights, Inserted(batch)
      PROVE  Whole(u)'
  BY <1>0, <1>4 DEF Inserted
<1>5. CASE Restart
  BY <1>0, <1>5 DEF Restart
<1>6. CASE Flush \/ Cleanup \/ Tick \/ UNCHANGED vars
  BY <1>0, <1>6 DEF Flush, Cleanup, Tick, vars
<1> QED BY Kinds, TurnIsWhole, <1>2, <1>3, <1>4, <1>5, <1>6

-----------------------------------------------------------------------------
(* Spans.                                                                   *)

Spans == Apart /\ \A t \in Tasks : Span(t)

\* What leaves the spans and the turns alone.
LEMMA SpansRest ==
    ASSUME IInv, UNCHANGED spanVars, UNCHANGED sampled,
           \A u \in Tasks :
              /\ pc'[u] = "idle" => pc[u] = "idle"
              /\ Running(u)' => pc[u] = "idle" \/ Running(u)
              /\ pc'[u] = "ended" => pc[u] = "ended" /\ state'[u] = state[u]
    PROVE  Spans'
BY DEF IInv, Spans, Apart, Span, InFlight, spanVars

\* recordSpan moves a span that is nowhere yet.
LEMMA RecordPlaces ==
    ASSUME IInv, NEW t \in Tasks, Running(t), NEW s, Record(t, s)
    PROVE  /\ Apart'
           /\ UNCHANGED logged
           /\ \A u \in Tasks \ {t} : (u \in buffer \/ InFlight(u)) <=> (u \in buffer \/ InFlight(u))'
           /\ Keeps(t, s) => (t \in buffer \/ InFlight(t))'
<1> DEFINE full == buffer \cup {t}
<1>0. Apart /\ t \notin buffer /\ ~InFlight(t)
  BY DEF IInv, Span
<1>1. CASE UNCHANGED spanVars /\ ~Keeps(t, s)
  BY <1>0, <1>1 DEF Apart, InFlight, spanVars
<1>2. CASE buffer' = full /\ UNCHANGED <<flights, logged>>
  BY <1>0, <1>2 DEF Apart, InFlight
<1>3. CASE buffer' = {} /\ flights' = flights \cup {full} /\ UNCHANGED logged
  <2>1. \A b \in flights : b \cap full = {}
    BY <1>0 DEF Apart, InFlight
  <2>2. Apart'
    BY <1>0, <1>3, <2>1 DEF Apart
  <2>3. \A u \in Tasks : InFlight(u)' <=> InFlight(u) \/ u \in full
    BY <1>3 DEF InFlight
  <2> QED BY <1>3, <2>2, <2>3
<1>4. \/ UNCHANGED spanVars /\ ~Keeps(t, s)
      \/ buffer' = full /\ UNCHANGED <<flights, logged>>
      \/ buffer' = {} /\ flights' = flights \cup {full} /\ UNCHANGED logged
  BY DEF Record
<1> QED BY <1>1, <1>2, <1>3, <1>4

LEMMA EndsTraced ==
    ASSUME IInv, NEW t \in Tasks, Running(t), Ends(t)
    PROVE  Spans'
<1>0. /\ pc \in [Tasks -> PCs] /\ state \in [Tasks -> States]
      /\ \A u \in Tasks : Span(u)
  BY DEF IInv, TypeOK
<1>1. PICK s \in {"completed", "error"} :
         Record(t, s) /\ SetStatus(t, IF s = "error" THEN "failed" ELSE "completed")
  BY DEF Ends
<1>2. /\ Apart'
      /\ UNCHANGED logged
      /\ \A u \in Tasks \ {t} : (u \in buffer \/ InFlight(u)) <=> (u \in buffer \/ InFlight(u))'
      /\ Keeps(t, s) => (t \in buffer \/ InFlight(t))'
  BY <1>1, RecordPlaces
<1>3. ASSUME NEW u \in Tasks \ {t} PROVE Span(u)'
  <2>1. /\ pc'[u] = pc[u] /\ state'[u] = state[u] /\ sampled'[u] = sampled[u]
        /\ logged'[u] = logged[u]
    BY <1>0, <1>1, <1>2 DEF Ends, Answer, SetStatus
  <2>2. (u \in buffer \/ InFlight(u)) <=> (u \in buffer \/ InFlight(u))'
    BY <1>2
  <2> QED BY <1>0, <2>1, <2>2 DEF Span, Running
<1>4. Span(t)'
  <2>1. pc'[t] = "ended" /\ state'[t] = (IF s = "error" THEN "failed" ELSE "completed")
    BY <1>0, <1>1 DEF Ends, Answer, SetStatus
  <2>2. logged'[t] = 0 /\ sampled'[t] = sampled[t]
    BY <1>0, <1>2 DEF Ends, Span
  <2>3. (state'[t] = "failed" \/ sampled'[t]) => Keeps(t, s)
    BY <1>1, <2>1, <2>2 DEF Keeps
  <2> QED BY <1>2, <2>1, <2>2, <2>3 DEF Span, Running
<1> QED BY <1>2, <1>3, <1>4 DEF Spans

LEMMA FlushTraced ==
    ASSUME IInv, Flush
    PROVE  Spans'
<1>1. \A u \in Tasks : InFlight(u)' <=> u \in buffer \/ InFlight(u)
  BY DEF Flush, InFlight
<1>2. Apart'
  BY DEF IInv, Apart, Flush
<1>3. UNCHANGED <<pc, state, sampled, logged>> /\ buffer' = {}
  BY DEF Flush, originVars
<1> QED BY <1>1, <1>2, <1>3 DEF IInv, Spans, Span, Running

\* The batches are apart, so that the rows of one are written once.
LEMMA InsertedTraced ==
    ASSUME IInv, NEW batch \in flights, Inserted(batch)
    PROVE  Spans'
<1>1. UNCHANGED <<pc, state, sampled, buffer>> /\ flights' = flights \ {batch}
  BY DEF Inserted, originVars
<1>2. Apart'
  BY <1>1 DEF IInv, Apart
<1>3. ASSUME NEW u \in Tasks PROVE Span(u)'
  <2>0. Span(u) /\ Apart /\ logged[u] \in Nat
    BY DEF IInv, TypeOK
  <2>1. CASE u \in batch
    <3>1. logged'[u] = 1 /\ ~InFlight(u)' /\ u \notin buffer
      BY <1>1, <2>0, <2>1 DEF Inserted, Span, InFlight, Apart
    <3>2. pc[u] # "idle" /\ ~Running(u)
      BY <2>0, <2>1 DEF Span, InFlight
    <3> QED BY <1>1, <3>1, <3>2 DEF Span, Running
  <2>2. CASE u \notin batch
    <3>1. logged'[u] = logged[u] /\ (InFlight(u)' <=> InFlight(u))
      BY <1>1, <2>2 DEF Inserted, InFlight
    <3> QED BY <1>1, <2>0, <3>1 DEF Span, Running
  <2> QED BY <2>1, <2>2
<1> QED BY <1>2, <1>3 DEF Spans

LEMMA RestartTraced ==
    ASSUME IInv, Restart
    PROVE  Spans'
<1>1. buffer' = {} /\ flights' = {} /\ UNCHANGED logged
  BY DEF Restart
<1>2. \A u \in Tasks : pc'[u] = IF pc[u] = "idle" THEN "idle" ELSE "lost"
  BY DEF Restart
<1> QED BY <1>1, <1>2 DEF IInv, Spans, Apart, Span, InFlight, Running

LEMMA SpanStep ==
    ASSUME IInv, [Next]_vars
    PROVE  Spans'
<1>0. pc \in [Tasks -> PCs] /\ state \in [Tasks -> States] /\ sampled \in [Tasks -> BOOLEAN]
  BY DEF IInv, TypeOK
<1>1. ASSUME NEW t \in Tasks, TurnStep(t)
      PROVE  Spans'
  <2>1. Running(t) /\ (RunsOn(t) \/ Ends(t))
    BY <1>1, TurnEffect DEF IInv
  <2>2. CASE RunsOn(t)
    BY <1>0, <2>1, <2>2, SpansRest DEF RunsOn, Running, originVars
  <2> QED BY <2>1, <2>2, EndsTraced
<1>2. ASSUME NEW t \in Tasks, Sends(t)
      PROVE  Spans'
  <2>1. /\ pc[t] = "idle" /\ pc' = [pc EXCEPT ![t] = "consulting"]
        /\ UNCHANGED spanVars
        /\ \A u \in Tasks \ {t} : state'[u] = state[u] /\ sampled'[u] = sampled[u]
    BY <1>0, <1>2 DEF Sends, Send, SetStatus
  <2>2. Apart'
    BY <2>1 DEF IInv, Apart, spanVars
  <2>3. \A u \in Tasks : Span(u)'
    BY <1>0, <2>1 DEF IInv, Span, InFlight, Running, spanVars
  <2> QED BY <2>2, <2>3 DEF Spans
<1>3. ASSUME NEW t \in Tasks, NEW c \in Callers, TasksCancel(t, c)
      PROVE  Spans'
  <2>1. \A u \in Tasks : pc[u] = "ended" => u # t
    BY <1>3 DEF TasksCancel, Cancels, IInv, StatusOfTurn
  <2> QED BY <1>0, <1>3, <2>1, SpansRest DEF TasksCancel, SetStatus, Running, originVars
<1>4. CASE Cleanup \/ Tick \/ UNCHANGED vars
  BY <1>0, <1>4, SpansRest DEF Cleanup, Tick, vars, Running, originVars
<1> QED BY Kinds, FlushTraced, InsertedTraced, RestartTraced, <1>1, <1>2, <1>3, <1>4

LEMMA Inductive == IInv /\ [Next]_vars => IInv'
<1> SUFFICES ASSUME IInv, [Next]_vars PROVE IInv'
  OBVIOUS
<1>1. TypeOK'
  BY Types DEF IInv
<1> QED BY <1>1, Statuses, Times, Wholes, SpanStep DEF IInv, Spans

-----------------------------------------------------------------------------
(* Apart batches count one span once.                                       *)
LEMMA TracesOf ==
    ASSUME IInv, NEW t \in Tasks
    PROVE  Traces(t) = IF t \in buffer \/ InFlight(t) \/ logged[t] = 1 THEN 1 ELSE 0
<1> DEFINE batches == {b \in flights : t \in b}
<1>0. Apart /\ Span(t) /\ logged[t] \in Nat
  BY DEF IInv, TypeOK
<1>1. CASE InFlight(t)
  <2>1. PICK b \in flights : t \in b
    BY <1>1 DEF InFlight
  <2>2. batches = {b}
    BY <1>0, <2>1 DEF Apart
  <2>3. Cardinality(batches) = 1
    BY <2>2, FS_Singleton
  <2>4. t \notin buffer /\ logged[t] = 0
    BY <1>0, <1>1, <2>1 DEF Apart, Span
  <2> QED BY <1>1, <2>3, <2>4 DEF Traces
<1>2. CASE ~InFlight(t)
  <2>1. batches = {}
    BY <1>2 DEF InFlight
  <2>2. Cardinality(batches) = 0
    BY <2>1, FS_EmptySet
  <2>3. t \in buffer => logged[t] = 0
    BY <1>0 DEF Span
  <2>4. logged[t] \in {0, 1}
    BY <1>0 DEF Span
  <2> QED BY <1>2, <2>2, <2>3, <2>4 DEF Traces
<1> QED BY <1>1, <1>2

LEMMA Consequences ==
    ASSUME IInv
    PROVE  AnswerComplete /\ ReadableForAnHour /\ TracedOnce
<1>1. AnswerComplete
  BY DEF IInv, Whole, AnswerComplete
<1>2. ReadableForAnHour
  BY DEF IInv, TypeOK, PCs, Timely, Running, ReadableForAnHour
<1>3. TracedOnce
  BY TracesOf DEF IInv, Span, TracedOnce
<1> QED BY <1>1, <1>2, <1>3

LEMMA FinalRests ==
    ASSUME IInv, [Next]_vars, NEW u \in Tasks,
           state[u] \in {"completed", "failed"}, pc'[u] # "lost"
    PROVE  UNCHANGED <<state[u], stamp[u], text[u]>>
<1>0. /\ pc[u] = "ended"
      /\ stamp \in [Tasks -> Nat] /\ text \in [Tasks -> Texts] /\ state \in [Tasks -> States]
  BY DEF IInv, TypeOK, PCs, StatusOfTurn, Running
<1>1. ASSUME NEW t \in Tasks, TurnStep(t)
      PROVE  UNCHANGED <<state[u], stamp[u], text[u]>>
  <2>1. t # u /\ (RunsOn(t) \/ Ends(t))
    BY <1>0, <1>1, TurnEffect DEF IInv, Running
  <2>2. state'[u] = state[u] /\ stamp'[u] = stamp[u]
    BY <1>0, <2>1 DEF RunsOn, Ends, SetStatus
  <2>3. UNCHANGED text \/ \E v : text' = [text EXCEPT ![t] = v]
    BY <1>1 DEF TurnStep, PreConsult, StartStream, TextDelta, ToolResult, StreamDone,
                RetryDone, Fail, Retry, Complete, turnVars
  <2>4. text'[u] = text[u]
    BY <1>0, <2>1, <2>3
  <2> QED BY <2>2, <2>4
<1>2. ASSUME NEW t \in Tasks, Sends(t)
      PROVE  UNCHANGED <<state[u], stamp[u], text[u]>>
  BY <1>0, <1>2 DEF Sends, Send, SetStatus, turnVars
<1>3. ASSUME NEW t \in Tasks, NEW c \in Callers, TasksCancel(t, c)
      PROVE  UNCHANGED <<state[u], stamp[u], text[u]>>
  BY <1>0, <1>3 DEF TasksCancel, Cancels, SetStatus, turnVars
<1>4. ASSUME NEW batch \in flights, Inserted(batch)
      PROVE  UNCHANGED <<state[u], stamp[u], text[u]>>
  BY <1>4 DEF Inserted, turnVars
<1>5. ~Restart
  BY <1>0 DEF Restart
<1>6. CASE Flush \/ Cleanup \/ Tick \/ UNCHANGED vars
  BY <1>6 DEF Flush, Cleanup, Tick, vars, turnVars
<1> QED BY Kinds, <1>1, <1>2, <1>3, <1>4, <1>5, <1>6

-----------------------------------------------------------------------------
THEOREM Invariance == Spec => []IInv
BY Initially, Inductive, PTL DEF Spec

(* Tasks, turns, texts and spans keep their types.                          *)
THEOREM TaskTypes == Spec => []TypeOK
<1>1. IInv => TypeOK
  BY DEF IInv
<1> QED BY <1>1, Invariance, PTL

(* A completed answer has every chart block of its tools and is not empty   *)
(* after a tool result (server/a2a/server.ts:332-399).                      *)
THEOREM AnswersComplete == Spec => []AnswerComplete
BY Consequences, Invariance, PTL

(* The timer never removes a task that runs, or that was finished within    *)
(* the hour (server/a2a/server.ts:583-594), because a turn ends within it.  *)
THEOREM TasksReadable == Spec => []ReadableForAnHour
BY Consequences, Invariance, PTL

(* However drains, inserts and turns interleave, the root span of a turn    *)
(* that ended is in one place (server/tracing/collector.ts:20-81).          *)
THEOREM SpansOnce == Spec => []TracedOnce
BY Consequences, Invariance, PTL

(* Neither a late cancel nor a handler changes a finished task.             *)
THEOREM AnswersFinal == Spec => AnsweredFinal
<1>1. IInv /\ [Next]_vars =>
        [\A t \in Tasks : state[t] \in {"completed", "failed"} /\ pc'[t] # "lost" =>
            UNCHANGED <<state[t], stamp[t], text[t]>>]_vars
  BY FinalRests
<1> QED BY <1>1, Invariance, PTL DEF Spec, AnsweredFinal

=============================================================================
