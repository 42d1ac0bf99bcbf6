------------------------------- MODULE A2aTasks -------------------------------
(***************************************************************************)
(* The tasks of the A2A endpoint: POST /a2a with message/send, tasks/get   *)
(* and tasks/cancel (server/routes/a2a.ts), the turn that message/send     *)
(* runs and the store it keeps (server/a2a/server.ts), and the spans it    *)
(* leaves behind (server/tracing).                                         *)
(*                                                                         *)
(* message/send answers when its turn has ended.  Meanwhile other requests *)
(* read and cancel tasks, and the timer removes old ones.  A turn is at:   *)
(*                                                                         *)
(*   idle        not sent yet                                              *)
(*   consulting  the pre-consults run                          (199-223)   *)
(*   streaming   the completion streams                        (245-330)   *)
(*   retrying    the synthesis prompt streams, without tools   (379-385)   *)
(*   ended       answered                                                  *)
(*   lost        its process stopped                                       *)
(*                                                                         *)
(* A text is its length and the chart blocks it contains.  Lengths are in  *)
(* units of 100 characters, so that Follow is 1 and Substantial 15 in the  *)
(* code.  The generator ends with "done" or "error" (services/ai); after   *)
(* the abort at 240 s it ends with a "done" whose text may be empty.       *)
(***************************************************************************)
EXTENDS Naturals, FiniteSets

CONSTANTS
    Tasks,        \* task ids
    Tenants,      \* workspaces a pooled process serves
    Charts,       \* chart blocks a render_chart call can return
    None,         \* "undefined"
    MaxText,      \* bound on the length of the text of each turn
    MaxTools,     \* bound on the tool results of each turn
    Follow,       \* a text longer than this is kept before a further tool call
    Substantial,  \* a kept text longer than this may replace the final one
    Hour,         \* age at which a finished task is removed
    TurnLimit,    \* the longest a turn takes: every await has a time limit
    BatchSize,    \* FLUSH_BATCH_SIZE
    MaxTime       \* bound on the clock

ASSUME NoneAssumption == None \notin Tenants
ASSUME FiniteAssumption == IsFiniteSet(Tasks) /\ IsFiniteSet(Charts)
ASSUME LengthAssumption ==
    /\ MaxText \in [Tasks -> Nat]
    /\ MaxTools \in [Tasks -> Nat]
    /\ Follow \in Nat
    /\ Substantial \in Nat
ASSUME TimeAssumption ==
    Hour \in Nat /\ TurnLimit \in Nat /\ MaxTime \in Nat /\ TurnLimit <= Hour
ASSUME BatchAssumption == BatchSize \in Nat \ {0}

VARIABLES
    mode,       \* how the process is deployed
    pc,         \* where each turn is
    startedAt,  \* when it began
    store,      \* the keys of taskStore
    state,      \* task.status.state
    stamp,      \* task.status.timestamp
    tenant,     \* task.tenantWsId
    tools,      \* toolResults.length
    charts,     \* injectedChartBlocks
    text,       \* fullText
    snapshot,   \* snapshotText
    sampled,    \* rootSpan._sampled
    buffer,     \* spanBuffer: the tasks whose root span is in it
    flights,    \* the batches being inserted
    logged,     \* how often the root span of a task was written
    now

turnVars == <<tools, charts, text, snapshot>>
originVars == <<startedAt, tenant, sampled>>
spanVars == <<buffer, flights, logged>>
vars == <<mode, pc, store, state, stamp, originVars, turnVars, spanVars, now>>

Modes == {"dedicated", "domain", "pooled"}
PCs == {"idle", "consulting", "streaming", "retrying", "ended", "lost"}
States == {"none", "submitted", "working", "completed", "failed", "canceled"}
Callers == Tenants \cup {None}
Texts == [len : Nat, charts : SUBSET Charts]
Empty == [len |-> 0, charts |-> {}]

TypeOK ==
    /\ mode \in Modes
    /\ pc \in [Tasks -> PCs]
    /\ startedAt \in [Tasks -> Nat]
    /\ store \subseteq Tasks
    /\ state \in [Tasks -> States]
    /\ stamp \in [Tasks -> Nat]
    /\ tenant \in [Tasks -> Callers]
    /\ tools \in [Tasks -> Nat]
    /\ charts \in [Tasks -> SUBSET Charts]
    /\ text \in [Tasks -> Texts]
    /\ snapshot \in [Tasks -> Texts]
    /\ sampled \in [Tasks -> BOOLEAN]
    /\ buffer \subseteq Tasks
    /\ flights \subseteq SUBSET Tasks
    /\ logged \in [Tasks -> Nat]
    /\ now \in Nat

Init ==
    /\ mode \in Modes
    /\ pc = [t \in Tasks |-> "idle"]
    /\ startedAt = [t \in Tasks |-> 0]
    /\ store = {}
    /\ state = [t \in Tasks |-> "none"]
    /\ stamp = [t \in Tasks |-> 0]
    /\ tenant = [t \in Tasks |-> None]
    /\ tools = [t \in Tasks |-> 0]
    /\ charts = [t \in Tasks |-> {}]
    /\ text = [t \in Tasks |-> Empty]
    /\ snapshot = [t \in Tasks |-> Empty]
    /\ sampled = [t \in Tasks |-> TRUE]
    /\ buffer = {}
    /\ flights = {}
    /\ logged = [t \in Tasks |-> 0]
    /\ now = 0

-----------------------------------------------------------------------------
Finished(s) == s \in {"completed", "failed", "canceled"}
Running(t) == pc[t] \in {"consulting", "streaming", "retrying"}
SetStatus(t, s) ==
    /\ state' = [state EXCEPT ![t] = s]
    /\ stamp' = [stamp EXCEPT ![t] = now]

(***************************************************************************)
(* Admission.  An API key is looked at by dedicated processes only; the    *)
(* signature of the trusted app by pooled ones; a contract everywhere, but *)
(* a domain takes no messages under a contract.  The caller's tenant is    *)
(* the one its authentication was bound to.                                *)
(***************************************************************************)
Authenticates(how, caller) ==
    CASE how = "key"      -> mode # "pooled" /\ caller = None
      [] how = "hmac"     -> mode = "pooled" /\ caller \in Tenants
      [] how = "contract" -> (mode = "pooled") = (caller \in Tenants)

\* message/send under a contract needs a message action that it grants.
Admits(how, granted) == how = "contract" => mode # "domain" /\ granted

\* The rest of the route: the parts decrypt and the workspace has a row.
Routed(how, granted, caller, found) ==
    Authenticates(how, caller) /\ Admits(how, granted) /\ found

\* startSpan: the flag of the caller's trace, and without one TRUE, because a
\* turn always names a trace and only a span without one is left to chance.
TraceHeaders == {"none", "sampled", "unsampled"}
SampledBy(header) == header # "unsampled"

\* endSpan: errors are kept whatever the flag.
Keeps(t, status) == sampled[t] \/ status # "completed"

-----------------------------------------------------------------------------
\* recordSpan: successes that are not sampled are dropped; a full buffer is
\* drained at once.  flush() drains it synchronously, then inserts.
RecordDroppingErrors(t, status) ==  \* mutant
    IF ~sampled[t] THEN UNCHANGED spanVars
    ELSE buffer' = buffer \cup {t} /\ UNCHANGED <<flights, logged>>
Record(t, status) ==
    LET full == buffer \cup {t}
    IN  IF ~Keeps(t, status) THEN UNCHANGED spanVars
        ELSE /\ buffer' = IF Cardinality(full) >= BatchSize THEN {} ELSE full
             /\ flights' = IF Cardinality(full) >= BatchSize
                           THEN flights \cup {full} ELSE flights
             /\ UNCHANGED logged

Flush ==
    /\ buffer # {}
    /\ buffer' = {}
    /\ flights' = flights \cup {buffer}
    /\ UNCHANGED <<mode, pc, store, state, stamp, originVars, turnVars, logged, now>>

\* The insert ends: the rows are in BigQuery, or on the console.
Inserted(batch) ==
    /\ batch \in flights
    /\ flights' = flights \ {batch}
    /\ logged' = [t \in Tasks |-> IF t \in batch THEN logged[t] + 1 ELSE logged[t]]
    /\ UNCHANGED <<mode, pc, store, state, stamp, originVars, turnVars, buffer, now>>

-----------------------------------------------------------------------------
(***************************************************************************)
(* message/send: the checks of the route, then processMessage up to its    *)
(* first await.                                                            *)
(***************************************************************************)
Send(t, how, granted, caller, found, header) ==
    /\ pc[t] = "idle"
    /\ Routed(how, granted, caller, found)
    /\ store' = store \cup {t}
    /\ SetStatus(t, "working")
    /\ pc' = [pc EXCEPT ![t] = "consulting"]
    /\ startedAt' = [startedAt EXCEPT ![t] = now]
    /\ tenant' = [tenant EXCEPT ![t] = caller]
    /\ sampled' = [sampled EXCEPT ![t] = SampledBy(header)]
    /\ UNCHANGED <<mode, turnVars, spanVars, now>>

\* One pre-consult: its result counts as a tool result; a failure is skipped.
PreConsult(t) ==
    /\ pc[t] = "consulting"
    /\ tools[t] < MaxTools[t]
    /\ tools' = [tools EXCEPT ![t] = @ + 1]
    /\ UNCHANGED <<mode, pc, store, state, stamp, originVars, charts, text, snapshot,
                   spanVars, now>>

StartStream(t) ==
    /\ pc[t] = "consulting"
    /\ pc' = [pc EXCEPT ![t] = "streaming"]
    /\ UNCHANGED <<mode, store, state, stamp, originVars, turnVars, spanVars, now>>

\* text-delta; a model may repeat chart blocks it was given.
TextDelta(t, echo) ==
    /\ pc[t] \in {"streaming", "retrying"}
    /\ text[t].len < MaxText[t]
    /\ echo \subseteq charts[t]
    /\ text' = [text EXCEPT ![t] = [len |-> @.len + 1, charts |-> @.charts \cup echo]]
    /\ UNCHANGED <<mode, pc, store, state, stamp, originVars, tools, charts, snapshot,
                   spanVars, now>>

\* tool-result: a chart block is set aside; a text worth keeping is kept.
ToolResult(t, blocks) ==
    /\ pc[t] = "streaming"
    /\ tools[t] < MaxTools[t]
    /\ tools' = [tools EXCEPT ![t] = @ + 1]
    /\ charts' = [charts EXCEPT ![t] = @ \cup blocks]
    /\ snapshot' = [snapshot EXCEPT ![t] = IF text[t].len > Follow THEN text[t] ELSE @]
    /\ UNCHANGED <<mode, pc, store, state, stamp, originVars, text, spanVars, now>>

-----------------------------------------------------------------------------
\* The handler returns; its locals are gone.
Answer(t) ==
    /\ pc' = [pc EXCEPT ![t] = "ended"]
    /\ startedAt' = [startedAt EXCEPT ![t] = 0]
    /\ snapshot' = [snapshot EXCEPT ![t] = Empty]

\* The end of a turn: task.status, artifacts, the root span and the answer.
Complete(t, answer) ==
    /\ SetStatus(t, "completed")
    /\ text' = [text EXCEPT ![t] = answer]
    /\ Answer(t)
    /\ Record(t, "completed")
    /\ UNCHANGED <<mode, store, tenant, sampled, tools, charts, now>>

\* An "error" event, or what throws: the reading of the pre-consults, a
\* stream, a provenance extractor.
Fail(t) ==
    /\ Running(t)
    /\ SetStatus(t, "failed")
    /\ Answer(t)
    /\ Record(t, "error")
    /\ UNCHANGED <<mode, store, tenant, sampled, tools, charts, text, now>>

\* "done" with a text of length n: a substantial snapshot that it dwarfs wins
\* over it, an empty one loses to what was streamed; the chart blocks that
\* the choice leaves out are put in front.
Prefers(t, n) == snapshot[t].len > Substantial /\ 5 * n > 9 * snapshot[t].len
Chosen(t, n, echo) ==
    IF Prefers(t, n) THEN snapshot[t]
    ELSE IF n > 0 THEN [len |-> n, charts |-> echo] ELSE text[t]
FinalTextAsChosen(t, n, echo) == Chosen(t, n, echo)  \* mutant
FinalText(t, n, echo) ==
    LET chosen == Chosen(t, n, echo)
    IN  [len    |-> chosen.len + Cardinality(charts[t] \ chosen.charts),
         charts |-> chosen.charts \cup charts[t]]

\* After the stream: tool results without a text are put to the model again.
Retry(t, final) ==
    /\ text' = [text EXCEPT ![t] = final]
    /\ pc' = [pc EXCEPT ![t] = "retrying"]
    /\ UNCHANGED <<mode, store, state, stamp, originVars, tools, charts, snapshot,
                   spanVars, now>>
StreamDone(t, n, echo) ==
    /\ pc[t] = "streaming"
    /\ echo \subseteq charts[t]
    /\ LET final == FinalText(t, n, echo)
       IN  IF final.len = 0 /\ tools[t] > 0 THEN Retry(t, final) ELSE Complete(t, final)

\* The second stream ends: "done" with n > 0, or n = 0 for an empty "done" and
\* for "error", which this loop passes over.  No text at all is replaced by
\* an apology.
RetryDone(t, n) ==
    /\ pc[t] = "retrying"
    /\ LET said == IF n > 0 THEN n ELSE text[t].len
       IN  Complete(t, [text[t] EXCEPT !.len = IF said = 0 THEN 1 ELSE said])

-----------------------------------------------------------------------------
\* getTask and cancelTask: a pooled process knows a task to its tenant only.
\* tasks/get changes nothing.
Knows(t, caller) ==
    /\ t \in store
    /\ mode = "pooled" => tenant[t] = caller

CancelsAny(t) == TRUE  \* mutant
Cancels(t) == state[t] \in {"working", "submitted"}
TasksCancel(t, caller) ==
    /\ (mode = "pooled") \/ caller = None
    /\ Knows(t, caller)
    /\ Cancels(t)
    /\ SetStatus(t, "canceled")
    /\ UNCHANGED <<mode, pc, store, originVars, turnVars, spanVars, now>>

\* The timer that removes finished tasks.
OldAtTheHour(t) == Finished(state[t]) /\ stamp[t] + Hour <= now  \* mutant
Old(t) == Finished(state[t]) /\ stamp[t] + Hour < now
Cleanup ==
    /\ \E t \in store : Old(t)
    /\ store' = {t \in store : ~Old(t)}
    /\ UNCHANGED <<mode, pc, state, stamp, originVars, turnVars, spanVars, now>>

\* The process stops and another takes its place: all of this is memory.
Restart ==
    /\ \E t \in Tasks : pc[t] \notin {"idle", "lost"}
    /\ pc' = [t \in Tasks |-> IF pc[t] = "idle" THEN "idle" ELSE "lost"]
    /\ store' = {}
    /\ buffer' = {}
    /\ flights' = {}
    /\ text' = [t \in Tasks |-> Empty]
    /\ snapshot' = [t \in Tasks |-> Empty]
    /\ charts' = [t \in Tasks |-> {}]
    /\ tools' = [t \in Tasks |-> 0]
    /\ startedAt' = [t \in Tasks |-> 0]
    /\ state' = [t \in Tasks |-> "none"]
    /\ stamp' = [t \in Tasks |-> 0]
    /\ UNCHANGED <<mode, tenant, sampled, logged, now>>

Tick ==
    /\ now < MaxTime
    /\ \A t \in Tasks : Running(t) => now < startedAt[t] + TurnLimit
    /\ now' = now + 1
    /\ UNCHANGED <<mode, pc, store, state, stamp, originVars, turnVars, spanVars>>

-----------------------------------------------------------------------------
TurnStep(t) ==
    \/ PreConsult(t)
    \/ StartStream(t)
    \/ \E echo \in SUBSET Charts :
          \/ TextDelta(t, echo)
          \/ \E n \in 0..MaxText[t] : StreamDone(t, n, echo)
    \/ \E c \in Charts : ToolResult(t, {c})
    \/ ToolResult(t, {})
    \/ \E n \in 0..MaxText[t] : RetryDone(t, n)
    \/ Fail(t)

Request(t) ==
    \/ \E how \in {"key", "hmac", "contract"}, granted, found \in BOOLEAN,
          c \in Callers, header \in TraceHeaders :
          Send(t, how, granted, c, found, header)
    \/ \E c \in Callers : TasksCancel(t, c)

Next ==
    \/ \E t \in Tasks : TurnStep(t) \/ Request(t)
    \/ \E batch \in flights : Inserted(batch)
    \/ Flush
    \/ Cleanup
    \/ Restart
    \/ Tick

Spec == Init /\ [][Next]_vars

-----------------------------------------------------------------------------
\* What a finished task says never changes again: neither a cancel that comes
\* late nor a handler that goes on touches a completed or failed task.
\* (A task cancelled while it runs does change: its handler goes on and sets
\* "completed" or "failed".)
AnsweredFinal ==
    [][\A t \in Tasks : state[t] \in {"completed", "failed"} /\ pc'[t] # "lost" =>
          UNCHANGED <<state[t], stamp[t], text[t]>>]_vars

\* A completed answer contains every chart block its tools produced, whichever
\* of the streamed, the final and the kept text was chosen, and it is not
\* empty when tools were used.
AnswerComplete ==
    \A t \in Tasks : pc[t] = "ended" /\ state[t] = "completed" =>
        /\ charts[t] \subseteq text[t].charts
        /\ tools[t] > 0 => text[t].len > 0

\* While its process lives, a task can be read from the moment it is created
\* until it has been finished for an hour; a task that is cancelled early and
\* runs on is no exception.
ReadableForAnHour ==
    \A t \in Tasks \ store : pc[t] \in {"idle", "lost"} \/ stamp[t] + Hour < now

\* The root span of a turn that ended is in the buffer, in one batch or
\* written once: the drain at the full buffer and the timed one never share
\* or drop a span, and failures are recorded whether sampled or not.
Traces(t) ==
    (IF t \in buffer THEN 1 ELSE 0)
        + Cardinality({b \in flights : t \in b}) + logged[t]
TracedOnce ==
    \A t \in Tasks :
        /\ Traces(t) <= 1
        /\ pc[t] = "ended" /\ (state[t] = "failed" \/ sampled[t]) => Traces(t) = 1

=============================================================================
