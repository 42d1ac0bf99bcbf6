------------------------------ MODULE ToolLoop ------------------------------
(***************************************************************************)
(* One turn of the assistant: streamCompletion of server/services/ai with  *)
(* the tool loop of its five providers, the circuit breaker of loop.ts     *)
(* they share, and the consumer of the events, the chat handler (sockets/  *)
(* chat/index.ts) or a task of another agent (a2a/server.ts).              *)
(*                                                                         *)
(* The loop is an asynchronous generator.  Where it is suspended:          *)
(*   top      between two rounds, or at its last event of a round          *)
(*   request  the request to the provider is under way                     *)
(*   stream   the answer streams                                           *)
(*   calls    tools were asked for; the next ones have not started         *)
(*   tools    tools run                                                    *)
(*   ended    it returned, or was left by its consumer                     *)
(*                                                                         *)
(* A call asks a target for an action: for intent_bridge a workspace and   *)
(* an operation; another tool is a target with a single action.  An        *)
(* aggregate may bring any other action of its target as a step.  Calls of *)
(* one round run one after the other with Anthropic and all at once with   *)
(* the others, and are listed in the order their results are recorded.     *)
(***************************************************************************)
EXTENDS Naturals, Sequences

CONSTANTS
    Providers,    \* providers to choose from
    Targets,      \* what the breaker keeps apart
    Actions,
    Absent,       \* targets that do not exist, or refuse every signature
    Permitted,    \* calls the contract with the target allows
    Existing,     \* calls of tools and capabilities that the target has
    Aggregates,   \* calls that bring others of their target as steps
    Width,        \* bound on the calls of a round
    MaxRounds,    \* maxToolRounds
    MaxFailures,  \* MAX_TOOL_FAILURES
    PermFail,     \* PERM_FAIL
    None

Calls == [to : Targets, act : Actions]
AllProviders == {"openai", "anthropic", "google", "vertexai", "ollama"}

ASSUME ProvidersAssumption == Providers \subseteq AllProviders
ASSUME TargetsAssumption ==
    /\ Absent \subseteq Targets
    /\ Permitted \subseteq Calls /\ Existing \subseteq Calls /\ Aggregates \subseteq Calls
    /\ Targets \cap Calls = {}
ASSUME BoundsAssumption ==
    /\ {Width, MaxRounds, MaxFailures, PermFail} \subseteq Nat
    /\ 0 < Width /\ 0 < MaxRounds /\ 0 < MaxFailures /\ MaxFailures <= PermFail
ASSUME NoneAssumption == None \notin {"done", "error"}

VARIABLES
    provider,  \* of the turn
    consumer,  \* who reads the events
    pc,
    round,
    requests,  \* requests sent to the provider
    model,     \* activeModel: as requested, or the fallback of Vertex AI
    nudged,    \* composeNudged
    calls,     \* the calls of the round
    done,      \* how many of them have their result
    blocked,   \* those the breaker answered
    failures,  \* toolFailures: the count of each key
    tries,     \* the errors recorded at each key
    flaws,     \* what happened in this turn, whatever the keys: how often a
               \* target failed or denied a call,
    useless,   \* the targets that gave an error no retry can mend,
    rejected,  \* and the calls turned away at a door
    aborted,   \* signal.aborted
    event      \* the last event: "done" or "error"

turnVars == <<provider, consumer>>
roundVars == <<calls, done, blocked>>
breakerVars == <<failures, tries, flaws, useless, rejected>>
vars == <<turnVars, pc, round, requests, model, nudged, roundVars, breakerVars, aborted, event>>

\* Keys of the breaker: a target, or one action of a target.
Keys == Targets \cup Calls
Errors == {"transient", "denied", "unpermitted", "unknown", "gone"}
Batches == UNION {[1..n -> Calls] : n \in 1..Width}

TypeOK ==
    /\ provider \in Providers
    /\ consumer \in {"chat", "task"}
    /\ pc \in {"top", "request", "stream", "calls", "tools", "ended"}
    /\ round \in 0..MaxRounds
    /\ requests \in Nat
    /\ model \in {"requested", "fallback"}
    /\ nudged \in BOOLEAN
    /\ calls \in Seq(Calls) /\ Len(calls) <= Width
    /\ done \in 0..Len(calls)
    /\ pc \in {"calls", "tools"} => done < Len(calls)
    /\ blocked \subseteq 1..Len(calls)
    /\ failures \in [Keys -> Nat]
    /\ tries \in [Keys -> Nat]
    /\ flaws \in [Targets -> Nat]
    /\ useless \subseteq Targets
    /\ rejected \subseteq Calls
    /\ aborted \in BOOLEAN
    /\ event \in {"done", "error", None}

\* Vertex AI starts with its fallback while it cools down from a 429.
Init ==
    /\ provider \in Providers
    /\ consumer \in {"chat", "task"}
    /\ pc = "top"
    /\ round = 0 /\ requests = 0
    /\ model = "requested" \/ (model = "fallback" /\ provider = "vertexai")
    /\ nudged = FALSE
    /\ calls = <<>> /\ done = 0 /\ blocked = {}
    /\ failures = [k \in Keys |-> 0]
    /\ tries = [k \in Keys |-> 0]
    /\ flaws = [t \in Targets |-> 0]
    /\ useless = {} /\ rejected = {}
    /\ aborted = FALSE
    /\ event = None

-----------------------------------------------------------------------------
\* The chat handler leaves at the first event after an abort.
Leaving == consumer = "chat" /\ aborted

NoCalls == calls' = <<>> /\ done' = 0 /\ blocked' = {}

End(e) ==
    /\ pc' = "ended"
    /\ event' = e
    /\ NoCalls
    /\ UNCHANGED <<round, requests, model, nudged>>

\* mutant: the signal is not looked at between rounds
StartRoundUnchecked ==
    /\ pc = "top"
    /\ IF round = MaxRounds THEN End("done")
       ELSE /\ requests' = requests + 1
            /\ pc' = "request"
            /\ UNCHANGED <<round, model, nudged, roundVars, event>>
    /\ UNCHANGED <<turnVars, breakerVars, aborted>>

\* The head of the loop.  Vertex AI also gives up after two minutes.
StartRound ==
    /\ pc = "top"
    /\ \/ /\ aborted \/ round = MaxRounds \/ (provider = "vertexai" /\ round > 0)
          /\ End("done")
       \/ /\ ~aborted /\ round < MaxRounds
          /\ requests' = requests + 1
          /\ pc' = "request"
          /\ UNCHANGED <<round, model, nudged, roundVars, event>>
    /\ UNCHANGED <<turnVars, breakerVars, aborted>>

\* The provider is not reached, answers with an error, or its stream or
\* the arguments of a call are cut off.  An AbortError is a "done" event;
\* Vertex AI is not given the signal.
Fail ==
    /\ pc \in {"request", "stream"}
    /\ \/ End("error")
       \/ aborted /\ provider # "vertexai" /\ End("done")
    /\ UNCHANGED <<turnVars, breakerVars, aborted>>

\* mutant: the model stays the same
FallbackToItself ==
    /\ pc = "request" /\ provider = "vertexai" /\ model = "requested" /\ ~Leaving
    /\ requests' = requests + 1
    /\ UNCHANGED <<turnVars, pc, round, model, nudged, roundVars, breakerVars, aborted, event>>

\* A 429: the round is tried again with the fallback model, unless the
\* consumer leaves at the event that announces it.
Fallback ==
    /\ pc = "request" /\ provider = "vertexai" /\ model = "requested" /\ ~Leaving
    /\ model' = "fallback"
    /\ requests' = requests + 1
    /\ UNCHANGED <<turnVars, pc, round, nudged, roundVars, breakerVars, aborted, event>>

Accept ==
    /\ pc = "request"
    /\ pc' = "stream"
    /\ UNCHANGED <<turnVars, round, requests, model, nudged, roundVars, breakerVars, aborted, event>>

\* The model asks for no tool, or Anthropic stopped for another reason, or
\* Vertex AI sees the abort.
Answer ==
    /\ pc = "stream"
    /\ End("done")
    /\ UNCHANGED <<turnVars, breakerVars, aborted>>

\* OpenAI: after some rounds of tools there is hardly any text.
Nudge ==
    /\ pc = "stream" /\ provider = "openai"
    /\ ~nudged /\ round >= 2 /\ round < MaxRounds - 1
    /\ nudged' = TRUE
    /\ round' = round + 1
    /\ pc' = "top"
    /\ UNCHANGED <<turnVars, requests, model, roundVars, breakerVars, aborted, event>>

\* A provider may name tools also in the last round, which offers none.
AskTools ==
    /\ pc = "stream"
    /\ ~(provider = "vertexai" /\ aborted)
    /\ calls' \in Batches
    /\ done' = 0 /\ blocked' = {}
    /\ pc' = "calls"
    /\ UNCHANGED <<turnVars, round, requests, model, nudged, breakerVars, aborted, event>>

-----------------------------------------------------------------------------
(* The circuit breaker. *)

\* mutant: one failure more
TrippedLate(c) == failures[c.to] > MaxFailures \/ failures[c] > MaxFailures

\* trippedBreakerKey
Tripped(c) == failures[c.to] >= MaxFailures \/ failures[c] >= MaxFailures

\* What is executed for c.
Steps(c) == IF c \in Aggregates THEN {d \in Calls : d.to = c.to} ELSE {c}

\* What executing c can return:
\*   gone         no such target, or its door refuses the contract
\*   unknown      it does not have the tool or the capability
\*   unpermitted  its door rejects the action
\*   denied       its route or its executor denies the action, or a step
\*   transient    anything else that goes wrong
\* The first three match a pattern of errors that are not transient.
Results(c) ==
    {r \in Errors \cup {"ok"} :
        /\ c.to \in Absent => r = "gone"
        /\ r = "unknown" => ~(Steps(c) \subseteq Existing)
        /\ r = "denied" => ~(Steps(c) \subseteq Permitted)
        /\ r = "unpermitted" => c \notin Permitted
        /\ r = "ok" => c \in Permitted \cap Existing}

\* mutant: every error counts against the target
KeyOfTarget(c, r) == c.to

\* The key an error is recorded at.
KeyOf(c, r) == IF r = "unpermitted" THEN c ELSE c.to

\* checkToolResult.  A denial counts like a failure: its text matches none
\* of the patterns.
Record(c, r) ==
    \/ r = "ok" /\ UNCHANGED breakerVars
    \/ /\ r # "ok"
       /\ failures' = [failures EXCEPT ![KeyOf(c, r)] =
                          IF r \in {"transient", "denied"} THEN @ + 1 ELSE PermFail]
       /\ tries' = [tries EXCEPT ![KeyOf(c, r)] = @ + 1]
       /\ flaws' = [flaws EXCEPT ![c.to] =
                       IF r \in {"transient", "denied"} THEN @ + 1 ELSE @]
       /\ useless' = useless \cup {t \in {c.to} : r \in {"gone", "unknown"}}
       /\ rejected' = rejected \cup {d \in {c} : r = "unpermitted"}

-----------------------------------------------------------------------------
Serial == provider = "anthropic"

\* Events come between rounds, while the answer streams, with a fallback,
\* before calls and with their results; those of Gemini all at the end.
Leave ==
    /\ Leaving
    /\ \/ pc \in {"top", "stream", "calls"}
       \/ pc = "request" /\ provider = "vertexai" /\ model = "requested"
       \/ pc = "tools" /\ provider \notin {"google", "vertexai"}
    /\ End(None)
    /\ UNCHANGED <<turnVars, breakerVars, aborted>>

\* The next result is there: the next call, or the next round.  The breaker
\* has answered the calls in b.
Advance(b) ==
    /\ \/ /\ done + 1 = Len(calls)
          /\ pc' = "top" /\ round' = round + 1
          /\ NoCalls
       \/ /\ done + 1 < Len(calls)
          /\ pc' = IF Serial THEN "calls" ELSE "tools"
          /\ done' = done + 1 /\ blocked' = b
          /\ UNCHANGED <<round, calls>>
    /\ UNCHANGED <<turnVars, requests, model, nudged, aborted, event>>

\* mutant: the consumer does not look at the signal
BeginAnyway ==
    /\ pc = "calls" /\ ~Serial
    /\ blocked' = {i \in 1..Len(calls) : Tripped(calls[i])}
    /\ pc' = "tools"
    /\ UNCHANGED <<turnVars, round, requests, model, nudged, calls, done, breakerVars, aborted, event>>

\* All calls of the round pass the breaker before the first one runs.
Begin ==
    /\ pc = "calls" /\ ~Serial /\ ~Leaving
    /\ blocked' = {i \in 1..Len(calls) : Tripped(calls[i])}
    /\ pc' = "tools"
    /\ UNCHANGED <<turnVars, round, requests, model, nudged, calls, done, breakerVars, aborted, event>>

\* Anthropic: each passes it when its turn comes.
BeginNext ==
    /\ pc = "calls" /\ Serial /\ ~Leaving
    /\ \/ /\ Tripped(calls[done + 1])
          /\ Advance(blocked \cup {done + 1})
       \/ /\ ~Tripped(calls[done + 1])
          /\ pc' = "tools"
          /\ UNCHANGED <<turnVars, round, requests, model, nudged, calls, done, blocked, aborted, event>>
    /\ UNCHANGED breakerVars

\* mutant: a blocked call has no result
DeliverUnblocked ==
    /\ pc = "tools"
    /\ done + 1 \notin blocked
    /\ \E r \in Results(calls[done + 1]) : Record(calls[done + 1], r)
    /\ Advance(blocked)

\* The result of the next call, from the tool or from the breaker.
Deliver ==
    /\ pc = "tools"
    /\ \/ done + 1 \in blocked /\ UNCHANGED breakerVars
       \/ /\ done + 1 \notin blocked
          /\ \E r \in Results(calls[done + 1]) : Record(calls[done + 1], r)
    /\ Advance(blocked)

\* A tool throws something else than that it is unknown or not enabled.
Throw ==
    /\ pc = "tools" /\ done + 1 \notin blocked
    /\ End("error")
    /\ UNCHANGED <<turnVars, breakerVars, aborted>>

\* The user stops the generation, or the task has run for four minutes.
Abort ==
    /\ pc # "ended" /\ ~aborted
    /\ aborted' = TRUE
    /\ UNCHANGED <<turnVars, pc, round, requests, model, nudged, roundVars, breakerVars, event>>

-----------------------------------------------------------------------------
Step ==
    \/ StartRound \/ Fail \/ Fallback \/ Accept \/ Answer \/ Nudge \/ AskTools
    \/ Leave \/ Begin \/ BeginNext \/ Deliver \/ Throw

Next == Step \/ Abort

Spec == Init /\ [][Next]_vars

\* Requests have timeouts, and every call of a tool is taken to settle, also
\* where the tool sets itself no limit.
FairSpec == Spec /\ WF_vars(Step)

-----------------------------------------------------------------------------
(* Properties. *)

\* "Has failed N times, will not be retried": a turn records no more errors
\* at a key than the limit allows, give or take the calls that were started
\* together with the one that tripped the breaker; at the key of a rejected
\* action, and of a target that is gone, none but those.
Together == IF Serial THEN 1 ELSE Width
BreakerTrips ==
    /\ \A k \in Keys : tries[k] < MaxFailures + Together
    /\ \A t \in Absent : tries[t] <= Together
    /\ \A c \in Calls : tries[c] <= Together

HasCause(c) == c \in rejected \/ c.to \in useless \/ flaws[c.to] >= MaxFailures

\* A call is answered by the breaker only for a cause that lies in the turn
\* before it: this very call was turned away at the door, or its target gave
\* an error no retry can mend, or failed or denied calls as often as the
\* limit says.  A rejected action blocks no other (loop.ts:84-92), and one
\* target's failures block no call of another (118-123).
BlockedForCause == \A i \in blocked : HasCause(calls[i])

\* After the user's stop nothing more is sent to the provider; after the
\* timeout of a task only a request to the fallback model, in place of one
\* that was under way.
StopSendsNothing ==
    [][aborted /\ requests' # requests => consumer = "task" /\ pc = "request"]_vars

\* After the user's stop no tool starts.
StopStartsNothing == [][Leaving /\ pc' = "tools" => pc = "tools"]_vars

\* The provider is asked once per round and once more for a fallback.
RequestsBounded == requests <= MaxRounds + 1

\* Every turn ends, however the model keeps asking for tools.
TurnEnds == <>(pc = "ended")
=============================================================================
