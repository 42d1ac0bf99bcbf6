------------------------------ MODULE ChatQueue ------------------------------
(***************************************************************************)
(* The AI request queue of one workspace: the "send-message" handler of    *)
(* server/sockets/chat/index.ts, the flags and the queue it shares with    *)
(* every other socket of the workspace (chat/session.ts), and the          *)
(* "@ai-{workspace}" delegation (chat/consult.ts).                         *)
(*                                                                         *)
(* The handler is asynchronous.  Every stretch between two awaits is one   *)
(* action; while an invocation is suspended, handlers of other messages,   *)
(* of the same socket too, run.  A message stands for the invocation of    *)
(* the handler it triggers.  The places an invocation can be suspended at, *)
(* and the places it can end, are the values of pc:                        *)
(*                                                                         *)
(*   saving      workspace row and saveMessage              (85, 105)      *)
(*   lookup      the delegation reads the manifest          (consult 45)   *)
(*   bridging    bridge_workspace runs                      (consult 129)  *)
(*   preparing   past the queue check, before the stream    (162-278)      *)
(*   queued      returned; a QueuedRequest is in the queue  (142)          *)
(*   generating  the completion streams                     (316)          *)
(*   handed      shifted off the queue and emitted          (451)          *)
(*   dropped     filtered out of the queue on disconnect    (533)          *)
(*   done        returned, refused or failed                               *)
(*                                                                         *)
(* Awaits that follow one another with no shared state between them share  *)
(* one value.  The queue is the set of queued messages ordered by ticket,  *)
(* so that push, shift and filter are set operations.  next.socket.emit    *)
(* sends an event to the browser of the queued user; no client of the      *)
(* repository listens for it, so nothing follows "handed".                 *)
(***************************************************************************)
EXTENDS Naturals, FiniteSets

CONSTANTS
    Sockets,     \* connections of the workspace; a reconnect is a new socket
    Msgs,        \* messages that may be sent
    None,        \* "null"
    RateMax,     \* RATE_LIMIT_MAX
    RateWindow,  \* RATE_LIMIT_WINDOW
    MaxTime      \* bound on the clock

ASSUME NoneAssumption == None \notin Sockets \cup Msgs
ASSUME MsgsAssumption == IsFiniteSet(Msgs)
ASSUME RateAssumption == RateMax \in Nat /\ RateWindow \in Nat /\ MaxTime \in Nat

VARIABLES
    pc,            \* where each invocation is
    from,          \* the socket each message was sent on
    ticket,        \* place in the order of the pushes onto the queue, or 0
    pushes,        \* pushes so far
    processing,    \* workspaceProcessing.get(wsId)
    isGenerating,  \* socket.isGenerating
    controller,    \* socket.abortController: the invocation it belongs to
    aborted,       \* invocations whose controller was aborted
    connected,     \* sockets that are connected
    stamps,        \* aiMessageTimestamps: the messages whose stamp is kept
    stampedAt,     \* the time a message passed the rate limit, or None
    now            \* Date.now()

queueVars == <<ticket, pushes, processing>>
socketVars == <<isGenerating, controller, aborted>>
rateVars == <<stamps, stampedAt>>
vars == <<pc, from, queueVars, socketVars, connected, rateVars, now>>

PC == {"unsent", "saving", "lookup", "bridging", "preparing", "queued",
       "generating", "handed", "dropped", "done"}

TypeOK ==
    /\ pc \in [Msgs -> PC]
    /\ from \in [Msgs -> Sockets \cup {None}]
    /\ ticket \in [Msgs -> Nat]
    /\ pushes \in Nat
    /\ processing \in BOOLEAN
    /\ isGenerating \in [Sockets -> BOOLEAN]
    /\ controller \in [Sockets -> Msgs \cup {None}]
    /\ aborted \subseteq Msgs
    /\ connected \subseteq Sockets
    /\ stamps \in [Sockets -> SUBSET Msgs]
    /\ stampedAt \in [Msgs -> Nat \cup {None}]
    /\ now \in Nat

Init ==
    /\ pc = [m \in Msgs |-> "unsent"]
    /\ from = [m \in Msgs |-> None]
    /\ ticket = [m \in Msgs |-> 0]
    /\ pushes = 0
    /\ processing = FALSE
    /\ isGenerating = [s \in Sockets |-> FALSE]
    /\ controller = [s \in Sockets |-> None]
    /\ aborted = {}
    /\ connected = Sockets
    /\ stamps = [s \in Sockets |-> {}]
    /\ stampedAt = [m \in Msgs |-> None]
    /\ now = 0

-----------------------------------------------------------------------------
Goto(m, label) == pc' = [pc EXCEPT ![m] = label]

\* getQueue(wsId), and the request that shift() takes from it.
Queue == {m \in Msgs : pc[m] = "queued"}
IsHeadOfStack(m) == m \in Queue /\ \A k \in Queue : ticket[m] >= ticket[k]  \* mutant
IsHead(m) == m \in Queue /\ \A k \in Queue : ticket[m] <= ticket[k]

\* The stamps still in the window once the handler has shifted the old ones.
RecentExclusive(s) == {k \in stamps[s] : now - stampedAt[k] < RateWindow}  \* mutant
Recent(s) == {k \in stamps[s] : now - stampedAt[k] <= RateWindow}

\* The rate limit of a message that addresses an AI: drop the stamps that
\* left the window, refuse at the limit, else push the current time.
OverLimit(s) == Cardinality(Recent(s)) >= RateMax
Stamp(m) ==
    /\ ~OverLimit(from[m])
    /\ stamps' = [stamps EXCEPT ![from[m]] = Recent(from[m]) \cup {m}]
    /\ stampedAt' = [stampedAt EXCEPT ![m] = now]

-----------------------------------------------------------------------------
\* A user sends m; the handler runs up to its first await.
Send(s, m) ==
    /\ s \in connected
    /\ pc[m] = "unsent"
    /\ from' = [from EXCEPT ![m] = s]
    /\ Goto(m, "saving")
    /\ UNCHANGED <<queueVars, socketVars, connected, rateVars, now>>

\* The message is saved but addresses no AI, or it was rejected by the
\* validation, or saving it failed.
Ignore(m) ==
    /\ pc[m] = "saving"
    /\ Goto(m, "done")
    /\ UNCHANGED <<from, queueVars, socketVars, connected, rateVars, now>>

RateLimited(m) ==
    /\ pc[m] = "saving"
    /\ OverLimit(from[m])
    /\ stamps' = [stamps EXCEPT ![from[m]] = Recent(from[m])]
    /\ Goto(m, "done")
    /\ UNCHANGED <<from, queueVars, socketVars, connected, stampedAt, now>>

\* "@ai-{workspace}": the turn goes to handleBridgeDelegation, which never
\* looks at the queue of the workspace.
Delegate(m) ==
    /\ pc[m] = "saving"
    /\ Stamp(m)
    /\ Goto(m, "lookup")
    /\ UNCHANGED <<from, queueVars, socketVars, connected, now>>

\* The per-socket guard.
RefuseBusy(m) ==
    /\ pc[m] = "saving"
    /\ Stamp(m)
    /\ isGenerating[from[m]]
    /\ Goto(m, "done")
    /\ UNCHANGED <<from, queueVars, socketVars, connected, now>>

Enqueue(m) ==
    /\ pc[m] = "saving"
    /\ Stamp(m)
    /\ ~isGenerating[from[m]]
    /\ processing
    /\ pushes' = pushes + 1
    /\ ticket' = [ticket EXCEPT ![m] = pushes + 1]
    /\ isGenerating' = [isGenerating EXCEPT ![from[m]] = TRUE]
    /\ Goto(m, "queued")
    /\ UNCHANGED <<from, processing, controller, aborted, connected, now>>

\* Mutant: the flag goes up with the check, and a refusal forgets it.
PrepareRaisingFlag(m) ==
    /\ pc[m] = "saving"
    /\ Stamp(m)
    /\ ~isGenerating[from[m]]
    /\ ~processing
    /\ processing' = TRUE
    /\ Goto(m, "preparing")
    /\ UNCHANGED <<from, ticket, pushes, socketVars, connected, now>>

\* Nothing runs: the handler goes on to its checks and reads, and leaves
\* both flags down until it has finished them.
Prepare(m) ==
    /\ pc[m] = "saving"
    /\ Stamp(m)
    /\ ~isGenerating[from[m]]
    /\ ~processing
    /\ Goto(m, "preparing")
    /\ UNCHANGED <<from, queueVars, socketVars, connected, now>>

\* Hard token cap, provider not allowed, no key, or a read that failed.
RefuseRequest(m) ==
    /\ pc[m] = "preparing"
    /\ Goto(m, "done")
    /\ UNCHANGED <<from, queueVars, socketVars, connected, rateVars, now>>

StartGeneration(m) ==
    /\ pc[m] = "preparing"
    /\ processing' = TRUE
    /\ controller' = [controller EXCEPT ![from[m]] = m]
    /\ isGenerating' = [isGenerating EXCEPT ![from[m]] = TRUE]
    /\ Goto(m, "generating")
    /\ UNCHANGED <<from, ticket, pushes, aborted, connected, rateVars, now>>

\* Mutants of Release.
ReleaseKeepingFlag(m) ==
    controller' = [controller EXCEPT ![from[m]] = None] /\ processing' = processing
ReleaseKeepingController(m) == processing' = FALSE /\ controller' = controller

Release(m) ==
    /\ processing' = FALSE
    /\ controller' = [controller EXCEPT ![from[m]] = None]

\* The stream ended, failed or saw the abort: the finally block lowers the
\* flags and shifts the next request off the queue.
FinishGeneration(m) ==
    /\ pc[m] = "generating"
    /\ Release(m)
    /\ \/ /\ Queue = {}
          /\ isGenerating' = [isGenerating EXCEPT ![from[m]] = FALSE]
          /\ Goto(m, "done")
       \/ \E next \in Queue :
          /\ IsHead(next)
          /\ isGenerating' = [isGenerating EXCEPT ![from[m]] = FALSE,
                                                  ![from[next]] = FALSE]
          /\ pc' = [pc EXCEPT ![m] = "done", ![next] = "handed"]
    /\ UNCHANGED <<from, ticket, pushes, aborted, connected, rateVars, now>>

\* No text, no bridge, a busy socket or no active contract.  (For the last
\* the flag is raised and lowered again within the same step.)
RefuseBridge(m) ==
    /\ pc[m] = "lookup"
    /\ Goto(m, "done")
    /\ UNCHANGED <<from, queueVars, socketVars, connected, rateVars, now>>

StartBridge(m) ==
    /\ pc[m] = "lookup"
    /\ ~isGenerating[from[m]]
    /\ isGenerating' = [isGenerating EXCEPT ![from[m]] = TRUE]
    /\ Goto(m, "bridging")
    /\ UNCHANGED <<from, queueVars, controller, aborted, connected, rateVars, now>>

\* Mutant: the finally block forgets the flag of the socket.
FinishBridgeBusy(m) ==
    /\ pc[m] = "bridging"
    /\ controller' = [controller EXCEPT ![from[m]] = None]
    /\ Goto(m, "done")
    /\ UNCHANGED <<from, queueVars, isGenerating, aborted, connected, rateVars, now>>

FinishBridge(m) ==
    /\ pc[m] = "bridging"
    /\ isGenerating' = [isGenerating EXCEPT ![from[m]] = FALSE]
    /\ controller' = [controller EXCEPT ![from[m]] = None]
    /\ Goto(m, "done")
    /\ UNCHANGED <<from, queueVars, aborted, connected, rateVars, now>>

-----------------------------------------------------------------------------
\* abortController.abort() of the socket, if it has one.
Abort(s) == aborted' = aborted \cup ({controller[s]} \ {None})

StopGeneration(s) ==
    /\ s \in connected
    /\ controller[s] # None
    /\ Abort(s)
    /\ UNCHANGED <<pc, from, queueVars, isGenerating, controller, connected,
                   rateVars, now>>

\* Handlers of the socket that are suspended are not cancelled.
Disconnect(s) ==
    /\ s \in connected
    /\ connected' = connected \ {s}
    /\ Abort(s)
    /\ pc' = [m \in Msgs |-> IF m \in Queue /\ from[m] = s THEN "dropped"
                                                           ELSE pc[m]]
    /\ UNCHANGED <<from, queueVars, isGenerating, controller, rateVars, now>>

Tick ==
    /\ now < MaxTime
    /\ now' = now + 1
    /\ UNCHANGED <<pc, from, queueVars, socketVars, connected, rateVars>>

-----------------------------------------------------------------------------
HandlerStep(m) ==
    \/ Ignore(m) \/ RateLimited(m) \/ Delegate(m) \/ RefuseBusy(m)
    \/ Enqueue(m) \/ Prepare(m) \/ RefuseRequest(m) \/ StartGeneration(m)
    \/ FinishGeneration(m) \/ RefuseBridge(m) \/ StartBridge(m)
    \/ FinishBridge(m)

Next ==
    \/ \E s \in Sockets, m \in Msgs : Send(s, m)
    \/ \E m \in Msgs : HandlerStep(m)
    \/ \E s \in Sockets : StopGeneration(s) \/ Disconnect(s)
    \/ Tick

Spec == Init /\ [][Next]_vars

\* An await of the handler settles, and a stream ends: database calls and
\* HTTP requests resolve or reject, and every provider loop is capped.
Fairness == \A m \in Msgs : WF_vars(HandlerStep(m))
FairSpec == Spec /\ Fairness

-----------------------------------------------------------------------------
Generating == {m \in Msgs : pc[m] = "generating"}

\* The processing flag is never up without a generation that will lower it
\* in its finally block, whatever generations overlapped and whichever of
\* them ended first: the workspace cannot be left queueing for nobody.
ProcessingHasOwner == processing => Generating # {}

\* A connected user whose isGenerating is up owns a queued request, a
\* running generation or a running delegation: the guard at index.ts:134
\* never locks out a user for whom nothing is pending.
BusySocketHasWork ==
    \A s \in connected : isGenerating[s] =>
        \E m \in Msgs : from[m] = s /\ pc[m] \in {"queued", "generating", "bridging"}

\* The abort controller a socket holds is that of a generation of its own
\* that still streams, so stop-generation and disconnect never abort a
\* finished generation or one of another user.
ControllerIsLive ==
    \A s \in Sockets : controller[s] # None =>
        pc[controller[s]] = "generating" /\ from[controller[s]] = s

\* Requests leave the queue in the order they were pushed: once a request
\* has been handed on, no request queued before it still waits, whatever
\* disconnects filtered the queue in between.
NoOvertaking ==
    \A a, b \in Msgs :
        ticket[a] # 0 /\ ticket[a] < ticket[b] /\ pc[b] = "handed" => pc[a] # "queued"

\* The messages of m's socket that passed the limit in the window m opens.
WindowFrom(m) ==
    {k \in Msgs : /\ from[k] = from[m]
                  /\ stampedAt[k] # None
                  /\ stampedAt[k] \in stampedAt[m] .. (stampedAt[m] + RateWindow)}

\* No socket passes the rate limit more than RateMax times in any window of
\* RateWindow, although several of its messages are handled concurrently.
RateRespected ==
    \A m \in Msgs : stampedAt[m] # None => Cardinality(WindowFrom(m)) <= RateMax

\* The workspace's processing flag is always lowered again: no generation,
\* aborted or failed or overlapping another, leaves it up for good.
ProcessingEnds == processing ~> ~processing

-----------------------------------------------------------------------------
(* What the sources say and the code does not keep; see the README.         *)

\* index.ts:145: "The AI will respond when the current request finishes."
QueuedRequestRuns ==
    \A m \in Msgs : (pc[m] = "queued") ~> (pc[m] = "generating" \/ from[m] \notin connected)
=============================================================================
