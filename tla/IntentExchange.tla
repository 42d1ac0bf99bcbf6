--------------------------- MODULE IntentExchange ---------------------------
(***************************************************************************)
(* One intent token from its sender to the workspace that executes it.     *)
(*                                                                         *)
(* The sender is the tool intent_bridge, server/tools/intentBridge.ts: one *)
(* token, sent in one request and, when the target answers that it sleeps, *)
(* woken through the control plane and sent again in a loop.  The target   *)
(* is a dedicated pod: the ingress in front of it, requireA2aAuth and      *)
(* intent/execute of server/routes/a2a.ts with verifyIntentToken and       *)
(* executeIntentToken.  Attempts are the requests; call[a] is where the    *)
(* handler of attempt a is suspended, or what it answered.  A handler goes *)
(* on when its client has given up, and requests are delivered late or in  *)
(* another order.                                                          *)
(*                                                                         *)
(* The token is built at time 0 and is good for Window.  Cryptography is   *)
(* perfect; what matters is which key is used: with PartyKey the sender    *)
(* signs with the key of its party, which the target looks up by the name  *)
(* in X-Contract-Sender.  The intent has side effects, so that the cache   *)
(* of results (read-only intents) is out of play; the store of nonces      *)
(* answers (NonceStore says what happens when it does not).                *)
(***************************************************************************)
EXTENDS Naturals, Clock

CONSTANTS
    PartyKey,      \* does the sender hold a party key for the contract?
    FirstTimeout,  \* WAKE_TIMEOUT_MS, of the first request
    WakeTimeout,   \* of the request to the control plane
    Interval,      \* WAKE_RETRY_INTERVAL_MS
    RetryTimeout,  \* INTENT_TIMEOUT_MS, of the later requests
    MaxWake,       \* MAX_WAKE_WAIT_MS
    Window,        \* expiry and freshness window of tokens and of headers
    MaxAttempts    \* bound on the number of requests

ASSUME KeyAssumption == PartyKey \in BOOLEAN
ASSUME ExchangeTimes ==
    /\ {FirstTimeout, WakeTimeout, Interval, RetryTimeout, MaxWake, Window, MaxTime} \subseteq Nat
    /\ MaxWake > 0
ASSUME AttemptsAssumption == MaxAttempts \in Nat /\ MaxAttempts > 0
ASSUME NoneAssumption ==
    None \notin {"success", "error", "denied", "expired", "replayed", "rejected",
                 "failed", "stale", "permanent", "waking"}

VARIABLES
    spc,        \* where the sender is
    deadline,   \* when its timer fires
    wakeStart,  \* wakeStart of the loop
    attempt,    \* the current attempt
    outcome,    \* what the tool returned, or None
    call,       \* call[a]: the handler of attempt a, or its answer
    sentAt,     \* X-Contract-Timestamp of each attempt
    up,         \* does the target's pod run?
    contract,   \* the contract in the target's manifest
    used,       \* is the token's nonce in the store?
    runs,       \* how often the intent was executed
    ended       \* how the execution ended

senderVars == <<spc, deadline, wakeStart, attempt, outcome>>
netVars == <<call, sentAt>>
taskVars == <<used, runs, ended>>
exchangeVars == <<senderVars, netVars, up, contract, taskVars, now>>

Attempts == 1..MaxAttempts

\* Answers with a status other than 200 and the JSON-RPC errors.
HttpErrors == {"sleeping", "unavailable", "refused"}
RpcErrors == {"expired", "replayed", "rejected"}
Results == {"success", "error", "denied"}
Handling == {"admitted", "consuming", "authorizing", "preparing", "running"}
Outcomes == Results \cup RpcErrors \cup {"failed", "stale", "permanent", "waking"}

ExchangeTypeOK ==
    /\ spc \in {"ready", "first", "waking", "paused", "retry", "done"}
    /\ deadline \in Nat /\ wakeStart \in Nat /\ now \in Nat
    /\ attempt \in 0..MaxAttempts
    /\ outcome \in Outcomes \cup {None}
    /\ call \in [Attempts -> {"unsent", "arriving", "gone"} \cup Handling
                                 \cup HttpErrors \cup RpcErrors \cup Results]
    /\ sentAt \in [Attempts -> Nat]
    /\ up \in BOOLEAN
    /\ contract \in {"granted", "narrowed", "rotated", "revoked"}
    /\ used \in BOOLEAN
    /\ runs \in Nat
    /\ ended \in {"no", "success", "error"}

ExchangeInit ==
    /\ spc = "ready" /\ deadline = 0 /\ wakeStart = 0 /\ attempt = 0
    /\ outcome = None
    /\ call = [a \in Attempts |-> "unsent"]
    /\ sentAt = [a \in Attempts |-> 0]
    /\ up \in BOOLEAN
    /\ contract = "granted"
    /\ used = FALSE /\ runs = 0 /\ ended = "no"
    /\ now = 0

-----------------------------------------------------------------------------
(* The sender. *)

Await(state, timeout) == spc' = state /\ deadline' = now + timeout

ToolReturns(o) ==
    /\ spc' = "done"
    /\ outcome' = o
    /\ UNCHANGED <<deadline, wakeStart, attempt>>

\* A request that is signed now.
Post(a) ==
    /\ attempt' = a
    /\ call' = [call EXCEPT ![a] = "arriving"]
    /\ sentAt' = [sentAt EXCEPT ![a] = now]

SendFirst ==
    /\ spc = "ready"
    /\ Post(1)
    /\ Await("first", FirstTimeout)
    /\ UNCHANGED <<wakeStart, outcome, up, contract, taskVars, now>>

\* The answer to the current request, its HTTP status and its body.
HttpAnswer == call[attempt]

FirstReply ==
    /\ spc = "first"
    /\ \/ /\ HttpAnswer = "sleeping"
          /\ Await("waking", WakeTimeout)
          /\ UNCHANGED <<wakeStart, attempt, outcome>>
       \/ HttpAnswer \in {"unavailable", "refused"} /\ ToolReturns("failed")
       \/ HttpAnswer \in RpcErrors \cup Results /\ ToolReturns(HttpAnswer)
    /\ UNCHANGED <<netVars, up, contract, taskVars, now>>

\* The request times out, or the connection or the body breaks.
FirstThrows ==
    /\ spc = "first"
    /\ ToolReturns("failed")
    /\ UNCHANGED <<netVars, up, contract, taskVars, now>>

\* wakeWorkspace resolves, also when it fails; the loop begins.
WakeReturns ==
    /\ spc = "waking"
    /\ \/ ToolReturns("stale")
       \/ /\ wakeStart' = now
          /\ Await("paused", Interval)
          /\ UNCHANGED <<attempt, outcome>>
    /\ UNCHANGED <<netVars, up, contract, taskVars, now>>

Retry ==
    /\ spc = "paused" /\ now = deadline
    /\ attempt < MaxAttempts
    /\ Post(attempt + 1)
    /\ Await("retry", RetryTimeout)
    /\ UNCHANGED <<wakeStart, outcome, up, contract, taskVars, now>>

\* mutant: the end of the loop is not checked
LoopForever ==
    /\ Await("paused", Interval)
    /\ UNCHANGED <<wakeStart, attempt, outcome>>

\* Another round, or workspaceWaking; response still is a 502 or 503.
Loop ==
    \/ /\ now - wakeStart < MaxWake
       /\ Await("paused", Interval)
       /\ UNCHANGED <<wakeStart, attempt, outcome>>
    \/ /\ now - wakeStart >= MaxWake
       /\ ToolReturns("waking")

\* A status 200 ends the loop; what breaks afterwards (the body, or its
\* signature) ends the tool, in its catch or with an error of its own.
RetryReply ==
    /\ spc = "retry"
    /\ \/ HttpAnswer \in {"sleeping", "unavailable"} /\ Loop
       \/ HttpAnswer = "refused" /\ ToolReturns("permanent")
       \/ HttpAnswer \in RpcErrors \cup Results /\ ToolReturns(HttpAnswer)
       \/ HttpAnswer \in RpcErrors \cup Results /\ ToolReturns("failed")
    /\ UNCHANGED <<netVars, up, contract, taskVars, now>>

RetryThrows ==
    /\ spc = "retry"
    /\ Loop
    /\ UNCHANGED <<netVars, up, contract, taskVars, now>>

-----------------------------------------------------------------------------
(* The target. *)

\* Handler a goes on; nothing else changes but what the step says.
Goto(a, from, to) == call[a] = from /\ call' = [call EXCEPT ![a] = to]

\* The ingress answers for a pod that is down.
Ingress(a) ==
    /\ ~up
    /\ \E r \in {"sleeping", "unavailable"} : Goto(a, "arriving", r)
    /\ UNCHANGED <<senderVars, sentAt, up, contract, taskVars, now>>

\* Does the key the target looks up verify the headers?  The loop leaves
\* X-Contract-Sender out.
KeyMatches(a) == PartyKey => a = 1

\* verifyContractRequest: the freshness of the headers.
HeadersFresh(a) == now - sentAt[a] <= Window

\* verifyIntentToken: expiry and freshness of the token, built at 0.
TokenFresh == now <= Window

\* requireA2aAuth, up to the nonce of the request, which is fresh.
Door(a) ==
    /\ up
    /\ Goto(a, "arriving",
            IF contract = "granted" /\ KeyMatches(a) /\ HeadersFresh(a)
            THEN "admitted" ELSE "refused")
    /\ UNCHANGED <<senderVars, sentAt, up, contract, taskVars, now>>

\* intent/execute up to nonceStore.add: the token is verified; its key may
\* be gone once the contract has been rotated.
Verify(a) ==
    /\ \/ ~TokenFresh /\ Goto(a, "admitted", "expired")
       \/ contract = "rotated" /\ Goto(a, "admitted", "rejected")
       \/ TokenFresh /\ Goto(a, "admitted", "consuming")
    /\ UNCHANGED <<senderVars, sentAt, up, contract, taskVars, now>>

\* mutant: the nonce is looked up and not stored
ConsumeLookup(a) ==
    /\ \/ used /\ Goto(a, "consuming", "replayed")
       \/ ~used /\ Goto(a, "consuming", "authorizing")
    /\ UNCHANGED <<senderVars, sentAt, up, contract, taskVars, now>>

\* nonceStore.add
Consume(a) ==
    /\ \/ used /\ Goto(a, "consuming", "replayed") /\ UNCHANGED used
       \/ ~used /\ Goto(a, "consuming", "authorizing") /\ used' = TRUE
    /\ UNCHANGED <<senderVars, sentAt, up, contract, runs, ended, now>>

\* Decryption and validation have passed; the manifest is read again.
Authorize(a) ==
    /\ Goto(a, "authorizing",
            CASE contract = "granted" -> "preparing"
              [] contract = "narrowed" -> "denied"
              [] OTHER -> "rejected")
    /\ UNCHANGED <<senderVars, sentAt, up, contract, taskVars, now>>

\* getWorkspace, the signer and the checks of executeIntentToken; the
\* lookups may throw, a prerequisite may deny.
Execute(a) ==
    /\ \/ \E r \in {"denied", "error"} : Goto(a, "preparing", r) /\ UNCHANGED runs
       \/ Goto(a, "preparing", "running") /\ runs' = runs + 1
    /\ UNCHANGED <<senderVars, sentAt, up, contract, used, ended, now>>

\* The executor of the operation returns or throws.
Finish(a) ==
    /\ \E r \in {"success", "error"} : Goto(a, "running", r) /\ ended' = r
    /\ UNCHANGED <<senderVars, sentAt, up, contract, used, runs, now>>

\* The pod is scaled to zero or crashes: its handlers are gone.
Stop ==
    /\ up
    /\ up' = FALSE
    /\ call' = [a \in Attempts |-> IF call[a] \in Handling THEN "gone" ELSE call[a]]
    /\ UNCHANGED <<senderVars, sentAt, contract, taskVars, now>>

Boot ==
    /\ ~up
    /\ up' = TRUE
    /\ UNCHANGED <<senderVars, netVars, contract, taskVars, now>>

\* The contract is narrowed, re-keyed or revoked.
Govern ==
    /\ contract = "granted"
    /\ contract' \in {"narrowed", "rotated", "revoked"}
    /\ UNCHANGED <<senderVars, netVars, up, taskVars, now>>

-----------------------------------------------------------------------------
\* The sender's timers fire when they are due.
ExchangeTick ==
    /\ now < MaxTime
    /\ spc # "ready"
    /\ spc # "done" => now < deadline
    /\ now' = now + 1
    /\ UNCHANGED <<senderVars, netVars, up, contract, taskVars>>

Sender == SendFirst \/ FirstReply \/ FirstThrows \/ WakeReturns \/ Retry \/ RetryReply \/ RetryThrows

Target(a) == Ingress(a) \/ Door(a) \/ Verify(a) \/ Consume(a) \/ Authorize(a) \/ Execute(a) \/ Finish(a)

ExchangeNext ==
    \/ Sender
    \/ \E a \in Attempts : Target(a)
    \/ Stop
    \/ Boot
    \/ Govern
    \/ ExchangeTick

ExchangeSpec == ExchangeInit /\ [][ExchangeNext]_exchangeVars

-----------------------------------------------------------------------------
(* Properties. *)

\* The nonce is consumed and no handler that could still execute is left.
Closed == used /\ runs = 0 /\ \A a \in Attempts : call[a] \notin {"authorizing", "preparing"}

Task == INSTANCE RemoteTask WITH Reports <- Outcomes, closed <- Closed, report <- outcome

\* However often the token is sent, whatever times out, crashes or changes
\* meanwhile: its intent is executed at most once, success is reported only
\* of an execution that succeeded, and denial only of one that never was and
\* never will be (the nonce is consumed before the contract is checked).
ImplementsTask == Task!Spec

\* The tool returns in bounded time: the loop's last round begins within
\* MaxWake of the wake, and every wait in it has a timer.
BoundedCall ==
    spc # "done" => now <= FirstTimeout + WakeTimeout + MaxWake + Interval + RetryTimeout

\* "Retries every 5s with fresh HMAC signatures [...] Returns results once the
\* target is healthy" (docs/README.md:47-48): while the contract stands, a
\* woken target does not turn the retry away at the door, which the tool
\* reports as permanent.  With a party key it does: the headers of the loop
\* lack X-Contract-Sender (intentBridge.ts:457-463), and the target looks the
\* signature up under another key.
NotTurnedAway == contract = "granted" => outcome # "permanent"
=============================================================================
