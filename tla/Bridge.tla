-------------------------------- MODULE Bridge --------------------------------
(***************************************************************************)
(* Messages and delegations between two workspaces under a contract.       *)
(*                                                                         *)
(* A call is one execution of the tool bridge_workspace at the source:     *)
(* message/send to the target's A2A endpoint, signed with the contract's   *)
(* key, sent again while the target wakes (tools/bridgeWorkspace.ts).  Its *)
(* attempts are the requests; a relay is one delivery the control plane    *)
(* signs for POST /api/bridge/receive of the target, and may post more     *)
(* than once (routes/bridgeReceive.js).  Both end at the same pod, which   *)
(* sleeps, boots and crashes, and at the same nonce store.                 *)
(*                                                                         *)
(* A contract has a version, which an amendment raises; 0 stands for a     *)
(* contract that is revoked or not there.  The manifest of each side and   *)
(* the party keys it holds follow at their own pace.  Cryptography is      *)
(* perfect: a signature is the kind and the version of its key.            *)
(***************************************************************************)
EXTENDS Naturals

CONSTANTS
    Calls,
    Relays,
    Action,          \* of each relay: "message", "delegate" or "result"
    MaxCopies,       \* bound on the postings of one relay
    MaxTries,        \* bound on the requests of one call
    MaxVersion,      \* bound on the versions of the contract
    CallLimit,       \* time limit of a request: 120 s, or 30 s for a message
    Interval,        \* RETRY_INTERVAL
    WakeWait,        \* MAX_WAKE_WAIT
    DelegationLimit, \* 120 s, of a relayed delegation
    Fresh,           \* MAX_SKEW_MS
    Ttl,             \* NONCE_TTL_MS
    Skew,            \* how far the clock of a signer may be ahead
    Delay,           \* how long a query of the nonce store takes
    MaxTime          \* bound on the clock

ASSUME ActionAssumption == Action \in [Relays -> {"message", "delegate", "result"}]
ASSUME BoundAssumption ==
    /\ {MaxCopies, MaxTries, MaxVersion, MaxTime} \subseteq Nat
    /\ MaxVersion > 0
ASSUME TimeAssumption ==
    {CallLimit, Interval, WakeWait, DelegationLimit, Fresh, Ttl, Skew, Delay} \subseteq Nat
ASSUME ClockAssumption == Skew + Fresh + Delay <= Ttl

Sides == {"source", "target"}
Attempts == Calls \X (1..MaxTries)
Copies == Relays \X (1..MaxCopies)
Signed == Attempts \cup Relays

\* A nonce belongs to one request or one relay.
ASSUME SignedAssumption == Attempts \cap Relays = {}

VARIABLES
    now,
    pod,      \* the pod of the target
    sigV,     \* the signature version emitted: RT_HMAC_EMIT_V2
    masters,  \* sides with ORG_MASTER_SECRET
    minted,   \* the version of the contract, 0 when revoked
    seen,     \* the version in the manifest of each side
    held,     \* the version of the party keys each side holds
    spc,      \* where a call is
    key,      \* the key it signs with
    tries,    \* requests sent so far
    since,    \* when it got there
    wakeStart,
    outcome,  \* what the tool returned
    turn,     \* turn[a]: the target's handler of attempt a, or its answer
    until,    \* attempts and relays: until when their nonce is remembered
    stamp,    \* their timestamps, 0 before they are signed
    at,       \* at[h]: the target's handler of a copy of a relay
    arrived,  \* when it got there, where a limit counts from it
    reports   \* how often its completion was reported

contractVars == <<minted, seen, held>>
senderVars == <<spc, key, tries, since, wakeStart, outcome>>
handlerVars == <<turn, at, arrived, reports>>
nonceVars == <<until, stamp>>
modeVars == <<sigV, masters>>
vars == <<now, pod, modeVars, contractVars, senderVars, handlerVars, nonceVars>>

Kinds == {"none", "party", "org", "api"}
SenderPCs == {"idle", "keying", "calling", "asking", "looping", "pausing", "retrying", "done"}
Outcomes == {"none", "success", "error", "waking"}
\* "checked": the signature is good, the nonce not yet consumed.
TurnPCs == {"none", "checked", "turn", "ok", "rpcError", "forbidden", "badSignature",
            "stale", "replayed", "lost"}
RelayPCs == {"none", "checked", "gate", "saving", "reporting", "reading", "streaming",
             "storing", "telling", "failing", "answered", "over", "lost"}

TypeOK ==
    /\ now \in Nat
    /\ pod \in {"asleep", "booting", "up"}
    /\ sigV \in {1, 2} /\ masters \subseteq Sides
    /\ minted \in 0..MaxVersion
    /\ seen \in [Sides -> 0..MaxVersion] /\ held \in [Sides -> 0..MaxVersion]
    /\ spc \in [Calls -> SenderPCs]
    /\ key \in [Calls -> [kind : Kinds, version : 0..MaxVersion]]
    /\ tries \in [Calls -> 0..MaxTries]
    /\ since \in [Calls -> Nat] /\ wakeStart \in [Calls -> Nat]
    /\ outcome \in [Calls -> Outcomes]
    /\ turn \in [Attempts -> TurnPCs]
    /\ until \in [Signed -> Nat] /\ stamp \in [Signed -> Nat]
    /\ at \in [Copies -> RelayPCs] /\ arrived \in [Copies -> Nat]
    /\ reports \in [Copies -> Nat]

Init ==
    /\ now = 1
    /\ pod \in {"asleep", "up"}
    /\ sigV \in {1, 2} /\ masters \in {{}, Sides}
    /\ minted = 1
    /\ seen = [w \in Sides |-> 1]
    /\ held \in [Sides -> {0, 1}]
    /\ spc = [c \in Calls |-> "idle"]
    /\ key = [c \in Calls |-> [kind |-> "none", version |-> 0]]
    /\ tries = [c \in Calls |-> 0]
    /\ since = [c \in Calls |-> 0] /\ wakeStart = [c \in Calls |-> 0]
    /\ outcome = [c \in Calls |-> "none"]
    /\ turn = [a \in Attempts |-> "none"]
    /\ until = [s \in Signed |-> 0] /\ stamp = [s \in Signed |-> 0]
    /\ at = [h \in Copies |-> "none"] /\ arrived = [h \in Copies |-> 0]
    /\ reports = [h \in Copies |-> 0]

-----------------------------------------------------------------------------
\* timestampFresh, and verifyRequest's age: in both directions.
FreshNow(s) == now <= stamp[s] + Fresh /\ stamp[s] <= now + Fresh

\* addScoped: a nonce is taken unless it is remembered.
Remembered(s) == until[s] # 0 /\ now <= until[s]
Remember(s) == until' = [until EXCEPT ![s] = now + Ttl]

-----------------------------------------------------------------------------
(***************************************************************************)
(* The source: bridge_workspace.                                           *)
(***************************************************************************)
Goto(c, p) ==
    /\ spc' = [spc EXCEPT ![c] = p]
    /\ since' = [since EXCEPT ![c] = now]

Return(c, o) ==
    /\ spc' = [spc EXCEPT ![c] = "done"]
    /\ outcome' = [outcome EXCEPT ![c] = o]
    /\ since' = [since EXCEPT ![c] = 0]
    /\ wakeStart' = [wakeStart EXCEPT ![c] = 0]
    /\ UNCHANGED <<key, tries>>

\* The manifest is read: an active contract that lists the action, and a
\* bridge with a URL; fit is FALSE when one of the others is missing.
Begin(c, fit) ==
    /\ spc[c] = "idle"
    /\ IF fit /\ seen["source"] # 0
       THEN /\ Goto(c, "keying")
            /\ key' = [key EXCEPT ![c].version = seen["source"]]
            /\ UNCHANGED <<tries, wakeStart, outcome>>
       ELSE Return(c, "error")
    /\ UNCHANGED <<now, pod, modeVars, contractVars, handlerVars, nonceVars>>

\* The party key of that version, the key of the organisation, the API key.
KeyKind(v) ==
    CASE held["source"] = v -> "party"
      [] held["source"] # v /\ "source" \in masters -> "org"
      [] OTHER -> "api"

\* doFetch: the body is fixed, the headers are signed for each request.
SignatureOfFirst(c, n) == <<c, 1>>  \* mutant
Signature(c, n) == <<c, n>>
Send(c, p) ==
    /\ tries[c] < MaxTries
    /\ tries' = [tries EXCEPT ![c] = @ + 1]
    /\ stamp' = [stamp EXCEPT ![Signature(c, tries[c] + 1)] = now]
    /\ Goto(c, p)

SendFirst(c) ==
    /\ spc[c] = "keying"
    /\ key' = [key EXCEPT ![c].kind = KeyKind(key[c].version)]
    /\ Send(c, "calling")
    /\ UNCHANGED <<now, pod, modeVars, contractVars, wakeStart, outcome, handlerVars, until>>

Current(c) == <<c, tries[c]>>
Answered(c) == turn[Current(c)] \in {"ok", "rpcError"}
Refused(c) == turn[Current(c)] \in {"forbidden", "badSignature", "stale", "replayed"}

\* The first request is answered: 200, or an error status.
FirstReply(c) ==
    /\ spc[c] = "calling"
    /\ \/ Answered(c) /\ Return(c, "success")
       \/ Refused(c) /\ Return(c, "error")
    /\ UNCHANGED <<now, pod, modeVars, contractVars, handlerVars, nonceVars>>

\* Nobody serves the request, which the proxy in front of the pod answers:
\* with 502 or 503 and, or without, one of the marks of a sleeping workspace.
Unserved(c) == pod # "up" /\ turn[Current(c)] \in {"none", "lost"}
Dropped(c) == turn' = [turn EXCEPT ![Current(c)] = "lost"]
FirstUnserved(c) ==
    /\ spc[c] = "calling"
    /\ Unserved(c)
    /\ Dropped(c)
    /\ \/ Goto(c, "asking") /\ UNCHANGED <<key, tries, wakeStart, outcome>>
       \/ Return(c, "error")
    /\ UNCHANGED <<now, pod, modeVars, contractVars, at, arrived, reports, nonceVars>>

\* The catch block: a timer that fires, a connection that breaks and a body
\* that is not JSON.
FirstThrowsWaking(c) ==  \* mutant
    /\ spc[c] = "calling"
    /\ Goto(c, "asking")
    /\ UNCHANGED <<now, pod, modeVars, contractVars, key, tries, wakeStart, outcome, handlerVars,
                   nonceVars>>
FirstThrows(c) ==
    /\ spc[c] = "calling"
    /\ Return(c, "error")
    /\ UNCHANGED <<now, pod, modeVars, contractVars, handlerVars, nonceVars>>

\* wakeWorkspace: the control plane scales the target up, or does not;
\* whatever it answers, the loop begins.
WakeReturns(c, scaled) ==
    /\ spc[c] = "asking"
    /\ pod' = IF scaled /\ pod = "asleep" THEN "booting" ELSE pod
    /\ wakeStart' = [wakeStart EXCEPT ![c] = now]
    /\ Goto(c, "looping")
    /\ UNCHANGED <<now, modeVars, contractVars, key, tries, outcome, handlerVars, nonceVars>>

Loop(c) ==
    /\ spc[c] = "looping"
    /\ IF now < wakeStart[c] + WakeWait
       THEN Goto(c, "pausing") /\ UNCHANGED <<key, tries, wakeStart, outcome>>
       ELSE Return(c, "waking")
    /\ UNCHANGED <<now, pod, modeVars, contractVars, handlerVars, nonceVars>>

Retry(c) ==
    /\ spc[c] = "pausing"
    /\ now >= since[c] + Interval
    /\ Send(c, "retrying")
    /\ UNCHANGED <<now, pod, modeVars, contractVars, key, wakeStart, outcome, handlerVars, until>>

\* A retry ends: 200 leaves the loop, and its body may still break, which ends
\* in the catch block; every other answer, no answer, and a timer that fires
\* do not.
RetryReply(c) ==
    /\ spc[c] = "retrying"
    /\ \/ Answered(c) /\ \E o \in {"success", "error"} : Return(c, o)
       \/ ~Answered(c) /\ Goto(c, "looping") /\ UNCHANGED <<key, tries, wakeStart, outcome>>
    /\ turn' = IF Unserved(c) THEN [turn EXCEPT ![Current(c)] = "lost"] ELSE turn
    /\ UNCHANGED <<now, pod, modeVars, contractVars, at, arrived, reports, nonceVars>>

-----------------------------------------------------------------------------
(***************************************************************************)
(* The target: requireA2aAuth and message/send.                            *)
(***************************************************************************)
\* The key that the request's headers select has the version of the contract
\* in the target's manifest, or is not there; the signature must agree.
KeyFound(kind) ==
    IF kind = "party" THEN held["target"] = seen["target"] ELSE "target" \in masters
Verdict(a) ==
    LET k == key[a[1]]
    IN  CASE seen["target"] = 0 -> "forbidden"
          [] seen["target"] # 0 /\ ~KeyFound(k.kind) -> "forbidden"
          [] seen["target"] # 0 /\ KeyFound(k.kind) /\ ~FreshNow(Signature(a[1], a[2])) -> "stale"
          [] seen["target"] # 0 /\ KeyFound(k.kind) /\ FreshNow(Signature(a[1], a[2])) ->
                IF k.version # seen["target"] THEN "badSignature"
                ELSE IF sigV = 1 THEN "turn" ELSE "checked"

\* A request arrives, perhaps after its sender gave up.  An API key is in
\* order, or not; it needs no contract.
Deliver(a) ==
    /\ pod = "up"
    /\ turn[a] = "none"
    /\ a[2] <= tries[a[1]]
    /\ IF key[a[1]].kind = "api"
       THEN \E v \in {"turn", "forbidden"} : turn' = [turn EXCEPT ![a] = v]
       ELSE turn' = [turn EXCEPT ![a] = Verdict(a)]
    /\ UNCHANGED <<now, pod, modeVars, contractVars, senderVars, at, arrived, reports,
                   nonceVars>>

Consume(a) ==
    LET s == Signature(a[1], a[2])
    IN  /\ turn[a] = "checked"
        /\ IF Remembered(s)
           THEN turn' = [turn EXCEPT ![a] = "replayed"] /\ UNCHANGED until
           ELSE turn' = [turn EXCEPT ![a] = "turn"] /\ Remember(s)
        /\ UNCHANGED <<now, pod, modeVars, contractVars, senderVars, at, arrived, reports,
                       stamp>>

\* The turn ends; a JSON-RPC error, too, has status 200.
EndTurn(a, answer) ==
    /\ turn[a] = "turn"
    /\ turn' = [turn EXCEPT ![a] = answer]
    /\ UNCHANGED <<now, pod, modeVars, contractVars, senderVars, at, arrived, reports,
                   nonceVars>>

-----------------------------------------------------------------------------
(***************************************************************************)
(* The target: POST /api/bridge/receive.                                   *)
(***************************************************************************)
Move(h, p) ==
    /\ at' = [at EXCEPT ![h] = p]
    /\ arrived' = [arrived EXCEPT ![h] = IF p \in {"checked", "streaming"} THEN now ELSE 0]

\* The control plane signs a relay once, and posts it.
Sign(r, ahead) ==
    /\ stamp[r] = 0
    /\ stamp' = [stamp EXCEPT ![r] = now + ahead]
    /\ UNCHANGED <<now, pod, modeVars, contractVars, senderVars, handlerVars, until>>

\* A copy arrives: signature and timestamp; v1 has no nonce.
Receive(h) ==
    /\ pod = "up"
    /\ at[h] = "none"
    /\ stamp[h[1]] # 0
    /\ Move(h, IF ~FreshNow(h[1]) THEN "answered" ELSE IF sigV = 1 THEN "gate" ELSE "checked")
    /\ UNCHANGED <<now, pod, modeVars, contractVars, senderVars, turn, reports, nonceVars>>

TakeNonceUnchecked(h) == Move(h, "gate") /\ Remember(h[1])  \* mutant
TakeNonce(h) ==
    IF Remembered(h[1])
    THEN Move(h, "answered") /\ UNCHANGED until
    ELSE Move(h, "gate") /\ Remember(h[1])
ConsumeRelay(h) ==
    /\ at[h] = "checked"
    /\ TakeNonce(h)
    /\ UNCHANGED <<now, pod, modeVars, contractVars, senderVars, turn, reports, stamp>>

\* The gate: the contract is live in the target's manifest, the source is its
\* other party, the token and the action fit.
Gate(h, fit) ==
    /\ at[h] = "gate"
    /\ Move(h, IF seen["target"] # 0 /\ fit THEN "saving" ELSE "answered")
    /\ UNCHANGED <<now, pod, modeVars, contractVars, senderVars, turn, reports, nonceVars>>

\* The message is saved and broadcast; an error is answered with 500.
SaveMessage(h, saved) ==
    /\ at[h] = "saving"
    /\ Move(h, CASE ~saved -> "answered"
                 [] saved /\ Action[h[1]] = "message" -> "reporting"
                 [] saved /\ Action[h[1]] = "result" -> "answered"
                 [] saved /\ Action[h[1]] = "delegate" -> "reading")
    /\ UNCHANGED <<now, pod, modeVars, contractVars, senderVars, turn, reports, nonceVars>>

\* reportTaskComplete: posted once, whatever comes of it.
Report(h) == reports' = [reports EXCEPT ![h] = @ + 1]
ReportMessage(h) ==
    /\ at[h] = "reporting"
    /\ Report(h)
    /\ Move(h, "answered")
    /\ UNCHANGED <<now, pod, modeVars, contractVars, senderVars, turn, nonceVars>>

(* processDelegation: the request is answered, this goes on alone. *)

\* The workspace row and, of a tenant, the manifest are read.
Read(h, found) ==
    /\ at[h] = "reading"
    /\ Move(h, IF found THEN "streaming" ELSE "failing")
    /\ UNCHANGED <<now, pod, modeVars, contractVars, senderVars, turn, reports, nonceVars>>

\* A tool result that cannot be saved ends the delegation; text is collected
\* and an error event is passed over.
ToolResultFails(h) ==
    /\ at[h] = "streaming"
    /\ Move(h, "failing")
    /\ UNCHANGED <<now, pod, modeVars, contractVars, senderVars, turn, reports, nonceVars>>

\* The stream ends: with a text, after errors, or by the timer.
StreamEnds(h) ==
    /\ at[h] = "streaming"
    /\ Move(h, "storing")
    /\ UNCHANGED <<now, pod, modeVars, contractVars, senderVars, turn, reports, nonceVars>>

\* The text, a partial one too, is saved as the assistant's answer.
Store(h, saved) ==
    /\ at[h] = "storing"
    /\ Move(h, IF saved THEN "telling" ELSE "failing")
    /\ UNCHANGED <<now, pod, modeVars, contractVars, senderVars, turn, reports, nonceVars>>

\* The end, with the result, or in the catch of the route with the error.
TellResultOnly(h) == at[h] = "telling"  \* mutant
Tell(h) == at[h] \in {"telling", "failing"}
ReportDelegation(h) ==
    /\ Tell(h)
    /\ Report(h)
    /\ Move(h, "over")
    /\ UNCHANGED <<now, pod, modeVars, contractVars, senderVars, turn, nonceVars>>

-----------------------------------------------------------------------------
(***************************************************************************)
(* The rest of the world.                                                  *)
(***************************************************************************)
\* The pod goes to sleep, or crashes; what it was doing is lost.
Handled(p) == p \notin {"none", "checked", "answered", "over", "lost"}
Stop ==
    /\ pod # "asleep"
    /\ pod' = "asleep"
    /\ turn' = [a \in Attempts |-> IF turn[a] \in {"checked", "turn"} THEN "lost" ELSE turn[a]]
    /\ at' = [h \in Copies |-> IF at[h] = "checked" THEN "answered"
                               ELSE IF Handled(at[h]) THEN "lost" ELSE at[h]]
    /\ UNCHANGED <<now, modeVars, contractVars, senderVars, arrived, reports, nonceVars>>

\* A deployment is scaled up, by the control plane or the wake proxy.
Boot ==
    /\ pod # "up"
    /\ pod' = "up"
    /\ UNCHANGED <<now, modeVars, contractVars, senderVars, handlerVars, nonceVars>>

\* The control plane amends or revokes the contract; manifests are fetched
\* again, keys are delivered again.
Govern ==
    /\ minted \in 1..(MaxVersion - 1)
    /\ minted' \in {0, minted + 1}
    /\ UNCHANGED <<now, pod, modeVars, seen, held, senderVars, handlerVars, nonceVars>>
Refetch(w) ==
    /\ seen' = [seen EXCEPT ![w] = minted]
    /\ UNCHANGED <<now, pod, modeVars, minted, held, senderVars, handlerVars, nonceVars>>
Rekey(w) ==
    /\ held' = [held EXCEPT ![w] = minted]
    /\ UNCHANGED <<now, pod, modeVars, minted, seen, senderVars, handlerVars, nonceVars>>

\* Time passes; a request, a query and the control plane's answer have limits.
Tick ==
    /\ now < MaxTime
    /\ \A h \in Copies : at[h] = "streaming" => now < arrived[h] + DelegationLimit
    /\ \A c \in Calls :
          /\ spc[c] \in {"calling", "retrying"} => now < since[c] + CallLimit
          /\ spc[c] = "pausing" => now < since[c] + Interval
          /\ spc[c] \notin {"keying", "asking", "looping"}
    /\ \A h \in Copies : at[h] = "checked" => now < arrived[h] + Delay
    /\ now' = now + 1
    /\ UNCHANGED <<pod, modeVars, contractVars, senderVars, handlerVars, nonceVars>>

-----------------------------------------------------------------------------
Source(c) ==
    \/ \E fit \in BOOLEAN : Begin(c, fit)
    \/ SendFirst(c) \/ Retry(c)
    \/ FirstReply(c) \/ FirstUnserved(c) \/ FirstThrows(c)
    \/ \E scaled \in BOOLEAN : WakeReturns(c, scaled)
    \/ Loop(c) \/ RetryReply(c)

Endpoint(a) == Deliver(a) \/ Consume(a) \/ \E answer \in {"ok", "rpcError"} : EndTurn(a, answer)

Delegation(h) ==
    \/ \E good \in BOOLEAN : Read(h, good) \/ Store(h, good)
    \/ StreamEnds(h) \/ ReportDelegation(h)
Receiver(h) ==
    \/ Receive(h) \/ ConsumeRelay(h) \/ ReportMessage(h) \/ ToolResultFails(h)
    \/ \E good \in BOOLEAN : Gate(h, good) \/ SaveMessage(h, good)

Next ==
    \/ \E c \in Calls : Source(c)
    \/ \E a \in Attempts : Endpoint(a)
    \/ \E r \in Relays, ahead \in 0..Skew : Sign(r, ahead)
    \/ \E h \in Copies : Receiver(h) \/ Delegation(h)
    \/ Stop \/ Boot \/ Govern \/ Tick
    \/ \E w \in Sides : Refetch(w) \/ Rekey(w)

\* A delegation goes on: its queries answer, its stream ends by the timer at
\* the latest, and a report has a limit of 10 s.
Spec == Init /\ [][Next]_vars /\ \A h \in Copies : WF_vars(Delegation(h))

-----------------------------------------------------------------------------
\* A message or delegation is sent a second time only when no living handler
\* got the first request: a request that timed out is not repeated.  (In the
\* loop, it is: a retry that timed out may have been processed.)
OnlyWakingIsRepeated ==
    \A c \in Calls : tries[c] > 1 => turn[<<c, 1>>] \in {"none", "lost"}

\* The target never takes a request of the loop for a replay, whatever became
\* of the earlier ones, and its signature is good as long as the contract has
\* never been amended.
RefusedForCause ==
    \A a \in Attempts :
        /\ turn[a] # "replayed"
        /\ turn[a] = "badSignature" => minted # 1

\* With v2 signatures, a relay that is posted again passes only once, between
\* its two clocks and through the delay between its two checks.
Passed(h) == at[h] \notin {"none", "checked", "answered"} \/ reports[h] > 0
OncePerRelay ==
    sigV = 2 => \A g, h \in Copies :
        g # h /\ g[1] = h[1] => ~(Passed(g) /\ Passed(h))

\* A delegation that was answered "delegation_started" is reported to the
\* control plane, as a result or as an error, unless the pod stops.
DelegationReported ==
    \A h \in {k \in Copies : Action[k[1]] = "delegate"} :
        at[h] = "reading" ~> at[h] = "lost" \/ reports[h] = 1
=============================================================================
