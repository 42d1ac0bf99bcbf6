--------------------------- MODULE ChatQueueProofs ---------------------------
(***************************************************************************)
(* Theorems about ChatQueue, for any sockets, messages and rate limit.     *)
(*                                                                         *)
(* The inductive invariant IInv adds two facts to the properties that are  *)
(* proved: the message of an invocation that has begun was sent on a       *)
(* socket (SentOnSocket), and tickets count the pushes and belong to       *)
(* messages that were pushed (TicketsOK).  The rate limit has an invariant *)
(* of its own, RateInv: a stamp that is still in the window has not been   *)
(* shifted out of aiMessageTimestamps.                                     *)
(***************************************************************************)
EXTENDS ChatQueue, FiniteSetTheorems, TLAPS

SentOnSocket == \A m \in Msgs : pc[m] # "unsent" => from[m] \in Sockets

TicketsOK ==
    \A m \in Msgs :
        /\ ticket[m] <= pushes
        /\ ticket[m] # 0 => pc[m] \in {"queued", "handed", "dropped"}

IInv ==
    /\ TypeOK
    /\ SentOnSocket
    /\ TicketsOK
    /\ ProcessingHasOwner
    /\ BusySocketHasWork
    /\ ControllerIsLive
    /\ NoOvertaking

-----------------------------------------------------------------------------
(* Type correctness.                                                        *)

LEMMA InitType == Init => TypeOK
<1> SUFFICES ASSUME Init PROVE TypeOK
    OBVIOUS
<1> USE DEF Init
<1>1. pc \in [Msgs -> PC] /\ from \in [Msgs -> Sockets \cup {None}]
    BY DEF PC
<1>2. ticket \in [Msgs -> Nat] /\ pushes \in Nat /\ now \in Nat
    OBVIOUS
<1>3. stampedAt \in [Msgs -> Nat \cup {None}] /\ stamps \in [Sockets -> SUBSET Msgs]
    OBVIOUS
<1>4. /\ processing \in BOOLEAN
      /\ isGenerating \in [Sockets -> BOOLEAN]
      /\ controller \in [Sockets -> Msgs \cup {None}]
      /\ aborted \subseteq Msgs
      /\ connected \subseteq Sockets
    OBVIOUS
<1> QED
    BY <1>1, <1>2, <1>3, <1>4 DEF TypeOK

LEMMA NextType == TypeOK /\ [Next]_vars => TypeOK'
<1> SUFFICES ASSUME TypeOK, [Next]_vars PROVE TypeOK'
    OBVIOUS
<1> USE DEF TypeOK, PC, Goto
<1>1. ASSUME NEW s \in Sockets, NEW m \in Msgs, Send(s, m) PROVE TypeOK'
    BY <1>1 DEF Send, queueVars, socketVars, rateVars
<1>2. ASSUME NEW m \in Msgs, Ignore(m) PROVE TypeOK'
    BY <1>2 DEF Ignore, queueVars, socketVars, rateVars
<1>3. ASSUME NEW m \in Msgs, RateLimited(m) PROVE TypeOK'
    BY <1>3 DEF RateLimited, Recent, queueVars, socketVars
<1>4. ASSUME NEW m \in Msgs, Delegate(m) PROVE TypeOK'
    BY <1>4 DEF Delegate, Stamp, Recent, queueVars, socketVars
<1>5. ASSUME NEW m \in Msgs, RefuseBusy(m) PROVE TypeOK'
    BY <1>5 DEF RefuseBusy, Stamp, Recent, queueVars, socketVars
<1>6. ASSUME NEW m \in Msgs, Enqueue(m) PROVE TypeOK'
    <2>1. pushes' \in Nat /\ ticket' \in [Msgs -> Nat]
        BY <1>6 DEF Enqueue
    <2>2. stamps' \in [Sockets -> SUBSET Msgs] /\ stampedAt' \in [Msgs -> Nat \cup {None}]
        BY <1>6 DEF Enqueue, Stamp, Recent
    <2>3. pc' \in [Msgs -> PC] /\ isGenerating' \in [Sockets -> BOOLEAN]
        BY <1>6 DEF Enqueue
    <2> QED
        BY <1>6, <2>1, <2>2, <2>3 DEF Enqueue
<1>7. ASSUME NEW m \in Msgs, Prepare(m) PROVE TypeOK'
    BY <1>7 DEF Prepare, Stamp, Recent, queueVars, socketVars
<1>8. ASSUME NEW m \in Msgs, RefuseRequest(m) PROVE TypeOK'
    BY <1>8 DEF RefuseRequest, queueVars, socketVars, rateVars
<1>9. ASSUME NEW m \in Msgs, StartGeneration(m) PROVE TypeOK'
    BY <1>9 DEF StartGeneration, rateVars
<1>10. ASSUME NEW m \in Msgs, FinishGeneration(m) PROVE TypeOK'
    BY <1>10 DEF FinishGeneration, Release, rateVars
<1>11. ASSUME NEW m \in Msgs, RefuseBridge(m) PROVE TypeOK'
    BY <1>11 DEF RefuseBridge, queueVars, socketVars, rateVars
<1>12. ASSUME NEW m \in Msgs, StartBridge(m) PROVE TypeOK'
    BY <1>12 DEF StartBridge, queueVars, rateVars
<1>13. ASSUME NEW m \in Msgs, FinishBridge(m) PROVE TypeOK'
    BY <1>13 DEF FinishBridge, queueVars, rateVars
<1>14. ASSUME NEW s \in Sockets, StopGeneration(s) PROVE TypeOK'
    BY <1>14 DEF StopGeneration, Abort, queueVars, rateVars
<1>15. ASSUME NEW s \in Sockets, Disconnect(s) PROVE TypeOK'
    BY <1>15 DEF Disconnect, Abort, queueVars, rateVars
<1>16. CASE Tick
    BY <1>16 DEF Tick, queueVars, socketVars, rateVars
<1>17. CASE UNCHANGED vars
    BY <1>17 DEF vars, queueVars, socketVars, rateVars
<1> QED
    BY <1>1, <1>2, <1>3, <1>4, <1>5, <1>6, <1>7, <1>8, <1>9, <1>10, <1>11,
       <1>12, <1>13, <1>14, <1>15, <1>16, <1>17 DEF Next, HandlerStep

\* Every variable keeps its type, whatever the interleaving of handlers,
\* stops and disconnects.
THEOREM TypeCorrect == Spec => []TypeOK
BY InitType, NextType, PTL DEF Spec

-----------------------------------------------------------------------------
(* The invariant.  One lemma per kind of step; the conjuncts a step cannot  *)
(* disturb are left to the backends.                                        *)

LEMMA InitInv == Init => IInv
<1> SUFFICES ASSUME Init PROVE IInv
    OBVIOUS
<1>1. TypeOK
    BY InitType
<1>2. SentOnSocket /\ TicketsOK /\ NoOvertaking
    BY DEF Init, SentOnSocket, TicketsOK, NoOvertaking
<1>3. ProcessingHasOwner /\ BusySocketHasWork /\ ControllerIsLive
    BY DEF Init, ProcessingHasOwner, BusySocketHasWork, ControllerIsLive
<1> QED
    BY <1>1, <1>2, <1>3 DEF IInv

\* Steps that only move one invocation between the values of pc that no
\* property mentions, or end it there; rate and clock variables are free.
QuietStep(m) ==
    /\ pc[m] \in {"unsent", "saving", "lookup", "preparing"}
    /\ \E l \in {"saving", "lookup", "preparing", "done"} : Goto(m, l)
    /\ from'[m] \in Sockets
    /\ \A k \in Msgs \ {m} : from'[k] = from[k]
    /\ UNCHANGED <<queueVars, socketVars, connected>>

LEMMA QuietInv ==
    ASSUME NEW m \in Msgs, IInv, TypeOK', QuietStep(m)
    PROVE  IInv'
<1> USE DEF IInv
<1>0. /\ \A k \in Msgs \ {m} : pc'[k] = pc[k] /\ from'[k] = from[k]
      /\ pc'[m] \notin {"unsent", "queued", "generating", "bridging", "handed", "dropped"}
      /\ pc[m] \notin {"queued", "generating", "bridging", "handed", "dropped"}
    BY DEF QuietStep, Goto, TypeOK
<1>u. UNCHANGED <<ticket, pushes, processing, isGenerating, controller, connected>>
    BY DEF QuietStep, queueVars, socketVars
<1>f. from'[m] \in Sockets
    BY DEF QuietStep
<1>1. SentOnSocket'
    BY <1>0, <1>f DEF SentOnSocket
<1>2. TicketsOK'
    BY <1>0, <1>u DEF TicketsOK
<1>3. ProcessingHasOwner'
    BY <1>0, <1>u DEF ProcessingHasOwner, Generating
<1>4. BusySocketHasWork'
    BY <1>0, <1>u DEF BusySocketHasWork
<1>5. ControllerIsLive'
    BY <1>0, <1>u DEF ControllerIsLive, TypeOK
<1>6. NoOvertaking'
    BY <1>0, <1>u DEF NoOvertaking
<1> QED
    BY <1>1, <1>2, <1>3, <1>4, <1>5, <1>6

LEMMA EnqueueInv ==
    ASSUME NEW m \in Msgs, IInv, TypeOK', Enqueue(m)
    PROVE  IInv'
<1> USE DEF IInv
<1>0. /\ pc[m] = "saving" /\ pc' = [pc EXCEPT ![m] = "queued"]
      /\ isGenerating' = [isGenerating EXCEPT ![from[m]] = TRUE]
      /\ pushes' = pushes + 1
      /\ ticket' = [ticket EXCEPT ![m] = pushes + 1]
      /\ UNCHANGED <<from, processing, controller, connected>>
    BY DEF Enqueue, Goto
<1>1. \A k \in Msgs : k # m => pc'[k] = pc[k] /\ ticket'[k] = ticket[k]
    BY <1>0 DEF TypeOK
<1>2. pc'[m] = "queued" /\ ticket'[m] = pushes + 1
    BY <1>0 DEF TypeOK
<1>3. SentOnSocket'
    BY <1>0, <1>1 DEF SentOnSocket
<1>4. TicketsOK'
    BY <1>0, <1>1, <1>2 DEF TicketsOK, TypeOK
<1>5. ProcessingHasOwner'
    BY <1>0, <1>1 DEF ProcessingHasOwner, Generating
<1>6. BusySocketHasWork'
    BY <1>0, <1>1, <1>2 DEF BusySocketHasWork, TypeOK
<1>7. ControllerIsLive'
    BY <1>0, <1>1 DEF ControllerIsLive, TypeOK
<1>8. NoOvertaking'
    \* The newest ticket exceeds every ticket that was handed on.
    BY <1>0, <1>1, <1>2 DEF NoOvertaking, TicketsOK, TypeOK
<1> QED
    BY <1>3, <1>4, <1>5, <1>6, <1>7, <1>8

LEMMA StartGenerationInv ==
    ASSUME NEW m \in Msgs, IInv, TypeOK', StartGeneration(m)
    PROVE  IInv'
<1> USE DEF IInv
<1>0. /\ pc[m] = "preparing" /\ pc' = [pc EXCEPT ![m] = "generating"]
      /\ isGenerating' = [isGenerating EXCEPT ![from[m]] = TRUE]
      /\ controller' = [controller EXCEPT ![from[m]] = m]
      /\ UNCHANGED <<from, ticket, pushes, connected>>
    BY DEF StartGeneration, Goto
<1>1. \A k \in Msgs : k # m => pc'[k] = pc[k]
    BY <1>0 DEF TypeOK
<1>2. pc'[m] = "generating"
    BY <1>0 DEF TypeOK
<1>3. SentOnSocket'
    BY <1>0, <1>1 DEF SentOnSocket
<1>4. TicketsOK' /\ NoOvertaking'
    BY <1>0, <1>1, <1>2 DEF TicketsOK, NoOvertaking
<1>5. ProcessingHasOwner'
    BY <1>2 DEF ProcessingHasOwner, Generating
<1>6. BusySocketHasWork'
    BY <1>0, <1>1, <1>2 DEF BusySocketHasWork, TypeOK
<1>7. ControllerIsLive'
    BY <1>0, <1>1, <1>2 DEF ControllerIsLive, SentOnSocket, TypeOK
<1> QED
    BY <1>3, <1>4, <1>5, <1>6, <1>7

\* What the last generation to end leaves: the flag is down, and a socket
\* that is still busy owns other work.
LEMMA FinishGenerationInv ==
    ASSUME NEW m \in Msgs, IInv, TypeOK', FinishGeneration(m)
    PROVE  IInv'
<1> USE DEF IInv
<1>0. /\ pc[m] = "generating" /\ processing' = FALSE
      /\ controller' = [controller EXCEPT ![from[m]] = None]
      /\ UNCHANGED <<from, ticket, pushes, connected>>
    BY DEF FinishGeneration, Release
<1>1. ProcessingHasOwner'
    BY <1>0 DEF ProcessingHasOwner
<1>2. CASE Queue = {} /\ isGenerating' = [isGenerating EXCEPT ![from[m]] = FALSE]
                      /\ pc' = [pc EXCEPT ![m] = "done"]
    <2>1. \A k \in Msgs : pc'[k] = IF k = m THEN "done" ELSE pc[k]
        BY <1>2 DEF TypeOK
    <2>2. SentOnSocket' /\ TicketsOK' /\ NoOvertaking'
        BY <1>0, <2>1 DEF SentOnSocket, TicketsOK, NoOvertaking
    <2>3. BusySocketHasWork'
        BY <1>0, <1>2, <2>1 DEF BusySocketHasWork, TypeOK
    <2>4. ControllerIsLive'
        BY <1>0, <2>1 DEF ControllerIsLive, TypeOK
    <2> QED
        BY <1>1, <2>2, <2>3, <2>4
<1>3. ASSUME NEW next \in Queue, IsHead(next),
             isGenerating' = [isGenerating EXCEPT ![from[m]] = FALSE,
                                                  ![from[next]] = FALSE],
             pc' = [pc EXCEPT ![m] = "done", ![next] = "handed"]
      PROVE  IInv'
    <2>0. next \in Msgs /\ pc[next] = "queued"
        BY DEF Queue
    <2>1. \A k \in Msgs : pc'[k] = IF k = next THEN "handed"
                                    ELSE IF k = m THEN "done" ELSE pc[k]
        BY <1>3, <2>0 DEF TypeOK
    <2>2. SentOnSocket' /\ TicketsOK'
        BY <1>0, <2>0, <2>1 DEF SentOnSocket, TicketsOK
    <2>3. NoOvertaking'
        BY <1>0, <1>3, <2>0, <2>1 DEF NoOvertaking, IsHead, Queue, TypeOK
    <2>4. \A s \in Sockets : isGenerating'[s] =>
              isGenerating[s] /\ s # from[m] /\ s # from[next]
        BY <1>3 DEF TypeOK
    <2>5. BusySocketHasWork'
        BY <1>0, <2>1, <2>4 DEF BusySocketHasWork, TypeOK
    <2>6. ControllerIsLive'
        BY <1>0, <2>0, <2>1 DEF ControllerIsLive, TypeOK
    <2> QED
        BY <1>1, <2>2, <2>3, <2>5, <2>6
<1> QED
    BY <1>2, <1>3 DEF FinishGeneration, Release, Goto

LEMMA BridgeInv ==
    ASSUME NEW m \in Msgs, IInv, TypeOK', StartBridge(m) \/ FinishBridge(m)
    PROVE  IInv'
<1> USE DEF IInv
<1>0. UNCHANGED <<from, ticket, pushes, processing, connected>>
    BY DEF StartBridge, FinishBridge, queueVars
<1>1. CASE StartBridge(m)
    <2>0. /\ pc[m] = "lookup" /\ UNCHANGED controller
          /\ isGenerating' = [isGenerating EXCEPT ![from[m]] = TRUE]
          /\ \A k \in Msgs : pc'[k] = IF k = m THEN "bridging" ELSE pc[k]
        BY <1>1 DEF StartBridge, Goto, TypeOK
    <2>1. SentOnSocket' /\ TicketsOK' /\ NoOvertaking'
        BY <1>0, <2>0 DEF SentOnSocket, TicketsOK, NoOvertaking
    <2>2. ProcessingHasOwner' /\ ControllerIsLive'
        BY <1>0, <2>0 DEF ProcessingHasOwner, Generating, ControllerIsLive, TypeOK
    <2>3. BusySocketHasWork'
        BY <1>0, <2>0 DEF BusySocketHasWork, TypeOK
    <2> QED
        BY <2>1, <2>2, <2>3
<1>2. CASE FinishBridge(m)
    <2>0. /\ pc[m] = "bridging"
          /\ controller' = [controller EXCEPT ![from[m]] = None]
          /\ isGenerating' = [isGenerating EXCEPT ![from[m]] = FALSE]
          /\ \A k \in Msgs : pc'[k] = IF k = m THEN "done" ELSE pc[k]
        BY <1>2 DEF FinishBridge, Goto, TypeOK
    <2>1. SentOnSocket' /\ TicketsOK' /\ NoOvertaking'
        BY <1>0, <2>0 DEF SentOnSocket, TicketsOK, NoOvertaking
    <2>2. ProcessingHasOwner' /\ ControllerIsLive'
        BY <1>0, <2>0 DEF ProcessingHasOwner, Generating, ControllerIsLive, TypeOK
    <2>3. BusySocketHasWork'
        BY <1>0, <2>0 DEF BusySocketHasWork, TypeOK
    <2> QED
        BY <2>1, <2>2, <2>3
<1> QED
    BY <1>1, <1>2

LEMMA DisconnectInv ==
    ASSUME NEW s \in Sockets, IInv, TypeOK', Disconnect(s)
    PROVE  IInv'
<1> USE DEF IInv
<1>0. /\ UNCHANGED <<from, ticket, pushes, processing, isGenerating, controller>>
      /\ connected' = connected \ {s}
    BY DEF Disconnect, queueVars
<1>1. \A k \in Msgs : \/ pc'[k] = pc[k]
                      \/ pc[k] = "queued" /\ pc'[k] = "dropped" /\ from[k] = s
    BY DEF Disconnect, Queue
<1>2. SentOnSocket' /\ TicketsOK' /\ NoOvertaking'
    BY <1>0, <1>1 DEF SentOnSocket, TicketsOK, NoOvertaking
<1>3. ProcessingHasOwner' /\ ControllerIsLive'
    BY <1>0, <1>1 DEF ProcessingHasOwner, Generating, ControllerIsLive, TypeOK
<1>4. BusySocketHasWork'
    BY <1>0, <1>1 DEF BusySocketHasWork, TypeOK
<1> QED
    BY <1>2, <1>3, <1>4

LEMMA StutterInv ==
    ASSUME IInv, TypeOK', UNCHANGED <<pc, from, queueVars, isGenerating, controller, connected>>
    PROVE  IInv'
BY DEF IInv, queueVars, SentOnSocket, TicketsOK, NoOvertaking, ProcessingHasOwner,
       Generating, BusySocketHasWork, ControllerIsLive

LEMMA NextInv == IInv /\ [Next]_vars => IInv'
<1> SUFFICES ASSUME IInv, [Next]_vars PROVE IInv'
    OBVIOUS
<1>t. TypeOK'
    BY NextType DEF IInv
<1>1. ASSUME NEW s \in Sockets, NEW m \in Msgs, Send(s, m) PROVE IInv'
    <2>1. QuietStep(m)
        BY <1>1 DEF Send, QuietStep, Goto, IInv, TypeOK
    <2> QED
        BY <1>t, <2>1, QuietInv
<1>2. ASSUME NEW m \in Msgs,
             \/ Ignore(m) \/ RateLimited(m) \/ Delegate(m) \/ RefuseBusy(m)
             \/ Prepare(m) \/ RefuseRequest(m) \/ RefuseBridge(m)
      PROVE  IInv'
    <2>1. /\ pc[m] \in {"saving", "lookup", "preparing"} /\ from' = from
          /\ \E l \in {"saving", "lookup", "preparing", "done"} : Goto(m, l)
          /\ UNCHANGED <<queueVars, socketVars, connected>>
        BY <1>2 DEF Ignore, RateLimited, Delegate, RefuseBusy, Prepare,
                    RefuseRequest, RefuseBridge
    <2>2. from[m] \in Sockets
        BY <2>1 DEF IInv, SentOnSocket
    <2>3. QuietStep(m)
        BY <2>1, <2>2 DEF QuietStep
    <2> QED
        BY <1>t, <2>3, QuietInv
<1>3. ASSUME NEW m \in Msgs,
             \/ Enqueue(m) \/ StartGeneration(m) \/ FinishGeneration(m)
             \/ StartBridge(m) \/ FinishBridge(m)
      PROVE  IInv'
    BY <1>3, <1>t, EnqueueInv, StartGenerationInv, FinishGenerationInv, BridgeInv
<1>4. ASSUME NEW s \in Sockets, StopGeneration(s) PROVE IInv'
    BY <1>4, <1>t, StutterInv DEF StopGeneration
<1>5. ASSUME NEW s \in Sockets, Disconnect(s) PROVE IInv'
    BY <1>5, <1>t, DisconnectInv
<1>6. CASE Tick
    BY <1>6, <1>t, StutterInv DEF Tick, socketVars
<1>7. CASE UNCHANGED vars
    BY <1>7, <1>t, StutterInv DEF vars, socketVars
<1> QED
    BY <1>1, <1>2, <1>3, <1>4, <1>5, <1>6, <1>7 DEF Next, HandlerStep

THEOREM Invariance == Spec => []IInv
BY InitInv, NextInv, PTL DEF Spec

-----------------------------------------------------------------------------
\* The processing flag of session.ts is never up without a generation that
\* will lower it.
THEOREM FlagOwned == Spec => []ProcessingHasOwner
BY Invariance, PTL DEF IInv

\* A connected socket whose isGenerating is up has a queued request, a
\* running generation or a running delegation.
THEOREM NoOrphanedGuard == Spec => []BusySocketHasWork
BY Invariance, PTL DEF IInv

\* stop-generation and disconnect only ever abort a generation of the same
\* socket that is still streaming.
THEOREM AbortHitsOwnGeneration == Spec => []ControllerIsLive
BY Invariance, PTL DEF IInv

\* Requests leave the queue in the order they entered it.
THEOREM QueueIsFifo == Spec => []NoOvertaking
BY Invariance, PTL DEF IInv

-----------------------------------------------------------------------------
(* The rate limit.                                                          *)

StampsOK ==
    \A m \in Msgs :
        /\ stampedAt[m] # None => pc[m] \notin {"unsent", "saving"} /\ stampedAt[m] <= now
        /\ stampedAt[m] # None /\ now <= stampedAt[m] + RateWindow => m \in stamps[from[m]]

RateInv == IInv /\ StampsOK /\ RateRespected

LEMMA InitRate == Init => RateInv
<1> SUFFICES ASSUME Init PROVE RateInv
    OBVIOUS
<1>1. StampsOK /\ RateRespected
    BY DEF Init, StampsOK, RateRespected
<1> QED
    BY <1>1, InitInv DEF RateInv

\* Steps that pass no message through the limit.
LEMMA NoStampRate ==
    ASSUME RateInv, IInv', UNCHANGED stampedAt, now' >= now,
           \A k \in Msgs : stampedAt[k] # None =>
               /\ pc'[k] \notin {"unsent", "saving"}
               /\ from'[k] = from[k]
               /\ k \in stamps[from[k]] /\ now - stampedAt[k] <= RateWindow
                     => k \in stamps'[from[k]]
    PROVE  RateInv'
<1> USE DEF RateInv, IInv, TypeOK
<1>1. StampsOK'
    BY RateAssumption DEF StampsOK
<1>2. ASSUME NEW m \in Msgs, stampedAt'[m] # None
      PROVE  (Cardinality(WindowFrom(m)) <= RateMax)'
    <2>1. WindowFrom(m)' = WindowFrom(m)
        BY <1>2 DEF WindowFrom
    <2> QED
        BY <1>2, <2>1 DEF RateRespected
<1> QED
    BY <1>1, <1>2 DEF RateRespected

LEMMA StampRate ==
    ASSUME NEW m \in Msgs, RateInv, IInv', Stamp(m), pc[m] = "saving",
           \A k \in Msgs \ {m} : pc'[k] = pc[k],
           pc'[m] \notin {"unsent", "saving"},
           UNCHANGED <<from, now>>
    PROVE  RateInv'
<1> USE DEF RateInv, IInv, TypeOK
<1> DEFINE s == from[m]
<1>0. s \in Sockets
    BY DEF SentOnSocket
<1>1. /\ stamps' = [stamps EXCEPT ![s] = Recent(s) \cup {m}]
      /\ stampedAt' = [stampedAt EXCEPT ![m] = now]
      /\ ~(Cardinality(Recent(s)) >= RateMax)
    BY DEF Stamp, OverLimit
<1>2. StampsOK'
    <2> SUFFICES ASSUME NEW k \in Msgs, stampedAt'[k] # None
                 PROVE  /\ pc'[k] \notin {"unsent", "saving"} /\ stampedAt'[k] <= now'
                        /\ now' <= stampedAt'[k] + RateWindow => k \in stamps'[from'[k]]
        BY DEF StampsOK
    <2>1. CASE k = m
        BY <2>1, <1>0, <1>1
    <2>2. CASE k # m
        <3>1. stampedAt'[k] = stampedAt[k] /\ stampedAt[k] \in Nat
            BY <2>2, <1>1
        <3>2. pc'[k] \notin {"unsent", "saving"} /\ stampedAt'[k] <= now'
            BY <2>2, <3>1 DEF StampsOK
        <3>3. ASSUME now' <= stampedAt'[k] + RateWindow PROVE k \in stamps'[from'[k]]
            <4>1. k \in stamps[from[k]] /\ now - stampedAt[k] <= RateWindow
                BY <3>1, <3>3, RateAssumption DEF StampsOK
            <4>2. from[k] \in Sockets
                BY <3>1, <3>2, <2>2 DEF SentOnSocket
            <4>3. CASE from[k] = s
                BY <4>1, <4>3, <1>0, <1>1 DEF Recent
            <4>4. CASE from[k] # s
                BY <4>1, <4>2, <4>4, <1>1
            <4> QED
                BY <4>3, <4>4
        <3> QED
            BY <3>2, <3>3
    <2> QED
        BY <2>1, <2>2
<1>3. ASSUME NEW p \in Msgs, stampedAt'[p] # None
      PROVE  (Cardinality(WindowFrom(p)) <= RateMax)'
    <2>1. CASE p # m /\ m \notin WindowFrom(p)'
        <3>1. stampedAt'[p] = stampedAt[p] /\ m \notin WindowFrom(p)
            <4>1. stampedAt[m] = None
                BY DEF StampsOK
            <4> QED
                BY <4>1, <2>1, <1>1 DEF WindowFrom
        <3>2. WindowFrom(p)' = WindowFrom(p)
            BY <2>1, <3>1, <1>1 DEF WindowFrom
        <3> QED
            BY <3>1, <3>2, <1>3 DEF RateRespected
    <2>2. CASE p = m \/ m \in WindowFrom(p)'
        <3>1. /\ from[p] = s
              /\ stampedAt'[p] \in Nat
              /\ now <= stampedAt'[p] + RateWindow
            <4>1. CASE p = m
                BY <4>1, <1>1, RateAssumption
            <4>2. CASE m \in WindowFrom(p)'
                BY <4>2, <1>1, <1>3 DEF WindowFrom
            <4> QED
                BY <2>2, <4>1, <4>2
        <3>2. ASSUME NEW k \in WindowFrom(p)', k # m PROVE k \in Recent(s)
            <4>1. /\ k \in Msgs /\ from[k] = s
                  /\ stampedAt[k] \in Nat /\ stampedAt[k] # None
                  /\ stampedAt'[p] <= stampedAt[k]
                BY <3>1, <3>2, <1>1 DEF WindowFrom
            <4>2. stampedAt[k] <= now /\ now <= stampedAt[k] + RateWindow
                BY <4>1, <3>1, RateAssumption DEF StampsOK
            <4> QED
                BY <4>1, <4>2, RateAssumption DEF StampsOK, Recent
        <3>3. IsFiniteSet(Recent(s)) /\ Cardinality(Recent(s)) \in Nat
            <4>1. Recent(s) \in SUBSET Msgs
                BY <1>0 DEF Recent
            <4> QED
                BY <4>1, MsgsAssumption, FS_Subset, FS_CardinalityType
        <3>4. /\ IsFiniteSet(Recent(s) \cup {m})
              /\ Cardinality(Recent(s) \cup {m}) <= Cardinality(Recent(s)) + 1
            <4>1. IsFiniteSet(Recent(s) \cup {m})
                BY <3>3, FS_AddElement
            <4>2. Cardinality(Recent(s) \cup {m}) =
                     IF m \in Recent(s) THEN Cardinality(Recent(s))
                                       ELSE Cardinality(Recent(s)) + 1
                BY <3>3, FS_AddElement
            <4> QED
                BY <3>3, <4>1, <4>2
        <3>5. WindowFrom(p)' \in SUBSET (Recent(s) \cup {m})
            BY <3>2
        <3>6. /\ Cardinality(WindowFrom(p)') <= Cardinality(Recent(s) \cup {m})
              /\ Cardinality(WindowFrom(p)') \in Nat
              /\ Cardinality(Recent(s) \cup {m}) \in Nat
            BY <3>4, <3>5, FS_Subset, FS_CardinalityType
        <3> QED
            BY <3>3, <3>4, <3>6, <1>1, RateAssumption
    <2> QED
        BY <2>1, <2>2
<1> QED
    BY <1>2, <1>3 DEF RateRespected

LEMMA NextRate == RateInv /\ [Next]_vars => RateInv'
<1> SUFFICES ASSUME RateInv, [Next]_vars PROVE RateInv'
    OBVIOUS
<1>i. IInv'
    BY NextInv DEF RateInv
<1>t. TypeOK /\ StampsOK
    BY DEF RateInv, IInv
<1>1. ASSUME NEW m \in Msgs,
             \/ Delegate(m) \/ RefuseBusy(m) \/ Enqueue(m) \/ Prepare(m)
      PROVE  RateInv'
    <2>1. Stamp(m) /\ pc[m] = "saving" /\ UNCHANGED <<from, now>>
        BY <1>1 DEF Delegate, RefuseBusy, Enqueue, Prepare
    <2>2. /\ \A k \in Msgs \ {m} : pc'[k] = pc[k]
          /\ pc'[m] \notin {"unsent", "saving"}
        BY <1>1, <1>t DEF Delegate, RefuseBusy, Enqueue, Prepare, Goto, TypeOK
    <2> QED
        BY <2>1, <2>2, <1>i, StampRate
<1>2. ASSUME NEW m \in Msgs, RateLimited(m) PROVE RateInv'
    <2>1. UNCHANGED <<from, stampedAt, now>>
        BY <1>2 DEF RateLimited
    <2>2. \A k \in Msgs : stampedAt[k] # None =>
              /\ pc'[k] \notin {"unsent", "saving"}
              /\ k \in stamps[from[k]] /\ now - stampedAt[k] <= RateWindow
                    => k \in stamps'[from[k]]
        BY <1>2, <1>t DEF RateLimited, Goto, Recent, StampsOK, TypeOK
    <2> QED
        BY <2>1, <2>2, <1>i, <1>t, NoStampRate DEF TypeOK
<1>3. ASSUME NEW m \in Msgs,
             \/ \E s \in Sockets : Send(s, m)
             \/ Ignore(m) \/ RefuseRequest(m) \/ StartGeneration(m)
             \/ FinishGeneration(m) \/ RefuseBridge(m) \/ StartBridge(m)
             \/ FinishBridge(m)
      PROVE  RateInv'
    <2>1. UNCHANGED <<rateVars, now>>
        BY <1>3 DEF Send, Ignore, RefuseRequest, StartGeneration, FinishGeneration, Release,
                    RefuseBridge, StartBridge, FinishBridge
    <2>2. \A k \in Msgs : pc[k] \notin {"unsent", "saving"} =>
              pc'[k] \notin {"unsent", "saving"} /\ from'[k] = from[k]
        BY <1>3, <1>t DEF Send, Ignore, RefuseRequest, StartGeneration, FinishGeneration, Release,
                    RefuseBridge, StartBridge, FinishBridge, Goto, TypeOK, Queue
    <2> QED
        BY <2>1, <2>2, <1>i, <1>t, NoStampRate DEF StampsOK, rateVars, TypeOK
<1>4. ASSUME NEW s \in Sockets, StopGeneration(s) \/ Disconnect(s) PROVE RateInv'
    <2>1. /\ UNCHANGED <<rateVars, now, from>>
          /\ \A k \in Msgs : pc'[k] = pc[k] \/ pc'[k] = "dropped"
        BY <1>4 DEF StopGeneration, Disconnect
    <2> QED
        BY <2>1, <1>i, <1>t, NoStampRate DEF StampsOK, rateVars, TypeOK
<1>5. CASE Tick \/ UNCHANGED vars
    <2>1. UNCHANGED <<rateVars, pc, from>> /\ now' >= now
        BY <1>5, <1>t DEF Tick, vars, TypeOK
    <2> QED
        BY <2>1, <1>i, <1>t, NoStampRate DEF StampsOK, rateVars, TypeOK
<1> QED
    BY <1>1, <1>2, <1>3, <1>4, <1>5 DEF Next, HandlerStep

\* In any window of RATE_LIMIT_WINDOW a socket gets at most RATE_LIMIT_MAX
\* messages past the limit, however many of its handlers interleave.
THEOREM RateLimitHolds == Spec => []RateRespected
<1>1. Spec => []RateInv
    BY InitRate, NextRate, PTL DEF Spec
<1> QED
    BY <1>1, PTL DEF RateInv
=============================================================================
