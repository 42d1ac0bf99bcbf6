----------------------------- MODULE RemoteTask -----------------------------
(***************************************************************************)
(* What sending an intent to another workspace promises, stated without    *)
(* requests or retries: the task of a token runs at most once, and of the  *)
(* reports the caller may get, "success" says that it ran and succeeded,   *)
(* and "denied" says that it has not run and never will.  Any other report *)
(* promises nothing.                                                       *)
(***************************************************************************)
EXTENDS Naturals

CONSTANTS Reports, None

VARIABLES
    runs,    \* how often the task was started
    ended,   \* how it ended: "no", "success", "error"
    closed,  \* it will not be started any more
    report   \* what the caller was told, or None

vars == <<runs, ended, closed, report>>

Init == runs = 0 /\ ended = "no" /\ closed = FALSE /\ report = None

Close ==
    /\ runs = 0 /\ ~closed
    /\ closed' = TRUE
    /\ UNCHANGED <<runs, ended, report>>

Start ==
    /\ runs = 0 /\ ~closed
    /\ runs' = 1
    /\ UNCHANGED <<ended, closed, report>>

End(e) ==
    /\ runs = 1 /\ ended = "no"
    /\ ended' = e
    /\ UNCHANGED <<runs, closed, report>>

Report(r) ==
    /\ report = None
    /\ r = "success" => ended = "success"
    /\ r = "denied" => closed
    /\ report' = r
    /\ UNCHANGED <<runs, ended, closed>>

Next ==
    \/ Close
    \/ Start
    \/ \E e \in {"success", "error"} : End(e)
    \/ \E r \in Reports : Report(r)

Spec == Init /\ [][Next]_vars
=============================================================================
