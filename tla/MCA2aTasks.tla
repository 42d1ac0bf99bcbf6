------------------------------ MODULE MCA2aTasks ------------------------------
EXTENDS A2aTasks, TLC

CONSTANTS t1, t2

\* One turn with room for every choice of text, one that only runs beside it.
TurnTasks == {t1, t2}
TurnText == t1 :> 2 @@ t2 :> 1
TurnTools == t1 :> 1 @@ t2 :> 1

=============================================================================
