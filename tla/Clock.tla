-------------------------------- MODULE Clock --------------------------------
(***************************************************************************)
(* What components share that keep time: the clock of the process, which   *)
(* only their Ticks move, and the value of what is absent.                 *)
(***************************************************************************)
CONSTANTS
    None,
    MaxTime  \* bound on the clock

VARIABLE now  \* Date.now()
=============================================================================
