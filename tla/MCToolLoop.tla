----------------------------- MODULE MCToolLoop -----------------------------
(***************************************************************************)
(* Small instances of ToolLoop: a target that does not exist, and one that *)
(* does, each with two actions.  The odd action of the second is banned by *)
(* the contract and unknown to it; the other one is an aggregate, which    *)
(* may bring the odd one as a step.                                        *)
(***************************************************************************)
EXTENDS ToolLoop

CONSTANTS here, missing, good, odd

AllCalls == [to : {here, missing}, act : {good, odd}]
NothingOdd == AllCalls \ {[to |-> here, act |-> odd]}
GoodHere == {[to |-> here, act |-> good]}
=============================================================================
