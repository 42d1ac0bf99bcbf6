-------------------------- MODULE MCIntentExchange --------------------------
(***************************************************************************)
(* Small instances of IntentExchange.                                      *)
(***************************************************************************)
EXTENDS IntentExchange
=============================================================================
