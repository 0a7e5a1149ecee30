------------------------------ MODULE MCRetry ------------------------------
(* Instance of Retry for TLC: up to three attempts, every option combination, *)
(* every behaviour of the command and its descendants.                      *)
EXTENDS Retry
=============================================================================
