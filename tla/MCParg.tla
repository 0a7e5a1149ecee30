------------------------------- MODULE MCParg -------------------------------
(* Instance of Parg for TLC: three threads racing over up to four batches,  *)
(* so that one worker can claim twice while two others are in flight.       *)
EXTENDS Parg
=============================================================================
