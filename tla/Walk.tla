-------------------------------- MODULE Walk --------------------------------
(***************************************************************************)
(* A loop over a sequence as a value: what becomes of a state that a       *)
(* function takes from one element to the next.                            *)
(***************************************************************************)
EXTENDS Integers, Sequences

\* The state after s, from start on; step is a function of a state and an element.
Through(step, start, s) ==
  LET upTo[i \in 0 .. Len(s)] == IF i = 0 THEN start ELSE step[upTo[i - 1], s[i]]
  IN  upTo[Len(s)]
=============================================================================
