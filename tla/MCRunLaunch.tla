---------------------------- MODULE MCRunLaunch ----------------------------
(* Instance of RunLaunch for TLC: every combination of redirections, and a  *)
(* table of five descriptors with any of them open at the start.            *)
EXTENDS RunLaunch
=============================================================================
