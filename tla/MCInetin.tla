----------------------------- MODULE MCInetin -----------------------------
(* Instance of Inetin: two addresses, servers, types of records, redirects,  *)
(* pieces of a body; timeouts of up to two ticks; two sockets and processes, *)
(* with two changes during a run of netst; three attempts of nprobe.         *)
EXTENDS Inetin

MCSockTables == {1}
=============================================================================
