------------------------------- MODULE Tools -------------------------------
(***************************************************************************)
(* The tools of devutils, bintool and inetin that turn files or arguments  *)
(* into other ones: one of them is started, with whichever options, and    *)
(* runs to its end.  They keep nothing between two calls but the files.    *)
(***************************************************************************)
EXTENDS Buniq, Fill, Kp, Bhxx, Bpatch, Bgrep, Furl, Exe, SplitMerge

VARIABLE tool   \* the one that is started

files == <<buniq, fill, kp, bhxx, patch, grep, furl, exe>>
vars == <<tool, files, splitVars>>

\* One of a set: what a tool that is not started is kept at.
Member(set) == CHOOSE x \in set : TRUE

BuniqIdle == BuniqStart(Member(BuniqOptions), Member(BuniqInputs))
FillIdle == FillStart([template |-> Member(Templates), fills |-> <<>>, count |-> 0,
                       randomize |-> FALSE])
KpIdle == KpStart(Member(KpOptions), Member(KpInputs))
BhxxIdle == BhxxStart(Member(BhxxOptions), Member(BhxxInputs))
PatchIdle == PatchStart(Member(PatchOptions), Member(PatchFiles))
GrepIdle == GrepStart(Member(GrepOptions), Member(GrepFiles))
FurlIdle == FurlStart("encode", SomeParts, <<>>)
ExeIdle == ExeStart([kinds |-> {}, out |-> "stdout"], Member(ExeFiles))

Init ==
  /\ tool \in {"buniq", "fill", "kp", "bhxx", "bpatch", "bgrep", "furl", "exe", "bsplit"}
  /\ IF tool = "buniq" THEN BuniqInit ELSE buniq = BuniqIdle
  /\ IF tool = "fill" THEN FillInit ELSE fill = FillIdle
  /\ IF tool = "kp" THEN KpInit ELSE kp = KpIdle
  /\ IF tool = "bhxx" THEN BhxxInit ELSE bhxx = BhxxIdle
  /\ IF tool = "bpatch" THEN PatchInit ELSE patch = PatchIdle
  /\ IF tool = "bgrep" THEN GrepInit ELSE grep = GrepIdle
  /\ IF tool = "furl" THEN FurlInit ELSE furl = FurlIdle
  /\ IF tool = "exe" THEN ExeInit ELSE exe = ExeIdle
  /\ SplitInit

Rest(t) == UNCHANGED <<tool, splitVars>> /\ tool = t

RunBuniq ==
  Rest("buniq") /\ BuniqStep /\ UNCHANGED <<fill, kp, bhxx, patch, grep, furl, exe>>
RunFill ==
  Rest("fill") /\ FillStep /\ UNCHANGED <<buniq, kp, bhxx, patch, grep, furl, exe>>
RunKp ==
  Rest("kp") /\ KpStep /\ UNCHANGED <<buniq, fill, bhxx, patch, grep, furl, exe>>
RunBhxx ==
  Rest("bhxx") /\ BhxxStep /\ UNCHANGED <<buniq, fill, kp, patch, grep, furl, exe>>
RunBpatch ==
  Rest("bpatch") /\ PatchStep /\ UNCHANGED <<buniq, fill, kp, bhxx, grep, furl, exe>>
RunBgrep ==
  Rest("bgrep") /\ GrepStep /\ UNCHANGED <<buniq, fill, kp, bhxx, patch, furl, exe>>
RunFurl ==
  Rest("furl") /\ FurlStep /\ UNCHANGED <<buniq, fill, kp, bhxx, patch, grep, exe>>
RunExe ==
  Rest("exe") /\ ExeStep /\ UNCHANGED <<buniq, fill, kp, bhxx, patch, grep, furl>>
RunSplitMerge == tool = "bsplit" /\ SplitNext /\ UNCHANGED <<tool, files>>

ToolEnded ==
  CASE tool = "buniq" -> buniq.pc = "done"
    [] tool = "fill" -> fill.pc = "done"
    [] tool = "kp" -> kp.pc = "done"
    [] tool = "bhxx" -> bhxx.pc = "done"
    [] tool = "bpatch" -> patch.pc = "done"
    [] tool = "bgrep" -> grep.pc = "done"
    [] tool = "furl" -> furl.pc = "done"
    [] tool = "exe" -> exe.pc = "done"
    [] tool = "bsplit" -> FALSE

Next ==
  \/ RunBuniq \/ RunFill \/ RunKp \/ RunBhxx \/ RunBpatch \/ RunBgrep \/ RunFurl \/ RunExe
  \/ RunSplitMerge
  \/ ToolEnded /\ UNCHANGED vars

Spec == Init /\ [][Next]_vars
=============================================================================
