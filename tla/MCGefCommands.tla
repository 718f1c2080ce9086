--------------------------- MODULE MCGefCommands ---------------------------
(* The commands of the debugger extension and the scripts, one started in  *)
(* each behaviour.                                                         *)
EXTENDS GlibcHeap, GefArch, GefScan, GefEdit, GefView, BuildScripts

Init == HeapInit \/ BranchInit \/ ScanInit \/ EditInit \/ ViewInit \/ ScriptsInit

Next == HeapNext \/ IsBranchTaken \/ ScanNext \/ EditNext \/ ViewNext \/ ScriptsNext

\* A command that has begun goes on: GDB does nothing else meanwhile.
Spec == Init /\ [][Next]_vars /\ WF_vars(Next)

\* Every command ends, on the most corrupt memory: the walks over lists and
\* pointer chains because they remember what they saw, the walk by sizes because
\* it only goes forward and a size of 0 stops it, the recursion of `pcustom'
\* because its depth is bounded.  A trace ends when the process gets there.
CommandsEnd == (job.cmd # "trace" /\ LeadsOut) ~> Ended
=============================================================================
