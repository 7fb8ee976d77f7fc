---------------------------- MODULE MCInstallSh ----------------------------
(* Instances of InstallSh for TLC: what the runs are asked to do. *)
EXTENDS InstallSh, TLC

Install(v, force, down, path) ==
  [what |-> "install", version |-> v, force |-> force, allowDowngrade |-> down,
   modifyPath |-> path, removePath |-> FALSE]
RemovePathJob ==
  [what |-> "removePath", version |-> 1, force |-> FALSE, allowDowngrade |-> FALSE,
   modifyPath |-> FALSE, removePath |-> TRUE]
UninstallJob(path) ==
  [what |-> "uninstall", version |-> 1, force |-> FALSE, allowDowngrade |-> FALSE,
   modifyPath |-> FALSE, removePath |-> path]

\* Every combination of the options on two releases, and the other commands.
AllJobs ==
  {Install(v, f, d, p) : v \in Versions, f, d, p \in BOOLEAN}
    \cup {RemovePathJob, UninstallJob(TRUE), UninstallJob(FALSE)}

\* For two runs one after the other: without the PATH, --force and --allow-downgrade
\* are both given or neither is.
PairJobs == AllJobs \ {Install(v, f, ~f, FALSE) : v \in Versions, f \in BOOLEAN}

\* Fewer, for runs that overlap.
FaultJobs ==
  {Install(1, FALSE, FALSE, TRUE), Install(2, FALSE, FALSE, TRUE), Install(1, TRUE, TRUE, FALSE),
   RemovePathJob, UninstallJob(TRUE)}

PlainJobs == {Install(v, FALSE, FALSE, FALSE) : v \in Versions}

\* The runs differ in nothing; no liveness is checked with it.
RunSymmetry == Permutations(Runs)
=============================================================================
