---------------------------- MODULE MCInstallPs1 ----------------------------
(* Two runs of the Windows installer, every combination of the options that
   matter on two releases, two calls that throw, and one change of the User
   PATH by another program. *)
EXTENDS InstallPs1

Install(v, force, down, path) ==
  [what |-> "install", version |-> v, force |-> force, allowDowngrade |-> down,
   path |-> path, removePath |-> FALSE]
Remove(what, removePath) ==
  [what |-> what, version |-> 2, force |-> FALSE, allowDowngrade |-> FALSE,
   path |-> "default", removePath |-> removePath]

AllJobs ==
  {Install(v, f, d, p) : v \in Versions, f, d \in BOOLEAN, p \in {"add", "default", "no"}}
    \cup {Remove("removePath", TRUE), Remove("uninstall", TRUE), Remove("uninstall", FALSE)}
=============================================================================
