----------------------------- MODULE InstallPs1 -----------------------------
(***************************************************************************)
(* Runs of the Windows installer, src/install.ps1, one after the other:    *)
(* install or upgrade, -RemovePath and -Uninstall, against one install     *)
(* directory and the User PATH, which other programs change as well.       *)
(*                                                                         *)
(* A step is a call that changes a file or the registry.  It may throw,    *)
(* which leads into the catch block that undoes the steps before it; the   *)
(* undo may throw too.  Ctrl+C runs the finally blocks and no catch block; *)
(* a kill runs neither.  File.Replace and File.Move take place or do not.  *)
(* As in InstallSh, the content of an executable is the release it is.     *)
(***************************************************************************)
EXTENDS Integers

CONSTANTS
  Versions,     \* the releases
  Edited,       \* an executable that is no release
  Corrupt,      \* an incomplete copy
  NoFile,       \* no file
  NoState,      \* no installer state file
  Jobs,         \* what the runs may be asked to do
  Faults,       \* what may go wrong: "io", "stop" (Ctrl+C), "kill"
  MaxRuns,      \* bound: how many runs there are
  MaxFailures,  \* bound: how many calls throw
  MaxEdits      \* bound: how often another program changes the User PATH

Contents == Versions \cup {Edited}
States == [version : Versions, hash : Versions, path : BOOLEAN]

\* path is -AddToPath, neither switch, or -NoAddToPath; removePath is -RemovePath.
Job == [what : {"install", "uninstall", "removePath"}, version : Versions, force : BOOLEAN,
        allowDowngrade : BOOLEAN, path : {"add", "default", "no"}, removePath : BOOLEAN]

ASSUME VersionsAssumption ==
  /\ Versions \subseteq Nat
  /\ {Edited, Corrupt, NoFile} \cap Versions = {}
  /\ Edited # Corrupt /\ Edited # NoFile /\ Corrupt # NoFile
  /\ NoState \notin States

ASSUME BoundsAssumption == MaxRuns \in Nat /\ MaxFailures \in Nat /\ MaxEdits \in Nat

ASSUME JobsAssumption ==
  /\ Jobs # {} /\ Jobs \subseteq Job
  /\ \A j \in Jobs :
       /\ j.what = "install" => ~j.removePath
       /\ j.what = "removePath" => j.removePath /\ ~j.force /\ ~j.allowDowngrade /\ j.path # "add"
       /\ j.what = "uninstall" => ~j.force /\ ~j.allowDowngrade /\ j.path # "add"

VARIABLES
  dir,       \* whether the install directory is there
  exe,       \* the content of gitler.exe
  state,     \* the installer state file
  userPath,  \* the User PATH: the directory's entry and another program's
  temps,     \* the staged executable and the two backups of the run
  litter,    \* whether the directory has a temporary file of an earlier run
  me,        \* the run: its position, what it knows, what it has changed
  runs, failures, edits

files == <<dir, exe, state, temps, litter>>
counts == <<runs, failures, edits>>
vars == <<files, userPath, me, counts>>

Ours == "gitler"
NoTemps == [stage |-> NoFile, exe |-> NoFile, state |-> NoState]
NoPlan == [old |-> {}, new |-> {}, owns |-> FALSE, action |-> "None"]
Now == [dir |-> dir, exe |-> exe, state |-> state, userPath |-> userPath]

\* done holds what the run has changed (the transactions that are Committed,
\* movedExecutable, movedState, userPathChanged), errors whether rollbackErrors
\* is not empty; before is no variable of the script.
Fresh(at, j) ==
  [pc |-> at, job |-> j, flow |-> j.what, plan |-> NoPlan, replace |-> FALSE,
   created |-> FALSE, done |-> {}, errors |-> FALSE, outcome |-> "none", before |-> Now]

Trying == {"inspect", "plan", "mkdir", "stage", "replace", "moveExe", "moveState",
           "path", "state", "process", "drop", "undoState", "undoPath", "undoExe"}
Finally == {"cleanBackups", "cleanStage", "rmdir"}

\* The directory is absent, somebody else's, or managed; whether PATH has the entry
\* depends on the user as much as on the installer.
Init ==
  /\ \/ dir = FALSE /\ exe = NoFile /\ state = NoState
     \/ dir = TRUE /\ exe \in {NoFile, Edited} /\ state = NoState
     \/ /\ dir = TRUE
        /\ state \in {s \in States : s.hash = s.version}
        /\ exe \in {state.hash, Edited}
  /\ userPath \in SUBSET {Ours, "other"}
  /\ temps = NoTemps /\ litter = FALSE
  /\ me = Fresh("idle", CHOOSE j \in Jobs : TRUE)
  /\ runs = 0 /\ failures = 0 /\ edits = 0

-----------------------------------------------------------------------------
At(pc) == me.pc = pc
Goto(pc) == me' = [me EXCEPT !.pc = pc]
End(outcome) == me' = [me EXCEPT !.pc = "idle", !.outcome = outcome]

\* A call throws.
Throws ==
  /\ "io" \in Faults /\ failures < MaxFailures
  /\ failures' = failures + 1

\* The finally block of the flow.
Leave(outcome) ==
  me' = [me EXCEPT !.outcome = outcome,
                   !.pc = CASE me.flow = "install" -> "cleanStage"
                            [] me.flow = "uninstall" -> "cleanBackups"
                            [] OTHER -> "idle"]

\* The catch block: what is undone first, and what next.
Catch == Goto(IF me.flow = "uninstall" THEN "undoPath" ELSE "undoState")
UndoNext(pc) ==
  CASE pc = "undoState" -> IF me.flow = "uninstall" THEN "undoExe" ELSE "undoPath"
    [] pc = "undoPath" -> IF me.flow = "uninstall" THEN "undoState" ELSE "undoExe"

Start ==
  /\ At("idle") /\ runs < MaxRuns
  /\ \E j \in Jobs : me' = Fresh("inspect", j)
  /\ runs' = runs + 1
  /\ litter' = (litter \/ temps # NoTemps)
  /\ temps' = NoTemps
  /\ UNCHANGED <<dir, exe, state, userPath, failures, edits>>

-----------------------------------------------------------------------------
(* Get-PathPlan: what becomes of the User PATH and who owns the entry. *)

\* Variation: the whole PATH goes, not only the entry.
PathPlan_Clears(owned, add, remove) ==
  [old |-> userPath, new |-> IF remove THEN {} ELSE userPath, owns |-> owned, action |-> "None"]

PathPlan(owned, add, remove) ==
  LET has == Ours \in userPath IN
  CASE add -> [old |-> userPath, new |-> userPath \cup {Ours},
               owns |-> owned \/ ~has, action |-> "Add"]
    [] remove /\ owned -> [old |-> userPath, new |-> userPath \ {Ours},
                           owns |-> FALSE, action |-> "Remove"]
    [] remove /\ ~owned -> [old |-> userPath, new |-> userPath, owns |-> FALSE, action |-> "None"]
    [] OTHER -> [old |-> userPath, new |-> userPath, owns |-> owned, action |-> "None"]

Owned(s) == s # NoState /\ s.path

\* Variation: a directory without a state file passes for a new one.
Inspect_Adopts ==
  /\ At("inspect")
  /\ IF me.flow = "install" /\ state = NoState THEN Goto("plan") ELSE End("failed")
  /\ UNCHANGED <<files, userPath, counts>>

\* The checks of the main script before the download, and of Invoke-Uninstall.
\* Without a directory -RemovePath is an installation like any other.
Inspect ==
  LET job == me.job
      sound == state # NoState /\ exe # NoFile
      begin(pc, remove) ==
        me' = [me EXCEPT !.pc = pc, !.plan = PathPlan(Owned(state), FALSE, remove)]
  IN  /\ At("inspect")
      /\ \/ /\ ~dir /\ job.what = "uninstall"
            /\ End("absent")
         \/ /\ ~dir /\ job.what # "uninstall"
            /\ me' = [me EXCEPT !.flow = "install", !.pc = "plan"]
         \/ /\ dir /\ ~sound
            /\ End("failed")
         \/ /\ dir /\ sound /\ job.what = "uninstall"
            /\ IF state.path /\ ~job.removePath THEN End("failed")
                                                 ELSE begin("moveExe", job.removePath)
         \/ /\ dir /\ sound /\ job.what = "removePath"
            /\ IF state.path THEN begin("path", TRUE) ELSE End("absent")
         \/ /\ dir /\ sound /\ job.what = "install"
            /\ IF exe = state.hash \/ job.force THEN Goto("plan") ELSE End("failed")
      /\ UNCHANGED <<files, userPath, counts>>

\* Download and verification, the comparison of versions, and the plan.
Plan ==
  LET job == me.job
      same == state # NoState /\ job.version = state.version
      refused == /\ state # NoState
                 /\ \/ job.version < state.version /\ ~job.allowDowngrade
                    \/ same /\ exe # job.version /\ ~job.force
      replace == ~(same /\ exe = job.version)
      add == job.path # "no" /\ ~job.removePath
      plan == PathPlan(Owned(state), add, job.removePath)
      nothing == ~replace /\ plan.action = "None" /\ plan.owns = state.path
  IN  /\ At("plan")
      /\ \/ refused /\ Leave("failed") /\ UNCHANGED failures
         \/ ~refused /\ Throws /\ Leave("failed")
         \/ ~refused /\ nothing /\ Leave("ok") /\ UNCHANGED failures
         \/ /\ ~refused /\ ~nothing
            /\ me' = [me EXCEPT !.plan = plan, !.replace = replace,
                        !.pc = CASE ~dir -> "mkdir" [] dir /\ replace -> "stage" [] OTHER -> "path"]
            /\ UNCHANGED failures
      /\ UNCHANGED <<files, userPath, runs, edits>>

-----------------------------------------------------------------------------
(* The steps of the transactions. *)

MakeDir ==
  /\ At("mkdir")
  /\ \/ /\ dir' = TRUE
        /\ me' = [me EXCEPT !.created = TRUE, !.pc = "stage"]
        /\ UNCHANGED failures
     \/ Throws /\ Leave("failed") /\ UNCHANGED dir
  /\ UNCHANGED <<exe, state, temps, litter, userPath, runs, edits>>

\* Variation: the staged copy is not verified.
Stage_Unverified ==
  /\ At("stage")
  /\ \E copy \in {me.job.version, Corrupt} : temps' = [temps EXCEPT !.stage = copy]
  /\ Goto("replace")
  /\ UNCHANGED <<dir, exe, state, litter, userPath, counts>>

\* The copy to the install directory, its hash, --version and --help.
Stage ==
  /\ At("stage")
  /\ \/ /\ temps' = [temps EXCEPT !.stage = me.job.version]
        /\ Goto("replace")
        /\ UNCHANGED failures
     \/ /\ Throws
        /\ \E copy \in {NoFile, Corrupt, me.job.version} :
             temps' = [temps EXCEPT !.stage = copy]
        /\ Leave("failed")
  /\ UNCHANGED <<dir, exe, state, litter, userPath, runs, edits>>

\* Replace-ManagedExecutable: the old one, if there was one, becomes the backup.
ReplaceExecutable ==
  /\ At("replace")
  /\ \/ /\ exe' = temps.stage
        /\ temps' = [temps EXCEPT !.stage = NoFile, !.exe = exe]
        /\ me' = [me EXCEPT !.done = @ \cup {"exe"}, !.pc = "path"]
        /\ UNCHANGED failures
     \/ Throws /\ Catch /\ UNCHANGED <<exe, temps>>
  /\ UNCHANGED <<dir, state, litter, userPath, runs, edits>>

\* The two moves of Invoke-Uninstall.
MoveExecutable ==
  /\ At("moveExe")
  /\ \/ /\ temps' = [temps EXCEPT !.exe = exe]
        /\ exe' = NoFile
        /\ me' = [me EXCEPT !.done = @ \cup {"exe"}, !.pc = "moveState"]
        /\ UNCHANGED failures
     \/ Throws /\ Catch /\ UNCHANGED <<exe, temps>>
  /\ UNCHANGED <<dir, state, litter, userPath, runs, edits>>

MoveState ==
  /\ At("moveState")
  /\ \/ /\ temps' = [temps EXCEPT !.state = state]
        /\ state' = NoState
        /\ me' = [me EXCEPT !.done = @ \cup {"state"}, !.pc = "path"]
        /\ UNCHANGED failures
     \/ Throws /\ Catch /\ UNCHANGED <<state, temps>>
  /\ UNCHANGED <<dir, exe, litter, userPath, runs, edits>>

\* Set-UserPathValue writes what was planned, whatever PATH has become since.  An
\* installation without -AddToPath goes on when it throws, and leaves PATH alone.
SetUserPath ==
  LET next == IF me.flow = "uninstall" THEN "drop" ELSE "state"
  IN  /\ At("path")
      /\ \/ me.plan.new = me.plan.old /\ Goto(next) /\ UNCHANGED <<userPath, failures>>
         \/ /\ me.plan.new # me.plan.old
            /\ userPath' = me.plan.new
            /\ me' = [me EXCEPT !.done = @ \cup {"path"}, !.pc = next]
            /\ UNCHANGED failures
         \/ /\ me.plan.new # me.plan.old
            /\ Throws
            /\ IF me.flow = "install" /\ me.job.path = "default"
                 THEN me' = [me EXCEPT !.plan = PathPlan(Owned(state), FALSE, FALSE), !.pc = next]
                 ELSE Catch
            /\ UNCHANGED userPath
      /\ UNCHANGED <<files, runs, edits>>

NewState ==
  IF me.flow = "install"
    THEN [version |-> me.job.version, hash |-> me.job.version, path |-> me.plan.owns]
    ELSE [state EXCEPT !.path = FALSE]

\* Write-StateFile
WriteState ==
  /\ At("state")
  /\ \/ /\ state' = NewState
        /\ temps' = [temps EXCEPT !.state = state]
        /\ me' = [me EXCEPT !.done = @ \cup {"state"},
                            !.pc = IF me.flow = "install" THEN "drop" ELSE "process"]
        /\ UNCHANGED failures
     \/ Throws /\ Catch /\ UNCHANGED <<state, temps>>
  /\ UNCHANGED <<dir, exe, litter, userPath, runs, edits>>

\* Update-CurrentProcessPath, whose error counts under -RemovePath only.
UpdateProcess ==
  /\ At("process")
  /\ \/ Goto("drop") /\ UNCHANGED failures
     \/ Throws /\ Catch
  /\ UNCHANGED <<files, userPath, runs, edits>>

\* Remove-KnownFileQuietly on each backup: either may stay, or both.
RemoveBackups ==
  \/ temps' = NoTemps /\ UNCHANGED failures
  \/ /\ Throws
     /\ \E e \in {NoFile, temps.exe}, s \in {NoState, temps.state} :
          temps' = [NoTemps EXCEPT !.exe = e, !.state = s]

\* The end of a transaction.
DropBackups ==
  /\ At("drop")
  /\ RemoveBackups
  /\ IF me.flow = "uninstall" THEN me' = [me EXCEPT !.outcome = "ok", !.pc = "rmdir"]
                              ELSE Leave("ok")
  /\ UNCHANGED <<dir, exe, state, litter, userPath, runs, edits>>

-----------------------------------------------------------------------------
(* The catch blocks: each undo is tried, whatever became of the one before. *)

Undone(pc) == me' = [me EXCEPT !.pc = UndoNext(pc)]
NotUndone(pc) == me' = [me EXCEPT !.pc = UndoNext(pc), !.errors = TRUE]

\* Restore-StateFile, or the move back.
UndoState ==
  /\ At("undoState")
  /\ \/ "state" \notin me.done /\ Undone("undoState") /\ UNCHANGED <<state, temps, failures>>
     \/ /\ "state" \in me.done
        /\ state' = temps.state
        /\ temps' = [temps EXCEPT !.state = NoState]
        /\ Undone("undoState")
        /\ UNCHANGED failures
     \/ /\ "state" \in me.done /\ Throws
        /\ NotUndone("undoState")
        /\ UNCHANGED <<state, temps>>
  /\ UNCHANGED <<dir, exe, litter, userPath, runs, edits>>

\* Variation: PATH is left as it is.
UndoUserPath_Not ==
  /\ At("undoPath")
  /\ Undone("undoPath")
  /\ UNCHANGED <<files, userPath, counts>>

UndoUserPath ==
  /\ At("undoPath")
  /\ \/ "path" \notin me.done /\ Undone("undoPath") /\ UNCHANGED <<userPath, failures>>
     \/ "path" \in me.done /\ userPath' = me.plan.old /\ Undone("undoPath") /\ UNCHANGED failures
     \/ "path" \in me.done /\ Throws /\ NotUndone("undoPath") /\ UNCHANGED userPath
  /\ UNCHANGED <<files, runs, edits>>

Report(errors) == Leave(IF errors THEN "rollbackFailed" ELSE "failed")

\* Variation: the new executable is deleted, whether there was one before or not.
UndoExecutable_Deletes ==
  /\ At("undoExe")
  /\ exe' = NoFile
  /\ Report(me.errors)
  /\ UNCHANGED <<dir, state, temps, litter, userPath, counts>>

\* Variation: the new executable stays.
UndoExecutable_Not ==
  /\ At("undoExe")
  /\ Report(me.errors)
  /\ UNCHANGED <<files, userPath, counts>>

\* Restore-ReplacedExecutable, or the move back; and what the run reports.
UndoExecutable ==
  /\ At("undoExe")
  /\ \/ "exe" \notin me.done /\ Report(me.errors) /\ UNCHANGED <<exe, temps, failures>>
     \/ /\ "exe" \in me.done
        /\ exe' = temps.exe
        /\ temps' = [temps EXCEPT !.exe = NoFile]
        /\ Report(me.errors)
        /\ UNCHANGED failures
     \/ "exe" \in me.done /\ Throws /\ Report(TRUE) /\ UNCHANGED <<exe, temps>>
  /\ UNCHANGED <<dir, state, litter, userPath, runs, edits>>

-----------------------------------------------------------------------------
(* The finally blocks, and what does not go through the catch blocks. *)

\* The uninstall removes its backups, also when they could not be moved back.
CleanBackups ==
  /\ At("cleanBackups")
  /\ RemoveBackups
  /\ Goto("idle")
  /\ UNCHANGED <<dir, exe, state, litter, userPath, runs, edits>>

CleanStage ==
  /\ At("cleanStage")
  /\ \/ temps' = [temps EXCEPT !.stage = NoFile] /\ UNCHANGED failures
     \/ temps.stage # NoFile /\ Throws /\ UNCHANGED temps
  /\ Goto(IF me.created /\ me.outcome # "ok" THEN "rmdir" ELSE "idle")
  /\ UNCHANGED <<dir, exe, state, litter, userPath, runs, edits>>

\* An empty directory goes: one the run made, or one that was uninstalled.
RemoveDir ==
  LET empty == exe = NoFile /\ state = NoState /\ temps = NoTemps /\ ~litter
  IN  /\ At("rmdir")
      /\ \/ dir' = ~empty /\ UNCHANGED failures
         \/ empty /\ Throws /\ UNCHANGED dir
      /\ Goto("idle")
      /\ UNCHANGED <<exe, state, temps, litter, userPath, runs, edits>>

\* Ctrl+C
Stop ==
  /\ "stop" \in Faults
  /\ me.pc \in Trying
  /\ IF me.pc = "inspect" THEN End("stopped") ELSE Leave("stopped")
  /\ UNCHANGED <<files, userPath, counts>>

\* A kill inside Write-StateFile leaves its temporary file.
Kill ==
  /\ "kill" \in Faults
  /\ me.pc \in Trying \cup Finally
  /\ End("killed")
  /\ litter' \in {litter, litter \/ At("state")}
  /\ UNCHANGED <<dir, exe, state, temps, userPath, counts>>

\* Another program adds or removes its own entry.
OtherProgram ==
  /\ edits < MaxEdits
  /\ userPath' = IF "other" \in userPath THEN userPath \ {"other"} ELSE userPath \cup {"other"}
  /\ edits' = edits + 1
  /\ UNCHANGED <<files, me, runs, failures>>

-----------------------------------------------------------------------------
Transaction ==
  \/ MakeDir \/ Stage \/ ReplaceExecutable \/ MoveExecutable \/ MoveState
  \/ SetUserPath \/ WriteState \/ UpdateProcess \/ DropBackups
Rollback == UndoState \/ UndoUserPath \/ UndoExecutable
Cleanup == CleanBackups \/ CleanStage \/ RemoveDir
Run == Start \/ Inspect \/ Plan \/ Transaction \/ Rollback \/ Cleanup \/ Stop \/ Kill

Next == Run \/ OtherProgram

Spec == Init /\ [][Next]_vars

-----------------------------------------------------------------------------
(* Properties. *)

\* The files and the script's variables stay in their ranges; an incomplete copy
\* never gets the executable's name (install.ps1:1841-1850).
TypeOK ==
  /\ dir \in BOOLEAN /\ litter \in BOOLEAN
  /\ exe \in Contents \cup {NoFile}
  /\ state \in States \cup {NoState}
  /\ userPath \subseteq {Ours, "other"}
  /\ temps.stage \in Versions \cup {Corrupt, NoFile}
  /\ temps.exe \in Contents \cup {NoFile}
  /\ temps.state \in States \cup {NoState}
  /\ runs \in 0..MaxRuns /\ failures \in 0..MaxFailures /\ edits \in 0..MaxEdits
  /\ me.pc \in {"idle"} \cup Trying \cup Finally
  /\ me.job \in Jobs /\ me.flow \in {"install", "uninstall", "removePath"}
  /\ me.done \subseteq {"exe", "state", "path"}
  /\ me.outcome \in {"none", "ok", "absent", "failed", "rollbackFailed", "stopped", "killed"}

Over(outcome) == At("idle") /\ me.outcome = outcome

\* What a run reports is so.  "The previous installation was restored" and "left
\* intact" (install.ps1:1467, 1937): executable, state and the directory's entry in
\* PATH are those the run found.  "Installed": executable and state are of the
\* release asked for, which is not older unless -AllowDowngrade is given, however
\* torn the installation was before.  After -RemovePath and -Uninstall, what they
\* were to remove is gone and nothing else.
OutcomeIsTrue ==
  LET before == me.before
      v == me.job.version
      entryGone == Ours \notin userPath \/ ~Owned(before.state)
  IN  /\ Over("failed") =>
           /\ exe = before.exe /\ state = before.state
           /\ Ours \in userPath <=> Ours \in before.userPath
      /\ Over("ok") /\ me.flow = "install" =>
           /\ exe = v /\ state # NoState /\ state.version = v /\ state.hash = v
           /\ before.state # NoState => v >= before.state.version \/ me.job.allowDowngrade
      /\ Over("ok") /\ me.flow = "removePath" =>
           exe = before.exe /\ state = [before.state EXCEPT !.path = FALSE] /\ entryGone
      /\ Over("ok") /\ me.flow = "uninstall" =>
           exe = NoFile /\ state = NoState /\ entryGone

\* The state file says whose the PATH entry is, and it stays true: an entry that a
\* run adds is recorded, one that it removes was recorded, and ownership is not
\* given up while the entry stays, whatever step threw (install.ps1:1081-1163,
\* 1852-1926).
PathFollowsState ==
  Over("ok") \/ Over("failed") =>
    LET before == me.before IN
    /\ Ours \in userPath \ before.userPath => Owned(state)
    /\ Ours \in before.userPath \ userPath => Owned(before.state) /\ ~Owned(state)
    /\ Owned(before.state) /\ ~Owned(state) => Ours \notin userPath

\* Two failures, Ctrl+C or a kill at any point of an install or of -RemovePath leave
\* an executable where there is a state file, so that a run with -Force can repair
\* the rest; only an uninstall that was cut short, or could not be undone, does not
\* (install.ps1:1470-1477).
NeverMissing ==
  state # NoState /\ exe = NoFile =>
    \/ me.before.exe = NoFile
    \/ me.flow = "uninstall" /\ ~Over("ok") /\ ~Over("failed")

\* A directory that is there without a state file is not the installer's: it is left
\* alone at every moment of a run (install.ps1:1680-1684, 1388-1391).
UnmanagedRefused ==
  me.before.dir /\ me.before.state = NoState => dir /\ exe = me.before.exe /\ state = NoState

\* An entry of another program that is in PATH when the run makes its plan and is
\* still there is not removed, by the change or by its undo; one that comes or goes
\* between the two is overwritten (install.ps1:1095, 1864, 1917).
OthersKept ==
  [][Run /\ "other" \in userPath \cap me.plan.old => "other" \in userPath']_vars

Wish(job) == [what |-> job.what, version |-> job.version,
              force |-> job.force, allowDowngrade |-> job.allowDowngrade]

\* The run may still undo what it has changed, or says that it will.
Undecided == me.pc \in Trying \ {"drop"}

\* An installation as its user sees it: until the backups may go, what the run found.
Promise == INSTANCE Installation WITH
  None <- NoFile,
  exe <- IF Undecided THEN me.before.exe ELSE exe,
  record <- LET s == IF Undecided THEN me.before.state ELSE state
            IN  IF s = NoState THEN NoFile ELSE s.version,
  asked <- IF At("idle") THEN {} ELSE {Wish(me.job)}

\* A run changes executable and record at one moment, when its transaction is
\* complete, and only as its options allow; what is undone was never seen.  Stopped,
\* killed, or unable to undo, an install leaves at worst the new executable under
\* the old record (install.ps1:1841-1943, 1388-1480).
KeepsInstallation == Promise!Spec
=============================================================================
