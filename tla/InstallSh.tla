----------------------------- MODULE InstallSh -----------------------------
(***************************************************************************)
(* Runs of the Unix installer, src/install.sh: install or upgrade, PATH    *)
(* removal and uninstall, against one install directory and one shell      *)
(* profile.  A step is a command that changes a file or a flag the exit    *)
(* trap reads; a command may fail, a signal may come between two of them   *)
(* (the trap then cleans up), and a run may be killed outright.            *)
(*                                                                         *)
(* The content of an executable is the version of the release it is, so a  *)
(* content is also its hash.  The shell is one whose profile the installer *)
(* can edit.                                                               *)
(***************************************************************************)
EXTENDS Integers, FiniteSets

CONSTANTS
  Runs,         \* the runs of the installer
  Versions,     \* the releases
  Edited,       \* an executable that is no release
  Corrupt,      \* a damaged download or an incomplete copy
  NoFile,       \* no file
  NoState,      \* no installer state file
  Jobs,         \* what the runs may be asked to do
  Faults,       \* what may go wrong: "io", "signal", "kill"
  MaxFailures,  \* bound: how many commands fail
  Sequential    \* whether a run only starts when no other is under way

Contents == Versions \cup {Edited, Corrupt}
States == [version : Versions, hash : Contents, path : BOOLEAN]

\* The options, as far as parse_args lets them be combined.
Job == [what : {"install", "uninstall", "removePath"}, version : Versions,
        force : BOOLEAN, allowDowngrade : BOOLEAN,
        modifyPath : BOOLEAN, removePath : BOOLEAN]

ASSUME VersionsAssumption ==
  /\ Versions \subseteq Nat
  /\ Edited \notin Versions /\ Corrupt \notin Versions /\ NoFile \notin Contents
  /\ Edited # Corrupt
  /\ NoState \notin States

ASSUME JobsAssumption ==
  /\ Jobs # {} /\ Jobs \subseteq Job
  /\ \A j \in Jobs :
       /\ j.what = "uninstall" => ~j.force /\ ~j.allowDowngrade /\ ~j.modifyPath
       /\ j.what = "install" => ~j.removePath
       /\ j.what = "removePath" => ~j.modifyPath /\ j.removePath

ASSUME BoundsAssumption == MaxFailures \in Nat /\ Sequential \in BOOLEAN

VARIABLES
  dir,       \* whether INSTALL_DIR is there
  binary,    \* the content of BINARY_PATH
  state,     \* the installer state file
  profile,   \* whether the shell profile holds the PATH block
  temps,     \* temps[r]: STAGE_FILE, ROLLBACK_FILE and STATE_TMP_FILE of run r
  me,        \* me[r]: the position of run r and its shell variables
  failures   \* how many commands have failed

install == <<dir, binary, state>>
vars == <<install, profile, temps, me, failures>>

NoTemps == [stage |-> NoFile, rollback |-> NoFile, state |-> NoState]

\* CURRENT_VERSION, CURRENT_HASH and CURRENT_PATH_*, with MANAGED_INSTALL.
Unseen == [managed |-> FALSE, version |-> 0, hash |-> NoFile, path |-> FALSE]

Now == [dir |-> dir, binary |-> binary, state |-> state, profile |-> profile]

\* Two fields are no variables of the script: before is what the run found when it
\* started, uncleaned whether a removal of one of its temporary files failed.
Fresh(at, j) ==
  [pc |-> at, job |-> j, seen |-> Unseen, payload |-> NoFile,
   hadOld |-> FALSE, swapped |-> FALSE, committed |-> FALSE, retained |-> FALSE,
   ready |-> FALSE, snapshot |-> FALSE, preserved |-> FALSE, uncleaned |-> FALSE,
   before |-> Now]

Cleaning == {"cleanFiles", "cleanBinary", "cleanRollback", "cleanProfile"}
Working == {"inspect", "fetch", "decide", "mkdir", "stage", "backup", "prepare",
            "swap", "undoSwap", "flagSwap", "commit", "undoCommit", "flagCommit",
            "dropRollback", "snapshot", "block", "unblock", "writeState",
            "undoProfile", "forget", "rmBinary", "rmState", "rmDir"}
Running(r) == me[r].pc \in Working \cup Cleaning

\* The directory before the first run: absent, managed (with the PATH block or
\* without, edited or not), or somebody else's.  The profile may hold the block
\* of an installation elsewhere.
Init ==
  /\ \/ dir = FALSE /\ binary = NoFile /\ state = NoState /\ profile \in BOOLEAN
     \/ dir = TRUE /\ binary \in {NoFile, Edited} /\ state = NoState /\ profile = FALSE
     \/ /\ dir = TRUE
        /\ state \in [version : Versions, hash : Versions, path : BOOLEAN]
        /\ state.hash = state.version
        /\ binary \in {state.hash, Edited}
        /\ profile = state.path
  /\ temps = [r \in Runs |-> NoTemps]
  /\ me = [r \in Runs |-> Fresh("idle", CHOOSE j \in Jobs : TRUE)]
  /\ failures = 0

-----------------------------------------------------------------------------
At(r, pc) == me[r].pc = pc
Goto(r, pc) == me' = [me EXCEPT ![r].pc = pc]

\* exit: the trap takes over.
Exit(r) == Goto(r, "cleanFiles")

\* One of the commands that may fail does.
IOFailure ==
  /\ "io" \in Faults /\ failures < MaxFailures
  /\ failures' = failures + 1

Start(r) ==
  /\ At(r, "idle")
  /\ Sequential => \A q \in Runs : ~Running(q)
  /\ \E j \in Jobs : me' = [me EXCEPT ![r] = Fresh("inspect", j)]
  /\ UNCHANGED <<install, profile, temps, failures>>

\* Variation: the hash of the managed executable is not looked at.
Inspect_NoHash(r) ==
  /\ At(r, "inspect")
  /\ LET job == me[r].job
         found == IF dir /\ state # NoState
                    THEN [managed |-> TRUE, version |-> state.version,
                          hash |-> state.hash, path |-> state.path]
                    ELSE Unseen
     IN  IF (dir /\ (state = NoState \/ binary = NoFile)) \/ job.what # "install"
           THEN Exit(r)
           ELSE me' = [me EXCEPT ![r] = [@ EXCEPT !.seen = found, !.pc = "fetch"]]
  /\ UNCHANGED <<install, profile, temps, failures>>

\* Variation: a directory without a state file passes for a new one.
Inspect_Adopts(r) ==
  /\ At(r, "inspect")
  /\ IF me[r].job.what # "install" \/ state # NoState
       THEN Exit(r)
       ELSE Goto(r, "fetch")
  /\ UNCHANGED <<install, profile, temps, failures>>

\* inspect_installation, and the refusals of the three commands.
Inspect(r) ==
  LET job == me[r].job
      found == IF dir THEN [managed |-> TRUE, version |-> state.version,
                            hash |-> state.hash, path |-> state.path]
                      ELSE Unseen
      sound == dir => /\ state # NoState /\ binary # NoFile
                      /\ binary = state.hash \/ job.force
      seenAt(pc) == me' = [me EXCEPT ![r] = [@ EXCEPT !.seen = found, !.pc = pc]]
  IN  /\ At(r, "inspect")
      /\ \/ ~sound /\ Exit(r)
         \/ sound /\ job.what = "install" /\ seenAt("fetch")
         \/ /\ sound /\ job.what = "removePath"
            /\ IF dir THEN seenAt("snapshot") ELSE Exit(r)
         \/ /\ sound /\ job.what = "uninstall"
            /\ IF dir /\ (found.path => job.removePath)
                 THEN seenAt(IF job.removePath THEN "unblock" ELSE "rmBinary")
                 ELSE Exit(r)
      /\ UNCHANGED <<install, profile, temps, failures>>

\* Variation: the download is not compared with the manifest.
Fetch_Unverified(r) ==
  /\ At(r, "fetch")
  /\ \E got \in {me[r].job.version, Corrupt} :
       me' = [me EXCEPT ![r] = [@ EXCEPT !.payload = got, !.pc = "decide"]]
  /\ UNCHANGED <<install, profile, temps, failures>>

\* The release is resolved and downloaded, its hash and version are verified.
Fetch(r) ==
  /\ At(r, "fetch")
  /\ \E got \in {me[r].job.version, Corrupt} :
       IF got = me[r].job.version
         THEN me' = [me EXCEPT ![r] = [@ EXCEPT !.payload = got, !.pc = "decide"]]
         ELSE Exit(r)
  /\ UNCHANGED <<install, profile, temps, failures>>

WantsPath(r) == me[r].job.modifyPath /\ ~me[r].seen.path

\* Variation: versions are only compared for equality.
Decide_AnyVersion(r) ==
  /\ At(r, "decide")
  /\ IF me[r].seen.managed /\ me[r].seen.version = me[r].job.version THEN Exit(r)
                                                                      ELSE Goto(r, "mkdir")
  /\ UNCHANGED <<install, profile, temps, failures>>

\* Upgrade, downgrade, replacement, or nothing to do.
Decide(r) ==
  LET job == me[r].job
      seen == me[r].seen
      newer == job.version > seen.version
      same == job.version = seen.version
      unchanged == same /\ seen.hash = me[r].payload
  IN  /\ At(r, "decide")
      /\ \/ /\ ~seen.managed
            /\ IF job.force THEN Exit(r) ELSE Goto(r, "mkdir")
         \/ /\ seen.managed
            /\ newer \/ (job.version < seen.version /\ job.allowDowngrade) \/ (same /\ job.force)
            /\ Goto(r, "mkdir")
         \/ /\ seen.managed /\ unchanged /\ ~job.force
            /\ IF WantsPath(r) THEN Goto(r, "snapshot") ELSE Exit(r)
         \/ /\ seen.managed /\ ~job.force /\ same /\ ~unchanged
            /\ Exit(r)
         \/ /\ seen.managed /\ job.version < seen.version /\ ~job.allowDowngrade
            /\ Exit(r)
      /\ UNCHANGED <<install, profile, temps, failures>>

-----------------------------------------------------------------------------
(* The replacement of the executable. *)

\* mkdir -p for a new installation; the directory of an old one must still be there.
MakeDir(r) ==
  /\ At(r, "mkdir")
  /\ dir' = (dir \/ ~me[r].seen.managed)
  /\ IF dir' THEN Goto(r, "stage") ELSE Exit(r)
  /\ UNCHANGED <<binary, state, profile, temps, failures>>

\* cp to STAGE_FILE, which is tried once more.
Stage(r) ==
  /\ At(r, "stage")
  /\ \/ /\ dir
        /\ temps' = [temps EXCEPT ![r].stage = me[r].payload]
        /\ Goto(r, "backup")
        /\ UNCHANGED failures
     \/ /\ dir /\ IOFailure
        /\ temps' = [temps EXCEPT ![r].stage = Corrupt]
        /\ Exit(r)
     \/ ~dir /\ Exit(r) /\ UNCHANGED <<temps, failures>>
  /\ UNCHANGED <<install, profile>>

\* cp -p of the executable that is there to ROLLBACK_FILE.
Backup(r) ==
  /\ At(r, "backup")
  /\ \/ /\ temps' = [temps EXCEPT ![r].rollback = binary]
        /\ me' = [me EXCEPT ![r] = [@ EXCEPT !.hadOld = (binary # NoFile), !.pc = "prepare"]]
        /\ UNCHANGED failures
     \/ /\ binary # NoFile /\ IOFailure
        /\ temps' = [temps EXCEPT ![r].rollback = Corrupt]
        /\ Exit(r)
  /\ UNCHANGED <<install, profile>>

NewState(r) ==
  [version |-> me[r].job.version, hash |-> me[r].payload, path |-> me[r].seen.path]

PrepareState(r) ==
  /\ At(r, "prepare")
  /\ temps' = [temps EXCEPT ![r].state = NewState(r)]
  /\ Goto(r, "swap")
  /\ UNCHANGED <<install, profile, failures>>

\* mv STAGE_FILE BINARY_PATH
Swap(r) ==
  /\ At(r, "swap")
  /\ \/ /\ binary' = temps[r].stage
        /\ temps' = [temps EXCEPT ![r].stage = NoFile]
        /\ Goto(r, "flagSwap")
        /\ UNCHANGED failures
     \/ IOFailure /\ Goto(r, "undoSwap") /\ UNCHANGED <<binary, temps>>
  /\ UNCHANGED <<dir, state, profile>>

\* mv ROLLBACK_FILE BINARY_PATH || true
MoveBack(r) ==
  \/ /\ binary' = temps[r].rollback
     /\ temps' = [temps EXCEPT ![r].rollback = NoFile]
     /\ UNCHANGED failures
  \/ IOFailure /\ UNCHANGED <<binary, temps>>

UndoSwap(r) ==
  /\ At(r, "undoSwap")
  /\ IF me[r].hadOld THEN MoveBack(r) ELSE UNCHANGED <<binary, temps, failures>>
  /\ me' = [me EXCEPT ![r] = [@ EXCEPT !.preserved = TRUE, !.pc = "cleanFiles"]]
  /\ UNCHANGED <<dir, state, profile>>

FlagSwap(r) ==
  /\ At(r, "flagSwap")
  /\ me' = [me EXCEPT ![r] = [@ EXCEPT !.swapped = TRUE, !.pc = "commit"]]
  /\ UNCHANGED <<install, profile, temps, failures>>

\* commit_prepared_state
Commit(r) ==
  /\ At(r, "commit")
  /\ \/ /\ state' = temps[r].state
        /\ temps' = [temps EXCEPT ![r].state = NoState]
        /\ Goto(r, "flagCommit")
        /\ UNCHANGED failures
     \/ IOFailure /\ Goto(r, "undoCommit") /\ UNCHANGED <<state, temps>>
  /\ UNCHANGED <<dir, binary, profile>>

\* Variation: the old executable is not put back.
UndoCommit_KeepsNew(r) ==
  /\ At(r, "undoCommit")
  /\ me' = [me EXCEPT ![r] = [@ EXCEPT !.swapped = FALSE, !.preserved = TRUE,
                                       !.pc = "cleanFiles"]]
  /\ UNCHANGED <<install, profile, temps, failures>>

\* Variation: the executable is removed, whether there was one before or not.
UndoCommit_Removes(r) ==
  /\ At(r, "undoCommit")
  /\ binary' = NoFile
  /\ me' = [me EXCEPT ![r] = [@ EXCEPT !.swapped = FALSE, !.preserved = TRUE,
                                       !.pc = "cleanFiles"]]
  /\ UNCHANGED <<dir, state, profile, temps, failures>>

\* mv ROLLBACK_FILE BINARY_PATH || true, or rm of a first executable, whose failure
\* ends the run before it resets BINARY_SWAP_COMMITTED.
UndoCommit(r) ==
  LET undone == me' = [me EXCEPT ![r] = [@ EXCEPT !.swapped = FALSE, !.preserved = TRUE,
                                                  !.pc = "cleanFiles"]]
  IN  /\ At(r, "undoCommit")
      /\ \/ me[r].hadOld /\ MoveBack(r) /\ undone
         \/ ~me[r].hadOld /\ binary' = NoFile /\ undone /\ UNCHANGED <<temps, failures>>
         \/ ~me[r].hadOld /\ IOFailure /\ Exit(r) /\ UNCHANGED <<binary, temps>>
      /\ UNCHANGED <<dir, state, profile>>

FlagCommit(r) ==
  /\ At(r, "flagCommit")
  /\ me' = [me EXCEPT ![r] = [@ EXCEPT !.committed = TRUE, !.pc = "dropRollback"]]
  /\ UNCHANGED <<install, profile, temps, failures>>

DropRollback(r) ==
  /\ At(r, "dropRollback")
  /\ temps' = [temps EXCEPT ![r].rollback = NoFile]
  /\ me' = [me EXCEPT ![r] =
               [@ EXCEPT !.seen = [managed |-> TRUE, version |-> me[r].job.version,
                                   hash |-> me[r].payload, path |-> me[r].seen.path],
                         !.pc = IF WantsPath(r) THEN "snapshot" ELSE "cleanFiles"]]
  /\ UNCHANGED <<install, profile, failures>>

-----------------------------------------------------------------------------
(* The PATH block: configure_path, --remove-path, and the part of uninstall. *)

\* snapshot_path_profile
Snapshot(r) ==
  /\ At(r, "snapshot")
  /\ me' = [me EXCEPT ![r] =
               [@ EXCEPT !.ready = TRUE, !.snapshot = profile,
                         !.pc = IF me[r].job.what = "install" THEN "block" ELSE "unblock"]]
  /\ UNCHANGED <<install, profile, temps, failures>>

\* append_path_block, which refuses a second block.
AppendBlock(r) ==
  /\ At(r, "block")
  /\ \/ profile /\ Exit(r) /\ UNCHANGED profile
     \/ /\ ~profile /\ profile' = TRUE
        /\ me' = [me EXCEPT ![r] = [@ EXCEPT !.seen.path = TRUE, !.pc = "writeState"]]
  /\ UNCHANGED <<install, temps, failures>>

\* remove_path_block, which refuses when the block is not there.
RemoveBlock(r) ==
  LET next == IF me[r].job.what = "uninstall" THEN "rmBinary" ELSE "writeState"
  IN  /\ At(r, "unblock")
      /\ \/ ~me[r].seen.path /\ Goto(r, next) /\ UNCHANGED profile
         \/ me[r].seen.path /\ ~profile /\ Exit(r) /\ UNCHANGED profile
         \/ /\ me[r].seen.path /\ profile
            /\ profile' = FALSE
            /\ me' = [me EXCEPT ![r] = [@ EXCEPT !.seen.path = FALSE, !.pc = next]]
      /\ UNCHANGED <<install, temps, failures>>

Recording(r) ==
  [version |-> me[r].seen.version, hash |-> me[r].seen.hash, path |-> me[r].seen.path]

\* write_state, which forgets its temporary file even when the rm of it fails too.
WriteState(r) ==
  /\ At(r, "writeState")
  /\ \/ dir /\ state' = Recording(r) /\ Goto(r, "forget") /\ UNCHANGED <<temps, failures>>
     \/ dir /\ IOFailure /\ Goto(r, "undoProfile") /\ UNCHANGED <<state, temps>>
     \/ /\ dir /\ "io" \in Faults
        /\ failures' = failures + 2 /\ failures' <= MaxFailures
        /\ temps' = [temps EXCEPT ![r].state = Recording(r)]
        /\ me' = [me EXCEPT ![r] = [@ EXCEPT !.uncleaned = TRUE, !.pc = "undoProfile"]]
        /\ UNCHANGED state
     \/ ~dir /\ Goto(r, "undoProfile") /\ UNCHANGED <<state, temps, failures>>
  /\ UNCHANGED <<dir, binary, profile>>

\* Variation: the profile is left as it is when the state cannot be written.
UndoProfile_Nothing(r) ==
  /\ At(r, "undoProfile")
  /\ me' = [me EXCEPT ![r] = [@ EXCEPT !.ready = FALSE, !.pc = "cleanFiles"]]
  /\ UNCHANGED <<install, profile, temps, failures>>

\* The cp -p of the snapshot over the profile is no rename: one that fails may leave
\* the profile as it was, restored, or cut short, without any block.
RestoreFails(r) == IOFailure /\ profile' \in {profile, me[r].snapshot, FALSE}

\* restore_path_profile_snapshot
UndoProfile(r) ==
  /\ At(r, "undoProfile")
  /\ \/ /\ profile' = me[r].snapshot
        /\ me' = [me EXCEPT ![r] = [@ EXCEPT !.ready = FALSE, !.pc = "cleanFiles"]]
        /\ UNCHANGED failures
     \/ RestoreFails(r) /\ Exit(r)
  /\ UNCHANGED <<install, temps>>

\* PATH_SNAPSHOT_READY=0
Forget(r) ==
  /\ At(r, "forget")
  /\ me' = [me EXCEPT ![r] = [@ EXCEPT !.ready = FALSE, !.pc = "cleanFiles"]]
  /\ UNCHANGED <<install, profile, temps, failures>>

-----------------------------------------------------------------------------
(* Uninstall. *)

RemoveBinary(r) ==
  /\ At(r, "rmBinary")
  /\ binary' = NoFile
  /\ IF binary = NoFile THEN Exit(r) ELSE Goto(r, "rmState")
  /\ UNCHANGED <<dir, state, profile, temps, failures>>

RemoveState(r) ==
  /\ At(r, "rmState")
  /\ state' = NoState
  /\ IF state = NoState THEN Exit(r) ELSE Goto(r, "rmDir")
  /\ UNCHANGED <<dir, binary, profile, temps, failures>>

\* rmdir takes an empty directory only.
RemoveDir(r) ==
  /\ At(r, "rmDir")
  /\ dir' = (binary # NoFile \/ state # NoState \/ \E q \in Runs : temps[q] # NoTemps)
  /\ Exit(r)
  /\ UNCHANGED <<binary, state, profile, temps, failures>>

-----------------------------------------------------------------------------
(* What comes in between, and the exit trap: cleanup. *)

\* A command whose failure only ends the run (set -e, or fail).
CommandFails(r) ==
  /\ me[r].pc \in {"mkdir", "prepare", "dropRollback", "snapshot", "block", "unblock",
                   "rmBinary", "rmState"}
  /\ IOFailure
  /\ Exit(r)
  /\ UNCHANGED <<install, profile, temps>>

\* HUP, INT or TERM
Signal(r) ==
  /\ "signal" \in Faults
  /\ me[r].pc \in Working
  /\ Exit(r)
  /\ UNCHANGED <<install, profile, temps, failures>>

\* The trap no longer catches signals once it runs.  A kill may cut short the cp -p
\* that restores the profile.
Kill(r) ==
  /\ "kill" \in Faults
  /\ Running(r)
  /\ \/ profile' = profile
     \/ profile' = FALSE /\ me[r].ready /\ me[r].pc \in {"undoProfile", "cleanProfile"}
  /\ Goto(r, "killed")
  /\ UNCHANGED <<install, temps, failures>>

\* Under set -e an rm that fails here ends the trap, with all it had still to do.
CleanFiles(r) ==
  LET mine == temps[r]
      unstated == IF me[r].uncleaned THEN mine ELSE [mine EXCEPT !.state = NoState]
      leaves(files) == temps' = [temps EXCEPT ![r] = files]
      goesOn == Goto(r, "cleanBinary") /\ UNCHANGED failures
      aborts == /\ IOFailure
                /\ me' = [me EXCEPT ![r] = [@ EXCEPT !.uncleaned = TRUE, !.pc = "ended"]]
  IN  /\ At(r, "cleanFiles")
      /\ \/ leaves([unstated EXCEPT !.stage = NoFile]) /\ goesOn
         \/ unstated # mine /\ leaves(mine) /\ aborts
         \/ mine.stage # NoFile /\ leaves(unstated) /\ aborts
      /\ UNCHANGED <<install, profile>>

Torn(r) == me[r].swapped /\ ~me[r].committed

\* What was swapped and not committed is undone: a mv that fails retains the rollback
\* copy, an rm that fails is reported.
CleanBinary(r) ==
  LET old == me[r].hadOld /\ temps[r].rollback # NoFile
      goOn(retained) == me' = [me EXCEPT ![r] = [@ EXCEPT !.retained = retained,
                                                          !.pc = "cleanRollback"]]
  IN  /\ At(r, "cleanBinary")
      /\ \/ /\ Torn(r) /\ old
            /\ MoveBack(r)
            /\ IF temps' = temps THEN goOn(TRUE) ELSE goOn(FALSE)
         \/ /\ Torn(r) /\ ~me[r].hadOld
            /\ \/ binary' = NoFile /\ UNCHANGED failures
               \/ binary # NoFile /\ IOFailure /\ UNCHANGED binary
            /\ goOn(FALSE)
            /\ UNCHANGED temps
         \/ /\ ~Torn(r) \/ (me[r].hadOld /\ ~old)
            /\ goOn(FALSE)
            /\ UNCHANGED <<binary, temps, failures>>
      /\ UNCHANGED <<dir, state, profile>>

\* Variation: the rollback copy is forgotten.
CleanRollback_Forgets(r) ==
  /\ At(r, "cleanRollback")
  /\ Goto(r, "cleanProfile")
  /\ UNCHANGED <<install, profile, temps, failures>>

\* The rm may fail, which the trap reports before it goes on.
CleanRollback(r) ==
  /\ At(r, "cleanRollback")
  /\ \/ /\ temps' = IF me[r].retained THEN temps ELSE [temps EXCEPT ![r].rollback = NoFile]
        /\ Goto(r, "cleanProfile")
        /\ UNCHANGED failures
     \/ /\ ~me[r].retained /\ temps[r].rollback # NoFile /\ IOFailure
        /\ me' = [me EXCEPT ![r] = [@ EXCEPT !.uncleaned = TRUE, !.pc = "cleanProfile"]]
        /\ UNCHANGED temps
  /\ UNCHANGED <<install, profile>>

CleanProfile(r) ==
  /\ At(r, "cleanProfile")
  /\ \/ profile' = (IF me[r].ready THEN me[r].snapshot ELSE profile) /\ UNCHANGED failures
     \/ me[r].ready /\ RestoreFails(r)
  /\ Goto(r, "ended")
  /\ UNCHANGED <<install, temps>>

-----------------------------------------------------------------------------
Replace(r) ==
  \/ MakeDir(r) \/ Stage(r) \/ Backup(r) \/ PrepareState(r) \/ Swap(r) \/ UndoSwap(r)
  \/ FlagSwap(r) \/ Commit(r) \/ UndoCommit(r) \/ FlagCommit(r) \/ DropRollback(r)

SetPath(r) ==
  \/ Snapshot(r) \/ AppendBlock(r) \/ RemoveBlock(r) \/ WriteState(r)
  \/ UndoProfile(r) \/ Forget(r)

Uninstall(r) == RemoveBinary(r) \/ RemoveState(r) \/ RemoveDir(r)

Cleanup(r) == CleanFiles(r) \/ CleanBinary(r) \/ CleanRollback(r) \/ CleanProfile(r)

Next ==
  \E r \in Runs :
    \/ Start(r) \/ Inspect(r) \/ Fetch(r) \/ Decide(r)
    \/ Replace(r) \/ SetPath(r) \/ Uninstall(r) \/ Cleanup(r)
    \/ CommandFails(r) \/ Signal(r) \/ Kill(r)

Spec == Init /\ [][Next]_vars

-----------------------------------------------------------------------------
(* Properties. *)

\* The files and the shell variables stay in their ranges: what install.sh
\* assigns to them.
TypeOK ==
  /\ dir \in BOOLEAN /\ profile \in BOOLEAN
  /\ binary \in Contents \cup {NoFile}
  /\ state \in States \cup {NoState}
  /\ temps \in [Runs -> [stage : Contents \cup {NoFile}, rollback : Contents \cup {NoFile},
                         state : States \cup {NoState}]]
  /\ failures \in 0..MaxFailures
  /\ \A r \in Runs :
       /\ me[r].pc \in {"idle", "ended", "killed"} \cup Working \cup Cleaning
       /\ me[r].job \in Jobs
       /\ me[r].payload \in Versions \cup {NoFile}
       /\ \A flag \in {me[r].hadOld, me[r].swapped, me[r].committed, me[r].retained,
                       me[r].ready, me[r].snapshot, me[r].preserved,
                       me[r].uncleaned} : flag \in BOOLEAN

\* The last command of the trap, or the one that ends it early.
Ends(r) == me[r].pc \in Cleaning /\ me'[r].pc = "ended"

Recorded(s) == IF s = NoState THEN NoState ELSE <<s.version, s.hash>>

\* "Newer managed version: verify, then upgrade transactionally" (plans/plan.md:224):
\* an install that ends, however it ends, leaves executable and state as they were
\* or both of the new release (install.sh:968-1016 and the trap, 85-130), unless the
\* undo of a command that failed has failed as well, which PreservedIsTrue is about.
AllOrNothing ==
  [][\A r \in Runs : Ends(r) /\ failures <= 1 /\ me[r].job.what = "install" =>
       LET before == me[r].before
           v == me[r].job.version
       IN  <<binary, Recorded(state)>> \in
             {<<before.binary, Recorded(before.state)>>, <<v, <<v, v>>>>}]_vars

\* The profile gets or loses its block exactly when the state file says that the
\* installer owns one (install.sh:702-732, 898-919), on every path through an
\* install or a --remove-path, whichever commands fail on it.  The exception is the
\* run whose last command fails: a trap that cannot remove a file stops before the
\* profile (88-93), and a cp -p of the snapshot that fails there has no other after
\* it and may have cut the profile short (111-115).
PathFollowsState ==
  [][\A r \in Runs : Ends(r) /\ failures' = failures /\ me[r].job.what # "uninstall" =>
       LET owned(s) == s # NoState /\ s.path
       IN  profile' # me[r].before.profile <=> owned(state) # owned(me[r].before.state)]_vars

\* No run records an older version than the one it replaces without
\* --allow-downgrade (install.sh:950-951; plans/plan.md:227).
NoDowngrade ==
  [][\A r \in Runs : me[r].pc = "commit" /\ state # NoState /\ state' # state =>
       state'.version >= state.version \/ me[r].job.allowDowngrade]_vars

\* The executable in place is always a whole, verified release, or the one that
\* was there: a kill at any point leaves no partial file under its name.
OnlyVerified == binary # Corrupt /\ (state # NoState => state.hash # Corrupt)

\* An installation that has its state file has its executable, unless an uninstall
\* is to blame: without it every later run is refused, even with --force.
NeverMissing ==
  state # NoState /\ binary = NoFile =>
    \E r \in Runs : me[r].job.what = "uninstall" /\ ~At(r, "idle")

\* A directory that is there without a state file is not the installer's: no run
\* changes what is in it (install.sh:524-527).
UnmanagedRefused ==
  [][\A r \in Runs :
       Ends(r) /\ me[r].before.dir /\ me[r].before.state = NoState =>
         dir /\ binary = me[r].before.binary /\ state = NoState]_vars

\* An executable the user changed is replaced or removed under --force only
\* (install.sh:533-535).
EditedKept ==
  [][binary = Edited /\ binary' # Edited => \E r \in Runs : Running(r) /\ me[r].job.force]_vars

\* A run that ends leaves none of its temporary files in the install directory,
\* wherever failures and signals sent it to its trap, except a rollback copy it says it
\* retained, and what a removal that failed left (install.sh:88-93, 107-110, 754-765).
NoLitter ==
  \A r \in Runs : me[r].pc = "ended" /\ ~me[r].uncleaned =>
    temps[r] = NoTemps \/ (me[r].retained /\ temps[r].stage = NoFile /\ temps[r].state = NoState)

\* "existing executable was preserved" (install.sh:1004 and 1014): a run that says
\* so leaves the executable that it found.
PreservedIsTrue ==
  [][\A r \in Runs : Ends(r) /\ me[r].preserved => binary = me[r].before.binary]_vars

\* The run has moved the executable and not yet decided for good.
Undecided(r) ==
  \/ me[r].pc \in {"flagSwap", "commit", "undoCommit", "rmState"}
  \/ me[r].pc \in {"cleanFiles", "cleanBinary"} /\ Torn(r)

Wish(job) == [what |-> job.what, version |-> job.version,
              force |-> job.force, allowDowngrade |-> job.allowDowngrade]

\* An installation as its user sees it: until the state file is renamed or removed,
\* the executable is the one the run found.
Promise == INSTANCE Installation WITH
  None <- NoFile,
  exe <- IF \E r \in Runs : Undecided(r)
           THEN me[CHOOSE r \in Runs : Undecided(r)].before.binary
           ELSE binary,
  record <- IF state = NoState THEN NoFile ELSE state.version,
  asked <- {Wish(me[r].job) : r \in {q \in Runs : Running(q)}}

\* Runs that do not overlap and get no signal change executable and record at one
\* moment, and only as their options allow.  Killed, or unable to undo, an install
\* leaves at worst the new executable under the old record, or without one, which the
\* next run refuses; under a record --force repairs it (install.sh:930-1016, 898-927).
KeepsInstallation == Promise!Spec
=============================================================================
