--------------------------- MODULE InstallShProofs ---------------------------
(***************************************************************************)
(* Proofs about module InstallSh, for any number of runs, releases and     *)
(* jobs.                                                                   *)
(*                                                                         *)
(* RunInv holds whatever overlaps, fails or is killed: it follows the      *)
(* payload of a run from its verification to the rename, and its temporary *)
(* files from their creation to the exit trap.                             *)
(***************************************************************************)
EXTENDS InstallSh, TLAPS

Positions == {"idle", "ended", "killed"} \cup Working \cup Cleaning
Seen == [managed : BOOLEAN, version : Versions \cup {0},
         hash : Versions \cup {NoFile}, path : BOOLEAN]
Verified == [version : Versions, hash : Versions, path : BOOLEAN]
Installed == [dir : BOOLEAN, binary : (Contents \ {Corrupt}) \cup {NoFile},
              state : Verified \cup {NoState}, profile : BOOLEAN]
RunState ==
  [pc : Positions, job : Jobs, seen : Seen, payload : Versions \cup {NoFile},
   hadOld : BOOLEAN, swapped : BOOLEAN, committed : BOOLEAN, retained : BOOLEAN,
   ready : BOOLEAN, snapshot : BOOLEAN, preserved : BOOLEAN, uncleaned : BOOLEAN,
   before : Installed]
Temps == [stage : Contents \cup {NoFile}, rollback : Contents \cup {NoFile},
          state : Verified \cup {NoState}]

Replacing == {"mkdir", "stage", "backup", "prepare", "swap", "undoSwap", "flagSwap",
              "commit", "undoCommit", "flagCommit", "dropRollback"}
Managing == {"snapshot", "block", "unblock", "writeState", "undoProfile", "forget"}
Over == Cleaning \cup {"ended", "killed"}

FilesInv ==
  /\ dir \in BOOLEAN /\ profile \in BOOLEAN
  /\ binary \in (Contents \ {Corrupt}) \cup {NoFile}
  /\ state \in Verified \cup {NoState}
  /\ temps \in [Runs -> Temps]
  /\ me \in [Runs -> RunState]
  /\ failures \in 0..MaxFailures

\* What a run carries is verified, and its temporary files are whole where they
\* are used and gone when it has ended.
RunInv(r) ==
  /\ me[r].pc \in Replacing \cup {"decide"} => me[r].payload = me[r].job.version
  /\ me[r].pc \in Managing => me[r].seen.version \in Versions /\ me[r].seen.hash \in Versions
  /\ me[r].pc \in {"backup", "prepare", "swap"} => temps[r].stage = me[r].job.version
  /\ me[r].pc \in {"swap", "flagSwap", "commit"} => temps[r].state = NewState(r)
  /\ me[r].pc \in {"inspect", "fetch", "decide", "mkdir", "stage", "backup"} => ~me[r].swapped
  /\ temps[r].rollback = Corrupt => me[r].pc \in Over /\ ~me[r].swapped
  /\ me[r].pc \in {"cleanBinary", "cleanRollback", "cleanProfile", "ended"} =>
       me[r].uncleaned \/ (temps[r].stage = NoFile /\ temps[r].state = NoState)
  /\ me[r].pc \in {"cleanProfile", "ended"} /\ ~me[r].retained =>
       me[r].uncleaned \/ temps[r].rollback = NoFile

VInv == FilesInv /\ \A r \in Runs : RunInv(r)

-----------------------------------------------------------------------------
LEMMA InitVInv == Init => VInv
<1> SUFFICES ASSUME Init PROVE VInv
  OBVIOUS
<1>1. dir \in BOOLEAN /\ profile \in BOOLEAN
  BY DEF Init
<1>2. binary \in (Contents \ {Corrupt}) \cup {NoFile} /\ state \in Verified \cup {NoState}
  BY VersionsAssumption DEF Init, Contents, Verified
<1>3. ASSUME NEW j \in Jobs PROVE Fresh("idle", j) \in RunState
  BY <1>1, <1>2, <1>3 DEF Fresh, RunState, Positions, Unseen, Seen, Now, Installed
<1>4. me \in [Runs -> RunState]
  BY <1>3, JobsAssumption DEF Init
<1>5. temps \in [Runs -> Temps] /\ failures \in 0..MaxFailures
  BY BoundsAssumption DEF Init, NoTemps, Temps
<1>6. ASSUME NEW r \in Runs PROVE RunInv(r)
  BY VersionsAssumption DEF Init, RunInv, Fresh, NoTemps, Replacing, Managing, Contents
<1> QED
  BY <1>1, <1>2, <1>4, <1>5, <1>6 DEF VInv, FilesInv

\* A step of one run leaves the others as they are.
LEMMA VStep ==
  ASSUME VInv, NEW r \in Runs, FilesInv', RunInv(r)',
         \A q \in Runs \ {r} : me'[q] = me[q] /\ temps'[q] = temps[q]
  PROVE  VInv'
<1>1. ASSUME NEW q \in Runs, q # r PROVE RunInv(q)'
  BY <1>1 DEF VInv, RunInv, NewState
<1> QED
  BY <1>1 DEF VInv

LEMMA VExit ==
  ASSUME VInv, NEW r \in Runs, Exit(r), temps' = temps, dir' \in BOOLEAN, profile' \in BOOLEAN,
         binary' \in (Contents \ {Corrupt}) \cup {NoFile},
         state' \in Verified \cup {NoState}, failures' \in 0..MaxFailures
  PROVE  VInv'
<1>1. FilesInv'
  BY DEF VInv, FilesInv, Exit, Goto, RunState, Positions, Cleaning
<1>2. RunInv(r)'
  BY DEF Exit, Goto, VInv, FilesInv, RunInv, Replacing, Managing, Over, Cleaning
<1>3. \A q \in Runs \ {r} : me'[q] = me[q] /\ temps'[q] = temps[q]
  BY DEF Exit, Goto
<1> QED
  BY <1>1, <1>2, <1>3, VStep

LEMMA JobVersion == \A j \in Jobs : j.version \in Versions
  BY JobsAssumption DEF Job

LEMMA AllPositions ==
  Working \cup Cleaning \cup {"idle", "ended", "killed"} \subseteq Positions
  BY DEF Positions

LEMMA FreshTyped ==
  ASSUME FilesInv, NEW pc \in Positions, NEW j \in Jobs
  PROVE  Fresh(pc, j) \in RunState
  BY DEF FilesInv, Fresh, RunState, Unseen, Seen, Now, Installed

LEMMA GotoTyped ==
  ASSUME FilesInv, NEW r \in Runs, NEW pc \in Positions, Goto(r, pc)
  PROVE  me' \in [Runs -> RunState]
  BY DEF FilesInv, Goto, RunState

\* Run r gets the variables v, and the others keep theirs.
LEMMA Turned ==
  ASSUME VInv, NEW r \in Runs, NEW v \in RunState, me' = [me EXCEPT ![r] = v]
  PROVE  /\ me' \in [Runs -> RunState] /\ me'[r] = v
         /\ \A q \in Runs \ {r} : me'[q] = me[q]
  BY DEF VInv, FilesInv

\* A step that only gives run r other variables.
LEMMA VTurn ==
  ASSUME VInv, NEW r \in Runs, NEW v \in RunState, me' = [me EXCEPT ![r] = v],
         UNCHANGED <<install, profile, temps, failures>>, RunInv(r)'
  PROVE  VInv'
<1>1. /\ me' \in [Runs -> RunState]
      /\ \A q \in Runs \ {r} : me'[q] = me[q] /\ temps'[q] = temps[q]
  BY Turned
<1>2. FilesInv'
  BY <1>1 DEF VInv, FilesInv, install
<1> QED
  BY <1>1, <1>2, VStep

\* The same, for a step that may also change the profile and the state file.
LEMMA VSet ==
  ASSUME VInv, NEW r \in Runs, NEW v \in RunState, me' = [me EXCEPT ![r] = v],
         UNCHANGED <<dir, binary, temps>>, profile' \in BOOLEAN,
         state' \in Verified \cup {NoState}, failures' \in 0..MaxFailures, RunInv(r)'
  PROVE  VInv'
<1>1. /\ me' \in [Runs -> RunState]
      /\ \A q \in Runs \ {r} : me'[q] = me[q] /\ temps'[q] = temps[q]
  BY Turned
<1>2. FilesInv'
  BY <1>1 DEF VInv, FilesInv
<1> QED
  BY <1>1, <1>2, VStep

LEMMA RestoreFailsV ==
  ASSUME VInv, NEW r \in Runs, RestoreFails(r)
  PROVE  profile' \in BOOLEAN /\ failures' \in 0..MaxFailures
<1>1. profile \in BOOLEAN /\ me[r].snapshot \in BOOLEAN /\ FALSE \in BOOLEAN
  BY DEF VInv, FilesInv, RunState
<1>2. profile' \in BOOLEAN
  BY <1>1, Zenon DEF RestoreFails
<1>3. failures' \in 0..MaxFailures
  BY BoundsAssumption DEF VInv, FilesInv, RestoreFails, IOFailure
<1> QED
  BY <1>2, <1>3

LEMMA MoveBackV ==
  ASSUME VInv, NEW r \in Runs, MoveBack(r), temps[r].rollback # Corrupt
  PROVE  /\ binary' \in (Contents \ {Corrupt}) \cup {NoFile}
         /\ temps' \in [Runs -> Temps] /\ failures' \in 0..MaxFailures
         /\ temps'[r].stage = temps[r].stage /\ temps'[r].state = temps[r].state
         /\ temps'[r].rollback # Corrupt
         /\ \A q \in Runs \ {r} : temps'[q] = temps[q]
<1>1. CASE /\ binary' = temps[r].rollback
           /\ temps' = [temps EXCEPT ![r].rollback = NoFile]
           /\ UNCHANGED failures
  BY <1>1, VersionsAssumption DEF VInv, FilesInv, Temps, Contents
<1>2. CASE IOFailure /\ UNCHANGED <<binary, temps>>
  BY <1>2, BoundsAssumption DEF VInv, FilesInv, IOFailure
<1> QED
  BY <1>1, <1>2 DEF MoveBack

LEMMA StartV == ASSUME VInv, NEW r \in Runs, Start(r) PROVE VInv'
<1>1. FilesInv'
  <2>1. /\ dir' \in BOOLEAN /\ profile' \in BOOLEAN /\ failures' \in 0..MaxFailures
        /\ binary' \in (Contents \ {Corrupt}) \cup {NoFile}
        /\ state' \in Verified \cup {NoState}
    BY DEF VInv, FilesInv, Start, install
  <2>2. temps' \in [Runs -> Temps]
    BY DEF VInv, FilesInv, Start
  <2>3. me' \in [Runs -> RunState]
    BY FreshTyped, AllPositions DEF VInv, FilesInv, Start, Working
  <2> QED
    BY <2>1, <2>2, <2>3 DEF FilesInv
<1>2. RunInv(r)'
  <2>1. me'[r].pc = "inspect" /\ ~me'[r].swapped /\ me[r].pc = "idle" /\ temps' = temps
    BY DEF VInv, FilesInv, Start, At, Fresh
  <2>2. temps[r].rollback # Corrupt
    BY <2>1 DEF VInv, RunInv, Over, Cleaning
  <2> QED
    BY <2>1, <2>2 DEF RunInv, Replacing, Managing
<1>3. \A q \in Runs \ {r} : me'[q] = me[q] /\ temps'[q] = temps[q]
  BY DEF Start
<1> QED
  BY <1>1, <1>2, <1>3, VStep

LEMMA InspectV == ASSUME VInv, NEW r \in Runs, Inspect(r) PROVE VInv'
<1> DEFINE found == IF dir THEN [managed |-> TRUE, version |-> state.version,
                                 hash |-> state.hash, path |-> state.path]
                           ELSE Unseen
           v(pc) == [me[r] EXCEPT !.seen = found, !.pc = pc]
<1>1. /\ me[r].pc = "inspect" /\ me[r] \in RunState /\ RunInv(r)
      /\ UNCHANGED <<install, profile, temps, failures>>
  BY DEF Inspect, At, VInv, FilesInv
<1>2. CASE Exit(r)
  BY <1>1, <1>2, VExit DEF VInv, FilesInv, install
<1>3. ASSUME NEW pc \in {"fetch", "snapshot", "unblock", "rmBinary"}, dir => state # NoState,
             me' = [me EXCEPT ![r] = v(pc)], pc # "fetch" => dir
      PROVE  VInv'
  <2>1. found \in Seen /\ (dir => found.version \in Versions /\ found.hash \in Versions)
    BY <1>3 DEF VInv, FilesInv, Verified, Seen, Unseen
  <2>2. pc \in Positions
    BY DEF Positions, Working
  <2>3. v(pc) \in RunState
    BY <1>1, <2>1, <2>2 DEF RunState
  <2>4. me'[r] = v(pc)
    BY <1>3, <2>3, Turned
  <2>5. /\ me'[r].pc = pc /\ me'[r].seen = found /\ me'[r].job = me[r].job
        /\ me'[r].swapped = me[r].swapped /\ temps' = temps
    BY <1>1, <2>4 DEF RunState
  <2>6. RunInv(r)'
    BY <1>1, <1>3, <2>1, <2>5 DEF RunInv, Replacing, Managing, Over, Cleaning
  <2> QED
    BY <1>1, <1>3, <2>3, <2>6, VTurn
<1> QED
  BY <1>2, <1>3 DEF Inspect

LEMMA FetchV == ASSUME VInv, NEW r \in Runs, Fetch(r) PROVE VInv'
<1> DEFINE v == [me[r] EXCEPT !.payload = me[r].job.version, !.pc = "decide"]
<1>1. /\ me[r].pc = "fetch" /\ me[r] \in RunState /\ RunInv(r)
      /\ UNCHANGED <<install, profile, temps, failures>>
  BY DEF Fetch, At, VInv, FilesInv
<1>2. CASE Exit(r)
  BY <1>1, <1>2, VExit DEF VInv, FilesInv, install
<1>3. CASE me' = [me EXCEPT ![r] = v]
  <2>1. me[r].job.version \in Versions /\ "decide" \in Positions
    BY <1>1, JobVersion DEF RunState, Positions, Working
  <2>2. v \in RunState
    BY <1>1, <2>1 DEF RunState
  <2>3. me'[r] = v
    BY <1>3, <2>2, Turned
  <2>4. /\ me'[r].pc = "decide" /\ me'[r].payload = me[r].job.version
        /\ me'[r].job = me[r].job /\ me'[r].swapped = me[r].swapped /\ temps' = temps
    BY <1>1, <2>3 DEF RunState
  <2>5. RunInv(r)'
    BY <1>1, <2>4 DEF RunInv, Replacing, Managing, Over, Cleaning
  <2> QED
    BY <1>1, <1>3, <2>2, <2>5, VTurn
<1> QED
  BY <1>2, <1>3 DEF Fetch

LEMMA DecideV == ASSUME VInv, NEW r \in Runs, Decide(r) PROVE VInv'
<1>1. FilesInv'
  <2>1. /\ dir' \in BOOLEAN /\ profile' \in BOOLEAN /\ failures' \in 0..MaxFailures
        /\ binary' \in (Contents \ {Corrupt}) \cup {NoFile}
        /\ state' \in Verified \cup {NoState}
    BY DEF VInv, FilesInv, Decide, install
  <2>2. temps' \in [Runs -> Temps]
    BY DEF VInv, FilesInv, Decide
  <2>3. me' \in [Runs -> RunState]
    BY GotoTyped, AllPositions DEF VInv, Working, Cleaning, Exit, Decide
  <2> QED
    BY <2>1, <2>2, <2>3 DEF FilesInv
<1>2. RunInv(r)'
  <2>1. /\ me[r].pc = "decide" /\ me[r].payload = me[r].job.version /\ ~me[r].swapped
        /\ temps[r].rollback # Corrupt /\ temps' = temps
    BY DEF VInv, RunInv, Decide, At, Over, Cleaning
  <2>2. CASE Exit(r)
    BY <2>1, <2>2 DEF RunInv, Exit, Goto, Managing
  <2>3. CASE Goto(r, "mkdir")
    BY <2>1, <2>3 DEF RunInv, Goto, Managing
  <2>4. CASE me[r].seen.version = me[r].job.version /\ me[r].seen.hash = me[r].payload
             /\ Goto(r, "snapshot")
    BY <2>1, <2>4, JobVersion DEF VInv, FilesInv, RunState, RunInv, Goto
  <2> QED
    BY <2>2, <2>3, <2>4 DEF Decide
<1>3. \A q \in Runs \ {r} : me'[q] = me[q] /\ temps'[q] = temps[q]
  BY DEF VInv, FilesInv, Goto, Exit, Decide
<1> QED
  BY <1>1, <1>2, <1>3, VStep

LEMMA MakeDirV == ASSUME VInv, NEW r \in Runs, MakeDir(r) PROVE VInv'
<1>1. /\ me[r].pc = "mkdir" /\ me[r] \in RunState /\ RunInv(r)
      /\ UNCHANGED <<binary, state, profile, temps, failures>>
  BY DEF MakeDir, At, VInv, FilesInv
<1>2. dir' \in BOOLEAN
  BY <1>1 DEF MakeDir, VInv, FilesInv, RunState, Seen
<1>3. CASE Exit(r)
  BY <1>1, <1>2, <1>3, VExit DEF VInv, FilesInv
<1>4. CASE Goto(r, "stage")
  <2>1. FilesInv'
    BY <1>1, <1>2, <1>4, GotoTyped, AllPositions DEF VInv, FilesInv, Working
  <2>2. /\ me'[r] = [me[r] EXCEPT !.pc = "stage"]
        /\ \A q \in Runs \ {r} : me'[q] = me[q] /\ temps'[q] = temps[q]
    BY <1>1, <1>4 DEF Goto, VInv, FilesInv
  <2>3. RunInv(r)'
    BY <1>1, <2>2 DEF RunInv, RunState, Replacing, Managing, Over, Cleaning
  <2> QED
    BY <2>1, <2>2, <2>3, VStep
<1> QED
  BY <1>3, <1>4 DEF MakeDir

LEMMA StageV == ASSUME VInv, NEW r \in Runs, Stage(r) PROVE VInv'
<1>1. FilesInv'
  <2>1. /\ dir' \in BOOLEAN /\ profile' \in BOOLEAN /\ failures' \in 0..MaxFailures
        /\ binary' \in (Contents \ {Corrupt}) \cup {NoFile}
        /\ state' \in Verified \cup {NoState}
    BY BoundsAssumption DEF VInv, FilesInv, Stage, IOFailure, install
  <2>2. temps' \in [Runs -> Temps]
    BY VersionsAssumption
      DEF VInv, FilesInv, RunState, Temps, Contents, Verified, Stage, At, IOFailure, install
  <2>3. me' \in [Runs -> RunState]
    BY GotoTyped, AllPositions DEF VInv, Working, Cleaning, Exit, Stage
  <2> QED
    BY <2>1, <2>2, <2>3 DEF FilesInv
<1>2. RunInv(r)'
  <2>1. CASE Exit(r)
    BY <2>1
      DEF VInv, FilesInv, RunInv, Stage, At, Exit, Goto, Replacing, Managing, Over, Cleaning
  <2>2. CASE temps' = [temps EXCEPT ![r].stage = me[r].payload] /\ Goto(r, "backup")
    <3>1. me[r].payload = me[r].job.version /\ ~me[r].swapped /\ temps[r].rollback # Corrupt
      BY DEF VInv, RunInv, Stage, At, Replacing, Over, Cleaning
    <3>2. /\ temps'[r].stage = me[r].payload /\ temps'[r].rollback = temps[r].rollback
          /\ me'[r] = [me[r] EXCEPT !.pc = "backup"]
      BY <2>2 DEF VInv, FilesInv, Goto
    <3> QED
      BY <3>1, <3>2 DEF RunInv, Managing
  <2> QED
    BY <2>1, <2>2 DEF Stage
<1>3. \A q \in Runs \ {r} : me'[q] = me[q] /\ temps'[q] = temps[q]
  BY DEF VInv, FilesInv, Goto, Exit, Stage
<1> QED
  BY <1>1, <1>2, <1>3, VStep

LEMMA BackupV == ASSUME VInv, NEW r \in Runs, Backup(r) PROVE VInv'
<1>1. FilesInv'
  <2>1. /\ dir' \in BOOLEAN /\ profile' \in BOOLEAN /\ failures' \in 0..MaxFailures
        /\ binary' \in (Contents \ {Corrupt}) \cup {NoFile}
        /\ state' \in Verified \cup {NoState}
    BY BoundsAssumption DEF VInv, FilesInv, Backup, IOFailure, install
  <2>2. temps' \in [Runs -> Temps]
    <3>1. binary \in Contents \cup {NoFile} /\ Corrupt \in Contents
      BY DEF VInv, FilesInv, Contents
    <3> QED
      BY <3>1 DEF VInv, FilesInv, Temps, Backup
  <2>3. me' \in [Runs -> RunState]
    <3>1. CASE Exit(r)
      BY <3>1, GotoTyped, AllPositions DEF VInv, Exit, Cleaning
    <3>2. CASE me' = [me EXCEPT ![r] = [@ EXCEPT !.hadOld = (binary # NoFile), !.pc = "prepare"]]
      <4>1. me[r] \in RunState /\ "prepare" \in Positions
        BY DEF VInv, FilesInv, Positions, Working
      <4>2. [me[r] EXCEPT !.hadOld = (binary # NoFile), !.pc = "prepare"] \in RunState
        BY <4>1 DEF RunState
      <4> QED
        BY <3>2, <4>2 DEF VInv, FilesInv
    <3> QED
      BY <3>1, <3>2 DEF Backup
  <2> QED
    BY <2>1, <2>2, <2>3 DEF FilesInv
<1>2. RunInv(r)'
  <2>1. me[r].pc = "backup" /\ ~me[r].swapped
    BY DEF VInv, RunInv, Backup, At
  <2>2. CASE Exit(r)
    BY <2>1, <2>2 DEF VInv, FilesInv, RunInv, Exit, Goto, Replacing, Managing, Over, Cleaning
  <2>3. CASE /\ temps' = [temps EXCEPT ![r].rollback = binary]
             /\ me' = [me EXCEPT ![r] = [@ EXCEPT !.hadOld = (binary # NoFile), !.pc = "prepare"]]
    <3>1. me[r].payload = me[r].job.version /\ temps[r].stage = me[r].job.version
      BY <2>1 DEF VInv, RunInv, Replacing
    <3>2. temps'[r].rollback # Corrupt /\ temps'[r].stage = temps[r].stage
      BY <2>3, VersionsAssumption DEF VInv, FilesInv, Contents
    <3>3. /\ me'[r].pc = "prepare" /\ me'[r].job = me[r].job /\ me'[r].payload = me[r].payload
          /\ me'[r].swapped = me[r].swapped
      BY <2>3 DEF VInv, FilesInv
    <3> QED
      BY <3>1, <3>2, <3>3 DEF RunInv, Managing
  <2> QED
    BY <2>2, <2>3 DEF Backup
<1>3. \A q \in Runs \ {r} : me'[q] = me[q] /\ temps'[q] = temps[q]
  BY DEF VInv, FilesInv, Goto, Exit, Backup
<1> QED
  BY <1>1, <1>2, <1>3, VStep

LEMMA PrepareStateV == ASSUME VInv, NEW r \in Runs, PrepareState(r) PROVE VInv'
<1>1. FilesInv'
  <2>1. /\ dir' \in BOOLEAN /\ profile' \in BOOLEAN /\ failures' \in 0..MaxFailures
        /\ binary' \in (Contents \ {Corrupt}) \cup {NoFile}
        /\ state' \in Verified \cup {NoState}
    BY DEF VInv, FilesInv, PrepareState, install
  <2>2. temps' \in [Runs -> Temps]
    <3>1. me[r].payload \in Versions
      BY JobVersion DEF VInv, FilesInv, RunInv, RunState, Replacing, PrepareState, At
    <3>2. NewState(r) \in Verified
      BY <3>1, JobVersion DEF VInv, FilesInv, RunState, Seen, NewState, Verified
    <3> QED
      BY <3>2 DEF VInv, FilesInv, Temps, PrepareState
  <2>3. me' \in [Runs -> RunState]
    BY GotoTyped, AllPositions DEF VInv, Working, PrepareState
  <2> QED
    BY <2>1, <2>2, <2>3 DEF FilesInv
<1>2. RunInv(r)'
  BY DEF VInv, FilesInv, RunInv, Temps, Cleaning, Replacing, Managing, Over, Goto,
     PrepareState, At, NewState
<1>3. \A q \in Runs \ {r} : me'[q] = me[q] /\ temps'[q] = temps[q]
  BY DEF Goto, PrepareState
<1> QED
  BY <1>1, <1>2, <1>3, VStep

LEMMA SwapV == ASSUME VInv, NEW r \in Runs, Swap(r) PROVE VInv'
<1>1. FilesInv'
  <2>1. /\ dir' \in BOOLEAN /\ profile' \in BOOLEAN /\ failures' \in 0..MaxFailures
        /\ binary' \in (Contents \ {Corrupt}) \cup {NoFile}
        /\ state' \in Verified \cup {NoState}
    BY JobVersion, VersionsAssumption, BoundsAssumption
       DEF VInv, FilesInv, RunInv, RunState, Temps, Swap, At, IOFailure
  <2>2. temps' \in [Runs -> Temps]
    BY VersionsAssumption DEF VInv, FilesInv, Temps, Contents, Verified, Swap, At, IOFailure
  <2>3. me' \in [Runs -> RunState]
    BY GotoTyped, AllPositions DEF VInv, Working, Swap
  <2> QED
    BY <2>1, <2>2, <2>3 DEF FilesInv
<1>2. RunInv(r)'
  <2>1. /\ me[r].payload = me[r].job.version /\ temps[r].state = NewState(r)
        /\ temps[r].rollback # Corrupt
    BY DEF VInv, RunInv, Swap, At, Replacing, Over, Cleaning
  <2>2. /\ temps'[r].state = temps[r].state /\ temps'[r].rollback = temps[r].rollback
        /\ \E pc \in {"flagSwap", "undoSwap"} : me'[r] = [me[r] EXCEPT !.pc = pc]
    BY DEF VInv, FilesInv, Temps, Swap, Goto
  <2> QED
    BY <2>1, <2>2 DEF RunInv, NewState, Managing
<1>3. \A q \in Runs \ {r} : me'[q] = me[q] /\ temps'[q] = temps[q]
  BY DEF VInv, FilesInv, Goto, Swap
<1> QED
  BY <1>1, <1>2, <1>3, VStep

LEMMA UndoSwapV == ASSUME VInv, NEW r \in Runs, UndoSwap(r) PROVE VInv'
<1> DEFINE v == [me[r] EXCEPT !.preserved = TRUE, !.pc = "cleanFiles"]
<1>1. /\ me[r].pc = "undoSwap" /\ me[r] \in RunState /\ RunInv(r)
      /\ UNCHANGED <<dir, state, profile>>
  BY DEF UndoSwap, At, VInv, FilesInv
<1>2. v \in RunState
  <2>1. "cleanFiles" \in Positions
    BY DEF Positions, Cleaning
  <2> QED
    BY <1>1, <2>1 DEF RunState
<1>3. /\ me' \in [Runs -> RunState] /\ me'[r] = v
      /\ \A q \in Runs \ {r} : me'[q] = me[q]
  BY <1>2, Turned DEF UndoSwap
<1>4. /\ temps' \in [Runs -> Temps] /\ failures' \in 0..MaxFailures
      /\ binary' \in (Contents \ {Corrupt}) \cup {NoFile}
      /\ temps'[r].rollback # Corrupt /\ \A q \in Runs \ {r} : temps'[q] = temps[q]
  <2>1. temps[r].rollback # Corrupt
    BY <1>1 DEF RunInv, Over, Cleaning
  <2> QED
    BY <2>1, MoveBackV DEF UndoSwap, VInv, FilesInv
<1>5. FilesInv'
  BY <1>1, <1>3, <1>4 DEF VInv, FilesInv
<1>6. RunInv(r)'
  <2>1. me'[r].pc = "cleanFiles"
    BY <1>1, <1>3 DEF RunState
  <2> QED
    BY <1>4, <2>1 DEF RunInv, Replacing, Managing
<1> QED
  BY <1>3, <1>4, <1>5, <1>6, VStep

LEMMA FlagSwapV == ASSUME VInv, NEW r \in Runs, FlagSwap(r) PROVE VInv'
<1> DEFINE v == [me[r] EXCEPT !.swapped = TRUE, !.pc = "commit"]
<1>1. /\ me[r].pc = "flagSwap" /\ me[r] \in RunState /\ RunInv(r)
      /\ UNCHANGED <<install, profile, temps, failures>>
  BY DEF FlagSwap, At, VInv, FilesInv
<1>2. v \in RunState
  <2>1. "commit" \in Positions
    BY DEF Positions, Working
  <2> QED
    BY <1>1, <2>1 DEF RunState
<1>3. me'[r] = v
  BY <1>2, Turned DEF FlagSwap
<1>4. RunInv(r)'
  <2>1. /\ me'[r].pc = "commit" /\ me'[r].job = me[r].job /\ me'[r].payload = me[r].payload
        /\ me'[r].seen = me[r].seen /\ temps' = temps
    BY <1>1, <1>3 DEF RunState
  <2> QED
    BY <1>1, <2>1 DEF RunInv, NewState, Replacing, Managing, Over, Cleaning
<1> QED
  BY <1>1, <1>2, <1>4, VTurn DEF FlagSwap

LEMMA CommitV == ASSUME VInv, NEW r \in Runs, Commit(r) PROVE VInv'
<1>1. FilesInv'
  <2>1. /\ dir' \in BOOLEAN /\ profile' \in BOOLEAN /\ failures' \in 0..MaxFailures
        /\ binary' \in (Contents \ {Corrupt}) \cup {NoFile}
        /\ state' \in Verified \cup {NoState}
    BY BoundsAssumption DEF VInv, FilesInv, Temps, Commit, IOFailure
  <2>2. temps' \in [Runs -> Temps]
    BY DEF VInv, FilesInv, Temps, Commit
  <2>3. me' \in [Runs -> RunState]
    BY GotoTyped, AllPositions DEF VInv, Working, Commit
  <2> QED
    BY <2>1, <2>2, <2>3 DEF FilesInv
<1>2. RunInv(r)'
  <2>1. /\ temps'[r].rollback = temps[r].rollback
        /\ temps[r].rollback = Corrupt => me[r].pc \in Over
    BY DEF VInv, FilesInv, RunInv, Temps, Commit
  <2>2. temps[r].rollback # Corrupt
    BY <2>1 DEF Commit, At, Over, Cleaning
  <2>3. /\ me'[r].pc \in {"flagCommit", "undoCommit"} /\ me'[r].job = me[r].job
        /\ me'[r].payload = me[r].payload
    BY DEF VInv, FilesInv, RunState, Commit, Goto
  <2>4. me[r].payload = me[r].job.version
    BY DEF VInv, RunInv, Replacing, Commit, At
  <2> QED
    BY <2>1, <2>2, <2>3, <2>4 DEF RunInv, Replacing, Managing, Cleaning
<1>3. \A q \in Runs \ {r} : me'[q] = me[q] /\ temps'[q] = temps[q]
  BY DEF VInv, FilesInv, Goto, Commit
<1> QED
  BY <1>1, <1>2, <1>3, VStep

LEMMA UndoCommitV == ASSUME VInv, NEW r \in Runs, UndoCommit(r) PROVE VInv'
<1> DEFINE v == [me[r] EXCEPT !.swapped = FALSE, !.preserved = TRUE, !.pc = "cleanFiles"]
<1>1. /\ me[r].pc = "undoCommit" /\ me[r] \in RunState /\ RunInv(r)
      /\ UNCHANGED <<dir, state, profile>> /\ temps[r].rollback # Corrupt
  BY DEF UndoCommit, At, VInv, FilesInv, RunInv, Over, Cleaning
<1>2. CASE Exit(r) /\ IOFailure /\ UNCHANGED <<binary, temps>>
  BY <1>1, <1>2, VExit, BoundsAssumption DEF VInv, FilesInv, IOFailure
<1>3. CASE /\ me' = [me EXCEPT ![r] = v]
           /\ MoveBack(r) \/ (binary' = NoFile /\ UNCHANGED <<temps, failures>>)
  <2>1. v \in RunState
    <3>1. "cleanFiles" \in Positions
      BY DEF Positions, Cleaning
    <3> QED
      BY <1>1, <3>1 DEF RunState
  <2>2. /\ me' \in [Runs -> RunState] /\ me'[r] = v
        /\ \A q \in Runs \ {r} : me'[q] = me[q]
    BY <1>3, <2>1, Turned
  <2>3. /\ temps' \in [Runs -> Temps] /\ failures' \in 0..MaxFailures
        /\ binary' \in (Contents \ {Corrupt}) \cup {NoFile}
        /\ temps'[r].rollback # Corrupt /\ \A q \in Runs \ {r} : temps'[q] = temps[q]
    BY <1>1, <1>3, MoveBackV DEF VInv, FilesInv
  <2>4. FilesInv'
    BY <1>1, <2>2, <2>3 DEF VInv, FilesInv
  <2>5. me'[r].pc = "cleanFiles"
    BY <1>1, <2>2 DEF RunState
  <2>6. RunInv(r)'
    BY <2>3, <2>5 DEF RunInv, Replacing, Managing
  <2> QED
    BY <2>2, <2>3, <2>4, <2>6, VStep
<1> QED
  BY <1>2, <1>3 DEF UndoCommit

LEMMA FlagCommitV == ASSUME VInv, NEW r \in Runs, FlagCommit(r) PROVE VInv'
<1> DEFINE v == [me[r] EXCEPT !.committed = TRUE, !.pc = "dropRollback"]
<1>1. /\ me[r].pc = "flagCommit" /\ me[r] \in RunState /\ RunInv(r)
      /\ UNCHANGED <<install, profile, temps, failures>>
  BY DEF FlagCommit, At, VInv, FilesInv
<1>2. v \in RunState
  <2>1. "dropRollback" \in Positions
    BY DEF Positions, Working
  <2> QED
    BY <1>1, <2>1 DEF RunState
<1>3. me'[r] = v
  BY <1>2, Turned DEF FlagCommit
<1>4. RunInv(r)'
  <2>1. /\ me'[r].pc = "dropRollback" /\ me'[r].job = me[r].job
        /\ me'[r].payload = me[r].payload /\ temps' = temps
    BY <1>1, <1>3 DEF RunState
  <2> QED
    BY <1>1, <2>1 DEF RunInv, Replacing, Managing, Over, Cleaning
<1> QED
  BY <1>1, <1>2, <1>4, VTurn DEF FlagCommit

LEMMA DropRollbackV == ASSUME VInv, NEW r \in Runs, DropRollback(r) PROVE VInv'
<1> DEFINE seen == [managed |-> TRUE, version |-> me[r].job.version,
                    hash |-> me[r].payload, path |-> me[r].seen.path]
           pc == IF WantsPath(r) THEN "snapshot" ELSE "cleanFiles"
           v == [me[r] EXCEPT !.seen = seen, !.pc = pc]
<1>1. /\ me[r].pc = "dropRollback" /\ me[r] \in RunState /\ RunInv(r)
      /\ UNCHANGED <<install, profile, failures>>
      /\ temps' = [temps EXCEPT ![r].rollback = NoFile]
  BY DEF DropRollback, At, VInv, FilesInv
<1>2. seen.version \in Versions /\ seen.hash \in Versions /\ seen \in Seen
  <2>1. me[r].payload = me[r].job.version
    BY <1>1 DEF RunInv, Replacing
  <2> QED
    BY <1>1, <2>1, JobVersion DEF RunState, Seen
<1>3. v \in RunState
  <2>1. pc \in Positions
    BY DEF Positions, Working, Cleaning
  <2> QED
    BY <1>1, <1>2, <2>1 DEF RunState
<1>4. me' = [me EXCEPT ![r] = v]
  BY DEF DropRollback
<1>5. /\ me' \in [Runs -> RunState] /\ me'[r] = v
      /\ \A q \in Runs \ {r} : me'[q] = me[q]
  BY <1>3, <1>4, Turned
<1>6. /\ temps' \in [Runs -> Temps] /\ temps'[r].rollback = NoFile
      /\ \A q \in Runs \ {r} : temps'[q] = temps[q]
  BY <1>1 DEF VInv, FilesInv, Temps
<1>7. FilesInv'
  BY <1>1, <1>5, <1>6 DEF VInv, FilesInv, install
<1>8. RunInv(r)'
  <2>1. me'[r].pc \in {"snapshot", "cleanFiles"} /\ me'[r].seen = seen
    BY <1>1, <1>5 DEF RunState
  <2>2. NoFile # Corrupt
    BY VersionsAssumption DEF Contents
  <2> QED
    BY <1>2, <1>6, <2>1, <2>2 DEF RunInv, Replacing, Managing
<1> QED
  BY <1>5, <1>6, <1>7, <1>8, VStep

LEMMA SnapshotV == ASSUME VInv, NEW r \in Runs, Snapshot(r) PROVE VInv'
<1> DEFINE pc == IF me[r].job.what = "install" THEN "block" ELSE "unblock"
           v == [me[r] EXCEPT !.ready = TRUE, !.snapshot = profile, !.pc = pc]
<1>1. /\ me[r].pc = "snapshot" /\ me[r] \in RunState /\ RunInv(r)
      /\ UNCHANGED <<install, profile, temps, failures>>
  BY DEF Snapshot, At, VInv, FilesInv
<1>2. v \in RunState
  <2>1. pc \in Positions /\ profile \in BOOLEAN
    BY DEF Positions, Working, VInv, FilesInv
  <2> QED
    BY <1>1, <2>1 DEF RunState
<1>3. me'[r] = v
  BY <1>2, Turned DEF Snapshot
<1>4. RunInv(r)'
  <2>1. me'[r].pc \in {"block", "unblock"} /\ me'[r].seen = me[r].seen /\ temps' = temps
    BY <1>1, <1>3 DEF RunState
  <2> QED
    BY <1>1, <2>1 DEF RunInv, Replacing, Managing, Over, Cleaning
<1> QED
  BY <1>1, <1>2, <1>4, VTurn DEF Snapshot

LEMMA AppendBlockV == ASSUME VInv, NEW r \in Runs, AppendBlock(r) PROVE VInv'
<1> DEFINE v == [me[r] EXCEPT !.seen.path = TRUE, !.pc = "writeState"]
<1>1. /\ me[r].pc = "block" /\ me[r] \in RunState /\ RunInv(r)
      /\ UNCHANGED <<install, temps, failures>>
  BY DEF AppendBlock, At, VInv, FilesInv
<1>2. CASE Exit(r) /\ UNCHANGED profile
  BY <1>1, <1>2, VExit DEF VInv, FilesInv, install
<1>3. CASE me' = [me EXCEPT ![r] = v] /\ profile' = TRUE
  <2>1. v \in RunState
    <3>1. "writeState" \in Positions
      BY DEF Positions, Working
    <3>2. me[r].seen \in Seen /\ [me[r].seen EXCEPT !.path = TRUE] \in Seen
      BY <1>1 DEF RunState, Seen
    <3> QED
      BY <1>1, <3>1, <3>2 DEF RunState
  <2>2. me'[r] = v
    BY <1>3, <2>1, Turned
  <2>3. RunInv(r)'
    <3>1. /\ me'[r].pc = "writeState" /\ me'[r].seen.version = me[r].seen.version
          /\ me'[r].seen.hash = me[r].seen.hash /\ temps' = temps
      BY <1>1, <2>2 DEF RunState, Seen
    <3> QED
      BY <1>1, <3>1 DEF RunInv, Replacing, Managing, Over, Cleaning
  <2> QED
    BY <1>1, <1>3, <2>1, <2>3, VSet DEF VInv, FilesInv, install
<1> QED
  BY <1>2, <1>3 DEF AppendBlock

LEMMA RemoveBlockV == ASSUME VInv, NEW r \in Runs, RemoveBlock(r) PROVE VInv'
<1> DEFINE next == IF me[r].job.what = "uninstall" THEN "rmBinary" ELSE "writeState"
           v == [me[r] EXCEPT !.seen.path = FALSE, !.pc = next]
           w == [me[r] EXCEPT !.pc = next]
<1>1. /\ me[r].pc = "unblock" /\ me[r] \in RunState /\ RunInv(r)
      /\ UNCHANGED <<install, temps, failures>>
  BY DEF RemoveBlock, At, VInv, FilesInv
<1>2. next \in Positions
  BY DEF Positions, Working
<1>3. CASE Exit(r) /\ UNCHANGED profile
  BY <1>1, <1>3, VExit DEF VInv, FilesInv, install
<1>4. ASSUME NEW x \in {v, w}, me' = [me EXCEPT ![r] = x], profile' \in BOOLEAN
      PROVE  VInv'
  <2>1. x \in RunState
    <3>1. me[r].seen \in Seen /\ [me[r].seen EXCEPT !.path = FALSE] \in Seen
      BY <1>1 DEF RunState, Seen
    <3> QED
      BY <1>1, <1>2, <1>4, <3>1 DEF RunState
  <2>2. me'[r] = x
    BY <1>4, <2>1, Turned
  <2>3. RunInv(r)'
    <3>1. /\ me'[r].pc \in {"rmBinary", "writeState"}
          /\ me'[r].seen.version = me[r].seen.version
          /\ me'[r].seen.hash = me[r].seen.hash /\ temps' = temps
      <4>1. CASE x = v
        BY <1>1, <2>2, <4>1 DEF RunState, Seen
      <4>2. CASE x = w
        BY <1>1, <2>2, <4>2 DEF RunState
      <4> QED
        BY <1>4, <4>1, <4>2
    <3> QED
      BY <1>1, <3>1 DEF RunInv, Replacing, Managing, Over, Cleaning
  <2> QED
    BY <1>1, <1>4, <2>1, <2>3, VSet DEF VInv, FilesInv, install
<1> QED
  BY <1>3, <1>4 DEF RemoveBlock, Goto, VInv, FilesInv

LEMMA WriteStateV == ASSUME VInv, NEW r \in Runs, WriteState(r) PROVE VInv'
<1> DEFINE v(pc) == [me[r] EXCEPT !.pc = pc]
           w == [me[r] EXCEPT !.uncleaned = TRUE, !.pc = "undoProfile"]
<1>1. /\ me[r].pc = "writeState" /\ me[r] \in RunState /\ RunInv(r)
      /\ UNCHANGED <<dir, binary, profile>>
  BY DEF WriteState, At, VInv, FilesInv
<1>2. Recording(r) \in Verified /\ me[r].seen.version \in Versions /\ me[r].seen.hash \in Versions
  BY <1>1 DEF RunInv, Managing, Recording, Verified, RunState, Seen
<1>3. /\ {"forget", "undoProfile"} \subseteq Positions /\ w \in RunState
      /\ v("forget") \in RunState /\ v("undoProfile") \in RunState
  <2>1. "forget" \in Positions /\ "undoProfile" \in Positions
    BY DEF Positions, Working
  <2> QED
    BY <1>1, <2>1 DEF RunState
<1>4. temps[r].rollback # Corrupt
  BY <1>1 DEF RunInv, Over, Cleaning
<1>5. ASSUME NEW pc \in {"forget", "undoProfile"}, Goto(r, pc), UNCHANGED temps,
             state' \in {state, Recording(r)}, failures' \in 0..MaxFailures
      PROVE  VInv'
  <2>1. me' = [me EXCEPT ![r] = v(pc)] /\ v(pc) \in RunState
    BY <1>3, <1>5 DEF Goto
  <2>2. me'[r] = v(pc)
    BY <2>1, Turned
  <2>3. RunInv(r)'
    <3>1. me'[r].pc = pc /\ me'[r].seen = me[r].seen
      BY <1>1, <2>2 DEF RunState
    <3> QED
      BY <1>2, <1>4, <1>5, <3>1 DEF RunInv, Replacing, Managing
  <2> QED
    BY <1>1, <1>2, <1>5, <2>1, <2>3, VSet DEF VInv, FilesInv
<1>6. CASE /\ temps' = [temps EXCEPT ![r].state = Recording(r)]
           /\ me' = [me EXCEPT ![r] = w]
           /\ failures' = failures + 2 /\ failures' <= MaxFailures /\ UNCHANGED state
  <2>1. /\ me' \in [Runs -> RunState] /\ me'[r] = w
        /\ \A q \in Runs \ {r} : me'[q] = me[q]
    BY <1>3, <1>6, Turned
  <2>2. /\ temps' \in [Runs -> Temps] /\ temps'[r].rollback = temps[r].rollback
        /\ \A q \in Runs \ {r} : temps'[q] = temps[q]
    BY <1>2, <1>6 DEF VInv, FilesInv, Temps
  <2>3. FilesInv'
    BY <1>1, <1>6, <2>1, <2>2, BoundsAssumption DEF VInv, FilesInv
  <2>4. RunInv(r)'
    <3>1. me'[r].pc = "undoProfile" /\ me'[r].seen = me[r].seen
      BY <1>1, <2>1 DEF RunState
    <3> QED
      BY <1>2, <1>4, <2>2, <3>1 DEF RunInv, Replacing, Managing
  <2> QED
    BY <2>1, <2>2, <2>3, <2>4, VStep
<1>7. IOFailure => failures' \in 0..MaxFailures
  BY BoundsAssumption DEF VInv, FilesInv, IOFailure
<1> QED
  BY <1>5, <1>6, <1>7 DEF WriteState, VInv, FilesInv

LEMMA UndoProfileV == ASSUME VInv, NEW r \in Runs, UndoProfile(r) PROVE VInv'
<1> DEFINE v == [me[r] EXCEPT !.ready = FALSE, !.pc = "cleanFiles"]
<1>1. /\ me[r].pc = "undoProfile" /\ me[r] \in RunState /\ RunInv(r)
      /\ UNCHANGED <<install, temps>>
  BY DEF UndoProfile, At, VInv, FilesInv
<1>2. CASE Exit(r) /\ RestoreFails(r)
  BY <1>1, <1>2, VExit, RestoreFailsV DEF VInv, FilesInv, install
<1>3. CASE me' = [me EXCEPT ![r] = v] /\ profile' = me[r].snapshot /\ UNCHANGED failures
  <2>1. v \in RunState
    <3>1. "cleanFiles" \in Positions
      BY DEF Positions, Cleaning
    <3> QED
      BY <1>1, <3>1 DEF RunState
  <2>2. me'[r] = v
    BY <1>3, <2>1, Turned
  <2>3. RunInv(r)'
    <3>1. me'[r].pc = "cleanFiles" /\ temps' = temps
      BY <1>1, <2>2 DEF RunState
    <3> QED
      BY <1>1, <3>1 DEF RunInv, Replacing, Managing, Over, Cleaning
  <2> QED
    BY <1>1, <1>3, <2>1, <2>3, VSet DEF VInv, FilesInv, install, RunState
<1> QED
  BY <1>2, <1>3 DEF UndoProfile

LEMMA ForgetV == ASSUME VInv, NEW r \in Runs, Forget(r) PROVE VInv'
<1> DEFINE v == [me[r] EXCEPT !.ready = FALSE, !.pc = "cleanFiles"]
<1>1. /\ me[r].pc = "forget" /\ me[r] \in RunState /\ RunInv(r)
      /\ UNCHANGED <<install, profile, temps, failures>>
  BY DEF Forget, At, VInv, FilesInv
<1>2. v \in RunState
  <2>1. "cleanFiles" \in Positions
    BY DEF Positions, Cleaning
  <2> QED
    BY <1>1, <2>1 DEF RunState
<1>3. me'[r] = v
  BY <1>2, Turned DEF Forget
<1>4. RunInv(r)'
  <2>1. me'[r].pc = "cleanFiles" /\ temps' = temps
    BY <1>1, <1>3 DEF RunState
  <2> QED
    BY <1>1, <2>1 DEF RunInv, Replacing, Managing, Over, Cleaning
<1> QED
  BY <1>1, <1>2, <1>4, VTurn DEF Forget

LEMMA RemoveBinaryV == ASSUME VInv, NEW r \in Runs, RemoveBinary(r) PROVE VInv'
<1>1. FilesInv'
  <2>1. /\ dir' \in BOOLEAN /\ profile' \in BOOLEAN /\ failures' \in 0..MaxFailures
        /\ binary' \in (Contents \ {Corrupt}) \cup {NoFile}
        /\ state' \in Verified \cup {NoState}
    BY DEF VInv, FilesInv, RemoveBinary
  <2>2. temps' \in [Runs -> Temps]
    BY DEF VInv, FilesInv, RemoveBinary
  <2>3. me' \in [Runs -> RunState]
    BY GotoTyped, AllPositions DEF VInv, Working, Cleaning, Exit, RemoveBinary
  <2> QED
    BY <2>1, <2>2, <2>3 DEF FilesInv
<1>2. RunInv(r)'
  BY DEF VInv, FilesInv, RunInv, RunState, Cleaning, Replacing, Managing, Over, Goto, Exit,
     RemoveBinary, At
<1>3. \A q \in Runs \ {r} : me'[q] = me[q] /\ temps'[q] = temps[q]
  BY DEF VInv, FilesInv, Goto, Exit, RemoveBinary
<1> QED
  BY <1>1, <1>2, <1>3, VStep

LEMMA RemoveStateV == ASSUME VInv, NEW r \in Runs, RemoveState(r) PROVE VInv'
<1>1. FilesInv'
  <2>1. /\ dir' \in BOOLEAN /\ profile' \in BOOLEAN /\ failures' \in 0..MaxFailures
        /\ binary' \in (Contents \ {Corrupt}) \cup {NoFile}
        /\ state' \in Verified \cup {NoState}
    BY DEF VInv, FilesInv, RemoveState
  <2>2. temps' \in [Runs -> Temps]
    BY DEF VInv, FilesInv, RemoveState
  <2>3. me' \in [Runs -> RunState]
    BY GotoTyped, AllPositions DEF VInv, Working, Cleaning, Exit, RemoveState
  <2> QED
    BY <2>1, <2>2, <2>3 DEF FilesInv
<1>2. RunInv(r)'
  BY DEF VInv, FilesInv, RunInv, RunState, Cleaning, Replacing, Managing, Over, Goto, Exit,
     RemoveState, At
<1>3. \A q \in Runs \ {r} : me'[q] = me[q] /\ temps'[q] = temps[q]
  BY DEF VInv, FilesInv, Goto, Exit, RemoveState
<1> QED
  BY <1>1, <1>2, <1>3, VStep

LEMMA RemoveDirV == ASSUME VInv, NEW r \in Runs, RemoveDir(r) PROVE VInv'
<1>1. FilesInv'
  <2>1. /\ dir' \in BOOLEAN /\ profile' \in BOOLEAN /\ failures' \in 0..MaxFailures
        /\ binary' \in (Contents \ {Corrupt}) \cup {NoFile}
        /\ state' \in Verified \cup {NoState}
    BY DEF VInv, FilesInv, RemoveDir
  <2>2. temps' \in [Runs -> Temps]
    BY DEF VInv, FilesInv, RemoveDir
  <2>3. me' \in [Runs -> RunState]
    BY GotoTyped, AllPositions DEF VInv, Cleaning, Exit, RemoveDir
  <2> QED
    BY <2>1, <2>2, <2>3 DEF FilesInv
<1>2. RunInv(r)'
  BY DEF VInv, FilesInv, RunInv, Cleaning, Replacing, Managing, Over, Goto, Exit, RemoveDir
<1>3. \A q \in Runs \ {r} : me'[q] = me[q] /\ temps'[q] = temps[q]
  BY DEF Goto, Exit, RemoveDir
<1> QED
  BY <1>1, <1>2, <1>3, VStep

LEMMA CommandFailsV == ASSUME VInv, NEW r \in Runs, CommandFails(r) PROVE VInv'
<1>1. FilesInv'
  <2>1. /\ dir' \in BOOLEAN /\ profile' \in BOOLEAN /\ failures' \in 0..MaxFailures
        /\ binary' \in (Contents \ {Corrupt}) \cup {NoFile}
        /\ state' \in Verified \cup {NoState}
    BY BoundsAssumption DEF VInv, FilesInv, CommandFails, IOFailure, install
  <2>2. temps' \in [Runs -> Temps]
    BY DEF VInv, FilesInv, CommandFails
  <2>3. me' \in [Runs -> RunState]
    BY GotoTyped, AllPositions DEF VInv, Cleaning, Exit, CommandFails
  <2> QED
    BY <2>1, <2>2, <2>3 DEF FilesInv
<1>2. RunInv(r)'
  BY DEF VInv, RunInv, Cleaning, Replacing, Managing, Over, Goto, Exit, CommandFails
<1>3. \A q \in Runs \ {r} : me'[q] = me[q] /\ temps'[q] = temps[q]
  BY DEF Goto, Exit, CommandFails
<1> QED
  BY <1>1, <1>2, <1>3, VStep

LEMMA SignalV == ASSUME VInv, NEW r \in Runs, Signal(r) PROVE VInv'
<1>1. FilesInv'
  <2>1. /\ dir' \in BOOLEAN /\ profile' \in BOOLEAN /\ failures' \in 0..MaxFailures
        /\ binary' \in (Contents \ {Corrupt}) \cup {NoFile}
        /\ state' \in Verified \cup {NoState}
    BY DEF VInv, FilesInv, Signal, install
  <2>2. temps' \in [Runs -> Temps]
    BY DEF VInv, FilesInv, Signal
  <2>3. me' \in [Runs -> RunState]
    BY GotoTyped, AllPositions DEF VInv, Cleaning, Exit, Signal
  <2> QED
    BY <2>1, <2>2, <2>3 DEF FilesInv
<1>2. RunInv(r)'
  BY DEF VInv, FilesInv, RunInv, Cleaning, Replacing, Managing, Over, Goto, Exit, Signal
<1>3. \A q \in Runs \ {r} : me'[q] = me[q] /\ temps'[q] = temps[q]
  BY DEF Goto, Exit, Signal
<1> QED
  BY <1>1, <1>2, <1>3, VStep

LEMMA KillV == ASSUME VInv, NEW r \in Runs, Kill(r) PROVE VInv'
<1>1. FilesInv'
  <2>1. /\ dir' \in BOOLEAN /\ profile' \in BOOLEAN /\ failures' \in 0..MaxFailures
        /\ binary' \in (Contents \ {Corrupt}) \cup {NoFile}
        /\ state' \in Verified \cup {NoState}
    BY DEF VInv, FilesInv, Kill, install
  <2>2. temps' \in [Runs -> Temps]
    BY DEF VInv, FilesInv, Kill
  <2>3. me' \in [Runs -> RunState]
    BY GotoTyped, AllPositions DEF VInv, Kill
  <2> QED
    BY <2>1, <2>2, <2>3 DEF FilesInv
<1>2. RunInv(r)'
  BY DEF VInv, FilesInv, RunInv, Replacing, Managing, Over, Goto, Kill
<1>3. \A q \in Runs \ {r} : me'[q] = me[q] /\ temps'[q] = temps[q]
  BY DEF Goto, Kill
<1> QED
  BY <1>1, <1>2, <1>3, VStep

LEMMA CleanFilesV == ASSUME VInv, NEW r \in Runs, CleanFiles(r) PROVE VInv'
<1> DEFINE mine == temps[r]
           unstated == IF me[r].uncleaned THEN mine ELSE [mine EXCEPT !.state = NoState]
           cleaned == [unstated EXCEPT !.stage = NoFile]
           v == [me[r] EXCEPT !.pc = "cleanBinary"]
           w == [me[r] EXCEPT !.uncleaned = TRUE, !.pc = "ended"]
<1>1. /\ me[r].pc = "cleanFiles" /\ me[r] \in RunState /\ RunInv(r) /\ mine \in Temps
      /\ UNCHANGED <<install, profile>>
  BY DEF CleanFiles, At, VInv, FilesInv
<1>2. /\ unstated \in Temps /\ unstated.stage = mine.stage /\ unstated.rollback = mine.rollback
      /\ ~me[r].uncleaned => unstated.state = NoState
  BY <1>1 DEF Temps
<1>3. /\ cleaned \in Temps /\ cleaned.stage = NoFile /\ cleaned.rollback = mine.rollback
      /\ cleaned.state = unstated.state
  BY <1>1, <1>2 DEF Temps
<1>4. v \in RunState /\ w \in RunState
  <2>1. "cleanBinary" \in Positions /\ "ended" \in Positions
    BY DEF Positions, Cleaning
  <2> QED
    BY <1>1, <2>1 DEF RunState
<1>5. ASSUME NEW x \in {v, w}, me' = [me EXCEPT ![r] = x], failures' \in 0..MaxFailures,
             NEW files \in {mine, unstated, cleaned}, temps' = [temps EXCEPT ![r] = files],
             x = v => files = cleaned
      PROVE  VInv'
  <2>1. /\ me' \in [Runs -> RunState] /\ me'[r] = x
        /\ \A q \in Runs \ {r} : me'[q] = me[q]
    BY <1>4, <1>5, Turned
  <2>2. files \in Temps /\ files.rollback = mine.rollback
    BY <1>1, <1>2, <1>3, <1>5
  <2>3. /\ temps' \in [Runs -> Temps] /\ temps'[r] = files
        /\ \A q \in Runs \ {r} : temps'[q] = temps[q]
    BY <1>5, <2>2 DEF VInv, FilesInv
  <2>4. FilesInv'
    BY <1>1, <1>5, <2>1, <2>3 DEF VInv, FilesInv, install
  <2>5. CASE x = v
    <3>1. /\ me'[r].pc = "cleanBinary" /\ me'[r].uncleaned = me[r].uncleaned
          /\ me'[r].swapped = me[r].swapped
      BY <1>1, <2>1, <2>5 DEF RunState
    <3>2. /\ temps'[r].rollback = Corrupt => ~me'[r].swapped
          /\ me'[r].uncleaned \/ (temps'[r].stage = NoFile /\ temps'[r].state = NoState)
      <4>1. temps'[r] = cleaned
        BY <1>5, <2>3, <2>5
      <4>2. temps[r].rollback = Corrupt => ~me[r].swapped
        BY <1>1 DEF RunInv
      <4> QED
        <5>1. me'[r].uncleaned \/ (temps'[r].stage = NoFile /\ temps'[r].state = NoState)
          <6>1. CASE me[r].uncleaned
            <7>1. me'[r].uncleaned
              BY <3>1, <6>1
            <7> QED
              BY <7>1
          <6>2. CASE ~me[r].uncleaned
            BY <1>2, <1>3, <4>1, <6>2
          <6> QED
            BY <6>1, <6>2, Zenon
        <5>2. temps'[r].rollback = Corrupt => ~me'[r].swapped
          BY <1>3, <3>1, <4>1, <4>2
        <5> QED
          BY <5>1, <5>2
    <3>3. RunInv(r)'
      BY <3>1, <3>2 DEF RunInv, Replacing, Managing, Over, Cleaning
    <3> QED
      BY <2>1, <2>3, <2>4, <3>3, VStep
  <2>6. CASE x = w
    <3>1. /\ me'[r].pc = "ended" /\ me'[r].uncleaned /\ me'[r].swapped = me[r].swapped
      BY <1>1, <2>1, <2>6 DEF RunState
    <3>2. temps'[r].rollback = Corrupt => ~me'[r].swapped
      BY <1>1, <2>2, <2>3, <3>1 DEF RunInv
    <3> HIDE DEF w, v, mine, unstated, cleaned
    <3>3. RunInv(r)'
      BY <3>1, <3>2 DEF RunInv, Replacing, Managing, Over, Cleaning
    <3> QED
      BY <2>1, <2>3, <2>4, <3>3, VStep
  <2> QED
    BY <1>5, <2>5, <2>6
<1>6. IOFailure => failures' \in 0..MaxFailures
  BY BoundsAssumption DEF VInv, FilesInv, IOFailure
<1>7. CASE /\ temps' = [temps EXCEPT ![r] = cleaned] /\ Goto(r, "cleanBinary")
           /\ UNCHANGED failures
  BY <1>5, <1>7 DEF Goto, VInv, FilesInv
<1>8. CASE /\ temps' = [temps EXCEPT ![r] = mine] \/ temps' = [temps EXCEPT ![r] = unstated]
           /\ me' = [me EXCEPT ![r] = w] /\ IOFailure
  <2>1. w # v
    BY <1>1 DEF RunState
  <2> QED
    BY <1>5, <1>6, <1>8, <2>1
<1> QED
  BY <1>7, <1>8 DEF CleanFiles

LEMMA CleanBinaryV == ASSUME VInv, NEW r \in Runs, CleanBinary(r) PROVE VInv'
<1> DEFINE v(b) == [me[r] EXCEPT !.retained = b, !.pc = "cleanRollback"]
<1>1. /\ me[r].pc = "cleanBinary" /\ me[r] \in RunState /\ RunInv(r)
      /\ UNCHANGED <<dir, state, profile>>
  BY DEF CleanBinary, At, VInv, FilesInv
<1>2. PICK b \in BOOLEAN : me' = [me EXCEPT ![r] = v(b)]
  <2>1. me' = [me EXCEPT ![r] = v(TRUE)] \/ me' = [me EXCEPT ![r] = v(FALSE)]
    BY DEF CleanBinary
  <2> HIDE DEF v
  <2> QED
    BY <2>1
<1>3. v(b) \in RunState
  <2>1. "cleanRollback" \in Positions
    BY DEF Positions, Cleaning
  <2> QED
    BY <1>1, <1>2, <2>1 DEF RunState
<1>4. /\ me' \in [Runs -> RunState] /\ me'[r] = v(b)
      /\ \A q \in Runs \ {r} : me'[q] = me[q]
  BY <1>2, <1>3, Turned
<1>5. /\ me'[r].pc = "cleanRollback" /\ me'[r].uncleaned = me[r].uncleaned
      /\ me'[r].swapped = me[r].swapped
  BY <1>1, <1>4 DEF RunState
<1>6. CASE Torn(r) /\ MoveBack(r)
  <2>1. temps[r].rollback # Corrupt
    BY <1>1, <1>6 DEF RunInv, Torn
  <2>2. FilesInv' /\ \A q \in Runs \ {r} : temps'[q] = temps[q]
    BY <1>1, <1>4, <1>6, <2>1, MoveBackV DEF VInv, FilesInv
  <2>3. RunInv(r)'
    BY <1>1, <1>5, <1>6, <2>1, MoveBackV DEF RunInv, Replacing, Managing
  <2> QED
    BY <1>4, <2>2, <2>3, VStep
<1>7. CASE binary' \in {binary, NoFile} /\ UNCHANGED temps /\ (UNCHANGED failures \/ IOFailure)
  <2>1. failures' \in 0..MaxFailures
    BY <1>7, BoundsAssumption DEF VInv, FilesInv, IOFailure
  <2>2. FilesInv'
    BY <1>1, <1>4, <1>7, <2>1 DEF VInv, FilesInv
  <2>3. RunInv(r)'
    BY <1>1, <1>5, <1>7 DEF RunInv, Replacing, Managing, Over, Cleaning
  <2> QED
    BY <1>4, <1>7, <2>2, <2>3, VStep
<1> QED
  BY <1>6, <1>7 DEF CleanBinary

LEMMA CleanRollbackV == ASSUME VInv, NEW r \in Runs, CleanRollback(r) PROVE VInv'
<1> DEFINE v == [me[r] EXCEPT !.pc = "cleanProfile"]
           w == [me[r] EXCEPT !.uncleaned = TRUE, !.pc = "cleanProfile"]
<1>1. /\ me[r].pc = "cleanRollback" /\ me[r] \in RunState /\ RunInv(r)
      /\ UNCHANGED <<install, profile>>
  BY DEF CleanRollback, At, VInv, FilesInv
<1>2. v \in RunState /\ w \in RunState
  <2>1. "cleanProfile" \in Positions
    BY DEF Positions, Cleaning
  <2> QED
    BY <1>1, <2>1 DEF RunState
<1>3. CASE /\ temps' = IF me[r].retained THEN temps ELSE [temps EXCEPT ![r].rollback = NoFile]
           /\ Goto(r, "cleanProfile") /\ UNCHANGED failures
  <2>1. /\ me' \in [Runs -> RunState] /\ me'[r] = v
        /\ \A q \in Runs \ {r} : me'[q] = me[q]
    BY <1>2, <1>3, Turned DEF Goto
  <2>2. /\ temps' \in [Runs -> Temps] /\ temps'[r].stage = temps[r].stage
        /\ temps'[r].state = temps[r].state
        /\ temps'[r].rollback = IF me[r].retained THEN temps[r].rollback ELSE NoFile
        /\ \A q \in Runs \ {r} : temps'[q] = temps[q]
    BY <1>3 DEF VInv, FilesInv, Temps
  <2>3. FilesInv'
    BY <1>1, <1>3, <2>1, <2>2 DEF VInv, FilesInv, install
  <2>4. RunInv(r)'
    <3>1. /\ me'[r].pc = "cleanProfile" /\ me'[r].uncleaned = me[r].uncleaned
          /\ me'[r].swapped = me[r].swapped /\ me'[r].retained = me[r].retained
      BY <1>1, <2>1 DEF RunState
    <3>2. NoFile # Corrupt
      BY VersionsAssumption DEF Contents
    <3> QED
      BY <1>1, <2>2, <3>1, <3>2 DEF RunInv, Replacing, Managing, Over, Cleaning
  <2> QED
    BY <2>1, <2>2, <2>3, <2>4, VStep
<1>4. CASE me' = [me EXCEPT ![r] = w] /\ UNCHANGED temps /\ IOFailure
  <2>1. me'[r] = w
    BY <1>2, <1>4, Turned
  <2>2. RunInv(r)'
    <3>1. /\ me'[r].pc = "cleanProfile" /\ me'[r].uncleaned /\ me'[r].swapped = me[r].swapped
      BY <1>1, <2>1 DEF RunState
    <3> QED
      BY <1>1, <1>4, <3>1 DEF RunInv, Replacing, Managing, Over, Cleaning
  <2>3. /\ profile' \in BOOLEAN /\ state' \in Verified \cup {NoState}
        /\ failures' \in 0..MaxFailures /\ UNCHANGED <<dir, binary>>
    BY <1>1, <1>4, BoundsAssumption DEF VInv, FilesInv, IOFailure, install
  <2> QED
    BY <1>2, <1>4, <2>2, <2>3, VSet
<1> QED
  BY <1>3, <1>4 DEF CleanRollback

LEMMA CleanProfileV == ASSUME VInv, NEW r \in Runs, CleanProfile(r) PROVE VInv'
<1>1. FilesInv'
  <2>1. /\ dir' \in BOOLEAN /\ binary' \in (Contents \ {Corrupt}) \cup {NoFile}
        /\ state' \in Verified \cup {NoState} /\ temps' \in [Runs -> Temps]
    BY DEF VInv, FilesInv, CleanProfile, install
  <2>2. profile' \in BOOLEAN /\ failures' \in 0..MaxFailures
    <3>1. CASE profile' = (IF me[r].ready THEN me[r].snapshot ELSE profile) /\ UNCHANGED failures
      BY <3>1 DEF VInv, FilesInv, RunState
    <3>2. CASE RestoreFails(r)
      BY <3>2, RestoreFailsV
    <3> QED
      BY <3>1, <3>2 DEF CleanProfile
  <2>3. me' \in [Runs -> RunState]
    BY GotoTyped, AllPositions DEF VInv, CleanProfile
  <2> QED
    BY <2>1, <2>2, <2>3 DEF FilesInv
<1>2. RunInv(r)'
  BY DEF VInv, FilesInv, RunState, RunInv, Replacing, Managing, Over, Goto, CleanProfile, At
<1>3. \A q \in Runs \ {r} : me'[q] = me[q] /\ temps'[q] = temps[q]
  BY DEF Goto, CleanProfile
<1> QED
  BY <1>1, <1>2, <1>3, VStep

LEMMA NextVInv == VInv /\ [Next]_vars => VInv'
<1> SUFFICES ASSUME VInv, [Next]_vars PROVE VInv'
  OBVIOUS
<1>1. CASE UNCHANGED vars
  BY <1>1 DEF vars, install, VInv, FilesInv, RunInv, NewState
<1>2. ASSUME NEW r \in Runs,
             Start(r) \/ Inspect(r) \/ Fetch(r) \/ Decide(r)
               \/ CommandFails(r) \/ Signal(r) \/ Kill(r)
      PROVE  VInv'
  BY <1>2, StartV, InspectV, FetchV, DecideV, CommandFailsV, SignalV, KillV
<1>3. ASSUME NEW r \in Runs, Replace(r) PROVE VInv'
  BY <1>3, MakeDirV, StageV, BackupV, PrepareStateV, SwapV, UndoSwapV, FlagSwapV, CommitV,
     UndoCommitV, FlagCommitV, DropRollbackV
     DEF Replace
<1>4. ASSUME NEW r \in Runs, SetPath(r) PROVE VInv'
  BY <1>4, SnapshotV, AppendBlockV, RemoveBlockV, WriteStateV, UndoProfileV, ForgetV DEF SetPath
<1>5. ASSUME NEW r \in Runs, Uninstall(r) PROVE VInv'
  BY <1>5, RemoveBinaryV, RemoveStateV, RemoveDirV DEF Uninstall
<1>6. ASSUME NEW r \in Runs, Cleanup(r) PROVE VInv'
  BY <1>6, CleanFilesV, CleanBinaryV, CleanRollbackV, CleanProfileV DEF Cleanup
<1> QED
  BY <1>1, <1>2, <1>3, <1>4, <1>5, <1>6 DEF Next

LEMMA AlwaysVInv == Spec => []VInv
  BY InitVInv, NextVInv, PTL DEF Spec

\* What install.sh assigns to its files and shell variables stays in range,
\* whatever the runs are asked to do, overlap, fail or are killed.
THEOREM InstallTyped == Spec => []TypeOK
<1>1. VInv => TypeOK
  BY DEF VInv, FilesInv, TypeOK, RunState, Temps, Positions, Verified, States, Contents
<1> QED
  BY <1>1, AlwaysVInv, PTL

\* The name of the executable never holds a partial or a damaged file, and the
\* state file never the hash of one (install.sh:968-1016: the copy and the
\* verification come before the rename), though runs may overlap.
THEOREM OnlyVerifiedHolds == Spec => []OnlyVerified
<1>1. VInv => OnlyVerified
  BY VersionsAssumption DEF VInv, FilesInv, OnlyVerified, Verified, Contents
<1> QED
  BY <1>1, AlwaysVInv, PTL

\* The exit trap (install.sh:85-130) of a run that is not killed leaves no
\* temporary file but a rollback copy that the run says it retained.
THEOREM NoLitterHolds == Spec => []NoLitter
<1>1. VInv => NoLitter
  BY DEF VInv, FilesInv, RunInv, NoLitter, Temps, NoTemps
<1> QED
  BY <1>1, AlwaysVInv, PTL

=============================================================================
