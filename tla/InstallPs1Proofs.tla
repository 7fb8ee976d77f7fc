-------------------------- MODULE InstallPs1Proofs --------------------------
(***************************************************************************)
(* Proofs about InstallPs1, for any number of runs, releases, failing      *)
(* calls, kills and changes of the User PATH by other programs.            *)
(*                                                                         *)
(* The invariant says, for each position of a run, how the files and the   *)
(* entry in PATH stand to what the run found (before): equal up to the     *)
(* first change; then, for each thing in done, the backup holds what was   *)
(* found; in the catch block each undo has brought its part back or has    *)
(* left an error; and Settled holds of what the run reports.               *)
(*                                                                         *)
(* The last part shows the installer to implement Installation.            *)
(***************************************************************************)
EXTENDS InstallPs1, TLAPS

Forward == {"mkdir", "stage", "replace", "moveExe", "moveState", "path", "state",
            "process", "drop"}
Undoing == {"undoState", "undoPath", "undoExe"}

Positions == {"idle"} \cup Trying \cup Finally
Flows == {"install", "uninstall", "removePath"}
Parts == {"exe", "state", "path"}
Outcomes == {"none", "ok", "absent", "failed", "rollbackFailed", "stopped", "killed"}
SoundState == {s \in States : s.hash = s.version}
PathValue == SUBSET {Ours, "other"}
PlanType == [old : PathValue, new : PathValue, owns : BOOLEAN,
             action : {"None", "Add", "Remove"}]
Binaries == Contents \cup {NoFile}
Copies == Versions \cup {Corrupt, NoFile}
StateFiles == SoundState \cup {NoState}
Found == [dir : BOOLEAN, exe : Binaries, state : StateFiles, userPath : PathValue]
Temps == [stage : Copies, exe : Binaries, state : StateFiles]
RunType ==
  [pc : Positions, job : Jobs, flow : Flows, plan : PlanType, replace : BOOLEAN,
   created : BOOLEAN, done : SUBSET Parts, errors : BOOLEAN, outcome : Outcomes,
   before : Found]

TypeInv ==
  /\ dir \in BOOLEAN /\ litter \in BOOLEAN
  /\ exe \in Binaries /\ state \in StateFiles
  /\ userPath \in PathValue
  /\ temps \in Temps
  /\ me \in RunType
  /\ runs \in 0..MaxRuns /\ failures \in 0..MaxFailures /\ edits \in 0..MaxEdits

-----------------------------------------------------------------------------
SameFiles == exe = me.before.exe /\ state = me.before.state
SamePath == Ours \in userPath <=> Ours \in me.before.userPath
PathAsPlanned == Ours \in userPath <=> Ours \in me.plan.new

\* Between runs and at every moment of one.
AlwaysInv ==
  /\ ~dir => exe = NoFile /\ state = NoState
  /\ me.flow # "uninstall" /\ exe = NoFile => me.before.exe = NoFile
  /\ me.before.dir /\ me.before.state = NoState =>
       me.pc \in {"inspect", "idle"} /\ dir /\ SameFiles
  /\ me.pc \in (Forward \cup Undoing) \ {"mkdir"} => dir

EarlyInv ==
  me.pc \in {"inspect", "plan", "mkdir", "stage", "replace", "moveExe"} =>
    /\ SameFiles /\ SamePath /\ me.done = {} /\ ~me.errors
    /\ me.pc \in {"inspect", "plan"} => dir = me.before.dir
    /\ me.pc = "inspect" => me.flow = me.job.what
    /\ me.pc \in {"plan", "mkdir", "stage", "replace"} => me.flow = "install"
    /\ me.pc = "replace" => temps.stage = me.job.version

\* The plan for PATH, and what the checks before it let through.
PlanInv ==
  LET plan == me.plan
      before == me.before
  IN  me.pc \in Forward \cup Undoing =>
        /\ Ours \in plan.old <=> Ours \in before.userPath
        /\ "other" \in plan.old => "other" \in plan.new
        /\ Ours \in plan.new \ plan.old => plan.owns
        /\ Ours \in plan.old \ plan.new => Owned(before.state) /\ ~plan.owns
        /\ Owned(before.state) /\ ~plan.owns => Ours \notin plan.new
        /\ me.flow # "install" => ~plan.owns /\ before.state # NoState
        /\ me.flow = "install" /\ before.state # NoState =>
             me.job.version >= before.state.version \/ me.job.allowDowngrade

\* What has been changed can be brought back.
DoneInv ==
  LET pc == me.pc
      uninstalls == me.flow = "uninstall"
  IN  /\ pc \in Forward \cup Undoing =>
           IF "exe" \in me.done THEN temps.exe = me.before.exe ELSE exe = me.before.exe
      /\ pc \in Forward \cup {"undoState"} \/ (pc = "undoPath" /\ uninstalls) =>
           IF "state" \in me.done THEN temps.state = me.before.state
                                  ELSE state = me.before.state
      /\ pc \in Forward \cup {"undoPath"} \/ (pc = "undoState" /\ ~uninstalls) =>
           "path" \in me.done \/ SamePath

ForwardInv ==
  LET pc == me.pc
      flow == me.flow
      v == me.job.version
  IN  /\ pc \in Forward => ~me.errors
      /\ pc \in {"path", "state", "process", "drop"} =>
           /\ flow = "install" => exe = v
           /\ flow = "removePath" => "exe" \notin me.done
           /\ flow = "uninstall" => exe = NoFile /\ state = NoState
      /\ pc \in {"moveExe", "moveState"} => flow = "uninstall"
      /\ pc = "moveState" => exe = NoFile /\ "state" \notin me.done /\ "path" \notin me.done
      /\ pc = "path" => "path" \notin me.done
      /\ pc = "path" /\ flow # "uninstall" => "state" \notin me.done
      /\ pc = "state" => flow # "uninstall" /\ "state" \notin me.done
      /\ pc = "process" => flow = "removePath"
      /\ pc \in {"state", "process", "drop"} => PathAsPlanned
      /\ pc \in {"process", "drop"} /\ flow = "removePath" =>
           state = [me.before.state EXCEPT !.path = FALSE]
      /\ pc = "drop" /\ flow = "install" =>
           state = [version |-> v, hash |-> v, path |-> me.plan.owns]

UndoInv ==
  /\ me.pc \in Undoing /\ me.flow = "removePath" => "exe" \notin me.done
  /\ me.pc = "undoExe" \/ (me.pc = "undoState" /\ me.flow = "uninstall") =>
       SamePath \/ me.errors
  /\ me.pc = "undoExe" \/ (me.pc = "undoPath" /\ me.flow # "uninstall") =>
       state = me.before.state \/ me.errors

\* What the run reports is so.
Achieved ==
  LET before == me.before
      v == me.job.version
      entryGone == Ours \notin userPath \/ ~Owned(before.state)
  IN  /\ me.flow = "install" =>
           /\ exe = v /\ state # NoState /\ state.version = v /\ state.hash = v
           /\ before.state # NoState => v >= before.state.version \/ me.job.allowDowngrade
      /\ me.flow = "removePath" =>
           exe = before.exe /\ state = [before.state EXCEPT !.path = FALSE] /\ entryGone
      /\ me.flow = "uninstall" => exe = NoFile /\ state = NoState /\ entryGone
      /\ Ours \in userPath \ before.userPath => Owned(state)
      /\ Ours \in before.userPath \ userPath => Owned(before.state) /\ ~Owned(state)
      /\ Owned(before.state) /\ ~Owned(state) => Ours \notin userPath

Settled ==
  me.pc \in {"idle"} \cup Finally =>
    /\ me.outcome = "failed" => SameFiles /\ SamePath
    /\ me.outcome = "ok" => Achieved

PInv ==
  /\ TypeInv /\ AlwaysInv /\ EarlyInv /\ PlanInv
  /\ DoneInv /\ ForwardInv /\ UndoInv /\ Settled
-----------------------------------------------------------------------------
(* What a step does to the fields of the run, and that it keeps the invariant. *)

Kept ==
  me'.job = me.job /\ me'.before = me.before /\ me'.flow = me.flow /\ me'.plan = me.plan

Moved(pc, done, errors, outcome) ==
  me'.pc = pc /\ me'.done = done /\ me'.errors = errors /\ me'.outcome = outcome

\* What a job is, and the release it names.
LEMMA JobTyped ==
  ASSUME NEW j \in Jobs
  PROVE  /\ j.version \in Versions /\ j.version \in Nat
         /\ j.version # NoFile /\ j.version # Edited /\ j.version # Corrupt
         /\ j.version \in Binaries /\ j.version \in Copies
         /\ j.what \in Flows /\ j.force \in BOOLEAN /\ j.allowDowngrade \in BOOLEAN
         /\ j.removePath \in BOOLEAN
         /\ j.what = "install" => ~j.removePath
         /\ j.what = "removePath" => j.removePath
  BY JobsAssumption, VersionsAssumption DEF Job, Binaries, Contents, Copies, Flows

LEMMA FileTypes ==
  /\ NoFile \in Binaries /\ NoFile \in Copies /\ Corrupt \in Copies /\ NoState \in StateFiles
  /\ NoTemps \in Temps
  /\ NoState \notin SoundState
  /\ \A s \in SoundState : s \in StateFiles /\ s.hash = s.version /\ s.path \in BOOLEAN
                           /\ s.version \in Versions
  /\ NoPlan \in PlanType
  BY VersionsAssumption
     DEF Binaries, Copies, StateFiles, SoundState, States, Temps, NoTemps, NoPlan, PlanType,
     PathValue

\* What Get-PathPlan decides, where the change of PATH and of its owner go together.
LEMMA PlanFacts ==
  ASSUME NEW owned \in BOOLEAN, NEW add \in BOOLEAN, NEW remove \in BOOLEAN,
         ~(add /\ remove), userPath \in PathValue, NEW plan, plan = PathPlan(owned, add, remove)
  PROVE  /\ plan \in PlanType
         /\ plan.old = userPath
         /\ "other" \in plan.old => "other" \in plan.new
         /\ Ours \in plan.new \ plan.old => plan.owns
         /\ Ours \in plan.old \ plan.new => owned /\ ~plan.owns
         /\ owned /\ ~plan.owns => Ours \notin plan.new
         /\ ~add /\ (owned => remove) => ~plan.owns
         /\ ~add /\ ~remove => plan.new = userPath
         /\ plan.action = "None" => plan.new = userPath
<1>1. CASE add
  BY <1>1 DEF PathPlan, PlanType, PathValue
<1>2. CASE ~add /\ remove /\ owned
  BY <1>2 DEF PathPlan, PlanType, PathValue, Ours
<1>3. CASE ~add /\ remove /\ ~owned
  BY <1>3 DEF PathPlan, PlanType
<1>4. CASE ~add /\ ~remove
  BY <1>4 DEF PathPlan, PlanType
<1> QED
  BY <1>1, <1>2, <1>3, <1>4

\* A run starts.
LEMMA StartF ==
  ASSUME PInv, TypeInv',
         me.pc = "idle", Moved("inspect", {}, FALSE, "none"), me'.flow = me'.job.what,
         me'.before = Now, UNCHANGED <<dir, exe, state, userPath>>
  PROVE  PInv'
<1>1. AlwaysInv'
  BY DEF PInv, AlwaysInv, Forward, Undoing, SameFiles, Moved, Now
<1>2. EarlyInv'
  BY DEF EarlyInv, SameFiles, SamePath, Moved, Now
<1>3. PlanInv'
  BY DEF PlanInv, Forward, Undoing, Moved
<1>4. DoneInv'
  BY DEF DoneInv, Forward, Undoing, Moved
<1>5. ForwardInv'
  BY DEF ForwardInv, Moved
<1>6. UndoInv'
  BY DEF UndoInv, Moved
<1>7. Settled'
  BY DEF Moved, Settled
<1> QED
  BY <1>1, <1>2, <1>3, <1>4, <1>5, <1>6, <1>7 DEF PInv

\* The directory is sound: an uninstall or a removal of the entry begins.
LEMMA InspectF ==
  ASSUME PInv, TypeInv',
         me.pc = "inspect", dir, state # NoState, exe # NoFile,
         NEW remove \in BOOLEAN, state.path => remove,
         me'.job = me.job, me'.before = me.before, me'.flow = me.flow,
         me'.plan = PathPlan(Owned(state), FALSE, remove),
         \/ me.flow = "uninstall" /\ me'.pc = "moveExe"
         \/ me.flow = "removePath" /\ me'.pc = "path",
         me'.done = me.done, me'.errors = me.errors, me'.outcome = me.outcome,
         UNCHANGED <<dir, exe, state, userPath>>
  PROVE  PInv'
<1>a. /\ me'.plan.old = userPath
      /\ "other" \in me'.plan.old => "other" \in me'.plan.new
      /\ Ours \in me'.plan.new \ me'.plan.old => me'.plan.owns
      /\ Ours \in me'.plan.old \ me'.plan.new => Owned(state) /\ ~me'.plan.owns
      /\ Owned(state) /\ ~me'.plan.owns => Ours \notin me'.plan.new
      /\ ~me'.plan.owns
  <2>1. Owned(state) \in BOOLEAN /\ userPath \in PathValue
    BY FileTypes DEF PInv, TypeInv, StateFiles, Owned
  <2>2. Owned(state) => remove
    BY DEF Owned
  <2>3. me'.plan = PathPlan(Owned(state), FALSE, remove)
    OBVIOUS
  <2>4. CASE Owned(state)
    BY <2>1, <2>2, <2>3, <2>4 DEF PathPlan, PathValue, Ours
  <2>5. CASE ~Owned(state)
    BY <2>1, <2>3, <2>5 DEF PathPlan
  <2> QED
    BY <2>4, <2>5
<1>1. AlwaysInv'
  BY <1>a DEF PInv, AlwaysInv, SameFiles
<1>2. EarlyInv'
  BY <1>a DEF PInv, EarlyInv, SameFiles, SamePath
<1>3. PlanInv'
  BY <1>a
    DEF PInv, AlwaysInv, EarlyInv, PlanInv, DoneInv, ForwardInv, UndoInv, Forward, Undoing,
        Finally, SameFiles, SamePath, PathAsPlanned, Owned, Moved, Kept
<1>4. DoneInv'
  BY <1>a DEF PInv, EarlyInv, DoneInv, SameFiles, SamePath
<1>5. ForwardInv'
  BY <1>a DEF PInv, EarlyInv, ForwardInv
<1>6. UndoInv'
  BY <1>a DEF PInv, EarlyInv, UndoInv
<1>7. Settled'
  BY <1>a DEF Finally, Settled
<1> QED
  BY <1>1, <1>2, <1>3, <1>4, <1>5, <1>6, <1>7 DEF PInv

\* There is no directory, or an installation has found what it may replace.
LEMMA GoOnF ==
  ASSUME PInv, TypeInv',
         me.pc = "inspect", me'.flow = "install", ~(me.before.dir /\ me.before.state = NoState),
         me'.job = me.job, me'.before = me.before, me'.plan = me.plan,
         Moved("plan", me.done, me.errors, me.outcome),
         UNCHANGED <<dir, exe, state, userPath>>
  PROVE  PInv'
<1>1. AlwaysInv'
  BY DEF PInv, AlwaysInv, EarlyInv, Forward, Undoing, SameFiles, Moved
<1>2. EarlyInv'
  BY DEF PInv, EarlyInv, SameFiles, SamePath, Moved
<1>3. PlanInv'
  BY DEF PlanInv, Forward, Undoing, Moved
<1>4. DoneInv'
  BY DEF DoneInv, Forward, Undoing, Moved
<1>5. ForwardInv'
  BY DEF PInv, EarlyInv, ForwardInv, Moved
<1>6. UndoInv'
  BY DEF PInv, EarlyInv, UndoInv, SameFiles, SamePath
<1>7. Settled'
  BY DEF Finally, Moved, Settled
<1> QED
  BY <1>1, <1>2, <1>3, <1>4, <1>5, <1>6, <1>7 DEF PInv

\* An installation knows what it will do.
LEMMA PlanF ==
  ASSUME PInv, TypeInv',
         me.pc = "plan", me'.job = me.job, me'.before = me.before, me'.flow = me.flow,
         NEW add \in BOOLEAN, NEW remove \in BOOLEAN, ~(add /\ remove),
         me'.plan = PathPlan(Owned(state), add, remove),
         state # NoState => me.job.version >= state.version \/ me.job.allowDowngrade,
         \/ me'.pc = "mkdir" /\ ~dir
         \/ me'.pc = "stage" /\ dir
         \/ me'.pc = "path" /\ dir /\ exe = me.job.version,
         me'.done = me.done, me'.errors = me.errors, me'.outcome = me.outcome,
         UNCHANGED <<dir, exe, state, userPath>>
  PROVE  PInv'
<1>a. /\ me'.plan.old = userPath
      /\ "other" \in me'.plan.old => "other" \in me'.plan.new
      /\ Ours \in me'.plan.new \ me'.plan.old => me'.plan.owns
      /\ Ours \in me'.plan.old \ me'.plan.new => Owned(state) /\ ~me'.plan.owns
      /\ Owned(state) /\ ~me'.plan.owns => Ours \notin me'.plan.new
  <2>1. Owned(state) \in BOOLEAN /\ userPath \in PathValue
    BY FileTypes DEF PInv, TypeInv, StateFiles, Owned
  <2> QED
    BY <2>1, PlanFacts
<1>1. AlwaysInv'
  BY <1>a DEF PInv, AlwaysInv
<1>2. EarlyInv'
  BY <1>a DEF PInv, EarlyInv, SameFiles, SamePath
<1>3. PlanInv'
  BY <1>a DEF PInv, EarlyInv, PlanInv, SameFiles, SamePath
<1>4. DoneInv'
  BY <1>a DEF PInv, EarlyInv, DoneInv, SameFiles, SamePath
<1>5. ForwardInv'
  BY <1>a DEF PInv, EarlyInv, ForwardInv
<1>6. UndoInv'
  BY <1>a DEF PInv, EarlyInv, UndoInv
<1>7. Settled'
  BY <1>a DEF Finally, Settled
<1> QED
  BY <1>1, <1>2, <1>3, <1>4, <1>5, <1>6, <1>7 DEF PInv

\* There is nothing to do.
LEMMA NothingF ==
  ASSUME PInv, TypeInv',
         me.pc = "plan", Kept, me'.outcome = "ok", me'.pc \in Finally,
         state # NoState, exe = me.job.version, state.version = me.job.version,
         state.hash = me.job.version, me.job.version \in Nat,
         UNCHANGED <<dir, exe, state, userPath>>
  PROVE  PInv'
<1>1. AlwaysInv'
  BY DEF PInv, AlwaysInv, Kept
<1>2. EarlyInv'
  BY DEF EarlyInv, Finally
<1>3. PlanInv'
  BY DEF PlanInv, Forward, Undoing, Finally
<1>4. DoneInv'
  BY DEF DoneInv, Forward, Undoing, Finally
<1>5. ForwardInv'
  BY DEF ForwardInv, Forward, Finally
<1>6. UndoInv'
  BY DEF UndoInv, Undoing, Finally
<1>7. Settled'
  BY DEF PInv, EarlyInv, SameFiles, SamePath, Kept, Settled, Achieved
<1> QED
  BY <1>1, <1>2, <1>3, <1>4, <1>5, <1>6, <1>7 DEF PInv

\* The directory is there.
LEMMA MakeDirF ==
  ASSUME PInv, TypeInv',
         me.pc = "mkdir", Kept, Moved("stage", me.done, me.errors, me.outcome),
         dir' = TRUE, UNCHANGED <<exe, state, userPath, temps>>
  PROVE  PInv'
<1>1. AlwaysInv'
  BY DEF PInv, AlwaysInv, Kept
<1>2. EarlyInv'
  BY DEF PInv, EarlyInv, SameFiles, SamePath, Moved, Kept
<1>3. PlanInv'
  BY DEF PInv, PlanInv, Forward, Kept
<1>4. DoneInv'
  BY DEF PInv, DoneInv, Forward, SamePath, Moved, Kept
<1>5. ForwardInv'
  BY DEF PInv, EarlyInv, ForwardInv, Moved
<1>6. UndoInv'
  BY DEF PInv, EarlyInv, UndoInv, Moved
<1>7. Settled'
  BY DEF Finally, Moved, Settled
<1> QED
  BY <1>1, <1>2, <1>3, <1>4, <1>5, <1>6, <1>7 DEF PInv

\* The new executable is verified.
LEMMA StageF ==
  ASSUME PInv, TypeInv',
         me.pc = "stage", Kept, Moved("replace", me.done, me.errors, me.outcome),
         temps'.stage = me.job.version, temps'.exe = temps.exe, temps'.state = temps.state,
         UNCHANGED <<dir, exe, state, userPath>>
  PROVE  PInv'
<1>1. AlwaysInv'
  BY DEF PInv, AlwaysInv, Forward, Kept
<1>2. EarlyInv'
  BY DEF PInv, EarlyInv, SameFiles, SamePath, Moved, Kept
<1>3. PlanInv'
  BY DEF PInv, PlanInv, Forward, Kept
<1>4. DoneInv'
  BY DEF PInv, DoneInv, Forward, SamePath, Moved, Kept
<1>5. ForwardInv'
  BY DEF PInv, EarlyInv, ForwardInv, Moved
<1>6. UndoInv'
  BY DEF PInv, EarlyInv, UndoInv, Moved
<1>7. Settled'
  BY DEF Finally, Moved, Settled
<1> QED
  BY <1>1, <1>2, <1>3, <1>4, <1>5, <1>6, <1>7 DEF PInv

\* A throw at a transaction: the catch block begins.
LEMMA CatchF ==
  ASSUME PInv, TypeInv',
         me.pc \in {"replace", "moveExe", "moveState", "path", "state", "process"}, Kept,
         Moved(IF me.flow = "uninstall" THEN "undoPath" ELSE "undoState",
               me.done, me.errors, me.outcome),
         UNCHANGED <<dir, exe, state, userPath, temps>>
  PROVE  PInv'
<1>1. AlwaysInv'
  BY DEF PInv, AlwaysInv, Forward, Kept
<1>2. EarlyInv'
  BY DEF EarlyInv, Moved
<1>3. PlanInv'
  BY DEF PInv, PlanInv, Forward, Kept
<1>4. DoneInv'
  BY DEF PInv, DoneInv, Forward, SamePath, Moved, Kept
<1>5. ForwardInv'
  BY DEF ForwardInv, Forward, Moved
<1>6. UndoInv'
  BY DEF PInv, EarlyInv, ForwardInv, UndoInv, Moved, Kept
<1>7. Settled'
  BY DEF Finally, Moved, Settled
<1> QED
  BY <1>1, <1>2, <1>3, <1>4, <1>5, <1>6, <1>7 DEF PInv

\* The run leaves its try block, or ends, and does not report success.
LEMMA RestF ==
  ASSUME PInv, TypeInv',
         me'.pc \in {"idle"} \cup Finally, me'.job = me.job, me'.before = me.before,
         \/ me'.outcome \notin {"ok", "failed"}
         \/ me'.outcome = "failed" /\ SameFiles /\ SamePath,
         me'.flow = me.flow, me.pc # "idle", me.pc = "inspect" => me'.pc = "idle",
         UNCHANGED <<dir, exe, state, userPath>>
  PROVE  PInv'
<1>1. AlwaysInv'
  BY DEF PInv, AlwaysInv, Forward, Undoing, Finally, SameFiles
<1>2. EarlyInv'
  BY DEF EarlyInv, Finally
<1>3. PlanInv'
  BY DEF PlanInv, Forward, Undoing, Finally
<1>4. DoneInv'
  BY DEF DoneInv, Forward, Undoing, Finally
<1>5. ForwardInv'
  BY DEF ForwardInv, Forward, Finally
<1>6. UndoInv'
  BY DEF UndoInv, Undoing, Finally
<1>7. Settled'
  BY DEF SameFiles, SamePath, Settled
<1> QED
  BY <1>1, <1>2, <1>3, <1>4, <1>5, <1>6, <1>7 DEF PInv

\* A finally block.
LEMMA TidyF ==
  ASSUME PInv, TypeInv',
         me.pc \in Finally, me'.pc \in {"idle"} \cup Finally, Kept, me'.outcome = me.outcome,
         dir' \/ (exe = NoFile /\ state = NoState),
         UNCHANGED <<exe, state, userPath>>
  PROVE  PInv'
<1>1. AlwaysInv'
  BY DEF PInv, AlwaysInv, Forward, Undoing, Finally, Kept
<1>2. EarlyInv'
  BY DEF EarlyInv, Finally
<1>3. PlanInv'
  BY DEF PlanInv, Forward, Undoing, Finally
<1>4. DoneInv'
  BY DEF DoneInv, Forward, Undoing, Finally
<1>5. ForwardInv'
  BY DEF ForwardInv, Forward, Finally
<1>6. UndoInv'
  BY DEF UndoInv, Undoing, Finally
<1>7. Settled'
  BY DEF PInv, SameFiles, SamePath, Kept, Settled, Achieved
<1> QED
  BY <1>1, <1>2, <1>3, <1>4, <1>5, <1>6, <1>7 DEF PInv

\* The new executable is in place.
LEMMA ReplaceF ==
  ASSUME PInv, TypeInv',
         me.pc = "replace", Kept, Moved("path", me.done \cup {"exe"}, me.errors, me.outcome),
         exe' = temps.stage, temps'.exe = exe, temps'.state = temps.state,
         UNCHANGED <<dir, state, userPath>>
  PROVE  PInv'
<1>a. me.job \in Jobs /\ me.job.version # NoFile
  BY JobTyped DEF PInv, TypeInv, RunType
<1>1. AlwaysInv'
  BY <1>a DEF PInv, AlwaysInv, EarlyInv, Forward, Kept
<1>2. EarlyInv'
  BY <1>a DEF EarlyInv, Moved
<1>3. PlanInv'
  BY <1>a DEF PInv, PlanInv, Forward, Kept
<1>4. DoneInv'
  BY <1>a DEF PInv, DoneInv, Forward, SamePath, Moved, Kept
<1>5. ForwardInv'
  BY <1>a DEF PInv, EarlyInv, ForwardInv, Moved, Kept
<1>6. UndoInv'
  BY <1>a DEF UndoInv, Undoing, Moved
<1>7. Settled'
  BY <1>a DEF Finally, Moved, Settled
<1> QED
  BY <1>1, <1>2, <1>3, <1>4, <1>5, <1>6, <1>7 DEF PInv

\* The executable is moved aside.
LEMMA MoveExeF ==
  ASSUME PInv, TypeInv',
         me.pc = "moveExe", Kept,
         Moved("moveState", me.done \cup {"exe"}, me.errors, me.outcome),
         exe' = NoFile, temps'.exe = exe, UNCHANGED <<dir, state, userPath>>
  PROVE  PInv'
<1>1. AlwaysInv'
  BY DEF PInv, AlwaysInv, ForwardInv, Forward, Kept
<1>2. EarlyInv'
  BY DEF EarlyInv, Moved
<1>3. PlanInv'
  BY DEF PInv, PlanInv, Forward, Kept
<1>4. DoneInv'
  BY DEF PInv, EarlyInv, DoneInv, Forward, SamePath, Moved, Kept
<1>5. ForwardInv'
  BY DEF PInv, EarlyInv, ForwardInv, Moved, Kept
<1>6. UndoInv'
  BY DEF UndoInv, Undoing, Moved
<1>7. Settled'
  BY DEF Finally, Moved, Settled
<1> QED
  BY <1>1, <1>2, <1>3, <1>4, <1>5, <1>6, <1>7 DEF PInv

\* The state file is moved aside.
LEMMA MoveStateF ==
  ASSUME PInv, TypeInv',
         me.pc = "moveState", Kept,
         Moved("path", me.done \cup {"state"}, me.errors, me.outcome),
         state' = NoState, temps'.state = state, temps'.exe = temps.exe,
         UNCHANGED <<dir, exe, userPath>>
  PROVE  PInv'
<1>1. AlwaysInv'
  BY DEF PInv, AlwaysInv, Forward, Kept
<1>2. EarlyInv'
  BY DEF EarlyInv, Moved
<1>3. PlanInv'
  BY DEF PInv, PlanInv, Forward, Kept
<1>4. DoneInv'
  BY DEF PInv, DoneInv, Forward, SamePath, Moved, Kept
<1>5. ForwardInv'
  BY DEF PInv, ForwardInv, Forward, Moved, Kept
<1>6. UndoInv'
  BY DEF UndoInv, Undoing, Moved
<1>7. Settled'
  BY DEF Finally, Moved, Settled
<1> QED
  BY <1>1, <1>2, <1>3, <1>4, <1>5, <1>6, <1>7 DEF PInv

\* The User PATH is as planned, or was so.
LEMMA PathF ==
  ASSUME PInv, TypeInv',
         me.pc = "path", Kept, me'.pc = IF me.flow = "uninstall" THEN "drop" ELSE "state",
         \/ me.plan.new = me.plan.old /\ me'.done = me.done /\ userPath' = userPath
         \/ userPath' = me.plan.new /\ me'.done = me.done \cup {"path"},
         me'.errors = me.errors, me'.outcome = me.outcome,
         UNCHANGED <<dir, exe, state, temps>>
  PROVE  PInv'
<1>1. AlwaysInv'
  BY DEF PInv, AlwaysInv, Forward, Kept
<1>2. EarlyInv'
  BY DEF EarlyInv
<1>3. PlanInv'
  BY DEF PInv, PlanInv, Forward, Kept
<1>4. DoneInv'
  BY DEF PInv, DoneInv, Forward, SamePath, Kept
<1>5. ForwardInv'
  BY DEF PInv, PlanInv, DoneInv, ForwardInv, Forward, SamePath, PathAsPlanned, Kept
<1>6. UndoInv'
  BY DEF UndoInv, Undoing
<1>7. Settled'
  BY DEF Finally, Settled
<1> QED
  BY <1>1, <1>2, <1>3, <1>4, <1>5, <1>6, <1>7 DEF PInv

\* The User PATH could not be changed, and an installation goes on.
LEMMA NoPathF ==
  ASSUME PInv, TypeInv',
         me.pc = "path", me.flow = "install",
         me'.job = me.job, me'.before = me.before, me'.flow = me.flow,
         me'.plan = PathPlan(Owned(state), FALSE, FALSE),
         Moved("state", me.done, me.errors, me.outcome),
         UNCHANGED <<dir, exe, state, userPath, temps>>
  PROVE  PInv'
<1>a. /\ me'.plan.old = userPath /\ me'.plan.new = userPath
      /\ Owned(state) /\ ~me'.plan.owns => Ours \notin me'.plan.new
  <2>1. Owned(state) \in BOOLEAN /\ userPath \in PathValue
    BY FileTypes DEF PInv, TypeInv, StateFiles, Owned
  <2> QED
    BY <2>1, PlanFacts
<1>1. AlwaysInv'
  BY <1>a DEF PInv, AlwaysInv, Forward
<1>2. EarlyInv'
  BY <1>a DEF EarlyInv, Moved
<1>3. PlanInv'
  BY <1>a
    DEF PInv, AlwaysInv, EarlyInv, PlanInv, DoneInv, ForwardInv, UndoInv, Forward, Undoing,
        Finally, SameFiles, SamePath, PathAsPlanned, Owned, Moved, Kept
<1>4. DoneInv'
  BY <1>a DEF PInv, DoneInv, Forward, SamePath, Moved
<1>5. ForwardInv'
  BY <1>a DEF PInv, ForwardInv, Forward, PathAsPlanned, Moved
<1>6. UndoInv'
  BY <1>a DEF PInv, DoneInv, ForwardInv, UndoInv, Forward, SamePath
<1>7. Settled'
  BY <1>a DEF Finally, Moved, Settled
<1> QED
  BY <1>1, <1>2, <1>3, <1>4, <1>5, <1>6, <1>7 DEF PInv

\* The state file is written.
LEMMA WriteF ==
  ASSUME PInv, TypeInv',
         me.pc = "state", Kept, me'.done = me.done \cup {"state"},
         me'.pc = IF me.flow = "install" THEN "drop" ELSE "process",
         state' = IF me.flow = "install"
                    THEN [version |-> me.job.version, hash |-> me.job.version,
                          path |-> me.plan.owns]
                    ELSE [state EXCEPT !.path = FALSE],
         temps'.state = state, temps'.exe = temps.exe,
         me'.errors = me.errors, me'.outcome = me.outcome,
         UNCHANGED <<dir, exe, userPath>>
  PROVE  PInv'
<1>a. me.flow \in Flows /\ me.flow \in {"install", "uninstall", "removePath"}
  BY DEF PInv, TypeInv, RunType, Flows
<1>1. AlwaysInv'
  BY <1>a DEF PInv, AlwaysInv, Forward, Kept
<1>2. EarlyInv'
  BY <1>a DEF EarlyInv
<1>3. PlanInv'
  BY <1>a DEF PInv, PlanInv, Forward, Kept
<1>4. DoneInv'
  BY <1>a DEF PInv, DoneInv, Forward, SamePath, Kept
<1>5. ForwardInv'
  BY <1>a DEF PInv, DoneInv, ForwardInv, Forward, PathAsPlanned, Kept
<1>6. UndoInv'
  BY <1>a DEF UndoInv, Undoing
<1>7. Settled'
  BY <1>a DEF Finally, Settled
<1> QED
  BY <1>1, <1>2, <1>3, <1>4, <1>5, <1>6, <1>7 DEF PInv

\* The process PATH is set.
LEMMA ProcessF ==
  ASSUME PInv, TypeInv',
         me.pc = "process", Kept, Moved("drop", me.done, me.errors, me.outcome),
         UNCHANGED <<dir, exe, state, userPath, temps>>
  PROVE  PInv'
<1>1. AlwaysInv'
  BY DEF PInv, AlwaysInv, Forward, Kept
<1>2. EarlyInv'
  BY DEF EarlyInv, Moved
<1>3. PlanInv'
  BY DEF PInv, PlanInv, Forward, Kept
<1>4. DoneInv'
  BY DEF PInv, DoneInv, Forward, SamePath, Moved, Kept
<1>5. ForwardInv'
  BY DEF PInv, ForwardInv, Forward, PathAsPlanned, Moved, Kept
<1>6. UndoInv'
  BY DEF PInv, ForwardInv, UndoInv, Moved
<1>7. Settled'
  BY DEF Finally, Moved, Settled
<1> QED
  BY <1>1, <1>2, <1>3, <1>4, <1>5, <1>6, <1>7 DEF PInv

\* The end of a transaction.
LEMMA DropF ==
  ASSUME PInv, TypeInv',
         me.pc = "drop", Kept, me'.outcome = "ok", me'.pc \in {"idle"} \cup Finally,
         UNCHANGED <<dir, exe, state, userPath>>
  PROVE  PInv'
<1>a. me.before.state \in SoundState \cup {NoState} /\ me.before.userPath \in PathValue
  BY DEF PInv, TypeInv, RunType, Found, StateFiles
<1>b. me.flow = "install" => state # NoState /\ state.path = me.plan.owns
                             /\ state.version = me.job.version /\ state.hash = me.job.version
  <2>1. SUFFICES ASSUME me.flow = "install" PROVE
          state = [version |-> me.job.version, hash |-> me.job.version, path |-> me.plan.owns]
          /\ state \in States
    BY VersionsAssumption
  <2>2. state = [version |-> me.job.version, hash |-> me.job.version, path |-> me.plan.owns]
    BY <2>1 DEF PInv, ForwardInv
  <2> QED
    BY <2>2, JobTyped DEF PInv, TypeInv, RunType, PlanType, States
<1>c. me.flow = "removePath" => state # NoState /\ ~state.path
  <2>1. SUFFICES ASSUME me.flow = "removePath"
                 PROVE  /\ state = [me.before.state EXCEPT !.path = FALSE]
                        /\ me.before.state \in States
    BY VersionsAssumption DEF States
  <2> QED
    BY <2>1, <1>a DEF PInv, ForwardInv, PlanInv, Forward, SoundState
<1>d. me.flow \in {"install", "uninstall", "removePath"}
  BY DEF PInv, TypeInv, RunType, Flows
<1>1. AlwaysInv'
  BY <1>a DEF PInv, AlwaysInv, Forward, Kept
<1>2. EarlyInv'
  BY <1>a DEF EarlyInv, Finally
<1>3. PlanInv'
  BY <1>a DEF PlanInv, Forward, Undoing, Finally
<1>4. DoneInv'
  BY <1>a DEF DoneInv, Forward, Undoing, Finally
<1>5. ForwardInv'
  BY <1>a DEF ForwardInv, Forward, Finally
<1>6. UndoInv'
  BY <1>a DEF UndoInv, Undoing, Finally
<1>7. Settled'
  <2>1. CASE me.flow = "install"
    BY <1>a, <1>b, <2>1
       DEF PInv, PlanInv, ForwardInv, Forward, PathAsPlanned, Owned, Kept, Settled, Achieved
  <2>2. CASE me.flow = "removePath"
    BY <1>a, <1>c, <2>2
       DEF PInv, PlanInv, DoneInv, ForwardInv, Forward, PathAsPlanned, Owned, Kept, Settled,
       Achieved
  <2>3. CASE me.flow = "uninstall"
    BY <1>a, <2>3
       DEF PInv, PlanInv, ForwardInv, Forward, PathAsPlanned, Owned, Kept, Settled, Achieved
  <2> QED
    BY <1>d, <2>1, <2>2, <2>3
<1> QED
  BY <1>1, <1>2, <1>3, <1>4, <1>5, <1>6, <1>7 DEF PInv

\* The state file is brought back, or an error is left.
LEMMA UndoStateF ==
  ASSUME PInv, TypeInv',
         me.pc = "undoState", Kept, me'.done = me.done, me'.outcome = me.outcome,
         me'.pc = IF me.flow = "uninstall" THEN "undoExe" ELSE "undoPath",
         \/ me'.errors = me.errors
            /\ state' = IF "state" \in me.done THEN temps.state ELSE state
         \/ me'.errors /\ state' = state,
         temps'.exe = temps.exe, UNCHANGED <<dir, exe, userPath>>
  PROVE  PInv'
<1>1. AlwaysInv'
  BY DEF PInv, AlwaysInv, Undoing, Kept
<1>2. EarlyInv'
  BY DEF EarlyInv
<1>3. PlanInv'
  BY DEF PInv, PlanInv, Undoing, Kept
<1>4. DoneInv'
  BY DEF PInv, DoneInv, Forward, Undoing, SamePath, Kept
<1>5. ForwardInv'
  BY DEF ForwardInv, Forward
<1>6. UndoInv'
  BY DEF PInv, DoneInv, UndoInv, Undoing, SamePath, Kept
<1>7. Settled'
  BY DEF Finally, Settled
<1> QED
  BY <1>1, <1>2, <1>3, <1>4, <1>5, <1>6, <1>7 DEF PInv

\* The User PATH is brought back, or an error is left.
LEMMA UndoPathF ==
  ASSUME PInv, TypeInv',
         me.pc = "undoPath", Kept, me'.done = me.done, me'.outcome = me.outcome,
         me'.pc = IF me.flow = "uninstall" THEN "undoState" ELSE "undoExe",
         \/ me'.errors = me.errors
            /\ userPath' = IF "path" \in me.done THEN me.plan.old ELSE userPath
         \/ me'.errors /\ userPath' = userPath,
         UNCHANGED <<dir, exe, state, temps>>
  PROVE  PInv'
<1>1. AlwaysInv'
  BY DEF PInv, AlwaysInv, Undoing, Kept
<1>2. EarlyInv'
  BY DEF EarlyInv
<1>3. PlanInv'
  BY DEF PInv, PlanInv, Undoing, Kept
<1>4. DoneInv'
  BY DEF PInv, DoneInv, Forward, Undoing, Kept
<1>5. ForwardInv'
  BY DEF ForwardInv, Forward
<1>6. UndoInv'
  BY DEF PInv, PlanInv, DoneInv, UndoInv, Undoing, SamePath, Kept
<1>7. Settled'
  BY DEF Finally, Settled
<1> QED
  BY <1>1, <1>2, <1>3, <1>4, <1>5, <1>6, <1>7 DEF PInv

\* The executable is brought back, or the report says that it was not.
LEMMA UndoExeF ==
  ASSUME PInv, TypeInv',
         me.pc = "undoExe", Kept, me'.pc \in {"idle"} \cup Finally,
         \/ me'.outcome = (IF me.errors THEN "rollbackFailed" ELSE "failed")
            /\ exe' = IF "exe" \in me.done THEN temps.exe ELSE exe
         \/ me'.outcome = "rollbackFailed" /\ exe' = exe,
         UNCHANGED <<dir, state, userPath>>
  PROVE  PInv'
<1>1. AlwaysInv'
  BY DEF PInv, AlwaysInv, DoneInv, Undoing, Kept
<1>2. EarlyInv'
  BY DEF EarlyInv, Finally
<1>3. PlanInv'
  BY DEF PlanInv, Forward, Undoing, Finally
<1>4. DoneInv'
  BY DEF DoneInv, Forward, Undoing, Finally
<1>5. ForwardInv'
  BY DEF ForwardInv, Forward, Finally
<1>6. UndoInv'
  BY DEF UndoInv, Undoing, Finally
<1>7. Settled'
  BY DEF PInv, DoneInv, UndoInv, Undoing, SameFiles, SamePath, Kept, Settled
<1> QED
  BY <1>1, <1>2, <1>3, <1>4, <1>5, <1>6, <1>7 DEF PInv

\* Another program changes its own entry.
LEMMA OtherF ==
  ASSUME PInv, TypeInv',
         UNCHANGED <<dir, exe, state, temps, me>>,
         Ours \in userPath' <=> Ours \in userPath
  PROVE  PInv'
<1>1. AlwaysInv'
  BY DEF PInv, AlwaysInv, SameFiles
<1>2. EarlyInv'
  BY DEF PInv, EarlyInv, SameFiles, SamePath
<1>3. PlanInv'
  BY DEF PInv, PlanInv
<1>4. DoneInv'
  BY DEF PInv, DoneInv, SamePath
<1>5. ForwardInv'
  BY DEF PInv, ForwardInv, PathAsPlanned
<1>6. UndoInv'
  BY DEF PInv, UndoInv, SamePath
<1>7. Settled'
  BY DEF PInv, SameFiles, SamePath, Settled, Achieved
<1> QED
  BY <1>1, <1>2, <1>3, <1>4, <1>5, <1>6, <1>7 DEF PInv

-----------------------------------------------------------------------------
(* The ways a step changes the run's variables. *)

LEMMA Strings ==
  /\ \A pc \in {"idle", "inspect", "plan", "mkdir", "stage", "replace", "moveExe", "moveState",
                "path", "state", "process", "drop", "undoState", "undoPath", "undoExe",
                "cleanBackups", "cleanStage", "rmdir"} : pc \in Positions
  /\ \A o \in {"none", "ok", "absent", "failed", "rollbackFailed", "stopped", "killed"} :
        o \in Outcomes
  /\ \A f \in {"install", "uninstall", "removePath"} : f \in Flows
  /\ \A x \in {"exe", "state", "path"} : x \in Parts
  BY DEF Positions, Trying, Finally, Outcomes, Flows, Parts

LEMMA Counted ==
  ASSUME TypeInv, Throws \/ UNCHANGED failures
  PROVE  failures' \in 0..MaxFailures
  BY BoundsAssumption DEF TypeInv, Throws

LEMMA GotoMoves ==
  ASSUME TypeInv, NEW pc \in Positions, Goto(pc)
  PROVE  me' \in RunType /\ Kept /\ Moved(pc, me.done, me.errors, me.outcome)
  BY DEF TypeInv, RunType, Goto, Kept, Moved

LEMMA EndMoves ==
  ASSUME TypeInv, NEW outcome \in Outcomes, End(outcome)
  PROVE  me' \in RunType /\ Kept /\ Moved("idle", me.done, me.errors, outcome)
  BY Strings DEF TypeInv, RunType, End, Kept, Moved

LEMMA LeaveMoves ==
  ASSUME TypeInv, NEW outcome \in Outcomes, Leave(outcome)
  PROVE  /\ me' \in RunType /\ Kept
         /\ me'.outcome = outcome /\ me'.pc \in {"idle"} \cup Finally
         /\ me.flow = "install" => me'.pc \in Finally
<1> DEFINE pc == CASE me.flow = "install" -> "cleanStage"
                   [] me.flow = "uninstall" -> "cleanBackups"
                   [] OTHER -> "idle"
<1>1. pc \in {"idle"} \cup Finally /\ pc \in Positions
  BY Strings DEF Finally
<1>2. me.flow = "install" => pc \in Finally
  BY DEF Finally
<1>3. me' = [me EXCEPT !.outcome = outcome, !.pc = pc]
  BY DEF Leave
<1> HIDE DEF pc
<1> QED
  BY <1>1, <1>2, <1>3 DEF TypeInv, RunType, Kept

LEMMA FilesTyped ==
  ASSUME TypeInv
  PROVE  /\ exe \in Binaries /\ state \in StateFiles
         /\ temps \in Temps /\ userPath \in PathValue
         /\ temps.stage \in Copies /\ temps.exe \in Binaries /\ temps.state \in StateFiles
         /\ me.job \in Jobs /\ me.job.version \in Versions
         /\ me.plan.old \in PathValue /\ me.plan.new \in PathValue /\ me.plan.owns \in BOOLEAN
         /\ me.before \in Found /\ me.flow \in {"install", "uninstall", "removePath"}
         /\ Owned(state) \in BOOLEAN
  BY JobTyped DEF TypeInv, Temps, RunType, PlanType, Flows, Owned

\* A step of a run that is under way.
LEMMA TypeStep ==
  ASSUME TypeInv, me' \in RunType, dir' \in BOOLEAN, litter' \in BOOLEAN, exe' \in Binaries,
         state' \in StateFiles, userPath' \in PathValue, temps' \in Temps,
         Throws \/ UNCHANGED failures, UNCHANGED <<runs, edits>>
  PROVE  TypeInv'
  BY Counted DEF TypeInv

\* A call throws inside a transaction.
LEMMA CatchStep ==
  ASSUME PInv, Catch, Throws,
         me.pc \in {"replace", "moveExe", "moveState", "path", "state", "process"},
         UNCHANGED <<dir, litter, exe, state, userPath, temps, runs, edits>>
  PROVE  PInv'
<1> DEFINE pc == IF me.flow = "uninstall" THEN "undoPath" ELSE "undoState"
<1>1. pc \in Positions /\ Goto(pc)
  BY Strings DEF Catch
<1>2. me' \in RunType /\ Kept /\ Moved(pc, me.done, me.errors, me.outcome)
  <2> HIDE DEF pc
  <2> QED
    BY <1>1, GotoMoves DEF PInv
<1>3. TypeInv'
  BY <1>2, TypeStep DEF PInv, TypeInv
<1> QED
  BY <1>2, <1>3, CatchF

\* The run gives up before it has changed anything.
LEMMA LeaveStep ==
  ASSUME PInv, Leave("failed"), Throws \/ UNCHANGED failures,
         me.pc \in {"plan", "mkdir", "stage"},
         temps' \in Temps, UNCHANGED <<dir, litter, exe, state, userPath, runs, edits>>
  PROVE  PInv'
<1>1. /\ me' \in RunType /\ Kept
      /\ me'.outcome = "failed" /\ me'.pc \in {"idle"} \cup Finally
  BY LeaveMoves, Strings DEF PInv
<1>2. TypeInv'
  BY <1>1, TypeStep DEF PInv, TypeInv
<1>3. SameFiles /\ SamePath
  BY DEF PInv, EarlyInv
<1> QED
  BY <1>1, <1>2, <1>3, RestF DEF Kept

\* The run ends at once.
LEMMA EndStep ==
  ASSUME PInv, NEW outcome \in Outcomes, End(outcome), me.pc # "idle",
         \/ outcome \notin {"ok", "failed"}
         \/ outcome = "failed" /\ me.pc = "inspect",
         litter' \in BOOLEAN, UNCHANGED <<dir, exe, state, userPath, temps, counts>>
  PROVE  PInv'
<1>1. me' \in RunType /\ Kept /\ Moved("idle", me.done, me.errors, outcome)
  BY EndMoves DEF PInv
<1>2. TypeInv'
  BY <1>1 DEF PInv, TypeInv, counts
<1>3. me.pc = "inspect" => SameFiles /\ SamePath
  BY DEF PInv, EarlyInv
<1> QED
  BY <1>1, <1>2, <1>3, RestF DEF Kept, Moved

-----------------------------------------------------------------------------
(* The invariant, action by action. *)

LEMMA StartStep == ASSUME PInv, Start PROVE PInv'
<1>1. PICK j \in Jobs : me' = Fresh("inspect", j)
  BY DEF Start
<1>2. Now \in Found
  BY DEF PInv, TypeInv, Now, Found
<1>3. me' \in RunType
  BY <1>1, <1>2, JobTyped, FileTypes, Strings DEF Fresh, RunType
<1>4. TypeInv'
  BY <1>3, FileTypes, BoundsAssumption DEF PInv, TypeInv, Start
<1>5. Moved("inspect", {}, FALSE, "none") /\ me'.flow = me'.job.what /\ me'.before = Now
  BY <1>1 DEF Fresh, Moved
<1> QED
  BY <1>4, <1>5, StartF DEF Start, At

LEMMA InspectStep == ASSUME PInv, Inspect PROVE PInv'
<1> DEFINE sound == state # NoState /\ exe # NoFile
           begin(pc, remove) ==
             me' = [me EXCEPT !.pc = pc, !.plan = PathPlan(Owned(state), FALSE, remove)]
<1>0. /\ me.pc = "inspect" /\ UNCHANGED <<files, userPath, counts>>
      /\ UNCHANGED <<dir, litter, exe, state, userPath, temps, runs, failures, edits>>
  BY DEF Inspect, At, files, counts
<1>1. TypeInv /\ me \in RunType /\ me.flow = me.job.what
  BY <1>0 DEF PInv, TypeInv, EarlyInv
<1>2. CASE End("absent") \/ End("failed")
  BY <1>0, <1>2, EndStep, Strings DEF PInv, TypeInv
<1>3. CASE ~dir /\ me' = [me EXCEPT !.flow = "install", !.pc = "plan"]
  <2>1. me' \in RunType
    BY <1>1, <1>3, Strings DEF RunType
  <2>2. /\ me'.flow = "install" /\ me'.job = me.job /\ me'.before = me.before
        /\ me'.plan = me.plan /\ Moved("plan", me.done, me.errors, me.outcome)
    BY <1>1, <1>3 DEF Moved
  <2>3. ~me.before.dir \/ me.before.state # NoState
    BY <1>0, <1>3 DEF PInv, EarlyInv
  <2>4. TypeInv'
    BY <1>0, <1>1, <2>1 DEF TypeInv
  <2> QED
    BY <1>0, <2>2, <2>3, <2>4, GoOnF
<1>4. CASE dir /\ sound /\ me.job.what = "install" /\ Goto("plan")
  <2>1. me' \in RunType /\ Kept /\ Moved("plan", me.done, me.errors, me.outcome)
    BY <1>1, <1>4, GotoMoves, Strings
  <2>2. me.before.state # NoState
    BY <1>0, <1>4 DEF PInv, EarlyInv, SameFiles
  <2>3. TypeInv'
    BY <1>0, <1>1, <2>1 DEF TypeInv
  <2> QED
    BY <1>0, <1>1, <1>4, <2>1, <2>2, <2>3, GoOnF DEF Kept
<1>5. ASSUME NEW pc, NEW remove \in BOOLEAN, dir, sound, begin(pc, remove),
             state.path => remove,
             \/ me.flow = "uninstall" /\ pc = "moveExe"
             \/ me.flow = "removePath" /\ pc = "path"
      PROVE  PInv'
  <2> DEFINE plan == PathPlan(Owned(state), FALSE, remove)
  <2>1. plan \in PlanType
    BY <1>1, FilesTyped, PlanFacts
  <2>2. me' = [me EXCEPT !.pc = pc, !.plan = plan]
    BY <1>5
  <2>3. pc \in Positions
    BY <1>5, Strings
  <2> HIDE DEF plan
  <2>4. /\ me' \in RunType
        /\ me'.pc = pc /\ me'.plan = plan
        /\ me'.job = me.job /\ me'.before = me.before /\ me'.flow = me.flow
        /\ me'.done = me.done /\ me'.errors = me.errors /\ me'.outcome = me.outcome
    BY <1>1, <2>1, <2>2, <2>3 DEF RunType
  <2>5. TypeInv'
    BY <1>0, <1>1, <2>4 DEF TypeInv
  <2> QED
    BY <1>0, <1>5, <2>4, <2>5, InspectF DEF plan
<1>6. CASE dir /\ sound /\ me.job.what = "uninstall" /\ ~(state.path /\ ~me.job.removePath)
             /\ begin("moveExe", me.job.removePath)
  <2>1. me.job.removePath \in BOOLEAN
    BY <1>1, JobTyped DEF RunType
  <2> QED
    BY <1>1, <1>5, <1>6, <2>1
<1>7. CASE dir /\ sound /\ me.job.what = "removePath" /\ state.path /\ begin("path", TRUE)
  BY <1>1, <1>5, <1>7
<1> QED
  BY <1>2, <1>3, <1>4, <1>6, <1>7 DEF Inspect

LEMMA PlanStep == ASSUME PInv, Plan PROVE PInv'
<1> DEFINE job == me.job
           same == state # NoState /\ job.version = state.version
           refused == /\ state # NoState
                      /\ \/ job.version < state.version /\ ~job.allowDowngrade
                         \/ same /\ exe # job.version /\ ~job.force
           replace == ~(same /\ exe = job.version)
           add == job.path # "no" /\ ~job.removePath
           remove == job.removePath
           plan == PathPlan(Owned(state), add, remove)
           pc == CASE ~dir -> "mkdir" [] dir /\ replace -> "stage" [] OTHER -> "path"
<1>0. /\ me.pc = "plan" /\ UNCHANGED <<dir, litter, exe, state, userPath, temps, runs, edits>>
      /\ temps' \in Temps
  BY DEF Plan, At, files, PInv, TypeInv
<1>1. TypeInv /\ me \in RunType /\ me.flow = "install"
  BY <1>0 DEF PInv, TypeInv, EarlyInv
<1>2. CASE Leave("failed") /\ (Throws \/ UNCHANGED failures)
  BY <1>0, <1>2, LeaveStep
<1>3. CASE replace = FALSE /\ Leave("ok") /\ UNCHANGED failures
  <2>1. me' \in RunType /\ Kept /\ me'.outcome = "ok" /\ me'.pc \in Finally
    BY <1>1, <1>3, LeaveMoves, Strings
  <2>2. TypeInv'
    BY <1>0, <1>1, <1>3, <2>1 DEF TypeInv
  <2>3. /\ state # NoState /\ exe = me.job.version /\ state.version = me.job.version
        /\ state.hash = me.job.version /\ me.job.version \in Nat
    BY <1>1, <1>3, FilesTyped, JobTyped, FileTypes DEF StateFiles
  <2> QED
    BY <1>0, <2>1, <2>2, <2>3, NothingF
<1>4. CASE ~refused /\ UNCHANGED failures
           /\ me' = [me EXCEPT !.plan = plan, !.replace = replace, !.pc = pc]
  <2>1. add \in BOOLEAN /\ remove \in BOOLEAN /\ ~(add /\ remove) /\ replace \in BOOLEAN
    BY <1>1, FilesTyped, JobTyped
  <2>2. plan \in PlanType
    BY <1>1, <2>1, FilesTyped, PlanFacts
  <2>3. /\ pc \in Positions
        /\ \/ pc = "mkdir" /\ ~dir
           \/ pc = "stage" /\ dir
           \/ pc = "path" /\ dir /\ exe = me.job.version
    BY <1>1, Strings
  <2>4. state # NoState => me.job.version >= state.version \/ me.job.allowDowngrade
    BY <1>1, <1>4, FilesTyped, FileTypes, VersionsAssumption DEF StateFiles
  <2> HIDE DEF plan, pc, replace
  <2>5. /\ me' \in RunType
        /\ me'.pc = pc /\ me'.plan = plan
        /\ me'.job = me.job /\ me'.before = me.before /\ me'.flow = me.flow
        /\ me'.done = me.done /\ me'.errors = me.errors /\ me'.outcome = me.outcome
    BY <1>1, <1>4, <2>1, <2>2, <2>3 DEF RunType
  <2>6. TypeInv'
    BY <1>0, <1>1, <1>4, <2>5 DEF TypeInv
  <2>7. me'.plan = PathPlan(Owned(state), add, remove)
    BY <2>5 DEF plan
  <2> HIDE DEF add, remove
  <2> QED
    BY <1>0, <2>1, <2>3, <2>4, <2>5, <2>6, <2>7, PlanF
<1> QED
  BY <1>2, <1>3, <1>4 DEF Plan

LEMMA MakeDirStep == ASSUME PInv, MakeDir PROVE PInv'
<1>0. /\ me.pc = "mkdir" /\ UNCHANGED <<litter, exe, state, userPath, temps, runs, edits>>
      /\ TypeInv /\ temps' \in Temps
  BY DEF MakeDir, At, PInv, TypeInv
<1>1. CASE Throws /\ Leave("failed") /\ UNCHANGED dir
  BY <1>0, <1>1, LeaveStep
<1>2. CASE /\ dir' = TRUE /\ UNCHANGED failures
           /\ me' = [me EXCEPT !.created = TRUE, !.pc = "stage"]
  <2>1. me' \in RunType /\ Kept /\ Moved("stage", me.done, me.errors, me.outcome)
    BY <1>0, <1>2, Strings DEF TypeInv, RunType, Kept, Moved
  <2>2. TypeInv'
    BY <1>0, <1>2, <2>1 DEF TypeInv
  <2> QED
    BY <1>0, <1>2, <2>1, <2>2, MakeDirF
<1> QED
  BY <1>1, <1>2 DEF MakeDir

LEMMA StageStep == ASSUME PInv, Stage PROVE PInv'
<1>0. /\ me.pc = "stage" /\ UNCHANGED <<dir, litter, exe, state, userPath, runs, edits>>
      /\ TypeInv /\ temps \in Temps /\ me.job.version \in Copies
  BY FilesTyped, JobTyped DEF Stage, At, PInv
<1>1. CASE Throws /\ Leave("failed")
           /\ \E copy \in {NoFile, Corrupt, me.job.version} :
                temps' = [temps EXCEPT !.stage = copy]
  <2>1. temps' \in Temps
    BY <1>0, <1>1, FileTypes DEF Temps
  <2> QED
    BY <1>0, <1>1, <2>1, LeaveStep
<1>2. CASE /\ temps' = [temps EXCEPT !.stage = me.job.version]
           /\ Goto("replace") /\ UNCHANGED failures
  <2>1. me' \in RunType /\ Kept /\ Moved("replace", me.done, me.errors, me.outcome)
    BY <1>0, <1>2, GotoMoves, Strings
  <2>2. /\ temps' \in Temps
        /\ temps'.stage = me.job.version /\ temps'.exe = temps.exe /\ temps'.state = temps.state
    BY <1>0, <1>2 DEF Temps
  <2>3. TypeInv'
    BY <1>0, <1>2, <2>1, <2>2 DEF TypeInv
  <2> QED
    BY <1>0, <2>1, <2>2, <2>3, StageF
<1> QED
  BY <1>1, <1>2 DEF Stage

LEMMA ReplaceStep == ASSUME PInv, ReplaceExecutable PROVE PInv'
<1>0. /\ me.pc = "replace" /\ UNCHANGED <<dir, litter, state, userPath, runs, edits>>
      /\ TypeInv /\ me \in RunType /\ temps \in Temps /\ temps.stage = me.job.version
  BY DEF ReplaceExecutable, At, PInv, TypeInv, EarlyInv
<1>1. CASE Throws /\ Catch /\ UNCHANGED <<exe, temps>>
  BY <1>0, <1>1, CatchStep
<1>2. CASE /\ exe' = temps.stage /\ temps' = [temps EXCEPT !.stage = NoFile, !.exe = exe]
           /\ me' = [me EXCEPT !.done = @ \cup {"exe"}, !.pc = "path"] /\ UNCHANGED failures
  <2>1. me' \in RunType /\ Kept /\ Moved("path", me.done \cup {"exe"}, me.errors, me.outcome)
    BY <1>0, <1>2, Strings DEF RunType, Kept, Moved
  <2>2. temps' \in Temps /\ temps'.exe = exe /\ temps'.state = temps.state
    BY <1>0, <1>2, FilesTyped, FileTypes DEF Temps
  <2>3. exe' \in Binaries
    BY <1>0, <1>2, FilesTyped, JobTyped
  <2>4. TypeInv'
    BY <1>0, <1>2, <2>1, <2>2, <2>3 DEF TypeInv
  <2> QED
    BY <1>0, <1>2, <2>1, <2>2, <2>4, ReplaceF
<1> QED
  BY <1>1, <1>2 DEF ReplaceExecutable

LEMMA MoveExeStep == ASSUME PInv, MoveExecutable PROVE PInv'
<1>0. /\ me.pc = "moveExe" /\ UNCHANGED <<dir, litter, state, userPath, runs, edits>>
      /\ TypeInv /\ me \in RunType /\ temps \in Temps
  BY DEF MoveExecutable, At, PInv, TypeInv
<1>1. CASE Throws /\ Catch /\ UNCHANGED <<exe, temps>>
  BY <1>0, <1>1, CatchStep
<1>2. CASE /\ temps' = [temps EXCEPT !.exe = exe] /\ exe' = NoFile
           /\ me' = [me EXCEPT !.done = @ \cup {"exe"}, !.pc = "moveState"]
           /\ UNCHANGED failures
  <2>1. /\ me' \in RunType /\ Kept
        /\ Moved("moveState", me.done \cup {"exe"}, me.errors, me.outcome)
    BY <1>0, <1>2, Strings DEF RunType, Kept, Moved
  <2>2. temps' \in Temps /\ temps'.exe = exe /\ exe' \in Binaries
    BY <1>0, <1>2, FilesTyped, FileTypes DEF Temps
  <2>3. TypeInv'
    BY <1>0, <1>2, <2>1, <2>2 DEF TypeInv
  <2> QED
    BY <1>0, <1>2, <2>1, <2>2, <2>3, MoveExeF
<1> QED
  BY <1>1, <1>2 DEF MoveExecutable

LEMMA MoveStateStep == ASSUME PInv, MoveState PROVE PInv'
<1>0. /\ me.pc = "moveState" /\ UNCHANGED <<dir, litter, exe, userPath, runs, edits>>
      /\ TypeInv /\ me \in RunType /\ temps \in Temps
  BY DEF MoveState, At, PInv, TypeInv
<1>1. CASE Throws /\ Catch /\ UNCHANGED <<state, temps>>
  BY <1>0, <1>1, CatchStep
<1>2. CASE /\ temps' = [temps EXCEPT !.state = state] /\ state' = NoState
           /\ me' = [me EXCEPT !.done = @ \cup {"state"}, !.pc = "path"] /\ UNCHANGED failures
  <2>1. me' \in RunType /\ Kept /\ Moved("path", me.done \cup {"state"}, me.errors, me.outcome)
    BY <1>0, <1>2, Strings DEF RunType, Kept, Moved
  <2>2. /\ temps' \in Temps /\ temps'.state = state /\ temps'.exe = temps.exe
        /\ state' \in StateFiles
    BY <1>0, <1>2, FilesTyped, FileTypes DEF Temps
  <2>3. TypeInv'
    BY <1>0, <1>2, <2>1, <2>2 DEF TypeInv
  <2> QED
    BY <1>0, <1>2, <2>1, <2>2, <2>3, MoveStateF
<1> QED
  BY <1>1, <1>2 DEF MoveState

LEMMA PathStep == ASSUME PInv, SetUserPath PROVE PInv'
<1> DEFINE next == IF me.flow = "uninstall" THEN "drop" ELSE "state"
<1>0. /\ me.pc = "path"
      /\ UNCHANGED <<dir, litter, exe, state, temps, runs, edits>>
      /\ TypeInv /\ me \in RunType /\ next \in Positions
  BY Strings DEF SetUserPath, At, PInv, TypeInv, files
<1>1. CASE Throws /\ Catch /\ UNCHANGED userPath
  BY <1>0, <1>1, CatchStep
<1>2. CASE me.plan.new = me.plan.old /\ Goto(next) /\ UNCHANGED <<userPath, failures>>
  <2> HIDE DEF next
  <2>1. me' \in RunType /\ Kept /\ Moved(next, me.done, me.errors, me.outcome)
    BY <1>0, <1>2, GotoMoves
  <2>2. TypeInv'
    BY <1>0, <1>2, <2>1 DEF TypeInv
  <2> QED
    BY <1>0, <1>2, <2>1, <2>2, PathF DEF Moved, next
<1>3. CASE /\ userPath' = me.plan.new /\ UNCHANGED failures
           /\ me' = [me EXCEPT !.done = @ \cup {"path"}, !.pc = next]
  <2> HIDE DEF next
  <2>1. me' \in RunType /\ Kept /\ Moved(next, me.done \cup {"path"}, me.errors, me.outcome)
    BY <1>0, <1>3, Strings DEF RunType, Kept, Moved
  <2>2. userPath' \in PathValue
    BY <1>0, <1>3, FilesTyped
  <2>3. TypeInv'
    BY <1>0, <1>3, <2>1, <2>2 DEF TypeInv
  <2> QED
    BY <1>0, <1>3, <2>1, <2>3, PathF DEF next
<1>4. CASE /\ Throws /\ me.flow = "install" /\ UNCHANGED userPath
           /\ me' = [me EXCEPT !.plan = PathPlan(Owned(state), FALSE, FALSE), !.pc = next]
  <2> DEFINE plan == PathPlan(Owned(state), FALSE, FALSE)
  <2>1. plan \in PlanType
    BY <1>0, FilesTyped, PlanFacts
  <2>2. me' = [me EXCEPT !.plan = plan, !.pc = "state"]
    BY <1>4
  <2> HIDE DEF plan
  <2>3. /\ me' \in RunType /\ me'.plan = plan /\ Moved("state", me.done, me.errors, me.outcome)
        /\ me'.job = me.job /\ me'.before = me.before /\ me'.flow = me.flow
    BY <1>0, <2>1, <2>2, Strings DEF RunType, Moved
  <2>4. TypeInv'
    BY <1>0, <1>4, <2>3, TypeStep DEF TypeInv
  <2> QED
    BY <1>0, <1>4, <2>3, <2>4, NoPathF
<1> QED
  BY <1>0, <1>1, <1>2, <1>3, <1>4 DEF SetUserPath

LEMMA WriteStep == ASSUME PInv, WriteState PROVE PInv'
<1> DEFINE next == IF me.flow = "install" THEN "drop" ELSE "process"
<1>0. /\ me.pc = "state" /\ UNCHANGED <<dir, litter, exe, userPath, runs, edits>>
      /\ TypeInv /\ me \in RunType /\ temps \in Temps /\ next \in Positions
  BY Strings DEF WriteState, At, PInv, TypeInv
<1>1. CASE Throws /\ Catch /\ UNCHANGED <<state, temps>>
  BY <1>0, <1>1, CatchStep
<1>2. CASE /\ state' = NewState /\ temps' = [temps EXCEPT !.state = state] /\ UNCHANGED failures
           /\ me' = [me EXCEPT !.done = @ \cup {"state"}, !.pc = next]
  <2>1. me' \in RunType /\ Kept /\ Moved(next, me.done \cup {"state"}, me.errors, me.outcome)
    <3> HIDE DEF next
    <3> QED
      BY <1>0, <1>2, Strings DEF RunType, Kept, Moved
  <2>2. temps' \in Temps /\ temps'.state = state /\ temps'.exe = temps.exe
    BY <1>0, <1>2, FilesTyped DEF Temps
  <2>3. state' \in StateFiles
    <3>1. CASE me.flow = "install"
      BY <1>0, <1>2, <3>1, FilesTyped DEF NewState, StateFiles, SoundState, States
    <3>2. CASE me.flow # "install"
      <4>1. state # NoState
        <5>1. me.flow # "uninstall" /\ "state" \notin me.done
          BY <1>0 DEF PInv, ForwardInv
        <5>2. me.before.state # NoState /\ state = me.before.state
          BY <1>0, <3>2, <5>1 DEF PInv, PlanInv, DoneInv, Forward
        <5> QED
          BY <5>2
      <4> QED
        BY <1>0, <1>2, <3>2, <4>1, FilesTyped DEF NewState, StateFiles, SoundState, States
    <3> QED
      BY <3>1, <3>2
  <2>4. TypeInv'
    BY <1>0, <1>2, <2>1, <2>2, <2>3 DEF TypeInv
  <2> QED
    BY <1>0, <1>2, <2>1, <2>2, <2>4, WriteF DEF NewState
<1> QED
  BY <1>1, <1>2 DEF WriteState

LEMMA ProcessStep == ASSUME PInv, UpdateProcess PROVE PInv'
<1>0. /\ me.pc = "process"
      /\ UNCHANGED <<dir, litter, exe, state, userPath, temps, runs, edits>>
      /\ TypeInv
  BY DEF UpdateProcess, At, PInv, files
<1>1. CASE Throws /\ Catch
  BY <1>0, <1>1, CatchStep
<1>2. CASE Goto("drop") /\ UNCHANGED failures
  <2>1. me' \in RunType /\ Kept /\ Moved("drop", me.done, me.errors, me.outcome)
    BY <1>0, <1>2, GotoMoves, Strings
  <2>2. TypeInv'
    BY <1>0, <1>2, <2>1 DEF TypeInv
  <2> QED
    BY <1>0, <2>1, <2>2, ProcessF
<1> QED
  BY <1>1, <1>2 DEF UpdateProcess

LEMMA BackupsGo ==
  ASSUME TypeInv, RemoveBackups
  PROVE  temps' \in Temps /\ (Throws \/ UNCHANGED failures)
<1>1. ASSUME NEW e \in {NoFile, temps.exe}, NEW s \in {NoState, temps.state}
      PROVE  [NoTemps EXCEPT !.exe = e, !.state = s] \in Temps
  BY FilesTyped, FileTypes DEF TypeInv, Temps
<1> QED
  BY <1>1, FileTypes DEF RemoveBackups

LEMMA DropStep == ASSUME PInv, DropBackups PROVE PInv'
<1>0. /\ me.pc = "drop" /\ UNCHANGED <<dir, litter, exe, state, userPath, runs, edits>>
      /\ TypeInv /\ me \in RunType
  BY DEF DropBackups, At, PInv, TypeInv
<1>1. temps' \in Temps /\ (Throws \/ UNCHANGED failures)
  BY <1>0, BackupsGo DEF DropBackups
<1>2. me' \in RunType /\ Kept /\ me'.outcome = "ok" /\ me'.pc \in {"idle"} \cup Finally
  <2>1. CASE me' = [me EXCEPT !.outcome = "ok", !.pc = "rmdir"]
    BY <1>0, <2>1, Strings DEF RunType, Kept, Finally
  <2>2. CASE Leave("ok")
    BY <1>0, <2>2, LeaveMoves, Strings
  <2> QED
    BY <2>1, <2>2 DEF DropBackups
<1>3. TypeInv'
  BY <1>0, <1>1, <1>2, TypeStep DEF TypeInv
<1> QED
  BY <1>0, <1>2, <1>3, DropF

LEMMA UndoStateStep == ASSUME PInv, UndoState PROVE PInv'
<1> DEFINE next == IF me.flow = "uninstall" THEN "undoExe" ELSE "undoPath"
<1>0. /\ me.pc = "undoState" /\ UNCHANGED <<dir, litter, exe, userPath, runs, edits>>
      /\ TypeInv /\ me \in RunType /\ temps \in Temps
      /\ next \in Positions /\ UndoNext("undoState") = next
  BY Strings DEF UndoState, At, PInv, TypeInv, UndoNext
<1>1. ASSUME Throws \/ UNCHANGED failures, temps' \in Temps, temps'.exe = temps.exe,
             \/ /\ Undone("undoState")
                /\ state' = IF "state" \in me.done THEN temps.state ELSE state
             \/ NotUndone("undoState") /\ state' = state
      PROVE  PInv'
  <2> HIDE DEF next
  <2>1. /\ me' \in RunType /\ Kept /\ me'.pc = next /\ me'.done = me.done
        /\ me'.outcome = me.outcome
        /\ Undone("undoState") => me'.errors = me.errors
        /\ NotUndone("undoState") => me'.errors
    <3>1. CASE Undone("undoState")
      BY <1>0, <3>1 DEF Undone, NotUndone, RunType, Kept
    <3>2. CASE NotUndone("undoState")
      BY <1>0, <3>2 DEF Undone, NotUndone, RunType, Kept
    <3> QED
      BY <1>1, <3>1, <3>2
  <2>2. state' \in StateFiles
    BY <1>0, <1>1, FilesTyped
  <2>3. TypeInv'
    BY <1>0, <1>1, <2>1, <2>2, TypeStep DEF TypeInv
  <2> QED
    BY <1>0, <1>1, <2>1, <2>3, UndoStateF DEF next
<1>2. CASE "state" \notin me.done /\ Undone("undoState") /\ UNCHANGED <<state, temps, failures>>
  BY <1>0, <1>1, <1>2
<1>3. CASE /\ "state" \in me.done /\ state' = temps.state
           /\ temps' = [temps EXCEPT !.state = NoState]
           /\ Undone("undoState") /\ UNCHANGED failures
  <2>1. temps' \in Temps /\ temps'.exe = temps.exe
    BY <1>0, <1>3, FileTypes DEF Temps
  <2> QED
    BY <1>1, <1>3, <2>1
<1>4. CASE Throws /\ NotUndone("undoState") /\ UNCHANGED <<state, temps>>
  BY <1>0, <1>1, <1>4
<1> QED
  BY <1>2, <1>3, <1>4 DEF UndoState

LEMMA UndoPathStep == ASSUME PInv, UndoUserPath PROVE PInv'
<1> DEFINE next == IF me.flow = "uninstall" THEN "undoState" ELSE "undoExe"
<1>0. /\ me.pc = "undoPath" /\ UNCHANGED <<dir, litter, exe, state, temps, runs, edits>>
      /\ TypeInv /\ me \in RunType /\ next \in Positions /\ UndoNext("undoPath") = next
  BY Strings DEF UndoUserPath, At, PInv, TypeInv, UndoNext, files
<1>1. /\ Throws \/ UNCHANGED failures
      /\ \/ /\ Undone("undoPath")
            /\ userPath' = IF "path" \in me.done THEN me.plan.old ELSE userPath
         \/ NotUndone("undoPath") /\ userPath' = userPath
  BY DEF UndoUserPath
<1> HIDE DEF next
<1>2. /\ me' \in RunType /\ Kept /\ me'.pc = next /\ me'.done = me.done
      /\ me'.outcome = me.outcome
      /\ Undone("undoPath") => me'.errors = me.errors
      /\ NotUndone("undoPath") => me'.errors
  <2>1. CASE Undone("undoPath")
    BY <1>0, <2>1 DEF Undone, NotUndone, RunType, Kept
  <2>2. CASE NotUndone("undoPath")
    BY <1>0, <2>2 DEF Undone, NotUndone, RunType, Kept
  <2> QED
    BY <1>1, <2>1, <2>2
<1>3. userPath' \in PathValue
  BY <1>0, <1>1, FilesTyped
<1>4. TypeInv'
  BY <1>0, <1>1, <1>2, <1>3, TypeStep DEF TypeInv
<1> QED
  BY <1>0, <1>1, <1>2, <1>4, UndoPathF DEF next

LEMMA UndoExeStep == ASSUME PInv, UndoExecutable PROVE PInv'
<1>0. /\ me.pc = "undoExe" /\ UNCHANGED <<dir, litter, state, userPath, runs, edits>>
      /\ TypeInv /\ me \in RunType /\ temps \in Temps
  BY DEF UndoExecutable, At, PInv, TypeInv
<1>1. ASSUME NEW errors \in BOOLEAN, Report(errors)
      PROVE  /\ me' \in RunType /\ Kept /\ me'.pc \in {"idle"} \cup Finally
             /\ me'.outcome = IF errors THEN "rollbackFailed" ELSE "failed"
  <2> DEFINE outcome == IF errors THEN "rollbackFailed" ELSE "failed"
  <2>1. outcome \in Outcomes /\ Leave(outcome)
    BY <1>1, Strings DEF Report
  <2> HIDE DEF outcome
  <2>2. /\ me' \in RunType /\ Kept /\ me'.pc \in {"idle"} \cup Finally
        /\ me'.outcome = outcome
    BY <1>0, <2>1, LeaveMoves
  <2> QED
    BY <2>2 DEF outcome
<1>2. me.errors \in BOOLEAN
  BY <1>0 DEF RunType
<1>3. CASE Report(me.errors) /\ exe' = (IF "exe" \in me.done THEN temps.exe ELSE exe)
           /\ temps' \in Temps /\ UNCHANGED failures
  <2>1. exe' \in Binaries
    BY <1>0, <1>3, FilesTyped
  <2>2. TypeInv'
    BY <1>0, <1>1, <1>2, <1>3, <2>1 DEF TypeInv
  <2> QED
    BY <1>0, <1>1, <1>2, <1>3, <2>2, UndoExeF
<1>4. CASE Throws /\ Report(TRUE) /\ UNCHANGED <<exe, temps>>
  <2>1. TypeInv'
    BY <1>0, <1>1, <1>4, TypeStep DEF TypeInv
  <2>2. /\ me' \in RunType /\ Kept /\ me'.pc \in {"idle"} \cup Finally
        /\ me'.outcome = "rollbackFailed"
    BY <1>1, <1>4
  <2> QED
    BY <1>0, <1>4, <2>1, <2>2, UndoExeF
<1>5. "exe" \in me.done /\ temps' = [temps EXCEPT !.exe = NoFile] => temps' \in Temps
  BY <1>0, FileTypes DEF Temps
<1> QED
  BY <1>0, <1>3, <1>4, <1>5 DEF UndoExecutable

LEMMA CleanupStep == ASSUME PInv, Cleanup PROVE PInv'
<1>0. /\ me.pc \in Finally /\ UNCHANGED <<litter, exe, state, userPath, runs, edits>>
      /\ TypeInv /\ temps \in Temps
  BY DEF Cleanup, CleanBackups, CleanStage, RemoveDir, Finally, At, PInv, TypeInv
<1>1. temps' \in Temps /\ (Throws \/ UNCHANGED failures)
  <2>1. CASE CleanBackups
    BY <1>0, <2>1, BackupsGo DEF CleanBackups
  <2>2. CASE CleanStage \/ RemoveDir
    BY <1>0, <2>2, FileTypes DEF CleanStage, RemoveDir, Temps
  <2> QED
    BY <2>1, <2>2 DEF Cleanup
<1>2. PICK pc \in {"idle", "rmdir"} : Goto(pc)
  BY DEF Cleanup, CleanBackups, CleanStage, RemoveDir
<1>3. /\ me' \in RunType /\ Kept /\ me'.outcome = me.outcome
      /\ me'.pc \in {"idle"} \cup Finally
  <2>1. pc \in Positions /\ pc \in {"idle"} \cup Finally
    BY Strings DEF Finally
  <2> QED
    BY <1>0, <1>2, <2>1, GotoMoves DEF Moved
<1>4. dir' \in BOOLEAN /\ (dir' \/ (exe = NoFile /\ state = NoState))
  BY <1>0 DEF Cleanup, CleanBackups, CleanStage, RemoveDir, PInv, TypeInv, AlwaysInv
<1>5. TypeInv'
  BY <1>0, <1>1, <1>3, <1>4, TypeStep DEF TypeInv
<1> QED
  BY <1>0, <1>3, <1>4, <1>5, TidyF

LEMMA CutShort == ASSUME PInv, Stop \/ Kill PROVE PInv'
<1>0. me.pc # "idle" /\ TypeInv /\ litter' \in BOOLEAN
      /\ UNCHANGED <<dir, exe, state, userPath, temps, counts>>
  BY DEF Stop, Kill, Trying, Finally, PInv, TypeInv, files
<1>1. CASE End("stopped") \/ End("killed")
  BY <1>0, <1>1, EndStep, Strings
<1>2. CASE me.pc # "inspect" /\ Leave("stopped")
  <2>1. /\ me' \in RunType /\ Kept
        /\ me'.outcome = "stopped" /\ me'.pc \in {"idle"} \cup Finally
    BY <1>0, <1>2, LeaveMoves, Strings
  <2>2. TypeInv'
    BY <1>0, <2>1 DEF TypeInv, counts
  <2> QED
    BY <1>0, <1>2, <2>1, <2>2, RestF DEF Kept
<1> QED
  BY <1>1, <1>2 DEF Stop, Kill

LEMMA OtherStep == ASSUME PInv, OtherProgram PROVE PInv'
<1>1. /\ UNCHANGED <<dir, exe, state, temps, me>> /\ userPath' \in PathValue
      /\ Ours \in userPath' <=> Ours \in userPath
  BY DEF OtherProgram, files, Ours, PathValue, PInv, TypeInv
<1>2. TypeInv'
  BY <1>1, BoundsAssumption DEF OtherProgram, files, PInv, TypeInv
<1> QED
  BY <1>1, <1>2, OtherF

LEMMA InitPInv == Init => PInv
<1> SUFFICES ASSUME Init PROVE PInv
  OBVIOUS
<1>1. PICK j \in Jobs : me = Fresh("idle", j)
  BY JobsAssumption DEF Init
<1>2. /\ exe \in Binaries /\ state \in StateFiles /\ userPath \in PathValue /\ dir \in BOOLEAN
      /\ ~dir => exe = NoFile /\ state = NoState
  BY DEF Init, Binaries, Contents, StateFiles, SoundState, States, PathValue
<1>3. me \in RunType
  BY <1>1, <1>2, JobTyped, FileTypes, Strings DEF Fresh, RunType, Now, Found
<1>4. TypeInv
  <2>1. temps \in Temps /\ litter \in BOOLEAN
    BY FileTypes DEF Init
  <2>2. runs \in 0..MaxRuns /\ failures \in 0..MaxFailures /\ edits \in 0..MaxEdits
    BY BoundsAssumption DEF Init
  <2> QED
    BY <1>2, <1>3, <2>1, <2>2 DEF TypeInv
<1>5. me.pc = "idle" /\ me.outcome = "none" /\ me.before = Now
  BY <1>1 DEF Fresh
<1> QED
  BY <1>2, <1>4, <1>5
     DEF PInv, AlwaysInv, EarlyInv, PlanInv, DoneInv, ForwardInv, UndoInv, Settled, Forward,
     Undoing, SameFiles, Now

LEMMA NextPInv == PInv /\ [Next]_vars => PInv'
<1> SUFFICES ASSUME PInv, [Next]_vars PROVE PInv'
  OBVIOUS
<1>1. CASE UNCHANGED vars
  BY <1>1 DEF vars, files, counts, PInv, TypeInv, AlwaysInv, EarlyInv, PlanInv, DoneInv,
              ForwardInv, UndoInv, Settled, Achieved, SameFiles, SamePath, PathAsPlanned
<1>2. CASE Start \/ Inspect \/ Plan
  BY <1>2, StartStep, InspectStep, PlanStep
<1>3. CASE Transaction
  BY <1>3, MakeDirStep, StageStep, ReplaceStep, MoveExeStep, MoveStateStep, PathStep,
     WriteStep, ProcessStep, DropStep DEF Transaction
<1>4. CASE Rollback
  BY <1>4, UndoStateStep, UndoPathStep, UndoExeStep DEF Rollback
<1>5. CASE Cleanup
  BY <1>5, CleanupStep
<1>6. CASE Stop \/ Kill \/ OtherProgram
  BY <1>6, CutShort, OtherStep
<1> QED
  BY <1>1, <1>2, <1>3, <1>4, <1>5, <1>6 DEF Next, Run

LEMMA AlwaysPInv == Spec => []PInv
  BY InitPInv, NextPInv, PTL DEF Spec

-----------------------------------------------------------------------------
(* The properties. *)

\* The script's variables and the files stay in their ranges, and an incomplete copy
\* never gets the executable's name (install.ps1:1841-1850).
THEOREM Ps1Typed == Spec => []TypeOK
<1>1. PInv => TypeOK
  BY DEF PInv, TypeInv, TypeOK, Binaries, StateFiles, SoundState, PathValue, Temps, Copies,
         RunType, Positions, Flows, Parts, Outcomes
<1> QED
  BY <1>1, AlwaysPInv, PTL

\* What a run reports of executable, state and PATH entry is so, whatever number of
\* calls threw and however torn the installation was that it found
\* (install.ps1:1467, 1937).
THEOREM OutcomeIsTrueHolds == Spec => []OutcomeIsTrue
<1>1. PInv => OutcomeIsTrue
  BY DEF PInv, Settled, Achieved, SameFiles, SamePath, OutcomeIsTrue, Over, At
<1> QED
  BY <1>1, AlwaysPInv, PTL

\* The state file stays true about who owns the PATH entry, whatever step threw
\* (install.ps1:1081-1163, 1852-1926).
THEOREM PathFollowsStatePs1 == Spec => []PathFollowsState
<1>1. PInv => PathFollowsState
  BY DEF PInv, Settled, Achieved, SameFiles, SamePath, PathFollowsState, Over, At
<1> QED
  BY <1>1, AlwaysPInv, PTL

\* No install and no change of PATH loses the executable of an installation, however
\* many calls throw, and wherever it is stopped or killed (install.ps1:948-1019).
THEOREM NeverMissingPs1 == Spec => []NeverMissing
<1>1. PInv => NeverMissing
  BY DEF PInv, AlwaysInv, Settled, Achieved, SameFiles, NeverMissing, Over, At
<1> QED
  BY <1>1, AlwaysPInv, PTL

\* A directory without a state file is left alone at every moment of every run
\* (install.ps1:1680-1684, 1388-1391).
THEOREM UnmanagedRefusedPs1 == Spec => []UnmanagedRefused
<1>1. PInv => UnmanagedRefused
  BY DEF PInv, AlwaysInv, SameFiles, UnmanagedRefused
<1> QED
  BY <1>1, AlwaysPInv, PTL

\* Neither the change of the User PATH nor its undo removes an entry of another
\* program that was there when it was planned (install.ps1:1095, 1864, 1917).
THEOREM OthersKeptHolds == Spec => OthersKept
<1> DEFINE Kind == Run /\ "other" \in userPath \cap me.plan.old => "other" \in userPath'
<1>1. PInv /\ [Next]_vars => [Kind]_vars
  <2> SUFFICES ASSUME PInv, Run, "other" \in userPath, "other" \in me.plan.old
               PROVE  "other" \in userPath'
    OBVIOUS
  <2>1. CASE SetUserPath
    BY <2>1 DEF SetUserPath, At, PInv, PlanInv, Forward
  <2>2. CASE UndoUserPath
    BY <2>2 DEF UndoUserPath
  <2>3. CASE UNCHANGED userPath
    BY <2>3
  <2> QED
    BY <2>1, <2>2, <2>3
       DEF Run, Start, Inspect, Plan, Transaction, MakeDir, Stage, ReplaceExecutable,
           MoveExecutable, MoveState, WriteState, UpdateProcess, DropBackups, Rollback,
           UndoState,
           UndoExecutable, Cleanup, CleanBackups, CleanStage, RemoveDir, Stop, Kill
<1> QED
  BY <1>1, AlwaysPInv, PTL DEF Spec, OthersKept
-----------------------------------------------------------------------------
(* A run of the installer, seen through the mapping, is one of Installation. *)

Shown == IF Undecided THEN me.before.exe ELSE exe
RecordOf(s) == IF s = NoState THEN NoFile ELSE s.version
Record == RecordOf(IF Undecided THEN me.before.state ELSE state)
Asked == IF At("idle") THEN {} ELSE {Wish(me.job)}

\* What a run past its checks has found, as far as its options matter.
FoundInv ==
  LET before == me.before
  IN  /\ me.flow # me.job.what => me.flow = "install" /\ me.job.what = "removePath"
      /\ me.pc \in Trying \ {"inspect"} =>
           /\ before.state = NoState => before.exe = NoFile /\ me.flow = "install"
           /\ before.state # NoState =>
                /\ before.exe # NoFile /\ me.flow = me.job.what
                /\ me.flow = "install" => before.exe = before.state.version \/ me.job.force

\* What a run that has not come to its end may leave when it is cut short.
MaskInv ==
  LET before == me.before
  IN  Undecided =>
        /\ me.flow = "install" =>
             "state" \notin me.done /\ state = before.state /\ exe \in {before.exe, me.job.version}
        /\ me.flow = "removePath" =>
             exe = before.exe /\ RecordOf(state) = RecordOf(before.state)
        /\ me.flow = "uninstall" =>
             exe \in {before.exe, NoFile} /\ state \in {before.state, NoState}

ViewInv == PInv /\ FoundInv /\ MaskInv

\* A step of a run that is under way.
LEMMA LeaveGoes ==
  ASSUME TypeInv, NEW outcome, Leave(outcome)
  PROVE  /\ me'.job = me.job /\ me'.before = me.before
         /\ me'.pc \in {"idle", "cleanStage", "cleanBackups"}
  BY DEF Leave, TypeInv, RunType

LEMMA CatchGoes ==
  ASSUME TypeInv, Catch
  PROVE  /\ me'.job = me.job /\ me'.before = me.before /\ me'.flow = me.flow
         /\ me'.done = me.done /\ me'.pc \in {"undoPath", "undoState"}
  BY DEF Catch, Goto, TypeInv, RunType

LEMMA Transition ==
  ASSUME TypeInv, Run, ~Start
  PROVE  /\ me.pc # "idle" /\ me'.job = me.job /\ me'.before = me.before
         /\ ~Undecided => ~Undecided' /\ exe' = exe /\ state' = state
         /\ Undecided /\ ~Undecided' =>
              \/ WriteState \/ SetUserPath
              \/ /\ state' = state
                 /\ \/ exe' = exe
                    \/ me.pc = "undoExe" /\ "exe" \in me.done /\ exe' = temps.exe
<1>0. me \in RunType
  BY DEF TypeInv
<1>1. CASE Inspect
  BY <1>0, <1>1 DEF Inspect, At, End, Goto, RunType, Undecided, Trying, files
<1>2. CASE Plan
  BY <1>0, <1>2, LeaveGoes DEF Plan, At, RunType, Undecided, Trying, files
<1>3. CASE MakeDir \/ Stage
  BY <1>0, <1>3, LeaveGoes DEF MakeDir, Stage, At, Goto, RunType, Undecided, Trying
<1>4. CASE ReplaceExecutable \/ MoveExecutable \/ MoveState
  BY <1>0, <1>4, CatchGoes
     DEF ReplaceExecutable, MoveExecutable, MoveState, At, RunType, Undecided, Trying
<1>5. CASE SetUserPath
  BY <1>0, <1>5, CatchGoes DEF SetUserPath, Goto, At, RunType, Undecided, Trying, files
<1>6. CASE WriteState \/ UpdateProcess
  BY <1>0, <1>6, CatchGoes
     DEF WriteState, UpdateProcess, Goto, At, RunType, Undecided, Trying, files
<1>7. CASE DropBackups
  BY <1>0, <1>7, LeaveGoes DEF DropBackups, At, RunType, Undecided, Trying
<1>8. CASE UndoState \/ UndoUserPath
  BY <1>0, <1>8
     DEF UndoState, UndoUserPath, Undone, NotUndone, UndoNext, At, RunType, Undecided, Trying,
     files
<1>9. CASE UndoExecutable
  BY <1>0, <1>9, LeaveGoes DEF UndoExecutable, Report, At, Undecided, Trying
<1>10. CASE Cleanup
  BY <1>0, <1>10
     DEF Cleanup, CleanBackups, CleanStage, RemoveDir, Goto, At, RunType, Undecided, Trying
<1>11. CASE Stop
  BY <1>0, <1>11, LeaveGoes DEF Stop, End, RunType, Undecided, Trying, files
<1>12. CASE Kill
  BY <1>0, <1>12 DEF Kill, End, RunType, Undecided, Trying, Finally
<1> QED
  BY <1>1, <1>2, <1>3, <1>4, <1>5, <1>6, <1>7, <1>8, <1>9, <1>10, <1>11, <1>12
     DEF Run, Transaction, Rollback

\* After these the run no longer hides what it has changed.
LEMMA Unmasked ==
  ASSUME TypeInv, UndoExecutable \/ DropBackups \/ Cleanup \/ Stop \/ Kill
  PROVE  ~Undecided'
<1>0. me \in RunType
  BY DEF TypeInv
<1>1. CASE UndoExecutable
  BY <1>0, <1>1, LeaveGoes DEF UndoExecutable, Report, Undecided, Trying
<1>2. CASE DropBackups
  BY <1>0, <1>2, LeaveGoes DEF DropBackups, RunType, Undecided, Trying
<1>3. CASE Cleanup
  BY <1>0, <1>3
     DEF Cleanup, CleanBackups, CleanStage, RemoveDir, Goto, RunType, Undecided, Trying
<1>4. CASE Stop
  BY <1>0, <1>4, LeaveGoes DEF Stop, End, RunType, Undecided, Trying
<1>5. CASE Kill
  BY <1>0, <1>5 DEF Kill, End, RunType, Undecided, Trying
<1> QED
  BY <1>1, <1>2, <1>3, <1>4, <1>5

LEMMA PathDone ==
  ASSUME TypeInv, SetUserPath
  PROVE  me'.done \in {me.done, me.done \cup {"path"}}
<1>0. me \in RunType /\ (Catch => me'.done = me.done)
  BY CatchGoes DEF TypeInv
<1> QED
  BY <1>0 DEF SetUserPath, Goto, RunType

LEMMA InitViewInv == Init => ViewInv
<1> SUFFICES ASSUME Init PROVE ViewInv
  OBVIOUS
<1>1. PICK j \in Jobs : me = Fresh("idle", j)
  BY JobsAssumption DEF Init
<1>2. FoundInv /\ MaskInv
  BY <1>1 DEF Fresh, FoundInv, MaskInv, Undecided, Trying
<1> QED
  BY <1>2, InitPInv DEF ViewInv

LEMMA InspectFound == ASSUME ViewInv, Inspect PROVE FoundInv' /\ MaskInv'
<1>0. /\ me \in RunType /\ me.pc = "inspect" /\ SameFiles /\ dir = me.before.dir
      /\ UNCHANGED <<dir, exe, state>> /\ me.flow = me.job.what /\ me.done = {}
      /\ state \in StateFiles
  BY DEF ViewInv, PInv, TypeInv, EarlyInv, Inspect, At, files
<1>1. CASE me'.pc = "idle"
  BY <1>0, <1>1 DEF Inspect, End, Goto, RunType, FoundInv, MaskInv, Undecided, Trying
<1>2. CASE me'.pc # "idle"
  <2>1. /\ me'.job = me.job /\ me'.before = me.before /\ me'.done = {}
        /\ me'.pc \in {"plan", "moveExe", "path"}
    BY <1>0, <1>2 DEF Inspect, End, Goto, RunType
  <2>2. \/ ~dir /\ me.job.what # "uninstall" /\ me'.flow = "install"
        \/ /\ state # NoState /\ exe # NoFile /\ me'.flow = me.flow
           /\ me.flow = "install" => exe = state.hash \/ me.job.force
    BY <1>0, <1>2 DEF Inspect, End, Goto, RunType
  <2>3. ~dir => exe = NoFile /\ state = NoState
    BY DEF ViewInv, PInv, AlwaysInv
  <2>4. state # NoState => state.hash = state.version
    BY <1>0, FileTypes DEF StateFiles
  <2>5. me.job.what \in {"install", "uninstall", "removePath"}
    BY <1>0, JobTyped DEF RunType, Flows
  <2>6. FoundInv'
    BY <1>0, <2>1, <2>2, <2>3, <2>4, <2>5 DEF FoundInv, SameFiles
  <2>7. MaskInv'
    BY <1>0, <2>1 DEF MaskInv, SameFiles
  <2> QED
    BY <2>6, <2>7
<1> QED
  BY <1>1, <1>2

\* A step of a transaction or of its undo keeps what the run has found.
LEMMA StillFound ==
  ASSUME ViewInv, me'.job = me.job, me'.before = me.before, me'.flow = me.flow,
         me.pc \in Trying \ {"inspect"} \/ me'.pc \notin Trying
  PROVE  FoundInv'
  BY DEF ViewInv, FoundInv

LEMMA StillMasked ==
  ASSUME ViewInv, Undecided, me'.job = me.job, me'.before = me.before, me'.flow = me.flow,
         me'.done = me.done, UNCHANGED <<exe, state>>
  PROVE  MaskInv'
  BY DEF ViewInv, MaskInv

LEMMA StepFound ==
  ASSUME ViewInv, Run, ~Start, ~Inspect
  PROVE  FoundInv' /\ me'.flow = me.flow
<1>0. me \in RunType /\ TypeInv
  BY DEF ViewInv, PInv, TypeInv
<1>1. me'.flow = me.flow
  <2>1. CASE Plan
    BY <1>0, <2>1 DEF Plan, Leave, RunType
  <2>2. CASE MakeDir \/ Stage
    BY <1>0, <2>2 DEF MakeDir, Stage, Leave, Goto, RunType
  <2>3. CASE ReplaceExecutable \/ MoveExecutable \/ MoveState
    BY <1>0, <2>3, CatchGoes DEF ReplaceExecutable, MoveExecutable, MoveState, RunType
  <2>4. CASE SetUserPath
    BY <1>0, <2>4, CatchGoes DEF SetUserPath, Goto, RunType
  <2>5. CASE WriteState \/ UpdateProcess
    BY <1>0, <2>5, CatchGoes DEF WriteState, UpdateProcess, Goto, RunType
  <2>6. CASE DropBackups
    BY <1>0, <2>6 DEF DropBackups, Leave, RunType
  <2>7. CASE Rollback
    BY <1>0, <2>7 DEF Rollback, UndoState, UndoUserPath, UndoExecutable, Undone, NotUndone,
       Report, Leave, RunType
  <2>8. CASE Cleanup
    BY <1>0, <2>8 DEF Cleanup, CleanBackups, CleanStage, RemoveDir, Goto, RunType
  <2>9. CASE Stop \/ Kill
    BY <1>0, <2>9 DEF Stop, Kill, Leave, End, RunType
  <2> QED
    BY <2>1, <2>2, <2>3, <2>4, <2>5, <2>6, <2>7, <2>8, <2>9 DEF Run, Transaction
<1>2. me'.job = me.job /\ me'.before = me.before
  BY <1>0, Transition
<1>3. CASE me.pc \in Trying \ {"inspect"}
  BY <1>1, <1>2, <1>3, StillFound
<1>4. CASE me.pc \notin Trying \ {"inspect"}
  <2>1. me'.pc \notin Trying
    BY <1>0, <1>4
       DEF Run, Transaction, Rollback, Cleanup, Plan, MakeDir, Stage, ReplaceExecutable,
           MoveExecutable, MoveState, SetUserPath, WriteState, UpdateProcess, DropBackups,
           UndoState, UndoUserPath, UndoExecutable, CleanBackups, CleanStage, RemoveDir, Stop,
           Kill, End, Leave, Goto, At, RunType, Trying, Finally
  <2> QED
    BY <1>1, <1>2, <2>1, StillFound
<1> QED
  BY <1>1, <1>3, <1>4

LEMMA WriteStateMask == ASSUME ViewInv, WriteState PROVE MaskInv'
<1>0. /\ me \in RunType /\ me.pc = "state" /\ exe' = exe /\ Undecided /\ MaskInv /\ TypeInv
      /\ me'.job = me.job /\ me'.before = me.before /\ me'.flow = me.flow
  <2>1. me \in RunType /\ TypeInv /\ MaskInv
    BY DEF ViewInv, PInv, TypeInv
  <2> QED
    BY <2>1, CatchGoes DEF WriteState, At, Undecided, Trying, RunType
<1>1. CASE state' = state /\ me'.done = me.done
  BY <1>0, <1>1 DEF MaskInv
<1>2. CASE state' = NewState /\ me.flow = "install"
  <2>1. CASE me'.pc = "drop"
    BY <2>1 DEF MaskInv, Undecided
  <2>2. CASE Catch /\ state' = state
    BY <1>0, <2>2, CatchGoes DEF MaskInv
  <2> QED
    BY <1>0, <1>2, <2>1, <2>2 DEF WriteState, RunType
<1>3. CASE state' = NewState /\ me.flow = "removePath"
  <2>1. /\ state' = [state EXCEPT !.path = FALSE] /\ state = me.before.state
        /\ me.before.state # NoState /\ state \in StateFiles
    BY <1>0, <1>3
       DEF NewState, ViewInv, PInv, TypeInv, ForwardInv, DoneInv, PlanInv, Forward
  <2>2. state' \in States /\ state'.version = state.version
    BY <2>1 DEF StateFiles, SoundState, States
  <2>3. RecordOf(state)' = RecordOf(me.before.state)
    BY <2>1, <2>2, VersionsAssumption DEF RecordOf
  <2> QED
    BY <1>0, <1>3, <2>3 DEF MaskInv, RecordOf
<1>4. me.flow \in {"install", "removePath"}
  BY <1>0 DEF ViewInv, PInv, ForwardInv, RunType, Flows
<1>5. Catch => me'.done = me.done
  BY <1>0, CatchGoes
<1> QED
  BY <1>1, <1>2, <1>3, <1>4, <1>5 DEF WriteState

LEMMA StepMasked ==
  ASSUME ViewInv, Run, ~Start, ~Inspect
  PROVE  MaskInv'
<1>0. /\ me \in RunType /\ TypeInv /\ me'.job = me.job /\ me'.before = me.before
      /\ me'.flow = me.flow /\ temps \in Temps /\ MaskInv
      /\ ~Undecided => ~Undecided'
  BY Transition, StepFound DEF ViewInv, PInv, TypeInv
<1>1. CASE ~Undecided \/ ~Undecided'
  BY <1>0, <1>1 DEF MaskInv
<1>2. ASSUME Undecided, UNCHANGED <<exe, state>>, me'.done = me.done PROVE MaskInv'
  BY <1>0, <1>2, StillMasked
<1>3. CASE Plan \/ MakeDir \/ Stage
  BY <1>0, <1>1, <1>2, <1>3, LeaveGoes
     DEF Plan, MakeDir, Stage, Goto, RunType, files, Undecided, Trying
<1>4. CASE ReplaceExecutable
  <2>1. Catch => me'.done = me.done
    BY <1>0, CatchGoes
  <2>2. /\ me.pc = "replace" /\ me.flow = "install" /\ temps.stage = me.job.version
        /\ state' = state
    BY <1>4 DEF ReplaceExecutable, At, ViewInv, PInv, EarlyInv
  <2>3. CASE exe' = temps.stage /\ me' = [me EXCEPT !.done = @ \cup {"exe"}, !.pc = "path"]
    BY <1>0, <1>1, <2>2, <2>3 DEF MaskInv, RunType
  <2> QED
    BY <1>1, <1>2, <1>4, <2>1, <2>2, <2>3 DEF ReplaceExecutable
<1>5. CASE MoveExecutable \/ MoveState
  <2>1. Catch => me'.done = me.done
    BY <1>0, CatchGoes
  <2>2. me.flow = "uninstall"
    BY <1>5 DEF MoveExecutable, MoveState, At, ViewInv, PInv, ForwardInv
  <2>3. CASE Catch /\ UNCHANGED <<exe, state>>
    BY <1>1, <1>2, <2>1, <2>3
  <2>4. CASE exe' \in {exe, NoFile} /\ state' \in {state, NoState}
    BY <1>0, <1>1, <2>2, <2>4 DEF MaskInv
  <2> QED
    BY <1>5, <2>3, <2>4 DEF MoveExecutable, MoveState
<1>6. CASE SetUserPath
  <2>1. UNCHANGED <<exe, state>> /\ (Catch => me'.done = me.done)
    BY <1>0, <1>6, CatchGoes DEF SetUserPath, files
  <2>2. me'.done \in {me.done, me.done \cup {"path"}}
    BY <1>0, <1>6, PathDone
  <2> QED
    BY <1>0, <1>1, <2>1, <2>2 DEF MaskInv
<1>7. CASE WriteState
  BY <1>7, WriteStateMask
<1>8. CASE UpdateProcess
  <2>1. UNCHANGED <<exe, state>> /\ me'.done = me.done
    BY <1>0, <1>8, CatchGoes DEF UpdateProcess, files, Goto, RunType
  <2> QED
    BY <1>1, <1>2, <2>1
<1>9. CASE UndoState
  <2>1. /\ me.pc = "undoState" /\ exe' = exe /\ me'.done = me.done
        /\ state' = state \/ ("state" \in me.done /\ state' = temps.state)
    BY <1>0, <1>9 DEF UndoState, At, Undone, NotUndone, RunType
  <2>2. "state" \in me.done => temps.state = me.before.state
    BY <2>1 DEF ViewInv, PInv, DoneInv
  <2>3. CASE state' = state
    BY <1>1, <1>2, <2>1, <2>3
  <2>4. CASE "state" \in me.done /\ state' = me.before.state
    BY <1>0, <1>1, <2>1, <2>4 DEF MaskInv, RecordOf
  <2> QED
    BY <2>1, <2>2, <2>3, <2>4
<1>10. CASE UndoUserPath
  <2>1. UNCHANGED <<exe, state>> /\ me'.done = me.done
    BY <1>0, <1>10 DEF UndoUserPath, Undone, NotUndone, files, RunType
  <2> QED
    BY <1>1, <1>2, <2>1
<1>11. CASE UndoExecutable \/ DropBackups \/ Cleanup \/ Stop \/ Kill
  BY <1>0, <1>1, <1>11, Unmasked
<1> QED
  BY <1>3, <1>4, <1>5, <1>6, <1>7, <1>8, <1>9, <1>10, <1>11 DEF Run, Transaction, Rollback

LEMMA NextViewInv == ViewInv /\ [Next]_vars => ViewInv'
<1> SUFFICES ASSUME ViewInv, [Next]_vars PROVE FoundInv' /\ MaskInv'
  BY NextPInv DEF ViewInv
<1>1. CASE UNCHANGED <<me, exe, state>>
  BY <1>1 DEF ViewInv, FoundInv, MaskInv, Undecided
<1>2. CASE Start
  <2>1. PICK j \in Jobs : me' = Fresh("inspect", j)
    BY <1>2 DEF Start
  <2> QED
    BY <1>2, <2>1
       DEF Start, Fresh, Now, FoundInv, MaskInv, Trying
<1>3. CASE Inspect
  BY <1>3, InspectFound
<1>4. CASE Run /\ ~Start /\ ~Inspect
  BY <1>4, StepFound, StepMasked
<1> QED
  BY <1>1, <1>2, <1>3, <1>4 DEF Next, vars, files, OtherProgram

LEMMA AlwaysViewInv == Spec => []ViewInv
  BY InitViewInv, NextViewInv, PTL DEF Spec

-----------------------------------------------------------------------------
(* The steps of Installation. *)

LEMMA Wishes ==
  ASSUME NEW j \in Jobs
  PROVE  /\ Wish(j) \in Promise!Wish
         /\ Wish(j).version = j.version /\ Wish(j).what = j.what /\ Wish(j).force = j.force
         /\ Wish(j).allowDowngrade = j.allowDowngrade
  BY JobsAssumption DEF Wish, Promise!Wish, Job

LEMMA RecordFacts ==
  /\ RecordOf(NoState) = NoFile
  /\ \A s \in StateFiles : s # NoState => /\ RecordOf(s) = s.version /\ RecordOf(s) # NoFile
                                          /\ RecordOf(s) \in Versions
  BY FileTypes, VersionsAssumption DEF RecordOf, StateFiles, SoundState

\* Past the checks, the run may do what it was asked to do.
LEMMA MayChange ==
  ASSUME ViewInv, Undecided, me.pc \notin {"inspect", "plan"}
  PROVE  /\ me.flow = "install" => Promise!MayInstall(Wish(me.job))
         /\ me.flow = "uninstall" => Promise!MayRemove(Wish(me.job))
<1> DEFINE before == me.before
<1>1. /\ me.job \in Jobs /\ before.state \in StateFiles /\ me.flow \in Flows
      /\ me.pc \in Forward \cup Undoing /\ me.pc \in Trying \ {"inspect"}
  BY DEF ViewInv, PInv, TypeInv, RunType, Found, Undecided, Trying, Forward, Undoing
<1>2. Shown = before.exe /\ Record = RecordOf(before.state)
  BY DEF Shown, Record
<1>3. CASE before.state = NoState
  <2>1. before.exe = NoFile /\ me.flow = "install" /\ me.job.what # "uninstall"
    BY <1>1, <1>3 DEF ViewInv, FoundInv
  <2>2. Shown = NoFile /\ Record = NoFile
    BY <1>2, <1>3, <2>1, RecordFacts
  <2> QED
    BY <1>1, <2>1, <2>2, Wishes DEF Promise!MayInstall, Shown, Record, RecordOf
<1>4. CASE before.state # NoState
  <2>1. /\ before.exe # NoFile /\ me.flow = me.job.what
        /\ me.flow = "install" => before.exe = before.state.version \/ me.job.force
    BY <1>1, <1>4 DEF ViewInv, FoundInv
  <2>2. me.flow = "install" =>
          me.job.version >= before.state.version \/ me.job.allowDowngrade
    BY <1>1, <1>4 DEF ViewInv, PInv, PlanInv
  <2>3. Shown # NoFile /\ Record # NoFile /\ Record = before.state.version
    BY <1>1, <1>2, <1>4, <2>1, RecordFacts
  <2>4. me.flow = "install" => Promise!MayInstall(Wish(me.job))
    BY <1>1, <1>2, <2>1, <2>2, <2>3, Wishes DEF Promise!MayInstall, Shown, Record, RecordOf
  <2>5. me.flow = "uninstall" => Promise!MayRemove(Wish(me.job))
    BY <1>1, <2>1, <2>3, Wishes DEF Promise!MayRemove, Shown, Record, RecordOf
  <2> QED
    BY <2>4, <2>5
<1> QED
  BY <1>3, <1>4

\* Nothing that the user sees has changed: the step is none, or the end of the run.
LEMMA UnseenStep ==
  ASSUME me.pc # "idle", me'.job = me.job, Shown' = Shown, Record' = Record
  PROVE  [Promise!Next]_<<Shown, Record, Asked>>
<1>1. CASE me'.pc = "idle"
  <2>1. Asked # {} /\ Asked' = {}
    BY <1>1 DEF Asked, At
  <2> QED
    BY <2>1 DEF Promise!Next, Promise!End, Shown, Record, RecordOf, Asked
<1>2. CASE me'.pc # "idle"
  <2>1. Asked' = Asked
    BY <1>2 DEF Asked, At
  <2> QED
    BY <2>1
<1> QED
  BY <1>1, <1>2

\* The run is cut short, or has undone what it could.
LEMMA CutSeen ==
  ASSUME ViewInv, Undecided, ~Undecided', me'.job = me.job, me'.before = me.before,
         state' = state, exe' \in {exe, me.before.exe}
  PROVE  [Promise!Next]_<<Shown, Record, Asked>>
<1> DEFINE before == me.before
           v == me.job.version
<1>1. /\ me.pc # "idle" /\ me.job \in Jobs /\ me.flow \in {"install", "uninstall", "removePath"}
      /\ state \in StateFiles /\ before.state \in StateFiles
  BY DEF ViewInv, PInv, TypeInv, RunType, Found, Flows, Undecided, Trying
<1>2. Shown = before.exe /\ Record = RecordOf(before.state)
  BY DEF Shown, Record
<1>3. Shown' = exe' /\ Record' = RecordOf(state)
  BY DEF Shown, Record, RecordOf
<1>4. Wish(me.job) \in Asked /\ Asked' \in {Asked, {}}
  BY <1>1 DEF Asked, At
<1>5. CASE Shown' = Shown /\ Record' = Record
  BY <1>1, <1>5, UnseenStep
<1>6. CASE ~(Shown' = Shown /\ Record' = Record)
  <2>1. me.pc \notin {"inspect", "plan"}
    <3>1. me.pc \in {"inspect", "plan"} => exe = before.exe /\ state = before.state
      BY DEF ViewInv, PInv, EarlyInv, SameFiles
    <3> QED
      BY <1>2, <1>3, <1>6, <3>1
  <2>2. CASE me.flow = "install"
    <3>1. Record' = Record /\ Shown' = v
      BY <1>2, <1>3, <1>6, <2>2 DEF ViewInv, MaskInv
    <3>2. Promise!MayInstall(Wish(me.job)) /\ Wish(me.job).version = v
      BY <1>1, <2>1, <2>2, MayChange, Wishes
    <3> QED
      BY <1>4, <3>1, <3>2
         DEF Promise!Next, Promise!CutInstall, Shown, Record, RecordOf, Asked
  <2>3. CASE me.flow = "removePath"
    BY <1>2, <1>3, <1>6, <2>3 DEF ViewInv, MaskInv
  <2>4. CASE me.flow = "uninstall"
    <3>1. Shown' \in {Shown, NoFile}
      BY <1>2, <1>3, <2>4 DEF ViewInv, MaskInv
    <3>2. Record' \in {Record, NoFile}
      BY <1>2, <1>3, <2>4, RecordFacts DEF ViewInv, MaskInv
    <3>3. Promise!MayRemove(Wish(me.job))
      BY <2>1, <2>4, MayChange
    <3> QED
      BY <1>4, <3>1, <3>2, <3>3
         DEF Promise!Next, Promise!CutRemove, Shown, Record, RecordOf, Asked
  <2> QED
    BY <1>1, <2>2, <2>3, <2>4
<1> QED
  BY <1>5, <1>6

\* The installation is complete once its state file is written.
LEMMA WriteSeen ==
  ASSUME ViewInv, WriteState, ~Undecided', Undecided,
         me'.job = me.job, me'.before = me.before
  PROVE  [Promise!Next]_<<Shown, Record, Asked>>
<1>1. me \in RunType /\ TypeInv /\ me.pc = "state" /\ me.job \in Jobs /\ exe' = exe
  BY DEF ViewInv, PInv, TypeInv, RunType, WriteState, At
<1>2. me.flow = "install" /\ me'.pc = "drop" /\ state' = NewState
  <2>1. ~Catch
    BY <1>1, CatchGoes DEF Undecided, Trying
  <2>2. state' = NewState
        /\ me' = [me EXCEPT !.done = @ \cup {"state"},
                            !.pc = IF me.flow = "install" THEN "drop" ELSE "process"]
    BY <2>1 DEF WriteState
  <2> QED
    BY <1>1, <2>2 DEF RunType, Undecided, Trying
<1>3. exe = me.job.version
  BY <1>1, <1>2 DEF ViewInv, PInv, ForwardInv
<1>4. /\ state'.version = me.job.version /\ state' # NoState
  <2>1. NewState \in States /\ NewState.version = me.job.version
    BY <1>1, <1>2, JobTyped DEF NewState, States, Contents, RunType, PlanType
  <2> QED
    BY <1>2, <2>1, VersionsAssumption
<1>5. Shown' = me.job.version /\ Record' = me.job.version
  BY <1>1, <1>3, <1>4 DEF Shown, Record, RecordOf
<1>6. Asked' = Asked /\ Wish(me.job) \in Asked
  BY <1>1, <1>2 DEF Asked, At
<1>7. Promise!MayInstall(Wish(me.job)) /\ Wish(me.job).version = me.job.version
  BY <1>1, <1>2, MayChange, Wishes
<1> QED
  BY <1>5, <1>6, <1>7 DEF Promise!Next, Promise!Install, Shown, Record, RecordOf, Asked

\* The uninstall is complete once its entry is out of PATH.
LEMMA PathSeen ==
  ASSUME ViewInv, SetUserPath, ~Undecided', Undecided,
         me'.job = me.job, me'.before = me.before
  PROVE  [Promise!Next]_<<Shown, Record, Asked>>
<1>1. me \in RunType /\ TypeInv /\ me.pc = "path" /\ UNCHANGED <<exe, state>>
  BY DEF ViewInv, PInv, TypeInv, SetUserPath, At, files
<1>2. me.flow = "uninstall" /\ me'.pc = "drop"
  BY <1>1, CatchGoes DEF SetUserPath, Goto, RunType, Undecided, Trying
<1>3. exe = NoFile /\ state = NoState
  BY <1>1, <1>2 DEF ViewInv, PInv, ForwardInv
<1>4. Shown' = NoFile /\ Record' = NoFile
  BY <1>1, <1>3 DEF Shown, Record, RecordOf
<1>5. Asked' = Asked /\ Wish(me.job) \in Asked
  BY <1>1, <1>2 DEF Asked, At
<1>6. Promise!MayRemove(Wish(me.job))
  BY <1>1, <1>2, MayChange
<1> QED
  BY <1>4, <1>5, <1>6 DEF Promise!Next, Promise!Remove, Shown, Record, RecordOf, Asked

LEMMA RunSeen ==
  ASSUME ViewInv, Run, ~Start
  PROVE  [Promise!Next]_<<Shown, Record, Asked>>
<1>1. /\ me.pc # "idle" /\ me'.job = me.job /\ me'.before = me.before
      /\ ~Undecided => ~Undecided' /\ exe' = exe /\ state' = state
      /\ Undecided /\ ~Undecided' =>
              \/ WriteState \/ SetUserPath
              \/ /\ state' = state
                 /\ \/ exe' = exe
                    \/ me.pc = "undoExe" /\ "exe" \in me.done /\ exe' = temps.exe
  BY Transition DEF ViewInv, PInv
<1>2. CASE Undecided /\ Undecided'
  <2>1. Shown' = Shown /\ Record' = Record
    BY <1>1, <1>2 DEF Shown, Record, RecordOf
  <2> QED
    BY <1>1, <2>1, UnseenStep
<1>3. CASE ~Undecided
  <2>1. Shown' = Shown /\ Record' = Record
    BY <1>1, <1>3 DEF Shown, Record, RecordOf
  <2> QED
    BY <1>1, <2>1, UnseenStep
<1>4. CASE Undecided /\ ~Undecided'
  <2>1. CASE WriteState \/ SetUserPath
    BY <1>1, <1>4, <2>1, WriteSeen, PathSeen
  <2>2. CASE ~WriteState /\ ~SetUserPath
    <3>1. me.pc = "undoExe" /\ "exe" \in me.done => temps.exe = me.before.exe
      BY DEF ViewInv, PInv, DoneInv, Undoing
    <3> QED
      BY <1>1, <1>4, <2>2, <3>1, CutSeen
  <2> QED
    BY <2>1, <2>2
<1> QED
  BY <1>2, <1>3, <1>4

LEMMA StartSeen ==
  ASSUME ViewInv, Start
  PROVE  Promise!Begin
<1>1. PICK j \in Jobs : me' = Fresh("inspect", j)
  BY DEF Start
<1>2. /\ me.pc = "idle" /\ me'.pc = "inspect" /\ me'.job = j /\ UNCHANGED <<exe, state>>
      /\ me'.before.exe = exe /\ me'.before.state = state
  BY <1>1 DEF Start, At, Fresh, Now
<1>3. Shown = exe /\ Shown' = exe /\ Record' = Record
  BY <1>2 DEF Shown, Record, RecordOf, Undecided, Trying
<1>4. Asked = {} /\ Asked' = {Wish(j)}
  BY <1>2 DEF Asked, At
<1> QED
  BY <1>3, <1>4, Wishes DEF Promise!Begin, Shown, Record, RecordOf, Asked

LEMMA InitSeen == Init => Promise!Init
<1> SUFFICES ASSUME Init PROVE Promise!Init
  OBVIOUS
<1>1. me.pc = "idle"
  BY JobsAssumption DEF Init, Fresh
<1>2. Asked = {} /\ Shown = exe /\ Record = RecordOf(state)
  BY <1>1 DEF Asked, Shown, Record, RecordOf, Undecided, Trying, At
<1>3. \/ Record = NoFile /\ exe \in {NoFile, Edited}
      \/ Record \in Versions /\ exe \in {Record, Edited}
  <2>1. CASE state = NoState
    BY <1>2, <2>1, RecordFacts, FileTypes DEF Init, SoundState
  <2>2. CASE state # NoState
    <3>1. state \in SoundState /\ exe \in {state.hash, Edited}
      BY <2>2 DEF Init, SoundState
    <3>2. Record = state.version /\ state.version \in Versions /\ state.hash = state.version
      BY <1>2, <2>2, <3>1, FileTypes, RecordFacts
    <3> QED
      BY <3>1, <3>2
  <2> QED
    BY <2>1, <2>2
<1> QED
  BY <1>2, <1>3 DEF Promise!Init, Asked, Shown, Record, RecordOf

\* A run changes the executable and its record at one moment, when its transaction is
\* complete, and only as its options allow, whatever calls throw; stopped, killed, or
\* unable to undo, an install leaves the new executable under the old record at worst
\* (install.ps1:1841-1943, 1388-1480).
THEOREM InstallationKeptPs1 == Spec => KeepsInstallation
<1>1. ViewInv /\ [Next]_vars => [Promise!Next]_<<Shown, Record, Asked>>
  <2>1. CASE UNCHANGED <<me, exe, state>>
    BY <2>1 DEF Shown, Record, RecordOf, Asked, Undecided, At
  <2>2. ASSUME ViewInv, Run PROVE [Promise!Next]_<<Shown, Record, Asked>>
    BY <2>2, RunSeen, StartSeen DEF Promise!Next
  <2> QED
    BY <2>1, <2>2 DEF Next, OtherProgram, vars, files
<1> QED
  BY <1>1, InitSeen, AlwaysViewInv, PTL
     DEF Spec, KeepsInstallation, Promise!Spec, Shown, Record, RecordOf, Asked
=============================================================================
