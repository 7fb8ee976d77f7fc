------------------------ MODULE InstallShSequential ------------------------
(***************************************************************************)
(* Proofs about the runs of InstallSh that do not overlap and get no       *)
(* signal, for any number of runs, releases, jobs and kills.               *)
(*                                                                         *)
(* The install directory then only changes under one run, so at each       *)
(* position of that run the files are related to what it found when it     *)
(* started (before): nothing has changed up to the swap, the executable is *)
(* the new one from the swap on, and the state file follows at the commit. *)
(* Settled is what has to hold where the run enters its exit trap.         *)
(***************************************************************************)
EXTENDS InstallShProofs

Quiet == Sequential /\ "signal" \notin Faults

Alone == \A r, q \in Runs : Running(r) /\ Running(q) => r = q
DirInv == ~dir => binary = NoFile /\ state = NoState
Owned(s) == s # NoState /\ s.path
Uninstalled == \E r \in Runs : me[r].job.what = "uninstall" /\ ~At(r, "idle")
Kept == Uninstalled \/ state = NoState \/ binary # NoFile

Unchanged(r) ==
  binary = me[r].before.binary /\ state = me[r].before.state /\ profile = me[r].before.profile

\* What the run has read is what it found, and it found an installation it may touch.
SeenInv(r) ==
  LET b == me[r].before
      seen == me[r].seen
  IN  IF b.dir
        THEN /\ b.state # NoState /\ b.binary # NoFile
             /\ b.binary = b.state.hash \/ me[r].job.force
             /\ seen = [managed |-> TRUE, version |-> b.state.version,
                        hash |-> b.state.hash, path |-> b.state.path]
        ELSE b.binary = NoFile /\ b.state = NoState /\ seen = Unseen

\* The version may be written.
Allowed(r) ==
  me[r].seen.managed =>
    \/ me[r].job.version >= me[r].seen.version
    \/ me[r].job.allowDowngrade

Whole(r) ==
  LET v == me[r].job.version
  IN  <<binary, Recorded(state)>> \in
        {<<me[r].before.binary, Recorded(me[r].before.state)>>, <<v, <<v, v>>>>}

ProfileFollows(r) ==
  profile # me[r].before.profile <=> Owned(state) # Owned(me[r].before.state)

Foreign(r) == me[r].before.dir /\ me[r].before.state = NoState

\* What the decision to replace the executable rests on.
Chosen(r) ==
  /\ me[r].job.what = "install" /\ SeenInv(r) /\ Allowed(r)
  /\ profile = me[r].before.profile

\* An install that two failures left with its first executable swapped in: the trap
\* tries once more to remove it.
TornInv(r) ==
  /\ failures >= 2 /\ ~me[r].hadOld /\ Chosen(r)
  /\ me[r].before.binary = NoFile /\ state = me[r].before.state
  /\ binary \in {me[r].job.version, NoFile}

\* A second failure may leave an install torn; a run whose profile is still to be
\* restored keeps what to restore it from.
Settled(r) ==
  LET b == me[r].before
      m == me[r]
  IN  /\ Torn(r) => TornInv(r)
      /\ Foreign(r) => dir /\ binary = b.binary /\ state = NoState
      /\ failures <= 1 /\ m.job.what = "install" => Whole(r)
      /\ m.job.what # "uninstall" /\ ~m.ready => ProfileFollows(r)
      /\ m.job.what # "uninstall" /\ m.ready =>
           m.snapshot = b.profile /\ Owned(state) = Owned(b.state)

EarlyInv(r) ==
  /\ me[r].pc \in {"inspect", "fetch", "decide"} => Unchanged(r) /\ dir = me[r].before.dir
  /\ me[r].pc \in {"fetch", "decide"} => SeenInv(r) /\ me[r].job.what = "install"

\* The files at each position of the replacement.
Placed(r) ==
  LET b == me[r].before
      pc == me[r].pc
  IN  /\ pc \in {"mkdir", "stage", "backup", "prepare", "swap", "undoSwap"} => Unchanged(r)
      /\ pc \in {"flagSwap", "commit", "undoCommit"} =>
           binary = me[r].job.version /\ state = b.state
      /\ pc \in {"flagCommit", "dropRollback"} =>
           binary = me[r].job.version /\ state = NewState(r)
      /\ pc \in {"prepare", "swap", "undoSwap", "flagSwap", "commit", "undoCommit"} =>
           /\ me[r].hadOld <=> b.binary # NoFile
           /\ me[r].hadOld => temps[r].rollback = b.binary

ReplaceInv(r) ==
  me[r].pc \in Replacing => Chosen(r) /\ Placed(r) /\ (me[r].pc # "mkdir" => dir)

ManageInv(r) ==
  LET b == me[r].before
      seen == me[r].seen
      pc == me[r].pc
      uninstalls == me[r].job.what = "uninstall"
  IN  pc \in Managing \cup {"rmBinary"} =>
        /\ dir /\ binary # NoFile /\ state # NoState
        /\ ~Foreign(r)
        /\ binary = state.hash \/ me[r].job.force
        /\ seen.version = state.version /\ seen.hash = state.hash
        /\ pc = "rmBinary" => uninstalls
        /\ me[r].job.what = "install" => Whole(r)
        /\ pc # "forget" => Owned(state) = Owned(b.state)
        /\ pc \in {"snapshot", "block", "unblock"} =>
             profile = b.profile /\ seen.path = state.path
        /\ pc \in {"snapshot", "block"} /\ me[r].job.what = "install" => ~seen.path
        /\ pc = "writeState" => (profile # b.profile <=> seen.path # Owned(b.state))
        /\ pc = "forget" => ProfileFollows(r)
        /\ pc = "block" => me[r].job.what = "install"
        /\ pc \in {"snapshot", "block", "writeState", "undoProfile", "forget"} => ~uninstalls
        /\ pc \in {"block", "unblock", "writeState", "undoProfile"} /\ ~uninstalls =>
             me[r].ready /\ me[r].snapshot = b.profile

FlagsInv(r) ==
  /\ me[r].pc = "undoCommit" => failures >= 1
  /\ Torn(r) => me[r].pc \in {"commit", "undoCommit", "flagCommit"} \cup Over
  /\ me[r].ready =>
       me[r].pc \in (Managing \ {"snapshot"}) \cup Over /\ me[r].job.what # "uninstall"
  /\ me[r].pc \in {"rmState", "rmDir"} => me[r].job.what = "uninstall" /\ ~Foreign(r)

OrderInv(r) ==
  /\ EarlyInv(r) /\ ReplaceInv(r) /\ ManageInv(r) /\ FlagsInv(r)
  /\ me[r].pc \in Cleaning => Settled(r)

SeqInv == Alone /\ DirInv /\ Kept /\ \A r \in Runs : OrderInv(r)

-----------------------------------------------------------------------------
LEMMA InitSeqInv == Init => SeqInv
<1> SUFFICES ASSUME Init PROVE SeqInv
  OBVIOUS
<1>1. \A r \in Runs : /\ me[r].pc = "idle" /\ ~me[r].swapped /\ ~me[r].ready
                      /\ ~Running(r)
  BY DEF Init, Fresh, Running, Working, Cleaning
<1>2. Alone
  BY <1>1 DEF Alone
<1>3. DirInv /\ Kept
  BY VersionsAssumption DEF Init, DirInv, Kept, Contents
<1>4. \A r \in Runs : OrderInv(r)
  BY <1>1
     DEF OrderInv, EarlyInv, ReplaceInv, ManageInv, FlagsInv, Replacing, Managing, Cleaning,
         Torn
<1> QED
  BY <1>2, <1>3, <1>4 DEF SeqInv

\* A run that is not under way asks for little.
LEMMA Resting ==
  ASSUME NEW q \in Runs, ~Running(q), me'[q] = me[q], FlagsInv(q),
         failures \in Nat, failures' \in Nat, failures' >= failures
  PROVE  OrderInv(q)'
<1>1. me'[q].pc \notin Working \cup Cleaning
  BY DEF Running
<1>2. EarlyInv(q)' /\ ReplaceInv(q)' /\ ManageInv(q)'
  BY <1>1 DEF EarlyInv, ReplaceInv, ManageInv, Working, Replacing, Managing
<1>3. FlagsInv(q)'
  BY DEF FlagsInv, Foreign, Torn
<1> QED
  BY <1>1, <1>2, <1>3 DEF OrderInv

LEMMA SeqStep ==
  ASSUME SeqInv, NEW r \in Runs,
         \A q \in Runs \ {r} : ~Running(q) /\ me'[q] = me[q],
         failures \in Nat, failures' \in Nat, failures' >= failures,
         DirInv', Kept', OrderInv(r)'
  PROVE  SeqInv'
<1>1. Alone'
  BY DEF Alone, Running
<1>2. ASSUME NEW q \in Runs, q # r PROVE OrderInv(q)'
  BY <1>2, Resting DEF SeqInv, OrderInv
<1> QED
  BY <1>1, <1>2 DEF SeqInv

LEMMA Single ==
  ASSUME SeqInv, NEW r \in Runs, Running(r)
  PROVE  \A q \in Runs \ {r} : ~Running(q)
  BY DEF SeqInv, Alone

\* Uninstalled once, it stays so.
LEMMA StillUninstalled ==
  ASSUME NEW r \in Runs, Uninstalled, me'[r].job = me[r].job, me'[r].pc # "idle",
         \A q \in Runs \ {r} : me'[q] = me[q]
  PROVE  Uninstalled'
  BY DEF Uninstalled, At

LEMMA VersionNumbers == \A v \in Versions : v \in Int
  BY VersionsAssumption

LEMMA NewStateTyped ==
  ASSUME VInv, NEW r \in Runs, me[r].pc \in Replacing
  PROVE  NewState(r) \in Verified /\ NewState(r) # NoState
<1>1. /\ me[r].job.version \in Versions /\ me[r].payload = me[r].job.version
      /\ me[r].seen.path \in BOOLEAN
  BY JobVersion DEF VInv, FilesInv, RunInv, RunState, Seen
<1>2. NewState(r) \in Verified
  BY <1>1 DEF NewState, Verified
<1> QED
  BY <1>2, VersionsAssumption DEF Verified, States, Contents

\* The new executable with the new state file.
LEMMA Committed ==
  ASSUME VInv, NEW r \in Runs, me[r].pc \in Replacing, SeenInv(r), state = NewState(r),
         binary = me[r].job.version, profile = me[r].before.profile
  PROVE  /\ Whole(r) /\ Owned(state) = Owned(me[r].before.state) /\ ProfileFollows(r)
         /\ ~Foreign(r) /\ binary = state.hash
<1>1. me[r].payload = me[r].job.version /\ state # NoState
  BY NewStateTyped DEF VInv, RunInv
<1>2. /\ state.version = me[r].job.version /\ state.hash = me[r].job.version
      /\ state.path = me[r].seen.path
  BY <1>1 DEF NewState
<1>3. Owned(state) = Owned(me[r].before.state)
  <2>1. me[r].seen.path \in BOOLEAN
    BY DEF VInv, FilesInv, RunState, Seen
  <2> QED
    BY <1>1, <1>2, <2>1 DEF Owned, SeenInv, Unseen
<1>4. Whole(r)
  BY <1>1, <1>2 DEF Whole, Recorded
<1> QED
  BY <1>2, <1>3, <1>4 DEF ProfileFollows, Foreign, SeenInv

\* Where a command may fail, or the run may give up, it may go to its trap.
LEMMA MaySettle ==
  ASSUME VInv, SeqInv, NEW r \in Runs,
         me[r].pc \in Working \ {"flagSwap", "commit", "undoCommit", "flagCommit",
                                  "writeState", "forget"}
  PROVE  Settled(r)
<1>1. OrderInv(r) /\ RunInv(r) /\ me[r].ready \in BOOLEAN /\ failures \in Nat
  BY BoundsAssumption DEF VInv, FilesInv, RunState, SeqInv
<1>2. CASE me[r].pc \in {"inspect", "fetch", "decide"}
  BY <1>1, <1>2 DEF OrderInv, EarlyInv, FlagsInv, Managing, Over, Cleaning, Settled, Unchanged,
     Whole, ProfileFollows, Foreign, Torn
<1>3. CASE me[r].pc \in {"mkdir", "stage", "backup", "prepare", "swap", "undoSwap"}
  BY <1>1, <1>3
    DEF OrderInv, ReplaceInv, Chosen, Placed, Replacing, FlagsInv, Managing, Over, Cleaning,
        Settled,
     Unchanged, SeenInv, Whole, ProfileFollows, Foreign, Torn
<1>4. CASE me[r].pc = "dropRollback"
  <2>1. /\ me[r].job.what = "install" /\ SeenInv(r) /\ profile = me[r].before.profile
        /\ binary = me[r].job.version /\ state = NewState(r) /\ ~me[r].ready
        /\ me[r].payload = me[r].job.version /\ ~Torn(r)
    BY <1>1, <1>4
      DEF OrderInv, ReplaceInv, Chosen, Placed, Replacing, FlagsInv, Managing, Over,
          Cleaning, RunInv, Torn
  <2> QED
    BY <2>1, <1>4, Committed DEF Settled, Foreign, Replacing, Torn
<1>5. CASE me[r].pc \in {"snapshot", "block", "unblock", "undoProfile", "rmBinary"}
  BY <1>1, <1>5 DEF OrderInv, ManageInv, FlagsInv, Managing, Over, Cleaning, Settled,
     Whole, ProfileFollows, Foreign, Torn
<1>6. CASE me[r].pc \in {"rmState", "rmDir"}
  BY <1>1, <1>6 DEF OrderInv, FlagsInv, Managing, Over, Cleaning, Settled, Foreign, Torn
<1> QED
  BY <1>2, <1>3, <1>4, <1>5, <1>6 DEF Working

-----------------------------------------------------------------------------
(* One step of the run that is under way. *)

LEMMA SeqRun ==
  ASSUME VInv, VInv', SeqInv, NEW r \in Runs, Running(r), me'[r].pc # "idle",
         me'[r].job = me[r].job, \A q \in Runs \ {r} : me'[q] = me[q],
         failures' >= failures, DirInv', Kept', OrderInv(r)'
  PROVE  SeqInv'
<1>1. failures \in Nat /\ failures' \in Nat
  BY BoundsAssumption DEF VInv, FilesInv
<1> QED
  BY <1>1, Single, SeqStep

LEMMA Went ==
  ASSUME VInv, NEW r \in Runs, NEW pc, Goto(r, pc)
  PROVE  /\ me'[r].pc = pc /\ me'[r].job = me[r].job /\ me'[r].before = me[r].before
         /\ me'[r].seen = me[r].seen /\ me'[r].payload = me[r].payload
         /\ me'[r].hadOld = me[r].hadOld /\ me'[r].swapped = me[r].swapped
         /\ me'[r].committed = me[r].committed /\ me'[r].ready = me[r].ready
         /\ me'[r].snapshot = me[r].snapshot
         /\ \A q \in Runs \ {r} : me'[q] = me[q]
  BY DEF VInv, FilesInv, RunState, Goto

\* Into the trap, or a step of it.
LEMMA Trapped ==
  ASSUME NEW r \in Runs, me'[r].pc \in Cleaning, Settled(r)',
         me'[r].ready => me'[r].job.what # "uninstall"
  PROVE  OrderInv(r)'
  BY DEF OrderInv, EarlyInv, ReplaceInv, ManageInv, FlagsInv, Settled, Cleaning, Replacing,
     Managing, Over, Torn

LEMMA Trapping ==
  ASSUME VInv, VInv', SeqInv, NEW r \in Runs, Exit(r), UNCHANGED install,
         profile' = profile \/ me[r].ready,
         me[r].pc \in Working \ {"flagSwap", "commit", "undoCommit", "flagCommit",
                                  "writeState", "forget"},
         failures' >= failures
  PROVE  SeqInv'
<1>1. /\ me'[r].pc = "cleanFiles" /\ me'[r].job = me[r].job /\ me'[r].before = me[r].before
      /\ me'[r].swapped = me[r].swapped /\ me'[r].committed = me[r].committed
      /\ me'[r].ready = me[r].ready /\ me'[r].snapshot = me[r].snapshot
      /\ \A q \in Runs \ {r} : me'[q] = me[q]
  BY Went DEF Exit
<1>2. Settled(r)'
  <2>1. Settled(r) /\ failures \in Nat /\ failures' \in Nat
    BY MaySettle, BoundsAssumption DEF VInv, FilesInv
  <2>2. ~Torn(r)'
    BY <1>1 DEF SeqInv, OrderInv, FlagsInv, Torn, Over, Cleaning, Working
  <2> QED
    BY <1>1, <2>1, <2>2 DEF Settled, Foreign, Whole, ProfileFollows, install, Torn
<1>3. OrderInv(r)'
  BY <1>1, <1>2, Trapped DEF SeqInv, OrderInv, FlagsInv, Cleaning, Torn
<1>4. DirInv' /\ Kept'
  <2>1. Uninstalled => Uninstalled'
    BY <1>1, StillUninstalled
  <2> QED
    BY <2>1 DEF SeqInv, DirInv, Kept, install
<1> QED
  BY <1>1, <1>3, <1>4, SeqRun DEF Running

LEMMA StartS ==
  ASSUME VInv, VInv', SeqInv, Quiet, NEW r \in Runs, Start(r)
  PROVE  SeqInv'
<1>1. PICK j \in Jobs : me' = [me EXCEPT ![r] = Fresh("inspect", j)]
  BY DEF Start
<1>2. me'[r] = Fresh("inspect", j) /\ \A q \in Runs \ {r} : me'[q] = me[q] /\ ~Running(q)
  BY <1>1 DEF VInv, FilesInv, Start, Quiet
<1>3. OrderInv(r)'
  BY <1>2 DEF Fresh, Now, OrderInv, EarlyInv, Unchanged, ReplaceInv, ManageInv, FlagsInv,
     Cleaning, Replacing, Managing, Start, install, Torn
<1>4. DirInv' /\ Kept'
  <2>1. Uninstalled => Uninstalled'
    BY <1>2 DEF Uninstalled, At, Start
  <2> QED
    BY <2>1 DEF SeqInv, DirInv, Kept, install, Start
<1>5. failures \in Nat /\ failures' = failures
  BY BoundsAssumption DEF VInv, FilesInv, Start
<1> QED
  BY <1>2, <1>3, <1>4, <1>5, SeqStep

LEMMA InspectS ==
  ASSUME VInv, VInv', SeqInv, NEW r \in Runs, Inspect(r)
  PROVE  SeqInv'
<1>1. me[r].pc = "inspect" /\ UNCHANGED <<install, profile, temps, failures>> /\ Running(r)
  BY DEF Inspect, At, Running, Working
<1>2. failures \in Nat /\ me[r] \in RunState /\ OrderInv(r)
  BY BoundsAssumption DEF VInv, FilesInv, SeqInv
<1>3. CASE Exit(r)
  BY <1>1, <1>2, <1>3, Trapping DEF Working
<1>4. ASSUME ~Exit(r) PROVE SeqInv'
  <2> DEFINE found == IF dir THEN [managed |-> TRUE, version |-> state.version,
                            hash |-> state.hash, path |-> state.path]
                      ELSE Unseen
  <2> DEFINE seenAt(pc) == me' = [me EXCEPT ![r] = [@ EXCEPT !.seen = found, !.pc = pc]]
  <2>0. \/ me[r].job.what = "install" /\ seenAt("fetch")
        \/ me[r].job.what = "removePath" /\ dir /\ seenAt("snapshot")
        \/ me[r].job.what = "uninstall" /\ dir /\ (seenAt("unblock") \/ seenAt("rmBinary"))
    BY <1>4 DEF Inspect
  <2>1. PICK pc : /\ seenAt(pc)
                  /\ \/ me[r].job.what = "install" /\ pc = "fetch"
                     \/ me[r].job.what = "removePath" /\ dir /\ pc = "snapshot"
                     \/ me[r].job.what = "uninstall" /\ dir /\ pc \in {"unblock", "rmBinary"}
    <3> HIDE DEF seenAt
    <3> QED
      BY <2>0
  <2>2. dir => state # NoState /\ binary # NoFile /\ (binary = state.hash \/ me[r].job.force)
    BY <1>4 DEF Inspect
  <2>3. /\ me'[r].pc = pc /\ me'[r].seen = found /\ me'[r].job = me[r].job
        /\ me'[r].before = me[r].before /\ me'[r].ready = me[r].ready
        /\ me'[r].swapped = me[r].swapped /\ me'[r].committed = me[r].committed
        /\ \A q \in Runs \ {r} : me'[q] = me[q]
    BY <1>2, <2>1 DEF VInv, FilesInv, RunState
  <2>4. /\ Unchanged(r) /\ dir = me[r].before.dir /\ ~me[r].ready
        /\ ~Torn(r)
    BY <1>1, <1>2 DEF OrderInv, EarlyInv, FlagsInv, Managing, Over, Cleaning, Torn
  <2>5. DirInv' /\ Kept'
    <3>1. Uninstalled => Uninstalled'
      BY <2>1, <2>3, StillUninstalled
    <3> QED
      BY <1>1, <3>1 DEF SeqInv, DirInv, Kept, install
  <2>6. SeenInv(r)'
    BY <1>1, <2>2, <2>3, <2>4 DEF SeqInv, DirInv, SeenInv, Unchanged, install
  <2>7. OrderInv(r)'
    <3>1. CASE pc = "fetch"
      BY <1>1, <2>1, <2>3, <2>4, <2>6, <3>1
        DEF OrderInv, EarlyInv, Unchanged, ReplaceInv, ManageInv,
         FlagsInv, Cleaning, Replacing, Managing, install, Torn
    <3>2. CASE dir /\ pc \in {"snapshot", "unblock", "rmBinary"}
      <4>1. /\ found.version = state.version /\ found.hash = state.hash
            /\ found.path = state.path
            /\ me[r].before.state = state /\ me[r].before.profile = profile
            /\ state # NoState /\ binary # NoFile /\ (binary = state.hash \/ me[r].job.force)
        BY <2>2, <2>4, <3>2 DEF Unchanged
      <4>2. /\ pc = "rmBinary" => me[r].job.what = "uninstall"
            /\ pc = "snapshot" => me[r].job.what = "removePath"
            /\ pc = "unblock" => me[r].job.what = "uninstall"
            /\ me[r].job.what # "install"
        BY <2>1, <3>2
      <4> HIDE DEF found
      <4>3. ManageInv(r)'
        BY <1>1, <2>3, <3>2, <4>1, <4>2 DEF ManageInv, install, Foreign
      <4> QED
        BY <2>3, <2>4, <3>2, <4>3
          DEF OrderInv, EarlyInv, ReplaceInv, FlagsInv, Cleaning, Replacing, Torn
    <3> QED
      BY <2>1, <3>1, <3>2
  <2>8. pc # "idle"
    BY <2>1
  <2> HIDE DEF found
  <2> QED
    BY <1>1, <1>2, <2>3, <2>5, <2>7, <2>8, SeqRun
<1> QED
  BY <1>3, <1>4

LEMMA FetchS ==
  ASSUME VInv, VInv', SeqInv, NEW r \in Runs, Fetch(r)
  PROVE  SeqInv'
<1>1. me[r].pc = "fetch" /\ UNCHANGED <<install, profile, temps, failures>> /\ Running(r)
  BY DEF Fetch, At, Running, Working
<1>2. failures \in Nat /\ me[r] \in RunState /\ OrderInv(r)
  BY BoundsAssumption DEF VInv, FilesInv, SeqInv
<1>3. CASE Exit(r)
  BY <1>1, <1>2, <1>3, Trapping DEF Working
<1> DEFINE going(got) == me' = [me EXCEPT ![r] = [@ EXCEPT !.payload = got, !.pc = "decide"]]
<1>4. ASSUME NEW got, going(got) PROVE SeqInv'
  <2>1. /\ me'[r].pc = "decide" /\ me'[r].seen = me[r].seen /\ me'[r].job = me[r].job
        /\ me'[r].before = me[r].before /\ me'[r].ready = me[r].ready
        /\ me'[r].swapped = me[r].swapped /\ me'[r].committed = me[r].committed
        /\ \A q \in Runs \ {r} : me'[q] = me[q]
    BY <1>2, <1>4 DEF VInv, FilesInv, RunState
  <2>2. DirInv' /\ Kept'
    BY <1>1, <2>1, StillUninstalled DEF SeqInv, DirInv, Kept, install
  <2>3. OrderInv(r)'
    BY <1>1, <1>2, <2>1 DEF OrderInv, EarlyInv, SeenInv, Unchanged, ReplaceInv, ManageInv,
       FlagsInv, Cleaning, Replacing, Managing, Over, install, Torn
  <2> QED
    BY <1>1, <1>2, <2>1, <2>2, <2>3, SeqRun
<1>5. PICK got \in {me[r].job.version, Corrupt} :
        IF got = me[r].job.version THEN going(got) ELSE Exit(r)
  BY DEF Fetch
<1> HIDE DEF going
<1> QED
  BY <1>3, <1>4, <1>5

LEMMA DecideS ==
  ASSUME VInv, VInv', SeqInv, NEW r \in Runs, Decide(r)
  PROVE  SeqInv'
<1>1. me[r].pc = "decide" /\ UNCHANGED <<install, profile, temps, failures>> /\ Running(r)
  BY DEF Decide, At, Running, Working
<1>2. failures \in Nat /\ me[r] \in RunState /\ OrderInv(r)
  BY BoundsAssumption DEF VInv, FilesInv, SeqInv
<1>3. CASE Exit(r)
  BY <1>1, <1>2, <1>3, Trapping DEF Working
<1>4. ASSUME NEW pc \in {"mkdir", "snapshot"}, Goto(r, pc), OrderInv(r)' PROVE SeqInv'
  <2>1. me'[r].pc = pc /\ me'[r].job = me[r].job /\ \A q \in Runs \ {r} : me'[q] = me[q]
    BY <1>4, Went
  <2>2. DirInv' /\ Kept'
    BY <1>1, <2>1, StillUninstalled DEF SeqInv, DirInv, Kept, install
  <2> QED
    BY <1>1, <1>2, <1>4, <2>1, <2>2, SeqRun
<1>5. /\ Unchanged(r) /\ dir = me[r].before.dir /\ SeenInv(r) /\ me[r].job.what = "install"
      /\ ~me[r].ready /\ ~Torn(r)
  BY <1>1, <1>2 DEF OrderInv, EarlyInv, FlagsInv, Managing, Over, Cleaning, Torn
<1>6. CASE Goto(r, "mkdir") /\ Allowed(r)
  <2>1. ReplaceInv(r)'
    <3>1. /\ me'[r].pc = "mkdir" /\ me'[r].job = me[r].job /\ me'[r].seen = me[r].seen
          /\ me'[r].before = me[r].before
      BY <1>6, Went
    <3>2. Unchanged(r)' /\ SeenInv(r)' /\ Allowed(r)'
      BY <1>1, <1>5, <1>6, <3>1 DEF Unchanged, SeenInv, Allowed, install
    <3> QED
      BY <1>5, <3>1, <3>2 DEF ReplaceInv, Chosen, Placed, Unchanged
  <2>2. OrderInv(r)'
    BY <1>5, <1>6, <2>1, Went
       DEF OrderInv, EarlyInv, ManageInv, FlagsInv, Cleaning, Managing, Torn
  <2> QED
    BY <1>4, <1>6, <2>2
<1>7. CASE Goto(r, "snapshot") /\ WantsPath(r) /\ me[r].seen.managed
  <2>1. /\ dir /\ state # NoState /\ binary # NoFile /\ (binary = state.hash \/ me[r].job.force)
        /\ me[r].seen.version = state.version /\ me[r].seen.hash = state.hash
        /\ me[r].seen.path = state.path /\ ~me[r].seen.path
    BY <1>5, <1>7 DEF SeenInv, Unchanged, Unseen, WantsPath
  <2>2. ManageInv(r)'
    BY <1>1, <1>5, <1>7, <2>1, Went DEF ManageInv, Unchanged, Whole, Foreign, install
  <2>3. OrderInv(r)'
    BY <1>5, <1>7, <2>2, Went
       DEF OrderInv, EarlyInv, ReplaceInv, FlagsInv, Cleaning, Replacing, Torn
  <2> QED
    BY <1>4, <1>7, <2>3
<1> QED
  <2>1. me[r].job.version \in Int
    <3>1. me[r].job.version \in Versions
      BY <1>2, JobVersion DEF RunState
    <3> QED
      BY <3>1, VersionNumbers
  <2>2. me[r].seen.version \in Int
    <3>1. me[r].seen.version = 0 \/ me[r].seen.version \in Versions
      BY <1>2 DEF RunState, Seen
    <3> QED
      BY <3>1, VersionNumbers
  <2> QED
    BY <1>3, <1>6, <1>7, <2>1, <2>2 DEF Decide, Allowed

-----------------------------------------------------------------------------
(* The replacement of the executable. *)

LEMMA StillChosen ==
  ASSUME NEW r \in Runs, Chosen(r), profile' = profile, me'[r].job = me[r].job,
         me'[r].seen = me[r].seen, me'[r].before = me[r].before
  PROVE  Chosen(r)'
  BY DEF Chosen, SeenInv, Allowed

\* A step within the replacement.
LEMMA Replaced ==
  ASSUME VInv, VInv', SeqInv, NEW r \in Runs, me[r].pc \in Replacing,
         me'[r].pc \in Replacing, me'[r].job = me[r].job,
         me'[r].seen = me[r].seen, me'[r].before = me[r].before,
         \A q \in Runs \ {r} : me'[q] = me[q],
         dir', profile' = profile, failures' >= failures,
         Kept', Placed(r)', FlagsInv(r)'
  PROVE  SeqInv'
<1>1. ReplaceInv(r)'
  <2>1. Chosen(r)
    BY DEF SeqInv, OrderInv, ReplaceInv
  <2> QED
    BY <2>1, StillChosen DEF ReplaceInv
<1>2. OrderInv(r)'
  BY <1>1 DEF OrderInv, EarlyInv, ManageInv, Cleaning, Managing, Replacing
<1>3. me[r].pc \in Working /\ me'[r].pc # "idle" /\ DirInv'
  BY DEF Replacing, Working, DirInv
<1> QED
  BY <1>2, <1>3, SeqRun DEF Running

\* From the replacement into the trap.
LEMMA Abandoned ==
  ASSUME VInv, VInv', SeqInv, NEW r \in Runs, me[r].pc \in Replacing,
         me'[r].pc = "cleanFiles", me'[r].job = me[r].job, me'[r].before = me[r].before,
         ~me'[r].ready, ~Torn(r)', \A q \in Runs \ {r} : me'[q] = me[q],
         dir', profile' = profile, failures' >= failures, Kept',
         Foreign(r)' => binary' = me'[r].before.binary /\ state' = NoState,
         failures' <= 1 => Whole(r)', Owned(state') = Owned(me[r].before.state)
  PROVE  SeqInv'
<1>1. profile = me[r].before.profile
  BY DEF SeqInv, OrderInv, ReplaceInv, Chosen
<1>2. Settled(r)' /\ failures' \in Nat
  BY <1>1, BoundsAssumption DEF Settled, ProfileFollows, VInv, FilesInv, Torn
<1>3. OrderInv(r)'
  BY <1>2, Trapped DEF Cleaning
<1>4. me[r].pc \in Working /\ DirInv'
  BY DEF Replacing, Working, DirInv
<1> QED
  BY <1>3, <1>4, SeqRun DEF Running

\* The flags while the executable is replaced.
LEMMA ReplaceFlags ==
  ASSUME SeqInv, NEW r \in Runs, me[r].pc \in Replacing
  PROVE  /\ ~me[r].ready /\ me[r].job.what = "install"
         /\ me[r].pc \notin {"commit", "undoCommit", "flagCommit"} =>
              ~Torn(r)
  BY DEF SeqInv, OrderInv, ReplaceInv, Chosen, FlagsInv, Replacing, Managing, Over,
         Cleaning, Torn

LEMMA MakeDirS ==
  ASSUME VInv, VInv', SeqInv, NEW r \in Runs, MakeDir(r)
  PROVE  SeqInv'
<1>1. /\ me[r].pc = "mkdir" /\ UNCHANGED <<binary, state, profile, temps, failures>>
      /\ failures \in Nat /\ dir \in BOOLEAN /\ dir' = (dir \/ ~me[r].seen.managed)
  BY BoundsAssumption DEF VInv, FilesInv, MakeDir, At
<1>2. CASE dir' /\ Goto(r, "stage")
  <2>1. Placed(r)'
    BY <1>1, <1>2, Went DEF SeqInv, OrderInv, ReplaceInv, Replacing, Placed, Unchanged
  <2>2. FlagsInv(r)'
    BY <1>1, <1>2, Went, ReplaceFlags DEF FlagsInv, Replacing, Torn
  <2>3. Kept'
    BY <1>1, <1>2, Went, StillUninstalled DEF SeqInv, Kept
  <2> QED
    BY <1>1, <1>2, <2>1, <2>2, <2>3, Went, Replaced DEF Replacing
<1>3. CASE ~dir' /\ Exit(r)
  <2>1. ~dir /\ UNCHANGED install
    BY <1>1, <1>3 DEF install
  <2> QED
    BY <1>1, <1>3, <2>1, Trapping DEF Working
<1> QED
  BY <1>2, <1>3 DEF MakeDir

LEMMA StageS ==
  ASSUME VInv, VInv', SeqInv, NEW r \in Runs, Stage(r)
  PROVE  SeqInv'
<1>1. me[r].pc = "stage" /\ UNCHANGED <<install, profile>> /\ failures \in Nat
  BY BoundsAssumption DEF VInv, FilesInv, Stage, At
<1>2. CASE Exit(r) /\ failures' >= failures
  BY <1>1, <1>2, Trapping DEF Working
<1>3. CASE dir /\ Goto(r, "backup") /\ failures' = failures
  <2>1. Placed(r)'
    BY <1>1, <1>3, Went DEF SeqInv, OrderInv, ReplaceInv, Replacing, Placed, Unchanged, install
  <2>2. FlagsInv(r)'
    BY <1>1, <1>3, Went, ReplaceFlags DEF FlagsInv, Replacing, Torn
  <2>3. Kept'
    BY <1>1, <1>3, Went, StillUninstalled DEF SeqInv, Kept, install
  <2> QED
    BY <1>1, <1>3, <2>1, <2>2, <2>3, Went, Replaced DEF Replacing, install
<1> QED
  BY <1>1, <1>2, <1>3 DEF Stage, IOFailure

LEMMA BackupS ==
  ASSUME VInv, VInv', SeqInv, NEW r \in Runs, Backup(r)
  PROVE  SeqInv'
<1>1. me[r].pc = "backup" /\ UNCHANGED <<install, profile>> /\ failures \in Nat
  BY BoundsAssumption DEF VInv, FilesInv, Backup, At
<1>2. CASE Exit(r) /\ failures' >= failures
  BY <1>1, <1>2, Trapping DEF Working
<1>3. CASE /\ temps' = [temps EXCEPT ![r].rollback = binary] /\ failures' = failures
           /\ me' = [me EXCEPT ![r] = [@ EXCEPT !.hadOld = (binary # NoFile), !.pc = "prepare"]]
  <2>1. /\ me'[r].pc = "prepare" /\ me'[r].job = me[r].job /\ me'[r].before = me[r].before
        /\ me'[r].seen = me[r].seen /\ me'[r].swapped = me[r].swapped
        /\ me'[r].committed = me[r].committed /\ me'[r].ready = me[r].ready
        /\ \A q \in Runs \ {r} : me'[q] = me[q]
        /\ me'[r].hadOld = (binary # NoFile)
    BY <1>3 DEF VInv, FilesInv, RunState
  <2>2. Unchanged(r) /\ dir
    BY <1>1 DEF SeqInv, OrderInv, ReplaceInv, Replacing, Placed
  <2>3. Placed(r)'
    <3>1. temps'[r].rollback = binary
      BY <1>3 DEF VInv, FilesInv, Temps
    <3> QED
      BY <1>1, <2>1, <2>2, <3>1 DEF Placed, Unchanged, install
  <2>4. FlagsInv(r)'
    BY <1>1, <2>1, ReplaceFlags DEF FlagsInv, Replacing, Torn
  <2>5. Kept'
    BY <1>1, <2>1, StillUninstalled DEF SeqInv, Kept, install
  <2>6. failures' >= failures /\ dir' /\ profile' = profile
    BY <1>1, <1>3, <2>2 DEF install
  <2> QED
    BY <1>1, <2>1, <2>3, <2>4, <2>5, <2>6, Replaced DEF Replacing
<1> QED
  BY <1>1, <1>2, <1>3 DEF Backup, IOFailure

LEMMA PrepareStateS ==
  ASSUME VInv, VInv', SeqInv, NEW r \in Runs, PrepareState(r)
  PROVE  SeqInv'
<1>1. /\ me[r].pc = "prepare" /\ UNCHANGED <<install, profile, failures>> /\ Goto(r, "swap")
      /\ failures \in Nat /\ temps'[r].rollback = temps[r].rollback
  BY BoundsAssumption DEF VInv, FilesInv, Temps, PrepareState, At
<1>2. Placed(r) /\ dir
  BY <1>1 DEF SeqInv, OrderInv, ReplaceInv, Replacing
<1>3. Placed(r)'
  BY <1>1, <1>2, Went DEF Placed, Unchanged, install
<1>4. FlagsInv(r)'
  BY <1>1, Went, ReplaceFlags DEF FlagsInv, Replacing, Torn
<1>5. Kept'
  BY <1>1, Went, StillUninstalled DEF SeqInv, Kept, install
<1> QED
  BY <1>1, <1>2, <1>3, <1>4, <1>5, Went, Replaced DEF Replacing, install

LEMMA SwapS ==
  ASSUME VInv, VInv', SeqInv, NEW r \in Runs, Swap(r)
  PROVE  SeqInv'
<1>1. /\ me[r].pc = "swap" /\ UNCHANGED <<dir, state, profile>> /\ failures \in Nat
      /\ temps'[r].rollback = temps[r].rollback
  BY BoundsAssumption DEF VInv, FilesInv, Temps, Swap, At
<1>2. Placed(r) /\ dir /\ temps[r].stage = me[r].job.version
  BY <1>1 DEF VInv, RunInv, SeqInv, OrderInv, ReplaceInv, Replacing
<1>3. CASE binary' = temps[r].stage /\ Goto(r, "flagSwap") /\ failures' = failures
  <2>1. Placed(r)'
    BY <1>1, <1>2, <1>3, Went DEF Placed, Unchanged
  <2>2. FlagsInv(r)'
    BY <1>1, <1>3, Went, ReplaceFlags DEF FlagsInv, Replacing, Torn
  <2>3. Kept'
    <3>1. me[r].job.version \in Versions
      BY JobVersion DEF VInv, FilesInv, RunState
    <3> QED
      BY <1>2, <1>3, <3>1, VersionsAssumption DEF Kept, Contents
  <2> QED
    BY <1>1, <1>2, <1>3, <2>1, <2>2, <2>3, Went, Replaced DEF Replacing
<1>4. CASE Goto(r, "undoSwap") /\ binary' = binary /\ failures' = failures + 1
  <2>1. Placed(r)'
    BY <1>1, <1>2, <1>4, Went DEF Placed, Unchanged
  <2>2. FlagsInv(r)'
    BY <1>1, <1>4, Went, ReplaceFlags DEF FlagsInv, Replacing, Torn
  <2>3. Kept'
    BY <1>1, <1>4, Went, StillUninstalled DEF SeqInv, Kept
  <2> QED
    BY <1>1, <1>2, <1>4, <2>1, <2>2, <2>3, Went, Replaced DEF Replacing
<1> QED
  BY <1>3, <1>4 DEF Swap, IOFailure

LEMMA UndoSwapS ==
  ASSUME VInv, VInv', SeqInv, NEW r \in Runs, UndoSwap(r)
  PROVE  SeqInv'
<1>1. /\ me[r].pc = "undoSwap" /\ UNCHANGED <<dir, state, profile>> /\ failures \in Nat
      /\ failures' >= failures
  BY BoundsAssumption DEF VInv, FilesInv, UndoSwap, At, MoveBack, IOFailure
<1>2. /\ me'[r].pc = "cleanFiles" /\ me'[r].job = me[r].job /\ me'[r].before = me[r].before
      /\ me'[r].swapped = me[r].swapped /\ me'[r].committed = me[r].committed
      /\ me'[r].ready = me[r].ready /\ \A q \in Runs \ {r} : me'[q] = me[q]
  BY DEF VInv, FilesInv, RunState, UndoSwap
<1>3. Placed(r) /\ Unchanged(r) /\ dir
  BY <1>1 DEF SeqInv, OrderInv, ReplaceInv, Replacing, Placed
<1>4. binary' = binary
  BY <1>1, <1>3 DEF UndoSwap, MoveBack, Placed, Unchanged
<1>5. Kept'
  BY <1>1, <1>2, <1>4, StillUninstalled DEF SeqInv, Kept
<1>6. ~Torn(r)' /\ ~me'[r].ready
  BY <1>1, <1>2, ReplaceFlags DEF Torn, Replacing
<1> QED
  BY <1>1, <1>2, <1>3, <1>4, <1>5, <1>6, Abandoned
     DEF Replacing, Unchanged, Foreign, Whole

LEMMA FlagSwapS ==
  ASSUME VInv, VInv', SeqInv, NEW r \in Runs, FlagSwap(r)
  PROVE  SeqInv'
<1>1. /\ me[r].pc = "flagSwap" /\ UNCHANGED <<install, profile, temps, failures>>
      /\ failures \in Nat
  BY BoundsAssumption DEF VInv, FilesInv, FlagSwap, At
<1>2. /\ me'[r].pc = "commit" /\ me'[r].job = me[r].job /\ me'[r].before = me[r].before
      /\ me'[r].seen = me[r].seen /\ me'[r].ready = me[r].ready
      /\ me'[r].hadOld = me[r].hadOld /\ \A q \in Runs \ {r} : me'[q] = me[q]
  BY DEF VInv, FilesInv, RunState, FlagSwap
<1>3. Placed(r) /\ dir
  BY <1>1 DEF SeqInv, OrderInv, ReplaceInv, Replacing
<1>4. Placed(r)'
  BY <1>1, <1>2, <1>3 DEF Placed, install
<1>5. FlagsInv(r)'
  BY <1>1, <1>2, ReplaceFlags DEF FlagsInv, Replacing, Torn
<1>6. Kept'
  BY <1>1, <1>2, StillUninstalled DEF SeqInv, Kept, install
<1> QED
  BY <1>1, <1>2, <1>3, <1>4, <1>5, <1>6, Replaced DEF Replacing, install

LEMMA CommitS ==
  ASSUME VInv, VInv', SeqInv, NEW r \in Runs, Commit(r)
  PROVE  SeqInv'
<1>1. /\ me[r].pc = "commit" /\ UNCHANGED <<dir, binary, profile>> /\ failures \in Nat
      /\ temps'[r].rollback = temps[r].rollback
  BY BoundsAssumption DEF VInv, FilesInv, Temps, Commit, At
<1>2. Placed(r) /\ dir /\ temps[r].state = NewState(r) /\ binary = me[r].job.version
  BY <1>1 DEF VInv, RunInv, SeqInv, OrderInv, ReplaceInv, Replacing, Placed
<1>3. Kept'
  <2>1. me[r].job.version \in Versions
    BY JobVersion DEF VInv, FilesInv, RunState
  <2> QED
    BY <1>1, <1>2, <2>1, VersionsAssumption DEF Kept, Contents
<1>4. CASE state' = temps[r].state /\ Goto(r, "flagCommit") /\ failures' = failures
  <2>1. Placed(r)'
    BY <1>1, <1>2, <1>4, Went DEF Placed, NewState
  <2>2. FlagsInv(r)'
    BY <1>1, <1>4, Went, ReplaceFlags DEF FlagsInv, Replacing, Torn
  <2> QED
    BY <1>1, <1>2, <1>3, <1>4, <2>1, <2>2, Went, Replaced DEF Replacing
<1>5. CASE Goto(r, "undoCommit") /\ state' = state /\ failures' = failures + 1
  <2>1. Placed(r)'
    BY <1>1, <1>2, <1>5, Went DEF Placed
  <2>2. FlagsInv(r)'
    BY <1>1, <1>5, Went, ReplaceFlags DEF FlagsInv, Replacing, Torn
  <2> QED
    BY <1>1, <1>2, <1>3, <1>5, <2>1, <2>2, Went, Replaced DEF Replacing
<1> QED
  BY <1>4, <1>5 DEF Commit, IOFailure

LEMMA UndoCommitS ==
  ASSUME VInv, VInv', SeqInv, NEW r \in Runs, UndoCommit(r)
  PROVE  SeqInv'
<1>1. /\ me[r].pc = "undoCommit" /\ UNCHANGED <<dir, state, profile>> /\ failures \in Nat
      /\ failures' >= failures /\ failures' \in Nat
  BY BoundsAssumption DEF VInv, FilesInv, UndoCommit, At, MoveBack, IOFailure
<1>2. /\ Placed(r) /\ SeenInv(r) /\ Chosen(r) /\ dir /\ failures >= 1
      /\ state = me[r].before.state /\ binary = me[r].job.version /\ binary # NoFile
      /\ me[r].hadOld <=> me[r].before.binary # NoFile
  <2>1. me[r].job.version # NoFile
    BY JobVersion, VersionsAssumption DEF VInv, FilesInv, RunState, Contents
  <2> QED
    BY <1>1, <2>1 DEF SeqInv, OrderInv, ReplaceInv, Chosen, Placed, FlagsInv, Replacing
<1>3. CASE /\ me' = [me EXCEPT ![r] = [@ EXCEPT !.swapped = FALSE, !.preserved = TRUE,
                                                !.pc = "cleanFiles"]]
           /\ (me[r].hadOld /\ MoveBack(r)) \/ (~me[r].hadOld /\ binary' = NoFile)
  <2>1. /\ me'[r].pc = "cleanFiles" /\ me'[r].job = me[r].job /\ me'[r].before = me[r].before
        /\ ~me'[r].swapped /\ me'[r].ready = me[r].ready
        /\ \A q \in Runs \ {r} : me'[q] = me[q]
    BY <1>3 DEF VInv, FilesInv, RunState
  <2>2. ~Foreign(r)'
    BY <1>2, <2>1 DEF Foreign, SeenInv
  <2>3. binary' = me[r].before.binary \/ (binary' = binary /\ failures' >= 2)
    BY <1>1, <1>2, <1>3 DEF MoveBack, IOFailure, Placed
  <2>4. Kept'
    BY <1>1, <1>2, <2>3 DEF Kept, SeenInv
  <2>5. failures' <= 1 => Whole(r)'
    BY <1>1, <1>2, <2>1, <2>3 DEF Whole
  <2>6. ~Torn(r)'
    BY <2>1 DEF Torn
  <2> QED
    BY <1>1, <1>2, <2>1, <2>2, <2>4, <2>5, <2>6, ReplaceFlags, Abandoned DEF Replacing
<1>4. CASE ~me[r].hadOld /\ IOFailure /\ Exit(r) /\ UNCHANGED <<binary, temps>>
  <2>1. /\ me'[r].pc = "cleanFiles" /\ me'[r].job = me[r].job /\ me'[r].before = me[r].before
        /\ me'[r].seen = me[r].seen /\ me'[r].hadOld = me[r].hadOld
        /\ me'[r].ready = me[r].ready /\ \A q \in Runs \ {r} : me'[q] = me[q]
    BY <1>4, Went DEF Exit
  <2>2. TornInv(r)'
    <3>1. Chosen(r)'
      BY <1>1, <1>2, <2>1, StillChosen
    <3>2. failures' = failures + 1
      BY <1>4 DEF IOFailure
    <3> QED
      BY <1>1, <1>2, <1>4, <2>1, <3>1, <3>2 DEF TornInv
  <2>3. Settled(r)'
    <3>1. ~Foreign(r)' /\ profile' = me[r].before.profile /\ failures' >= 2
      BY <1>1, <1>2, <2>1, <2>2 DEF Foreign, SeenInv, Chosen, TornInv
    <3>2. ~me'[r].ready
      BY <1>1, <2>1, ReplaceFlags DEF Replacing
    <3> QED
      BY <1>1, <1>2, <2>1, <2>2, <3>1, <3>2 DEF Settled, ProfileFollows
  <2>4. OrderInv(r)'
    BY <1>1, <2>1, <2>3, Trapped, ReplaceFlags DEF Replacing, Cleaning
  <2>5. DirInv' /\ Kept' /\ Running(r)
    BY <1>1, <1>2, <1>4 DEF DirInv, Kept, Running, Working
  <2> QED
    BY <1>1, <2>1, <2>4, <2>5, SeqRun
<1> QED
  BY <1>3, <1>4 DEF UndoCommit

LEMMA FlagCommitS ==
  ASSUME VInv, VInv', SeqInv, NEW r \in Runs, FlagCommit(r)
  PROVE  SeqInv'
<1>1. /\ me[r].pc = "flagCommit" /\ UNCHANGED <<install, profile, temps, failures>>
      /\ failures \in Nat
  BY BoundsAssumption DEF VInv, FilesInv, FlagCommit, At
<1>2. /\ me'[r].pc = "dropRollback" /\ me'[r].job = me[r].job /\ me'[r].before = me[r].before
      /\ me'[r].seen = me[r].seen /\ me'[r].ready = me[r].ready /\ me'[r].committed
      /\ me'[r].payload = me[r].payload /\ \A q \in Runs \ {r} : me'[q] = me[q]
  BY DEF VInv, FilesInv, RunState, FlagCommit
<1>3. Placed(r) /\ dir
  BY <1>1 DEF SeqInv, OrderInv, ReplaceInv, Replacing
<1>4. Placed(r)'
  BY <1>1, <1>2, <1>3 DEF Placed, NewState, install
<1>5. FlagsInv(r)'
  BY <1>1, <1>2, ReplaceFlags DEF FlagsInv, Replacing, Torn
<1>6. Kept'
  BY <1>1, <1>2, StillUninstalled DEF SeqInv, Kept, install
<1> QED
  BY <1>1, <1>2, <1>3, <1>4, <1>5, <1>6, Replaced DEF Replacing, install

LEMMA DropRollbackS ==
  ASSUME VInv, VInv', SeqInv, NEW r \in Runs, DropRollback(r)
  PROVE  SeqInv'
<1>1. me[r].pc = "dropRollback" /\ UNCHANGED <<install, profile, failures>> /\ failures \in Nat
  BY BoundsAssumption DEF VInv, FilesInv, DropRollback, At
<1>2. /\ me'[r].pc = (IF WantsPath(r) THEN "snapshot" ELSE "cleanFiles")
      /\ me'[r].job = me[r].job /\ me'[r].before = me[r].before
      /\ me'[r].seen.version = me[r].job.version /\ me'[r].seen.hash = me[r].payload
      /\ me'[r].seen.path = me[r].seen.path
      /\ me'[r].ready = me[r].ready /\ me'[r].swapped = me[r].swapped
      /\ me'[r].committed = me[r].committed /\ \A q \in Runs \ {r} : me'[q] = me[q]
  BY DEF VInv, FilesInv, RunState, DropRollback
<1>3. /\ Chosen(r) /\ dir /\ binary = me[r].job.version /\ state = NewState(r)
      /\ profile = me[r].before.profile
  BY <1>1 DEF SeqInv, OrderInv, ReplaceInv, Chosen, Placed, Replacing
<1>4. /\ Whole(r) /\ Owned(state) = Owned(me[r].before.state) /\ ~Foreign(r)
      /\ binary = state.hash /\ state # NoState /\ binary # NoFile
  <2>1. me[r].job.version # NoFile
    BY JobVersion, VersionsAssumption DEF VInv, FilesInv, RunState, Contents
  <2> QED
    BY <1>1, <1>3, <2>1, Committed, NewStateTyped DEF Chosen, Replacing
<1>5. Kept'
  BY <1>1, <1>4 DEF Kept, install
<1>6. CASE me'[r].pc = "cleanFiles"
  <2>1. Whole(r)' /\ ~Foreign(r)' /\ Owned(state') = Owned(me[r].before.state)
    BY <1>1, <1>2, <1>4 DEF Whole, Foreign, install
  <2>2. dir' /\ profile' = profile /\ failures' >= failures
    BY <1>1, <1>3 DEF install
  <2>3. ~Torn(r)' /\ ~me'[r].ready
    BY <1>1, <1>2, ReplaceFlags DEF Torn, Replacing
  <2> QED
    BY <1>1, <1>2, <1>5, <1>6, <2>1, <2>2, <2>3, Abandoned DEF Replacing
<1>7. CASE me'[r].pc = "snapshot" /\ WantsPath(r)
  <2>1. ~me[r].ready /\ me[r].job.what = "install" /\ ~Torn(r)
    BY <1>1, ReplaceFlags DEF Replacing
  <2>2. /\ state.version = me[r].job.version /\ state.hash = me[r].payload
        /\ state.path = me[r].seen.path /\ ~me[r].seen.path
    BY <1>3, <1>7 DEF NewState, WantsPath
  <2>3. ManageInv(r)'
    BY <1>1, <1>2, <1>3, <1>4, <1>7, <2>1, <2>2 DEF ManageInv, Whole, Foreign, install
  <2>4. OrderInv(r)'
    BY <1>2, <1>7, <2>1, <2>3
       DEF OrderInv, EarlyInv, ReplaceInv, FlagsInv, Cleaning, Replacing, Torn
  <2>5. DirInv' /\ Running(r)
    BY <1>1, <1>3 DEF DirInv, Running, Working, install
  <2> QED
    BY <1>1, <1>2, <1>5, <1>7, <2>4, <2>5, SeqRun
<1> QED
  BY <1>2, <1>6, <1>7

-----------------------------------------------------------------------------
(* The PATH block. *)

\* A step to a position of the PATH block or to the removal of the executable.
LEMMA Managed ==
  ASSUME VInv, VInv', SeqInv, NEW r \in Runs,
         me[r].pc \in Working, me'[r].pc \in Managing \cup {"rmBinary"}, me'[r].job = me[r].job,
         \A q \in Runs \ {r} : me'[q] = me[q], failures' >= failures,
         ManageInv(r)', FlagsInv(r)'
  PROVE  SeqInv'
<1>1. DirInv' /\ Kept'
  BY DEF ManageInv, DirInv, Kept
<1>2. OrderInv(r)'
  BY DEF OrderInv, EarlyInv, ReplaceInv, Cleaning, Replacing, Managing
<1>3. Running(r) /\ me'[r].pc # "idle"
  BY DEF Running, Managing
<1> QED
  BY <1>1, <1>2, <1>3, SeqRun

\* The flags while the PATH block is set or removed.
LEMMA ManageFlags ==
  ASSUME SeqInv, NEW r \in Runs, me[r].pc \in Managing
  PROVE  /\ ManageInv(r) /\ ~Torn(r)
         /\ me[r].ready => me[r].job.what # "uninstall"
  BY DEF SeqInv, OrderInv, FlagsInv, Managing, Over, Cleaning, Torn

LEMMA SnapshotS ==
  ASSUME VInv, VInv', SeqInv, NEW r \in Runs, Snapshot(r)
  PROVE  SeqInv'
<1>1. /\ me[r].pc = "snapshot" /\ UNCHANGED <<install, profile, temps, failures>>
      /\ failures \in Nat
  BY BoundsAssumption DEF VInv, FilesInv, Snapshot, At
<1>2. /\ me'[r].pc = (IF me[r].job.what = "install" THEN "block" ELSE "unblock")
      /\ me'[r].job = me[r].job /\ me'[r].before = me[r].before /\ me'[r].seen = me[r].seen
      /\ me'[r].swapped = me[r].swapped /\ me'[r].committed = me[r].committed
      /\ me'[r].ready /\ me'[r].snapshot = profile
      /\ \A q \in Runs \ {r} : me'[q] = me[q]
  BY DEF VInv, FilesInv, RunState, Snapshot
<1>3. ManageInv(r) /\ ~Torn(r)
  BY <1>1, ManageFlags DEF Managing
<1>4. ManageInv(r)'
  BY <1>1, <1>2, <1>3 DEF ManageInv, Managing, Whole, Foreign, install
<1>5. FlagsInv(r)'
  BY <1>1, <1>2, <1>3 DEF FlagsInv, ManageInv, Managing, Torn
<1> QED
  BY <1>1, <1>2, <1>4, <1>5, Managed DEF Managing, Working

LEMMA AppendBlockS ==
  ASSUME VInv, VInv', SeqInv, NEW r \in Runs, AppendBlock(r)
  PROVE  SeqInv'
<1>1. me[r].pc = "block" /\ UNCHANGED <<install, temps, failures>> /\ failures \in Nat
  BY BoundsAssumption DEF VInv, FilesInv, AppendBlock, At
<1>2. CASE profile' = profile /\ Exit(r)
  BY <1>1, <1>2, Trapping DEF Working
<1>3. CASE /\ ~profile /\ profile'
           /\ me' = [me EXCEPT ![r] = [@ EXCEPT !.seen.path = TRUE, !.pc = "writeState"]]
  <2>1. /\ me'[r].pc = "writeState" /\ me'[r].job = me[r].job /\ me'[r].before = me[r].before
        /\ me'[r].seen.version = me[r].seen.version /\ me'[r].seen.hash = me[r].seen.hash
        /\ me'[r].seen.path = TRUE
        /\ me'[r].swapped = me[r].swapped /\ me'[r].committed = me[r].committed
        /\ me'[r].ready = me[r].ready /\ me'[r].snapshot = me[r].snapshot
        /\ \A q \in Runs \ {r} : me'[q] = me[q]
    BY <1>3 DEF VInv, FilesInv, RunState, Seen
  <2>2. ManageInv(r) /\ ~Torn(r)
    BY <1>1, ManageFlags DEF Managing
  <2>3. ~Owned(state) /\ ~me[r].before.profile /\ me[r].ready /\ me[r].job.what = "install"
    BY <1>1, <1>3, <2>2 DEF ManageInv, Managing, Owned
  <2>4. ManageInv(r)'
    BY <1>1, <1>3, <2>1, <2>2, <2>3 DEF ManageInv, Managing, Whole, Foreign, install
  <2>5. FlagsInv(r)'
    BY <2>1, <2>2, <2>3 DEF FlagsInv, Managing, Torn
  <2> QED
    BY <1>1, <2>1, <2>4, <2>5, Managed DEF Managing, Working
<1> QED
  BY <1>2, <1>3 DEF AppendBlock

LEMMA RemoveBlockS ==
  ASSUME VInv, VInv', SeqInv, NEW r \in Runs, RemoveBlock(r)
  PROVE  SeqInv'
<1> DEFINE next == IF me[r].job.what = "uninstall" THEN "rmBinary" ELSE "writeState"
<1>1. me[r].pc = "unblock" /\ UNCHANGED <<install, temps, failures>> /\ failures \in Nat
  BY BoundsAssumption DEF VInv, FilesInv, RemoveBlock, At
<1>2. CASE profile' = profile /\ Exit(r)
  BY <1>1, <1>2, Trapping DEF Working
<1>3. CASE \/ ~me[r].seen.path /\ Goto(r, next) /\ profile' = profile
           \/ /\ me[r].seen.path /\ profile /\ profile' = FALSE
              /\ me' = [me EXCEPT ![r] = [@ EXCEPT !.seen.path = FALSE, !.pc = next]]
  <2>1. /\ me'[r].pc = next /\ me'[r].job = me[r].job /\ me'[r].before = me[r].before
        /\ me'[r].seen.version = me[r].seen.version /\ me'[r].seen.hash = me[r].seen.hash
        /\ ~me'[r].seen.path
        /\ me'[r].swapped = me[r].swapped /\ me'[r].committed = me[r].committed
        /\ me'[r].ready = me[r].ready /\ me'[r].snapshot = me[r].snapshot
        /\ \A q \in Runs \ {r} : me'[q] = me[q]
    <3>1. CASE ~me[r].seen.path /\ Goto(r, next)
      BY <3>1, Went
    <3>2. CASE me' = [me EXCEPT ![r] = [@ EXCEPT !.seen.path = FALSE, !.pc = next]]
      BY <3>2 DEF VInv, FilesInv, RunState, Seen
    <3> QED
      BY <1>3, <3>1, <3>2
  <2>2. ManageInv(r) /\ ~Torn(r)
        /\ (me[r].ready => me[r].job.what # "uninstall")
    BY <1>1, ManageFlags DEF Managing
  <2>3. profile' # me[r].before.profile <=> Owned(me[r].before.state)
    BY <1>1, <1>3, <2>2 DEF ManageInv, Managing, Owned, VInv, FilesInv
  <2>4. ManageInv(r)'
    <3>1. CASE me[r].job.what = "uninstall"
      BY <1>1, <2>1, <2>2, <3>1 DEF ManageInv, Managing, Foreign, install
    <3>2. CASE me[r].job.what # "uninstall"
      <4>1. me'[r].pc = "writeState"
        BY <2>1, <3>2
      <4> HIDE DEF next
      <4>2. Whole(r)' <=> Whole(r)
        BY <1>1, <2>1 DEF Whole, install
      <4>3. (me'[r].seen.path # Owned(me[r].before.state)) <=> Owned(me[r].before.state)
        BY <2>1 DEF VInv, FilesInv, RunState, Seen, Owned
      <4> QED
        BY <1>1, <2>1, <2>2, <2>3, <3>2, <4>1, <4>2, <4>3
          DEF ManageInv, Managing, Foreign, install
    <3> QED
      BY <3>1, <3>2
  <2>5. FlagsInv(r)'
    BY <1>1, <2>1, <2>2 DEF FlagsInv, Managing, Torn
  <2> QED
    BY <1>1, <2>1, <2>4, <2>5, Managed DEF Managing, Working
<1> QED
  BY <1>2, <1>3 DEF RemoveBlock

LEMMA WriteStateS ==
  ASSUME VInv, VInv', SeqInv, NEW r \in Runs, WriteState(r)
  PROVE  SeqInv'
<1>1. /\ me[r].pc = "writeState" /\ UNCHANGED <<dir, binary, profile>>
      /\ failures \in Nat /\ failures' >= failures
  BY BoundsAssumption DEF VInv, FilesInv, WriteState, At, IOFailure
<1>2. /\ ManageInv(r) /\ ~Torn(r) /\ dir
      /\ me[r].ready => me[r].job.what # "uninstall"
  BY <1>1, ManageFlags DEF Managing, ManageInv
<1>3. PICK pc \in {"forget", "undoProfile"} :
        /\ me'[r].pc = pc /\ me'[r].job = me[r].job /\ me'[r].before = me[r].before
        /\ me'[r].seen = me[r].seen /\ me'[r].swapped = me[r].swapped
        /\ me'[r].committed = me[r].committed /\ me'[r].ready = me[r].ready
        /\ me'[r].snapshot = me[r].snapshot /\ \A q \in Runs \ {r} : me'[q] = me[q]
        /\ IF pc = "forget" THEN state' = Recording(r) ELSE state' = state
  <2>1. CASE me' = [me EXCEPT ![r] = [@ EXCEPT !.uncleaned = TRUE, !.pc = "undoProfile"]]
             /\ state' = state
    <3>1. /\ me'[r].pc = "undoProfile" /\ me'[r].job = me[r].job
          /\ me'[r].before = me[r].before /\ me'[r].seen = me[r].seen
          /\ me'[r].swapped = me[r].swapped /\ me'[r].committed = me[r].committed
          /\ me'[r].ready = me[r].ready /\ me'[r].snapshot = me[r].snapshot
          /\ \A q \in Runs \ {r} : me'[q] = me[q]
      BY <2>1 DEF VInv, FilesInv, RunState
    <3> QED
      BY <2>1, <3>1
  <2>2. CASE Goto(r, "forget") /\ state' = Recording(r)
    BY <2>2, Went
  <2>3. CASE Goto(r, "undoProfile") /\ state' = state
    BY <2>3, Went
  <2> QED
    BY <2>1, <2>2, <2>3 DEF WriteState
<1>4. ASSUME ManageInv(r)' PROVE SeqInv'
  <2>1. FlagsInv(r)'
    BY <1>1, <1>2, <1>3 DEF FlagsInv, Managing, Torn
  <2> QED
    BY <1>1, <1>3, <1>4, <2>1, Managed DEF Managing, Working
<1>5. CASE pc = "forget"
  <2>1. /\ state'.version = state.version /\ state'.hash = state.hash
        /\ state'.path = me[r].seen.path /\ state' \in Verified
    BY <1>1, <1>2, <1>3, <1>5
       DEF ManageInv, Managing, VInv, FilesInv, RunInv, RunState, Seen, Verified, Recording
  <2>2. state' # NoState /\ state # NoState
    BY <1>1, <1>2, <2>1, VersionsAssumption DEF ManageInv, Managing, Verified, States, Contents
  <2>3. Owned(state') = me[r].seen.path
    BY <2>1, <2>2 DEF Owned, Verified
  <2>4. Recorded(state') = Recorded(state)
    BY <2>1, <2>2 DEF Recorded
  <2>5. ProfileFollows(r)'
    BY <1>1, <1>2, <1>3, <1>5, <2>3 DEF ManageInv, Managing, ProfileFollows
  <2>6. ManageInv(r)'
    BY <1>1, <1>2, <1>3, <1>5, <2>1, <2>2, <2>4, <2>5 DEF ManageInv, Managing, Whole, Foreign
  <2> QED
    BY <1>4, <2>6
<1>6. CASE pc = "undoProfile"
  <2>1. ManageInv(r)'
    BY <1>1, <1>2, <1>3, <1>6 DEF ManageInv, Managing, Whole, Foreign
  <2> QED
    BY <1>4, <2>1
<1> QED
  BY <1>3, <1>5, <1>6

\* From the PATH block, restored or set, into the trap.
LEMMA Restored ==
  ASSUME VInv, VInv', SeqInv, NEW r \in Runs, me[r].pc \in Managing,
         UNCHANGED install, me'[r].pc = "cleanFiles", me'[r].job = me[r].job,
         me'[r].before = me[r].before, ~me'[r].ready, me'[r].swapped = me[r].swapped,
         me'[r].committed = me[r].committed, \A q \in Runs \ {r} : me'[q] = me[q],
         failures' >= failures, ProfileFollows(r)'
  PROVE  SeqInv'
<1>1. /\ dir /\ binary # NoFile /\ ~Foreign(r) /\ (me[r].job.what = "install" => Whole(r))
      /\ ~Torn(r)
  BY ManageFlags DEF ManageInv, Managing
<1>2. Settled(r)'
  BY <1>1 DEF Settled, Foreign, Whole, install, Torn
<1>3. OrderInv(r)'
  BY <1>2, Trapped DEF Cleaning
<1>4. DirInv' /\ Kept' /\ Running(r)
  BY <1>1 DEF DirInv, Kept, install, Running, Managing, Working
<1> QED
  BY <1>3, <1>4, SeqRun

LEMMA UndoProfileS ==
  ASSUME VInv, VInv', SeqInv, NEW r \in Runs, UndoProfile(r)
  PROVE  SeqInv'
<1>1. me[r].pc = "undoProfile" /\ UNCHANGED <<install, temps>> /\ failures \in Nat
  BY BoundsAssumption DEF VInv, FilesInv, UndoProfile, At
<1>2. CASE RestoreFails(r) /\ Exit(r)
  <2>1. me[r].ready
    BY <1>1 DEF SeqInv, OrderInv, ManageInv, Managing
  <2> QED
    BY <1>1, <1>2, <2>1, Trapping DEF Working, RestoreFails, IOFailure
<1>3. CASE /\ profile' = me[r].snapshot /\ failures' = failures
           /\ me' = [me EXCEPT ![r] = [@ EXCEPT !.ready = FALSE, !.pc = "cleanFiles"]]
  <2>1. /\ me'[r].pc = "cleanFiles" /\ me'[r].job = me[r].job
        /\ me'[r].before = me[r].before /\ ~me'[r].ready /\ me'[r].swapped = me[r].swapped
        /\ me'[r].committed = me[r].committed /\ \A q \in Runs \ {r} : me'[q] = me[q]
    BY <1>3 DEF VInv, FilesInv, RunState
  <2>2. me[r].snapshot = me[r].before.profile /\ Owned(state) = Owned(me[r].before.state)
    BY <1>1, ManageFlags DEF ManageInv, Managing
  <2>3. ProfileFollows(r)'
    BY <1>1, <1>3, <2>1, <2>2 DEF ProfileFollows, install
  <2>4. failures' >= failures
    BY <1>1, <1>3
  <2> QED
    BY <1>1, <2>1, <2>3, <2>4, Restored DEF Managing
<1> QED
  BY <1>1, <1>2, <1>3 DEF UndoProfile

LEMMA ForgetS ==
  ASSUME VInv, VInv', SeqInv, NEW r \in Runs, Forget(r)
  PROVE  SeqInv'
<1>1. /\ me[r].pc = "forget" /\ UNCHANGED <<install, profile, temps, failures>>
      /\ failures \in Nat
  BY BoundsAssumption DEF VInv, FilesInv, Forget, At
<1>2. /\ me'[r].pc = "cleanFiles" /\ me'[r].job = me[r].job
      /\ me'[r].before = me[r].before /\ ~me'[r].ready /\ me'[r].swapped = me[r].swapped
      /\ me'[r].committed = me[r].committed /\ \A q \in Runs \ {r} : me'[q] = me[q]
  BY DEF VInv, FilesInv, RunState, Forget
<1>3. ProfileFollows(r)'
  BY <1>1, <1>2, ManageFlags DEF ManageInv, Managing, ProfileFollows, install
<1> QED
  BY <1>1, <1>2, <1>3, Restored DEF Managing

-----------------------------------------------------------------------------
(* Uninstall, the faults and the trap. *)

LEMMA UninstallS ==
  ASSUME VInv, VInv', SeqInv, NEW r \in Runs, Uninstall(r)
  PROVE  SeqInv'
<1>1. /\ me[r].pc \in {"rmBinary", "rmState", "rmDir"} /\ UNCHANGED <<profile, temps, failures>>
      /\ failures \in Nat /\ OrderInv(r)
  BY BoundsAssumption
     DEF VInv, FilesInv, SeqInv, Uninstall, RemoveBinary, RemoveState, RemoveDir, At
<1>2. /\ me[r].job.what = "uninstall" /\ ~Foreign(r) /\ ~me[r].ready
      /\ ~Torn(r)
  BY <1>1 DEF OrderInv, ManageInv, FlagsInv, Managing, Over, Cleaning, Torn
<1>3. PICK pc \in {"rmState", "rmDir", "cleanFiles"} : Goto(r, pc)
  BY DEF Uninstall, RemoveBinary, RemoveState, RemoveDir, Exit
<1>4. DirInv'
  <2>1. CASE RemoveBinary(r)
    <3>1. dir
      BY <1>1, <2>1 DEF OrderInv, ManageInv, RemoveBinary, At
    <3> QED
      BY <2>1, <3>1 DEF RemoveBinary, DirInv
  <2>2. CASE RemoveState(r)
    BY <2>2 DEF SeqInv, DirInv, RemoveState
  <2>3. CASE RemoveDir(r)
    BY <2>3 DEF DirInv, RemoveDir
  <2> QED
    BY <2>1, <2>2, <2>3 DEF Uninstall
<1>5. Kept'
  BY <1>2, <1>3, Went DEF Kept, Uninstalled, At
<1>6. OrderInv(r)'
  <2>1. ~Foreign(r)' /\ me'[r].job.what = "uninstall" /\ ~me'[r].ready
        /\ ~Torn(r)'
    BY <1>2, <1>3, Went DEF Foreign, Torn
  <2>2. CASE pc = "cleanFiles"
    BY <1>3, <2>1, <2>2, Trapped, Went DEF Settled, Cleaning, Torn
  <2>3. CASE pc \in {"rmState", "rmDir"}
    BY <1>3, <2>1, <2>3, Went
       DEF OrderInv, EarlyInv, ReplaceInv, ManageInv, FlagsInv, Cleaning, Replacing,
           Managing, Torn
  <2> QED
    BY <2>2, <2>3
<1> QED
  BY <1>1, <1>3, <1>4, <1>5, <1>6, Went, SeqRun DEF Running, Working

LEMMA CommandFailsS ==
  ASSUME VInv, VInv', SeqInv, NEW r \in Runs, CommandFails(r)
  PROVE  SeqInv'
<1>1. /\ failures' >= failures /\ Exit(r) /\ UNCHANGED <<install, profile>>
      /\ me[r].pc \in Working \ {"flagSwap", "commit", "undoCommit", "flagCommit",
                                 "writeState", "forget"}
  BY BoundsAssumption DEF VInv, FilesInv, CommandFails, IOFailure, Working
<1> QED
  BY <1>1, Trapping

LEMMA KillS ==
  ASSUME VInv, VInv', SeqInv, NEW r \in Runs, Kill(r)
  PROVE  SeqInv'
<1>1. /\ Running(r) /\ Goto(r, "killed") /\ UNCHANGED <<install, temps, failures>>
      /\ failures \in Nat
  BY BoundsAssumption DEF VInv, FilesInv, Kill
<1>2. DirInv' /\ Kept'
  BY <1>1, Went, StillUninstalled DEF SeqInv, DirInv, Kept, install
<1>3. OrderInv(r)'
  BY <1>1, Went
     DEF SeqInv, OrderInv, EarlyInv, ReplaceInv, ManageInv, FlagsInv, Cleaning, Replacing,
         Managing, Over, Torn
<1> QED
  BY <1>1, <1>2, <1>3, Went, SeqRun

LEMMA Trailing ==
  ASSUME VInv, VInv', SeqInv, NEW r \in Runs, me[r].pc \in Cleaning,
         me'[r].pc \in Cleaning \cup {"ended"}, me'[r].job = me[r].job,
         me'[r].before = me[r].before, me'[r].seen = me[r].seen,
         me'[r].hadOld = me[r].hadOld, me'[r].swapped = me[r].swapped,
         me'[r].committed = me[r].committed, me'[r].ready = me[r].ready,
         me'[r].snapshot = me[r].snapshot, \A q \in Runs \ {r} : me'[q] = me[q],
         UNCHANGED <<dir, state>>, failures' >= failures,
         binary' = binary \/ (Torn(r) /\ binary' = NoFile),
         profile' = profile \/ me'[r].pc = "ended"
  PROVE  SeqInv'
<1>1. Settled(r) /\ (me[r].ready => me[r].job.what # "uninstall")
  BY DEF SeqInv, OrderInv, FlagsInv
<1>2. Torn(r)' <=> Torn(r)
  BY DEF Torn
<1>3. Torn(r) => /\ TornInv(r) /\ ~Foreign(r) /\ state = NoState /\ failures >= 2
                 /\ me[r].job.what = "install"
  BY <1>1 DEF Settled, TornInv, Chosen, SeenInv, Foreign
<1>4. DirInv' /\ Kept'
  <2>1. Uninstalled => Uninstalled'
    BY StillUninstalled DEF Cleaning
  <2> QED
    BY <1>3, <2>1 DEF SeqInv, DirInv, Kept
<1>5. OrderInv(r)'
  <2>1. CASE me'[r].pc = "ended"
    BY <1>1, <2>1
       DEF OrderInv, EarlyInv, ReplaceInv, ManageInv, FlagsInv, Cleaning, Replacing, Managing,
           Over
  <2>2. CASE me'[r].pc \in Cleaning
    <3>1. profile' = profile /\ failures \in Nat /\ failures' \in Nat
      BY <2>2, BoundsAssumption DEF Cleaning, VInv, FilesInv
    <3>2. CASE Torn(r)
      <4>1. Chosen(r)'
        BY <1>3, <3>1, <3>2, StillChosen DEF TornInv
      <4>2. TornInv(r)'
        BY <1>3, <3>1, <3>2, <4>1 DEF TornInv
      <4>3. ~Foreign(r)' /\ failures' >= 2
        BY <1>3, <3>1, <3>2 DEF Foreign
      <4> QED
        <5>1. Settled(r)'
          BY <1>1, <3>1, <4>2, <4>3 DEF Settled, ProfileFollows
        <5> QED
          BY <1>1, <2>2, <5>1, Trapped
    <3>3. CASE ~Torn(r)
      <4>1. Settled(r)'
        BY <1>1, <1>2, <3>1, <3>3 DEF Settled, Foreign, Whole, ProfileFollows
      <4> QED
        BY <1>1, <2>2, <4>1, Trapped
    <3> QED
      BY <3>2, <3>3
  <2> QED
    BY <2>1, <2>2
<1> QED
  BY <1>4, <1>5, SeqRun DEF Running, Cleaning

LEMMA CleanupS ==
  ASSUME VInv, VInv', SeqInv, NEW r \in Runs, Cleanup(r)
  PROVE  SeqInv'
<1>1. CASE CleanFiles(r)
  <2>1. /\ me[r].pc \in Cleaning /\ UNCHANGED <<dir, state, binary, profile>>
        /\ failures' >= failures
    BY <1>1, BoundsAssumption DEF CleanFiles, At, Cleaning, install, IOFailure, VInv, FilesInv
  <2>2. /\ me'[r].pc \in Cleaning \cup {"ended"} /\ me'[r].job = me[r].job
        /\ me'[r].before = me[r].before /\ me'[r].seen = me[r].seen
        /\ me'[r].hadOld = me[r].hadOld /\ me'[r].swapped = me[r].swapped
        /\ me'[r].committed = me[r].committed /\ me'[r].ready = me[r].ready
        /\ me'[r].snapshot = me[r].snapshot /\ \A q \in Runs \ {r} : me'[q] = me[q]
    <3>1. CASE Goto(r, "cleanBinary")
      BY <3>1, Went DEF Cleaning
    <3>2. CASE me' = [me EXCEPT ![r] = [@ EXCEPT !.uncleaned = TRUE, !.pc = "ended"]]
      BY <3>2 DEF VInv, FilesInv, RunState
    <3> QED
      BY <1>1, <3>1, <3>2 DEF CleanFiles
  <2> QED
    BY <2>1, <2>2, Trailing
<1>2. CASE CleanBinary(r)
  <2>1. /\ me[r].pc \in Cleaning /\ UNCHANGED <<dir, state, profile>>
        /\ failures' >= failures
    BY <1>2, BoundsAssumption
       DEF CleanBinary, At, Cleaning, IOFailure, MoveBack, VInv, FilesInv
  <2>2. /\ me'[r].pc \in Cleaning \cup {"ended"} /\ me'[r].job = me[r].job
        /\ me'[r].before = me[r].before /\ me'[r].seen = me[r].seen
        /\ me'[r].hadOld = me[r].hadOld /\ me'[r].swapped = me[r].swapped
        /\ me'[r].committed = me[r].committed /\ me'[r].ready = me[r].ready
        /\ me'[r].snapshot = me[r].snapshot /\ \A q \in Runs \ {r} : me'[q] = me[q]
    <3> DEFINE going(b) ==
          me' = [me EXCEPT ![r] = [@ EXCEPT !.retained = b, !.pc = "cleanRollback"]]
    <3>1. ASSUME NEW b \in BOOLEAN, going(b) PROVE <2>2
      BY <3>1 DEF VInv, FilesInv, RunState, Cleaning
    <3>2. going(TRUE) \/ going(FALSE)
      BY <1>2 DEF CleanBinary
    <3> HIDE DEF going
    <3> QED
      BY <3>1, <3>2
  <2>3. binary' = binary \/ (Torn(r) /\ binary' = NoFile)
    <3>1. Torn(r) => ~me[r].hadOld
      BY <2>1 DEF SeqInv, OrderInv, Settled, TornInv
    <3> QED
      BY <1>2, <3>1 DEF CleanBinary
  <2> QED
    BY <2>1, <2>2, <2>3, Trailing
<1>3. CASE CleanRollback(r)
  <2>1. /\ me[r].pc \in Cleaning /\ UNCHANGED <<dir, state, binary, profile>>
        /\ failures' >= failures
    BY <1>3, BoundsAssumption
       DEF CleanRollback, At, Cleaning, install, IOFailure, VInv, FilesInv
  <2>2. /\ me'[r].pc \in Cleaning \cup {"ended"} /\ me'[r].job = me[r].job
        /\ me'[r].before = me[r].before /\ me'[r].seen = me[r].seen
        /\ me'[r].hadOld = me[r].hadOld /\ me'[r].swapped = me[r].swapped
        /\ me'[r].committed = me[r].committed /\ me'[r].ready = me[r].ready
        /\ me'[r].snapshot = me[r].snapshot /\ \A q \in Runs \ {r} : me'[q] = me[q]
    <3>1. CASE Goto(r, "cleanProfile")
      BY <3>1, Went DEF Cleaning
    <3>2. CASE me' = [me EXCEPT ![r] = [@ EXCEPT !.uncleaned = TRUE, !.pc = "cleanProfile"]]
      BY <3>2 DEF VInv, FilesInv, RunState, Cleaning
    <3> QED
      BY <1>3, <3>1, <3>2 DEF CleanRollback
  <2> QED
    BY <2>1, <2>2, Trailing
<1>4. CASE CleanProfile(r)
  <2>1. failures' = failures \/ failures' = failures + 1
    BY <1>4 DEF CleanProfile, IOFailure, RestoreFails
  <2>2. /\ me[r].pc \in Cleaning /\ UNCHANGED <<dir, state, binary>>
        /\ failures' >= failures /\ Goto(r, "ended")
    BY <1>4, <2>1, BoundsAssumption DEF CleanProfile, At, Cleaning, install, VInv, FilesInv
  <2> QED
    BY <2>2, Went, Trailing
<1> QED
  BY <1>1, <1>2, <1>3, <1>4 DEF Cleanup

-----------------------------------------------------------------------------
(* The inductive invariant, and the properties. *)

\* What a run that is under way may do when no signal comes.
Acts(r) ==
  \/ Inspect(r) \/ Fetch(r) \/ Decide(r) \/ Replace(r) \/ SetPath(r) \/ Uninstall(r)
  \/ Cleanup(r) \/ CommandFails(r) \/ Kill(r)

LEMMA ActsRuns == ASSUME NEW r \in Runs, Acts(r) PROVE Running(r)
<1>1. CASE Inspect(r) \/ Fetch(r) \/ Decide(r)
  BY <1>1 DEF Inspect, Fetch, Decide, At, Running, Working
<1>2. CASE Replace(r)
  BY <1>2 DEF Replace, MakeDir, Stage, Backup, PrepareState, Swap, UndoSwap, FlagSwap, Commit,
     UndoCommit, FlagCommit, DropRollback, At, Running, Working
<1>3. CASE SetPath(r)
  BY <1>3 DEF SetPath, Snapshot, AppendBlock, RemoveBlock, WriteState, UndoProfile, Forget,
     At, Running, Working
<1>4. CASE Uninstall(r) \/ Cleanup(r)
  BY <1>4 DEF Uninstall, RemoveBinary, RemoveState, RemoveDir, Cleanup, CleanFiles, CleanBinary,
     CleanRollback, CleanProfile, At, Running, Working, Cleaning
<1>5. CASE CommandFails(r) \/ Kill(r)
  BY <1>5 DEF CommandFails, Kill, Running, Working
<1> QED
  BY <1>1, <1>2, <1>3, <1>4, <1>5 DEF Acts

LEMMA ActsS ==
  ASSUME VInv, VInv', SeqInv, NEW r \in Runs, Acts(r)
  PROVE  SeqInv'
<1>1. ASSUME Replace(r) PROVE SeqInv'
  BY <1>1, MakeDirS, StageS, BackupS, PrepareStateS, SwapS, UndoSwapS, FlagSwapS, CommitS,
     UndoCommitS, FlagCommitS, DropRollbackS
     DEF Replace
<1>2. ASSUME SetPath(r) PROVE SeqInv'
  BY <1>2, SnapshotS, AppendBlockS, RemoveBlockS, WriteStateS, UndoProfileS, ForgetS DEF SetPath
<1> QED
  BY <1>1, <1>2, InspectS, FetchS, DecideS, UninstallS, CleanupS, CommandFailsS, KillS DEF Acts

\* While a run is under way every step is one of that run.
LEMMA OneActor ==
  ASSUME Quiet, Next
  PROVE  \E r \in Runs : (Acts(r) \/ Start(r))
                           /\ (SeqInv => \A q \in Runs : Running(q) => q = r /\ Acts(r))
<1>1. PICK r \in Runs : Acts(r) \/ Start(r)
  BY DEF Next, Acts, Signal, Quiet
<1>2. ASSUME SeqInv, NEW q \in Runs, Running(q) PROVE q = r /\ Acts(r)
  <2>1. ~Start(r)
    BY <1>2 DEF Start, Quiet
  <2> QED
    BY <1>1, <1>2, <2>1, ActsRuns DEF SeqInv, Alone
<1> QED
  BY <1>1, <1>2

LEMMA NextSeqInv ==
  ASSUME Quiet, VInv, VInv', SeqInv, [Next]_vars
  PROVE  SeqInv'
<1>1. CASE UNCHANGED vars
  BY <1>1
     DEF vars, install, SeqInv, Alone, DirInv, Kept, Uninstalled, OrderInv, EarlyInv,
         ReplaceInv,
         ManageInv, FlagsInv, Settled, Torn, TornInv, Chosen, Placed, SeenInv, Allowed,
         Unchanged, Whole,
         ProfileFollows, Foreign, NewState, Running, At
<1>2. CASE Next
  BY <1>2, OneActor, ActsS, StartS
<1> QED
  BY <1>1, <1>2

LEMMA AlwaysSeqInv == ASSUME Quiet PROVE Spec => [](VInv /\ SeqInv)
<1>1. VInv /\ VInv' /\ SeqInv /\ [Next]_vars => SeqInv'
  BY NextSeqInv
<1> QED
  BY <1>1, InitSeqInv, AlwaysVInv, PTL DEF Spec

\* An installation never ends up with its state file and without its executable by
\* an install or a change of PATH, whatever commands fail and wherever runs are
\* killed: what it takes to be refused by every later run.
THEOREM NeverMissingHolds == ASSUME Quiet PROVE Spec => []NeverMissing
<1>1. SeqInv => NeverMissing
  BY DEF SeqInv, Kept, Uninstalled, NeverMissing
<1> QED
  BY <1>1, AlwaysSeqInv, PTL

\* The version that is recorded only goes back with --allow-downgrade, across every
\* sequence of runs (install.sh:950-951).
THEOREM NoDowngradeHolds == ASSUME Quiet PROVE Spec => NoDowngrade
<1> DEFINE Kind ==
      \A r \in Runs : me[r].pc = "commit" /\ state # NoState /\ state' # state =>
        state'.version >= state.version \/ me[r].job.allowDowngrade
<1>1. VInv /\ SeqInv /\ [Next]_vars => [Kind]_vars
  <2> SUFFICES ASSUME VInv, SeqInv, Next, NEW r \in Runs, me[r].pc = "commit",
                      state # NoState, state' # state
               PROVE  state'.version >= state.version \/ me[r].job.allowDowngrade
    BY DEF Kind
  <2>1. Acts(r)
    BY OneActor DEF Running, Working
  <2>2. state' = NewState(r)
    BY <2>1 DEF Acts, Inspect, Fetch, Decide, Replace, SetPath, Uninstall, Cleanup,
       CommandFails, Kill, MakeDir, Stage, Backup, PrepareState, Swap, UndoSwap, FlagSwap,
       Commit,
       UndoCommit, FlagCommit, DropRollback, Snapshot, AppendBlock, RemoveBlock, WriteState,
       UndoProfile, Forget, RemoveBinary, RemoveState, RemoveDir, CleanFiles, CleanBinary,
       CleanRollback, CleanProfile, At, install, VInv, RunInv
  <2>3. SeenInv(r) /\ Allowed(r) /\ state = me[r].before.state
    BY DEF SeqInv, OrderInv, ReplaceInv, Chosen, Placed, Replacing
  <2>4. me[r].seen.managed /\ me[r].seen.version = state.version
    BY <2>3 DEF SeenInv
  <2> QED
    BY <2>2, <2>3, <2>4 DEF Allowed, NewState
<1> QED
  BY <1>1, AlwaysSeqInv, PTL DEF Spec, NoDowngrade

\* A directory without a state file keeps what is in it (install.sh:524-527),
\* whatever fails in the run that found it.
THEOREM UnmanagedRefusedHolds == ASSUME Quiet PROVE Spec => UnmanagedRefused
<1>1. SeqInv =>
        \A r \in Runs : me[r].pc \in Cleaning /\ me[r].before.dir /\ me[r].before.state = NoState =>
          dir /\ binary = me[r].before.binary /\ state = NoState
  BY DEF SeqInv, OrderInv, Settled, Foreign, At, Cleaning, Torn
<1>2. SeqInv =>
        [\A r \in Runs :
           Ends(r) /\ me[r].before.dir /\ me[r].before.state = NoState =>
             dir /\ binary = me[r].before.binary /\ state = NoState]_vars
  BY <1>1 DEF Ends
<1> QED
  BY <1>2, AlwaysSeqInv, PTL DEF Spec, UnmanagedRefused

\* With at most one command failing until the last one of the trap, and kills of any run
\* anywhere, an install that ends leaves the old executable and state or the new ones
\* (install.sh:968-1016).
THEOREM AllOrNothingHolds == ASSUME Quiet PROVE Spec => AllOrNothing
<1>1. SeqInv =>
        \A r \in Runs : me[r].pc \in Cleaning /\ failures <= 1 /\ me[r].job.what = "install" =>
          Whole(r)
  BY DEF SeqInv, OrderInv, Settled, At, Cleaning, Torn
<1>2. SeqInv =>
        [\A r \in Runs : Ends(r) /\ failures <= 1 /\ me[r].job.what = "install" =>
           LET before == me[r].before
               v == me[r].job.version
           IN  <<binary, Recorded(state)>> \in
                 {<<before.binary, Recorded(before.state)>>, <<v, <<v, v>>>>}]_vars
  BY <1>1 DEF Ends, Whole
<1> QED
  BY <1>2, AlwaysSeqInv, PTL DEF Spec, AllOrNothing

\* The PATH block comes and goes with the state file's word for it (install.sh:702-732,
\* 898-919), however many commands fail on the way to the trap and in it, as long as
\* the last one does not.
THEOREM PathFollowsStateHolds == ASSUME Quiet PROVE Spec => PathFollowsState
<1> DEFINE Kind ==
      \A r \in Runs : Ends(r) /\ failures' = failures /\ me[r].job.what # "uninstall" =>
        LET owned(s) == s # NoState /\ s.path
        IN  profile' # me[r].before.profile <=> owned(state) # owned(me[r].before.state)
<1>1. VInv /\ VInv' /\ SeqInv /\ [Next]_vars => [Kind]_vars
  <2> SUFFICES ASSUME VInv, VInv', SeqInv, Next, NEW r \in Runs, Ends(r),
                      failures' = failures, me[r].job.what # "uninstall"
               PROVE  profile' # me[r].before.profile
                        <=> Owned(state) # Owned(me[r].before.state)
    BY DEF Kind, Owned
  <2>1. CleanFiles(r) \/ CleanBinary(r) \/ CleanRollback(r) \/ CleanProfile(r)
    <3>1. Acts(r)
      BY OneActor DEF Ends, Running
    <3>2. me[r].pc \in Cleaning /\ me'[r].pc = "ended"
      BY DEF Ends
    <3>3. ~Kill(r)
      BY <3>2, Went DEF Kill
    <3> QED
      BY <3>1, <3>2, <3>3
         DEF Acts, Inspect, Fetch, Decide, Replace, SetPath, Uninstall, Cleanup,
             CommandFails, MakeDir, Stage, Backup, PrepareState, Swap, UndoSwap, FlagSwap,
             Commit, UndoCommit, FlagCommit, DropRollback, Snapshot, AppendBlock, RemoveBlock,
             WriteState, UndoProfile, Forget, RemoveBinary, RemoveState, RemoveDir, At,
             Cleaning, Working
  <2>2. failures \in Nat /\ ~IOFailure
    BY BoundsAssumption DEF VInv, FilesInv, IOFailure
  <2>3. ~CleanFiles(r)
    BY <2>2, Went DEF CleanFiles, Ends
  <2>4. ~CleanRollback(r)
    BY <2>2, Went DEF CleanRollback, Ends
  <2>5. ~CleanBinary(r)
    <3> DEFINE going(b) ==
          me' = [me EXCEPT ![r] = [@ EXCEPT !.retained = b, !.pc = "cleanRollback"]]
    <3>1. ASSUME NEW b \in BOOLEAN, going(b) PROVE FALSE
      BY <3>1 DEF VInv, FilesInv, RunState, Ends
    <3>2. CleanBinary(r) => going(TRUE) \/ going(FALSE)
      BY DEF CleanBinary
    <3> HIDE DEF going
    <3> QED
      BY <3>1, <3>2
  <2>6. profile' = (IF me[r].ready THEN me[r].snapshot ELSE profile)
    BY <2>1, <2>2, <2>3, <2>4, <2>5 DEF CleanProfile, RestoreFails
  <2>7. Settled(r)
    BY DEF Ends, SeqInv, OrderInv
  <2> QED
    BY <2>6, <2>7 DEF Settled, ProfileFollows
<1> QED
  BY <1>1, AlwaysVInv, AlwaysSeqInv, PTL DEF Spec, PathFollowsState

\* Only --force touches an executable that the user changed (install.sh:533-535),
\* whatever fails and wherever runs are killed.
THEOREM EditedKeptHolds == ASSUME Quiet PROVE Spec => EditedKept
<1> DEFINE Kind ==
      binary = Edited /\ binary' # Edited => \E r \in Runs : Running(r) /\ me[r].job.force
<1>1. VInv /\ VInv' /\ SeqInv /\ [Next]_vars => [Kind]_vars
  <2> SUFFICES ASSUME VInv, VInv', SeqInv, Next, binary = Edited, binary' # Edited
               PROVE  \E r \in Runs : Running(r) /\ me[r].job.force
    BY DEF Kind
  <2>1. PICK r \in Runs : Acts(r)
    BY OneActor DEF Start, install
  <2>2. OrderInv(r) /\ Running(r) /\ me[r].job.version # Edited
    BY <2>1, ActsRuns, JobVersion, VersionsAssumption DEF SeqInv, VInv, FilesInv, RunState
  <2>3. \/ me[r].pc \in {"swap", "undoSwap", "undoCommit", "rmBinary"}
        \/ me[r].pc = "cleanBinary" /\ Torn(r)
    BY <2>1
       DEF Acts, Inspect, Fetch, Decide, Replace, SetPath, Uninstall, Cleanup,
           CommandFails, Kill, MakeDir, Stage, Backup, PrepareState, Swap, UndoSwap, FlagSwap,
           Commit, UndoCommit, FlagCommit, DropRollback, Snapshot, AppendBlock, RemoveBlock,
           WriteState, UndoProfile, Forget, RemoveBinary, RemoveState, RemoveDir, CleanFiles,
           CleanBinary, CleanRollback, CleanProfile, At, install
  <2>4. state # NoState => state.hash # Edited
    BY VersionsAssumption DEF VInv, FilesInv, Verified
  <2>5. CASE me[r].pc \in {"swap", "undoSwap"}
    <3>1. Unchanged(r) /\ SeenInv(r)
      BY <2>2, <2>5 DEF OrderInv, ReplaceInv, Chosen, Placed, Replacing
    <3>2. Edited # NoFile
      BY VersionsAssumption DEF Contents
    <3> QED
      BY <2>2, <2>4, <3>1, <3>2 DEF Unchanged, SeenInv
  <2>6. CASE me[r].pc = "undoCommit"
    BY <2>2, <2>6 DEF OrderInv, ReplaceInv, Placed, Replacing
  <2>7. CASE me[r].pc = "rmBinary"
    BY <2>2, <2>4, <2>7 DEF OrderInv, ManageInv
  <2>8. CASE me[r].pc = "cleanBinary" /\ Torn(r)
    <3>1. binary \in {me[r].job.version, NoFile} /\ Edited # NoFile
      BY <2>2, <2>8, VersionsAssumption DEF OrderInv, Settled, TornInv, Cleaning, Contents
    <3> QED
      BY <2>2, <3>1
  <2> QED
    BY <2>3, <2>5, <2>6, <2>7, <2>8
<1> QED
  BY <1>1, AlwaysVInv, AlwaysSeqInv, PTL DEF Spec, EditedKept
=============================================================================
