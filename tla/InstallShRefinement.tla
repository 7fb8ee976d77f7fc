------------------------ MODULE InstallShRefinement ------------------------
(***************************************************************************)
(* Proof that runs of InstallSh that do not overlap and get no signal      *)
(* implement Installation, whatever commands fail and wherever they are    *)
(* killed.                                                                 *)
(*                                                                         *)
(* Between the rename of the executable and that of the state file the     *)
(* mapping shows the executable that the run found.  The state file then   *)
(* decides: its rename is Install and its removal Remove, and a run that   *)
(* does not come that far has to put the executable back, or is cut short. *)
(***************************************************************************)
EXTENDS InstallShSequential

\* The state file carries the hash of the release that it names.
Genuine == state # NoState => state.hash = state.version

\* What an uninstall takes away is what it found, and it takes the executable first.
Removal(r) ==
  LET b == me[r].before
  IN  /\ me[r].pc \in {"unblock", "rmBinary"} /\ me[r].job.what = "uninstall" =>
           binary = b.binary
      /\ me[r].pc = "rmState" => binary = NoFile /\ state # NoState /\ b.binary # NoFile

\* The failure that makes a run say so is the only one there may be.
Said(r) ==
  me[r].preserved =>
    /\ me[r].pc \in Over
    /\ failures <= 1 /\ me[r].pc \in Cleaning => binary = me[r].before.binary

MapInv == VInv /\ SeqInv /\ Genuine /\ \A r \in Runs : Removal(r) /\ Said(r)

-----------------------------------------------------------------------------
(* Which steps change what. *)

LEMMA StateChanges ==
  ASSUME NEW r \in Runs, Acts(r), state' # state
  PROVE  Commit(r) \/ WriteState(r) \/ RemoveState(r)
  BY DEF Acts, Inspect, Fetch, Decide, Replace, SetPath, Uninstall, Cleanup, CommandFails, Kill,
     MakeDir, Stage, Backup, PrepareState, Swap, UndoSwap, FlagSwap, UndoCommit, FlagCommit,
     DropRollback, Snapshot, AppendBlock, RemoveBlock, UndoProfile, Forget, RemoveBinary,
     RemoveDir, CleanFiles, CleanBinary, CleanRollback, CleanProfile, install

LEMMA BinaryChanges ==
  ASSUME NEW r \in Runs, Acts(r), binary' # binary
  PROVE  Swap(r) \/ UndoSwap(r) \/ UndoCommit(r) \/ RemoveBinary(r) \/ CleanBinary(r)
  BY DEF Acts, Inspect, Fetch, Decide, Replace, SetPath, Uninstall, Cleanup, CommandFails, Kill,
     MakeDir, Stage, Backup, PrepareState, FlagSwap, Commit, FlagCommit, DropRollback,
     Snapshot, AppendBlock, RemoveBlock, WriteState, UndoProfile, Forget, RemoveState,
     RemoveDir, CleanFiles, CleanRollback, CleanProfile, install

\* Run r goes to one of these positions, with what it was asked to do, what it found
\* and what it said; the other runs keep still.
Turns(r, pcs) ==
  /\ me'[r].pc \in pcs /\ me'[r].job = me[r].job /\ me'[r].before = me[r].before
  /\ \A q \in Runs \ {r} : me'[q] = me[q]

Moves(r, pcs) ==
  Turns(r, pcs) /\ me'[r].preserved = me[r].preserved /\ (Torn(r)' <=> Torn(r))

LEMMA GoesTo ==
  ASSUME VInv, NEW r \in Runs, NEW pc, Goto(r, pc)
  PROVE  Moves(r, {pc})
  BY DEF VInv, FilesInv, RunState, Goto, Moves, Turns, Torn

LEMMA ExitMoves ==
  ASSUME VInv, NEW r \in Runs, Exit(r)
  PROVE  Moves(r, {"cleanFiles"})
  BY GoesTo DEF Exit

LEMMA Wider ==
  ASSUME NEW r, NEW pcs, NEW more, Moves(r, pcs), pcs \subseteq more
  PROVE  Moves(r, more)
  BY DEF Moves, Turns

LEMMA GoingMoves ==
  ASSUME VInv, NEW r \in Runs
  PROVE  /\ Decide(r) => Moves(r, {"mkdir", "snapshot", "cleanFiles"})
         /\ MakeDir(r) => Moves(r, {"stage", "cleanFiles"})
         /\ Stage(r) => Moves(r, {"backup", "cleanFiles"})
         /\ PrepareState(r) => Moves(r, {"swap"})
         /\ Swap(r) => Moves(r, {"flagSwap", "undoSwap"})
         /\ Commit(r) => Moves(r, {"flagCommit", "undoCommit"})
         /\ RemoveBinary(r) => Moves(r, {"rmState", "cleanFiles"})
         /\ RemoveState(r) => Moves(r, {"rmDir", "cleanFiles"})
         /\ RemoveDir(r) => Moves(r, {"cleanFiles"})
         /\ CommandFails(r) => Moves(r, {"cleanFiles"})
         /\ Kill(r) => Moves(r, {"killed"})
         /\ CleanProfile(r) => Moves(r, {"ended"})
  BY GoesTo, ExitMoves
     DEF Moves, Turns, Decide, MakeDir, Stage, PrepareState, Swap, Commit, RemoveBinary,
         RemoveState, RemoveDir, CommandFails, Kill, CleanProfile

LEMMA ChangingMoves ==
  ASSUME VInv, NEW r \in Runs
  PROVE  /\ Inspect(r) => Moves(r, {"fetch", "snapshot", "unblock", "rmBinary", "cleanFiles"})
         /\ Fetch(r) => Moves(r, {"decide", "cleanFiles"})
         /\ Backup(r) => Moves(r, {"prepare", "cleanFiles"})
         /\ DropRollback(r) => Moves(r, {"snapshot", "cleanFiles"})
         /\ Snapshot(r) => Moves(r, {"block", "unblock"})
         /\ AppendBlock(r) => Moves(r, {"writeState", "cleanFiles"})
         /\ RemoveBlock(r) => Moves(r, {"rmBinary", "writeState", "cleanFiles"})
         /\ WriteState(r) => Moves(r, {"forget", "undoProfile"})
         /\ UndoProfile(r) => Moves(r, {"cleanFiles"})
         /\ Forget(r) => Moves(r, {"cleanFiles"})
         /\ CleanFiles(r) => Moves(r, {"cleanBinary", "ended"})
         /\ CleanRollback(r) => Moves(r, {"cleanProfile"})
         /\ CleanBinary(r) => Moves(r, {"cleanRollback"})
<1>1. me \in [Runs -> RunState]
  BY DEF VInv, FilesInv
<1>2. ASSUME Inspect(r)
      PROVE  Moves(r, {"fetch", "snapshot", "unblock", "rmBinary", "cleanFiles"})
  <2> DEFINE found == IF dir THEN [managed |-> TRUE, version |-> state.version,
                                   hash |-> state.hash, path |-> state.path]
                             ELSE Unseen
             seenAt(pc) == me' = [me EXCEPT ![r] = [@ EXCEPT !.seen = found, !.pc = pc]]
  <2>1. ASSUME NEW pc, seenAt(pc) PROVE Moves(r, {pc})
    <3> HIDE DEF found
    <3> QED
      BY <1>1, <2>1 DEF RunState, Moves, Turns, Torn
  <2>2. \/ Exit(r) \/ seenAt("fetch") \/ seenAt("snapshot") \/ seenAt("unblock")
        \/ seenAt("rmBinary")
    BY <1>2 DEF Inspect
  <2> HIDE DEF seenAt
  <2> QED
    <3>1. ASSUME NEW pc \in {"fetch", "snapshot", "unblock", "rmBinary", "cleanFiles"},
                 Moves(r, {pc})
          PROVE  Moves(r, {"fetch", "snapshot", "unblock", "rmBinary", "cleanFiles"})
      BY <3>1, Wider
    <3> QED
      BY <2>1, <2>2, <3>1, ExitMoves
<1>3. ASSUME Fetch(r) PROVE Moves(r, {"decide", "cleanFiles"})
  <2> DEFINE going(got) == me' = [me EXCEPT ![r] = [@ EXCEPT !.payload = got, !.pc = "decide"]]
  <2>1. ASSUME NEW got, going(got) PROVE Moves(r, {"decide"})
    BY <1>1, <2>1 DEF RunState, Moves, Turns, Torn
  <2>2. PICK got \in {me[r].job.version, Corrupt} :
          IF got = me[r].job.version THEN going(got) ELSE Exit(r)
    BY <1>3 DEF Fetch
  <2> HIDE DEF going
  <2> QED
    BY <2>1, <2>2, ExitMoves, Wider
<1>4. ASSUME Backup(r) PROVE Moves(r, {"prepare", "cleanFiles"})
  <2> DEFINE going == me' = [me EXCEPT ![r] = [@ EXCEPT !.hadOld = (binary # NoFile), !.pc = "prepare"]]
  <2>1. ASSUME going PROVE Moves(r, {"prepare"})
    BY <1>1, <2>1 DEF RunState, Moves, Turns, Torn
  <2>2. going \/ Exit(r)
    BY <1>4 DEF Backup
  <2> HIDE DEF going
  <2> QED
    BY <2>1, <2>2, GoesTo, ExitMoves, Wider
<1>5. ASSUME DropRollback(r) PROVE Moves(r, {"snapshot", "cleanFiles"})
  BY <1>1, <1>5 DEF RunState, DropRollback, Moves, Turns, Torn
<1>6. ASSUME Snapshot(r) PROVE Moves(r, {"block", "unblock"})
  BY <1>1, <1>6 DEF RunState, Snapshot, Moves, Turns, Torn
<1>7. ASSUME AppendBlock(r) PROVE Moves(r, {"writeState", "cleanFiles"})
  <2> DEFINE going == me' = [me EXCEPT ![r] = [@ EXCEPT !.seen.path = TRUE, !.pc = "writeState"]]
  <2>1. ASSUME going PROVE Moves(r, {"writeState"})
    BY <1>1, <2>1 DEF RunState, Moves, Turns, Torn
  <2>2. going \/ Exit(r)
    BY <1>7 DEF AppendBlock
  <2> HIDE DEF going
  <2> QED
    BY <2>1, <2>2, GoesTo, ExitMoves, Wider
<1>8. ASSUME RemoveBlock(r) PROVE Moves(r, {"rmBinary", "writeState", "cleanFiles"})
  <2> DEFINE next == IF me[r].job.what = "uninstall" THEN "rmBinary" ELSE "writeState"
             going == me' = [me EXCEPT ![r] = [@ EXCEPT !.seen.path = FALSE, !.pc = next]]
  <2>1. ASSUME going PROVE Moves(r, {next})
    <3> HIDE DEF next
    <3> QED
      BY <1>1, <2>1 DEF RunState, Moves, Turns, Torn
  <2>2. going \/ Goto(r, next) \/ Exit(r)
    BY <1>8 DEF RemoveBlock
  <2>3. next \in {"rmBinary", "writeState", "cleanFiles"}
    OBVIOUS
  <2> HIDE DEF going, next
  <2> QED
    BY <2>1, <2>2, <2>3, GoesTo, ExitMoves, Wider
<1>9. ASSUME WriteState(r) PROVE Moves(r, {"forget", "undoProfile"})
  <2> DEFINE going == me' = [me EXCEPT ![r] = [@ EXCEPT !.uncleaned = TRUE, !.pc = "undoProfile"]]
  <2>1. ASSUME going PROVE Moves(r, {"undoProfile"})
    BY <1>1, <2>1 DEF RunState, Moves, Turns, Torn
  <2>2. going \/ Goto(r, "forget") \/ Goto(r, "undoProfile")
    BY <1>9 DEF WriteState
  <2> HIDE DEF going
  <2> QED
    <3>1. ASSUME NEW pc \in {"forget", "undoProfile"}, Moves(r, {pc})
          PROVE  Moves(r, {"forget", "undoProfile"})
      BY <3>1, Wider
    <3> QED
      BY <2>1, <2>2, <3>1, GoesTo
<1>10. ASSUME UndoProfile(r) PROVE Moves(r, {"cleanFiles"})
  <2> DEFINE going == me' = [me EXCEPT ![r] = [@ EXCEPT !.ready = FALSE, !.pc = "cleanFiles"]]
  <2>1. ASSUME going PROVE Moves(r, {"cleanFiles"})
    BY <1>1, <2>1 DEF RunState, Moves, Turns, Torn
  <2>2. going \/ Exit(r)
    BY <1>10 DEF UndoProfile
  <2> HIDE DEF going
  <2> QED
    BY <2>1, <2>2, GoesTo, ExitMoves, Wider
<1>11. ASSUME Forget(r) PROVE Moves(r, {"cleanFiles"})
  BY <1>1, <1>11 DEF RunState, Forget, Moves, Turns, Torn
<1>12. ASSUME CleanFiles(r) PROVE Moves(r, {"cleanBinary", "ended"})
  <2> DEFINE going == me' = [me EXCEPT ![r] = [@ EXCEPT !.uncleaned = TRUE, !.pc = "ended"]]
  <2>1. ASSUME going PROVE Moves(r, {"ended"})
    BY <1>1, <2>1 DEF RunState, Moves, Turns, Torn
  <2>2. going \/ Goto(r, "cleanBinary")
    BY <1>12 DEF CleanFiles
  <2> HIDE DEF going
  <2> QED
    <3>1. ASSUME NEW pc \in {"cleanBinary", "ended"}, Moves(r, {pc})
          PROVE  Moves(r, {"cleanBinary", "ended"})
      BY <3>1, Wider
    <3> QED
      BY <2>1, <2>2, <3>1, GoesTo
<1>13. ASSUME CleanRollback(r) PROVE Moves(r, {"cleanProfile"})
  <2> DEFINE going == me' = [me EXCEPT ![r] = [@ EXCEPT !.uncleaned = TRUE, !.pc = "cleanProfile"]]
  <2>1. ASSUME going PROVE Moves(r, {"cleanProfile"})
    BY <1>1, <2>1 DEF RunState, Moves, Turns, Torn
  <2>2. going \/ Goto(r, "cleanProfile")
    BY <1>13 DEF CleanRollback
  <2> HIDE DEF going
  <2> QED
    BY <2>1, <2>2, GoesTo, ExitMoves, Wider
<1>14. ASSUME CleanBinary(r) PROVE Moves(r, {"cleanRollback"})
  <2> DEFINE going(b) ==
        me' = [me EXCEPT ![r] = [@ EXCEPT !.retained = b, !.pc = "cleanRollback"]]
  <2>1. ASSUME NEW b \in BOOLEAN, going(b) PROVE Moves(r, {"cleanRollback"})
    BY <1>1, <2>1 DEF RunState, Moves, Turns, Torn
  <2>2. going(TRUE) \/ going(FALSE)
    BY <1>14 DEF CleanBinary
  <2> HIDE DEF going
  <2> QED
    BY <2>1, <2>2
<1> QED
  BY <1>2, <1>3, <1>4, <1>5, <1>6, <1>7, <1>8, <1>9, <1>10, <1>11, <1>12, <1>13, <1>14

LEMMA UndoMoves ==
  ASSUME VInv, NEW r \in Runs
  PROVE  /\ UndoSwap(r) => Turns(r, {"cleanFiles"}) /\ (Torn(r)' <=> Torn(r))
         /\ UndoCommit(r) =>
              /\ Turns(r, {"cleanFiles"})
              /\ Moves(r, {"cleanFiles"}) \/ ~Torn(r)'
<1>1. me \in [Runs -> RunState]
  BY DEF VInv, FilesInv
<1>2. ASSUME UndoSwap(r) PROVE Turns(r, {"cleanFiles"}) /\ (Torn(r)' <=> Torn(r))
  BY <1>1, <1>2 DEF UndoSwap, RunState, Turns, Torn
<1>3. ASSUME me' = [me EXCEPT ![r] = [@ EXCEPT !.swapped = FALSE, !.preserved = TRUE,
                                               !.pc = "cleanFiles"]]
      PROVE  Turns(r, {"cleanFiles"}) /\ ~Torn(r)'
  BY <1>1, <1>3 DEF RunState, Turns, Torn
<1> QED
  BY <1>2, <1>3, ExitMoves DEF UndoCommit, Moves

LEMMA FlagMoves ==
  ASSUME VInv, NEW r \in Runs
  PROVE  /\ FlagSwap(r) => Turns(r, {"commit"}) /\ me'[r].preserved = me[r].preserved
         /\ FlagCommit(r) =>
              Turns(r, {"dropRollback"}) /\ me'[r].preserved = me[r].preserved /\ ~Torn(r)'
<1>1. me \in [Runs -> RunState]
  BY DEF VInv, FilesInv
<1>2. ASSUME FlagSwap(r)
      PROVE  Turns(r, {"commit"}) /\ me'[r].preserved = me[r].preserved
  BY <1>1, <1>2 DEF RunState, Turns, FlagSwap
<1>3. ASSUME FlagCommit(r)
      PROVE  Turns(r, {"dropRollback"}) /\ me'[r].preserved = me[r].preserved /\ ~Torn(r)'
  BY <1>1, <1>3 DEF RunState, Turns, FlagCommit, Torn
<1> QED
  BY <1>2, <1>3

\* A run keeps its job and what it found, and the other runs keep still.
LEMMA ActsAlone ==
  ASSUME VInv, NEW r \in Runs, Acts(r)
  PROVE  /\ me'[r].job = me[r].job /\ me'[r].before = me[r].before
         /\ me'[r].pc # "idle" /\ \A q \in Runs \ {r} : me'[q] = me[q]
<1>1. CASE Inspect(r) \/ Fetch(r) \/ Decide(r) \/ CommandFails(r) \/ Kill(r)
  BY <1>1, GoingMoves, ChangingMoves DEF Moves, Turns
<1>2. CASE Replace(r)
  BY <1>2, GoingMoves, ChangingMoves, UndoMoves, FlagMoves DEF Replace, Moves, Turns
<1>3. CASE SetPath(r)
  BY <1>3, ChangingMoves DEF SetPath, Moves, Turns
<1>4. CASE Uninstall(r) \/ Cleanup(r)
  BY <1>4, GoingMoves, ChangingMoves DEF Uninstall, Cleanup, Moves, Turns
<1> QED
  BY <1>1, <1>2, <1>3, <1>4 DEF Acts

\* How a run comes to the positions that Undecided names, and leaves them.
LEMMA Decisions ==
  ASSUME VInv, SeqInv, NEW r \in Runs, Acts(r)
  PROVE  /\ Undecided(r)' => Undecided(r) \/ Swap(r) \/ RemoveBinary(r)
         /\ Undecided(r) /\ Undecided(r)' => binary' = binary /\ state' = state
         /\ Undecided(r) /\ ~Undecided(r)' =>
              \/ Commit(r) \/ UndoCommit(r) \/ RemoveState(r)
              \/ (CommandFails(r) \/ Kill(r) \/ CleanFiles(r)) /\ UNCHANGED install
              \/ CleanBinary(r)
<1>1. FlagsInv(r)
  BY DEF SeqInv, OrderInv
<1>2. CASE Inspect(r) \/ Fetch(r) \/ Decide(r)
  <2>1. ~Undecided(r) /\ ~Torn(r)
    BY <1>1, <1>2 DEF Inspect, Fetch, Decide, At, Undecided, FlagsInv, Over, Cleaning
  <2>2. ~Undecided(r)'
    BY <1>2, <2>1, GoingMoves, ChangingMoves DEF Undecided, Moves, Turns
  <2> QED
    BY <2>1, <2>2
<1>3. CASE CommandFails(r) \/ Kill(r)
  <2>1. UNCHANGED install /\ (CommandFails(r) => ~Torn(r))
    BY <1>1, <1>3 DEF CommandFails, Kill, FlagsInv, Over, Cleaning
  <2>2. ~Undecided(r)'
    BY <1>3, <2>1, GoingMoves DEF Undecided, Moves, Turns
  <2> QED
    BY <1>3, <2>1, <2>2
<1>4. CASE MakeDir(r) \/ Stage(r) \/ Backup(r) \/ PrepareState(r) \/ UndoSwap(r) \/ DropRollback(r)
  <2>1. ~Undecided(r) /\ ~Torn(r)
    BY <1>1, <1>4 DEF MakeDir, Stage, Backup, PrepareState, UndoSwap, DropRollback, At,
       Undecided, FlagsInv, Over, Cleaning
  <2>2. ~Undecided(r)'
    BY <1>4, <2>1, GoingMoves, ChangingMoves, UndoMoves DEF Undecided, Moves, Turns
  <2> QED
    BY <2>1, <2>2
<1>5. CASE Swap(r)
  BY <1>5 DEF Swap, At, Undecided
<1>6. CASE FlagSwap(r)
  <2>1. me[r].pc = "flagSwap" /\ UNCHANGED install
    BY <1>6 DEF FlagSwap, At
  <2>2. me'[r].pc = "commit"
    BY <1>6, FlagMoves DEF Turns
  <2> QED
    BY <2>1, <2>2 DEF Undecided, install
<1>7. CASE Commit(r)
  <2>1. me[r].pc = "commit" /\ binary' = binary
    BY <1>7 DEF Commit, At
  <2>2. CASE state' = state
    BY <1>7, <2>1, <2>2 DEF Undecided
  <2>3. CASE Goto(r, "flagCommit")
    BY <1>7, <2>1, <2>3, GoesTo DEF Undecided, Moves, Turns
  <2> QED
    BY <1>7, <2>2, <2>3 DEF Commit
<1>8. CASE UndoCommit(r)
  <2>1. me[r].pc = "undoCommit" /\ state' = state
    BY <1>8 DEF UndoCommit, At
  <2>2. Torn(r)' /\ me'[r].pc = "cleanFiles" => binary' = binary
    <3> DEFINE undone == me' = [me EXCEPT ![r] = [@ EXCEPT !.swapped = FALSE,
                                                           !.preserved = TRUE,
                                                           !.pc = "cleanFiles"]]
    <3>1. ASSUME undone PROVE ~Torn(r)'
      BY <3>1 DEF VInv, FilesInv, RunState, Torn
    <3>2. undone \/ binary' = binary
      BY <1>8 DEF UndoCommit
    <3> HIDE DEF undone
    <3> QED
      BY <3>1, <3>2
  <2>3. me'[r].pc = "cleanFiles"
    BY <1>8, UndoMoves DEF Turns
  <2> QED
    BY <1>8, <2>1, <2>2, <2>3 DEF Undecided
<1>9. CASE FlagCommit(r)
  <2>1. me[r].pc = "flagCommit"
    BY <1>9 DEF FlagCommit, At
  <2>2. me'[r].pc = "dropRollback"
    BY <1>9, FlagMoves DEF Turns
  <2> QED
    BY <2>1, <2>2 DEF Undecided
<1>10. CASE SetPath(r)
  <2>1. ~Undecided(r) /\ ~Torn(r)
    BY <1>1, <1>10 DEF SetPath, Snapshot, AppendBlock, RemoveBlock, WriteState, UndoProfile,
       Forget, At, Undecided, FlagsInv, Over, Cleaning
  <2>2. ~Undecided(r)'
    BY <1>10, <2>1, ChangingMoves DEF SetPath, Undecided, Moves, Turns
  <2> QED
    BY <2>1, <2>2
<1>11. CASE RemoveBinary(r)
  BY <1>11 DEF RemoveBinary, At, Undecided
<1>12. CASE RemoveState(r) \/ RemoveDir(r)
  <2>1. ~Torn(r) /\ (RemoveDir(r) => ~Undecided(r))
    BY <1>1, <1>12 DEF RemoveState, RemoveDir, At, FlagsInv, Over, Cleaning, Undecided
  <2>2. ~Undecided(r)'
    BY <1>12, <2>1, GoingMoves DEF Undecided, Moves, Turns
  <2> QED
    BY <1>12, <2>1, <2>2
<1>13. CASE CleanFiles(r)
  <2>1. me[r].pc = "cleanFiles" /\ UNCHANGED install
    BY <1>13 DEF CleanFiles, At
  <2>2. me'[r].pc \in {"cleanBinary", "ended"} /\ (Torn(r)' <=> Torn(r))
    BY <1>13, ChangingMoves DEF Moves, Turns
  <2> QED
    BY <1>13, <2>1, <2>2 DEF Undecided, install
<1>14. CASE CleanBinary(r)
  BY <1>14, ChangingMoves DEF Undecided, Moves, Turns
<1>15. CASE CleanRollback(r) \/ CleanProfile(r)
  <2>1. me[r].pc \in {"cleanRollback", "cleanProfile"}
    BY <1>15 DEF CleanRollback, CleanProfile, At
  <2>2. me'[r].pc \in {"cleanProfile", "ended"}
    BY <1>15, GoingMoves, ChangingMoves DEF Moves, Turns
  <2> QED
    BY <2>1, <2>2 DEF Undecided
<1> QED
  <2>1. CASE Replace(r)
    BY <2>1, <1>4, <1>5, <1>6, <1>7, <1>8, <1>9 DEF Replace
  <2>2. CASE Uninstall(r)
    BY <2>2, <1>11, <1>12 DEF Uninstall
  <2>3. CASE Cleanup(r)
    BY <2>3, <1>13, <1>14, <1>15 DEF Cleanup
  <2> QED
    BY <1>2, <1>3, <1>10, <2>1, <2>2, <2>3 DEF Acts

-----------------------------------------------------------------------------
(* The inductive invariant. *)

LEMMA InitMapInv == Init => MapInv
<1> SUFFICES ASSUME Init PROVE MapInv
  OBVIOUS
<1>1. Genuine
  BY DEF Init, Genuine
<1>2. \A r \in Runs : Removal(r) /\ Said(r)
  BY DEF Init, Fresh, Removal, Said
<1> QED
  BY <1>1, <1>2, InitVInv, InitSeqInv DEF MapInv

LEMMA GenuineStep ==
  ASSUME MapInv, NEW r \in Runs, Acts(r)
  PROVE  Genuine'
<1>1. OrderInv(r) /\ RunInv(r)
  BY DEF MapInv, VInv, SeqInv
<1>2. CASE Commit(r)
  <2>1. temps[r].state = NewState(r) /\ me[r].payload = me[r].job.version
    BY <1>1, <1>2 DEF Commit, At, RunInv, Replacing
  <2> QED
    BY <1>2, <2>1 DEF Commit, NewState, MapInv, Genuine
<1>3. CASE WriteState(r)
  BY <1>1, <1>3 DEF WriteState, Recording, At, OrderInv, ManageInv, Managing, MapInv, Genuine
<1>4. CASE RemoveState(r)
  BY <1>4 DEF RemoveState, Genuine
<1>5. CASE state' = state
  BY <1>5 DEF MapInv, Genuine
<1> QED
  BY <1>2, <1>3, <1>4, <1>5, StateChanges

\* Where a run comes to the positions of an uninstall.
LEMMA ToRemoval ==
  ASSUME MapInv, NEW r \in Runs, Acts(r), ~Inspect(r), ~RemoveBlock(r), ~RemoveBinary(r)
  PROVE  /\ me'[r].pc \notin {"rmBinary", "rmState"}
         /\ me'[r].pc = "unblock" => me[r].job.what # "uninstall"
<1>1. VInv /\ OrderInv(r)
  BY DEF MapInv, SeqInv
<1>2. CASE Fetch(r) \/ Decide(r) \/ CommandFails(r) \/ Kill(r)
  BY <1>1, <1>2, GoingMoves, ChangingMoves DEF Moves, Turns
<1>3. CASE Replace(r)
  BY <1>1, <1>3, GoingMoves, ChangingMoves, UndoMoves, FlagMoves DEF Replace, Moves, Turns
<1>4. CASE Snapshot(r)
  <2>1. me[r].job.what # "uninstall"
    BY <1>1, <1>4 DEF Snapshot, At, OrderInv, ManageInv, Managing
  <2> QED
    BY <1>1, <1>4, <2>1, ChangingMoves DEF Moves, Turns
<1>5. CASE SetPath(r) /\ ~Snapshot(r)
  BY <1>1, <1>5, ChangingMoves DEF SetPath, Moves, Turns
<1>6. CASE Uninstall(r) \/ Cleanup(r)
  BY <1>1, <1>6, GoingMoves, ChangingMoves DEF Uninstall, Cleanup, Moves, Turns
<1> QED
  BY <1>2, <1>3, <1>4, <1>5, <1>6 DEF Acts

LEMMA RemovalStep ==
  ASSUME MapInv, SeqInv', NEW r \in Runs, Acts(r)
  PROVE  Removal(r)'
<1>1. /\ VInv /\ OrderInv(r) /\ OrderInv(r)' /\ Removal(r)
      /\ me'[r].job = me[r].job /\ me'[r].before = me[r].before
  BY ActsAlone DEF MapInv, SeqInv
<1>2. CASE Inspect(r)
  <2>1. UNCHANGED install /\ binary = me[r].before.binary
    BY <1>1, <1>2 DEF Inspect, At, OrderInv, EarlyInv, Unchanged
  <2>2. me'[r].pc # "rmState"
    BY <1>1, <1>2, ChangingMoves DEF Moves, Turns
  <2> QED
    BY <1>1, <2>1, <2>2 DEF Removal, install
<1>3. CASE RemoveBlock(r)
  <2>1. UNCHANGED install /\ me[r].pc = "unblock"
    BY <1>3 DEF RemoveBlock, At
  <2>2. me'[r].pc \in {"rmBinary", "writeState", "cleanFiles"}
    BY <1>1, <1>3, ChangingMoves DEF Moves, Turns
  <2> QED
    BY <1>1, <2>1, <2>2 DEF Removal, install
<1>4. CASE RemoveBinary(r)
  <2>1. /\ me[r].pc = "rmBinary" /\ me'[r].pc \in {"cleanFiles", "rmState"}
        /\ binary' = NoFile /\ state' = state
    BY <1>1, <1>4, GoingMoves DEF RemoveBinary, At, Moves, Turns
  <2>2. binary # NoFile /\ state # NoState /\ me[r].job.what = "uninstall"
    BY <1>1, <2>1 DEF OrderInv, ManageInv
  <2> QED
    BY <1>1, <2>1, <2>2 DEF Removal
<1>5. CASE ~Inspect(r) /\ ~RemoveBlock(r) /\ ~RemoveBinary(r)
  BY <1>1, <1>5, ToRemoval DEF Removal
<1> QED
  BY <1>2, <1>3, <1>4, <1>5

LEMMA SaidStep ==
  ASSUME MapInv, VInv', NEW r \in Runs, Acts(r)
  PROVE  Said(r)'
<1>1. /\ VInv /\ OrderInv(r) /\ Said(r) /\ failures \in Nat
      /\ failures' \in Nat /\ me'[r].before = me[r].before
  BY ActsAlone, BoundsAssumption DEF MapInv, VInv, FilesInv, SeqInv
<1>2. CASE UndoSwap(r)
  <2>1. /\ me[r].pc = "undoSwap" /\ Unchanged(r)
        /\ me[r].hadOld => temps[r].rollback = me[r].before.binary
    BY <1>1, <1>2 DEF UndoSwap, At, OrderInv, ReplaceInv, Replacing, Placed
  <2>2. binary' = binary
    BY <1>2, <2>1 DEF UndoSwap, MoveBack, Unchanged
  <2>3. me'[r].pc = "cleanFiles"
    BY <1>1, <1>2, UndoMoves DEF Turns
  <2> QED
    BY <1>1, <2>1, <2>2, <2>3 DEF Said, Unchanged, Over, Cleaning
<1>3. CASE UndoCommit(r)
  <2>1. /\ me[r].pc = "undoCommit" /\ failures >= 1
        /\ me[r].hadOld <=> me[r].before.binary # NoFile
        /\ me[r].hadOld => temps[r].rollback = me[r].before.binary
    BY <1>1, <1>3 DEF UndoCommit, At, OrderInv, FlagsInv, ReplaceInv, Replacing, Placed
  <2>2. binary' = me[r].before.binary \/ failures' >= 2
    BY <1>1, <1>3, <2>1 DEF UndoCommit, MoveBack, IOFailure
  <2>3. me'[r].pc = "cleanFiles"
    BY <1>1, <1>3, UndoMoves DEF Turns
  <2> QED
    BY <1>1, <2>1, <2>2, <2>3 DEF Said, Over, Cleaning
<1>4. CASE Cleanup(r)
  <2>1. me'[r].preserved = me[r].preserved /\ me'[r].pc \in Over
    BY <1>1, <1>4, GoingMoves, ChangingMoves DEF Cleanup, Moves, Turns, Over, Cleaning
  <2>2. me[r].pc \in Cleaning /\ (failures' = failures \/ failures' = failures + 1)
    BY <1>4
       DEF Cleanup, CleanFiles, CleanBinary, CleanRollback, CleanProfile, MoveBack,
           RestoreFails, IOFailure, At, Cleaning
  <2>3. binary' = binary \/ failures >= 2
    <3>1. Torn(r) => failures >= 2
      BY <1>1, <2>2 DEF OrderInv, Settled, TornInv
    <3>2. CASE ~Torn(r)
      BY <1>1, <1>4, <3>2 DEF Cleanup, CleanFiles, CleanBinary, CleanRollback, CleanProfile,
         install
    <3> QED
      BY <3>1, <3>2
  <2> QED
    BY <1>1, <2>1, <2>2, <2>3 DEF Said
<1>5. CASE Kill(r)
  BY <1>1, <1>5, GoingMoves DEF Moves, Turns, Said, Over, Cleaning
<1>6. CASE ~UndoSwap(r) /\ ~UndoCommit(r) /\ ~Cleanup(r) /\ ~Kill(r)
  <2>1. me[r].pc \in Working
    BY <1>6 DEF Acts, Inspect, Fetch, Decide, Replace, SetPath, Uninstall, CommandFails,
       MakeDir, Stage, Backup, PrepareState, Swap, FlagSwap, Commit, FlagCommit,
       DropRollback, Snapshot, AppendBlock, RemoveBlock, WriteState, UndoProfile, Forget,
       RemoveBinary, RemoveState, RemoveDir, At, Working
  <2>2. me'[r].preserved = me[r].preserved
    <3>1. CASE Inspect(r) \/ Fetch(r) \/ Decide(r) \/ CommandFails(r)
      BY <1>1, <3>1, GoingMoves, ChangingMoves DEF Moves
    <3>2. CASE Replace(r)
      BY <1>1, <1>6, <3>2, GoingMoves, ChangingMoves, FlagMoves DEF Replace, Moves
    <3>3. CASE SetPath(r)
      BY <1>1, <3>3, ChangingMoves DEF SetPath, Moves
    <3>4. CASE Uninstall(r)
      BY <1>1, <3>4, GoingMoves DEF Uninstall, Moves
    <3> QED
      BY <1>6, <3>1, <3>2, <3>3, <3>4 DEF Acts
  <2>3. ~me[r].preserved
    BY <1>1, <2>1 DEF Said, Over, Working, Cleaning
  <2> QED
    BY <2>2, <2>3 DEF Said
<1> QED
  BY <1>2, <1>3, <1>4, <1>5, <1>6

LEMMA NextMapInv ==
  ASSUME Quiet, MapInv, VInv', [Next]_vars
  PROVE  MapInv'
<1>1. SeqInv'
  BY NextSeqInv DEF MapInv
<1>2. CASE UNCHANGED vars
  BY <1>1, <1>2 DEF vars, install, MapInv, Genuine, Removal, Said
<1>3. ASSUME NEW r \in Runs, Acts(r) PROVE MapInv'
  <2>1. Genuine' /\ Removal(r)' /\ Said(r)'
    BY <1>1, <1>3, GenuineStep, RemovalStep, SaidStep
  <2>2. ASSUME NEW q \in Runs, q # r PROVE Removal(q)' /\ Said(q)'
    <3>1. me'[q] = me[q] /\ ~Running(q) /\ Said(q)
      BY <1>3, <2>2, ActsAlone, ActsRuns, Single DEF MapInv
    <3>2. me[q].pc \notin Working \cup Cleaning
      BY <3>1 DEF Running
    <3> QED
      BY <3>1, <3>2 DEF Removal, Said, Working, Cleaning
  <2> QED
    BY <1>1, <2>1, <2>2 DEF MapInv
<1>4. ASSUME NEW r \in Runs, Start(r) PROVE MapInv'
  <2>1. PICK j \in Jobs : me' = [me EXCEPT ![r] = Fresh("inspect", j)]
    BY <1>4 DEF Start
  <2>2. me'[r] = Fresh("inspect", j) /\ UNCHANGED <<install, failures>>
    BY <1>4, <2>1 DEF Start, MapInv, VInv, FilesInv
  <2>3. Genuine' /\ Removal(r)' /\ Said(r)'
    BY <2>2 DEF MapInv, Genuine, Removal, Said, Fresh, install
  <2>4. ASSUME NEW q \in Runs, q # r PROVE Removal(q)' /\ Said(q)'
    BY <2>1, <2>2, <2>4 DEF MapInv, Removal, Said, install
  <2> QED
    BY <1>1, <2>3, <2>4 DEF MapInv
<1> QED
  BY <1>2, <1>3, <1>4, OneActor

LEMMA AlwaysMapInv == ASSUME Quiet PROVE Spec => []MapInv
<1>1. MapInv /\ VInv' /\ [Next]_vars => MapInv'
  BY NextMapInv
<1> QED
  BY <1>1, InitMapInv, AlwaysVInv, PTL DEF Spec
-----------------------------------------------------------------------------
(* The mapping, seen from the run that acts. *)

Exe == IF \E r \in Runs : Undecided(r)
         THEN me[CHOOSE r \in Runs : Undecided(r)].before.binary
         ELSE binary
Record == IF state = NoState THEN NoFile ELSE state.version
Asked == {Wish(me[r].job) : r \in {q \in Runs : Running(q)}}

ExeOf(r) == IF Undecided(r) THEN me[r].before.binary ELSE binary

LEMMA UndecidedRuns == \A r \in Runs : Undecided(r) => Running(r)
  BY DEF Undecided, Running, Working, Cleaning

\* With one run under way, or none, this is what there is to see.
Seeing ==
  \A r \in Runs : (\A q \in Runs \ {r} : ~Running(q)) =>
    /\ Exe = ExeOf(r)
    /\ Asked = IF Running(r) THEN {Wish(me[r].job)} ELSE {}

LEMMA View == Seeing
<1> SUFFICES ASSUME NEW r \in Runs, \A q \in Runs \ {r} : ~Running(q)
             PROVE  Exe = ExeOf(r) /\ Asked = IF Running(r) THEN {Wish(me[r].job)} ELSE {}
  BY DEF Seeing
<1>1. Exe = ExeOf(r)
  <2>1. \A q \in Runs : Undecided(q) => q = r
    BY UndecidedRuns
  <2>2. CASE Undecided(r)
    <3>1. (CHOOSE q \in Runs : Undecided(q)) = r
      BY <2>1, <2>2
    <3> QED
      BY <2>2, <3>1 DEF Exe, ExeOf
  <2>3. CASE ~Undecided(r)
    BY <2>1, <2>3 DEF Exe, ExeOf
  <2> QED
    BY <2>2, <2>3
<1>2. CASE Running(r)
  <2>1. {q \in Runs : Running(q)} = {r}
    BY <1>2
  <2> QED
    BY <1>1, <1>2, <2>1 DEF Asked
<1>3. CASE ~Running(r)
  <2>1. {q \in Runs : Running(q)} = {}
    BY <1>3
  <2> QED
    BY <1>1, <1>3, <2>1 DEF Asked
<1> QED
  BY <1>2, <1>3

LEMMA Wishes == \A j \in Jobs : Wish(j) \in Promise!Wish
  BY JobsAssumption DEF Wish, Promise!Wish, Job

\* An install that has come to the swap may replace what it found, and still has not
\* decided when its trap finds it torn.
LEMMA MayReplace ==
  ASSUME MapInv, NEW r \in Runs, Undecided(r), me[r].pc # "rmState"
  PROVE  /\ Promise!MayInstall(Wish(me[r].job)) /\ state = me[r].before.state
         /\ me[r].pc \in Working => binary = me[r].job.version
         /\ me[r].pc \in Cleaning => TornInv(r)
<1> DEFINE b == me[r].before
<1>1. /\ Chosen(r) /\ state = b.state
      /\ me[r].pc \in Working => binary = me[r].job.version
      /\ me[r].pc \in Cleaning => TornInv(r)
  <2>1. CASE me[r].pc \in {"flagSwap", "commit", "undoCommit"}
    BY <2>1 DEF MapInv, SeqInv, OrderInv, ReplaceInv, Replacing, Placed, Cleaning
  <2>2. CASE me[r].pc \in {"cleanFiles", "cleanBinary"} /\ Torn(r)
    <3>1. TornInv(r)
      BY <2>2 DEF MapInv, SeqInv, OrderInv, Settled, Cleaning
    <3> QED
      BY <2>2, <3>1 DEF TornInv, Working
  <2> QED
    BY <2>1, <2>2 DEF Undecided
<1>2. ExeOf(r) = b.binary /\ \A q \in Runs \ {r} : ~Running(q)
  BY UndecidedRuns, Single DEF ExeOf, MapInv
<1>3. Exe = b.binary
  BY <1>2, View DEF Seeing
<1>4. me[r].job.what = "install" /\ SeenInv(r) /\ Allowed(r)
  BY <1>1 DEF Chosen
<1>5. CASE ~b.dir
  BY <1>1, <1>3, <1>4, <1>5 DEF SeenInv, Exe, Wish, Promise!MayInstall
<1>6. CASE b.dir
  <2>1. /\ state # NoState /\ state.hash = state.version /\ b.binary # NoFile
        /\ b.binary = state.version \/ me[r].job.force
        /\ me[r].job.version >= state.version \/ me[r].job.allowDowngrade
    BY <1>1, <1>4, <1>6 DEF SeenInv, Allowed, MapInv, Genuine
  <2>2. state.version \in Versions /\ state.version # NoFile
    BY <2>1, VersionsAssumption DEF MapInv, VInv, FilesInv, Verified, Contents
  <2> QED
    BY <1>1, <1>3, <1>4, <2>1, <2>2 DEF Exe, Wish, Promise!MayInstall
<1> QED
  BY <1>1, <1>5, <1>6

LEMMA MayTakeAway ==
  ASSUME MapInv, NEW r \in Runs, me[r].pc = "rmState"
  PROVE  Promise!MayRemove(Wish(me[r].job)) /\ binary = NoFile
<1>1. /\ me[r].job.what = "uninstall" /\ binary = NoFile /\ state # NoState
      /\ me[r].before.binary # NoFile
  BY DEF MapInv, Removal, SeqInv, OrderInv, FlagsInv
<1>2. Undecided(r) /\ \A q \in Runs \ {r} : ~Running(q)
  BY UndecidedRuns, Single DEF Undecided, MapInv
<1>3. Exe # NoFile
  BY <1>1, <1>2, View DEF Seeing, ExeOf
<1>4. state.version # NoFile
  BY <1>1, VersionsAssumption DEF MapInv, VInv, FilesInv, Verified, Contents
<1> QED
  BY <1>1, <1>3, <1>4 DEF Exe, Wish, Promise!MayRemove

LEMMA ViewNext == Seeing'
  BY View, PTL

\* A step of the one run that is under way, by what it does to that run's view.
LEMMA ViewStep ==
  ASSUME MapInv, NEW r \in Runs, Acts(r)
  PROVE  /\ Exe = ExeOf(r) /\ Asked = {Wish(me[r].job)}
         /\ Exe' = ExeOf(r)'
         /\ Asked' = IF Running(r)' THEN {Wish(me[r].job)} ELSE {}
<1>1. Running(r) /\ \A q \in Runs \ {r} : ~Running(q)
  BY ActsRuns, Single DEF MapInv
<1>2. me'[r].job = me[r].job /\ \A q \in Runs \ {r} : ~Running(q)'
  BY <1>1, ActsAlone DEF MapInv, Running
<1> QED
  BY <1>1, <1>2, View, ViewNext DEF Seeing

\* What the user does not see, and the end of a run.
LEMMA UnseenStep ==
  ASSUME MapInv, NEW r \in Runs, Acts(r), ExeOf(r)' = ExeOf(r), Record' = Record
  PROVE  \/ UNCHANGED <<Exe, Record, Asked>>
         \/ Promise!End
<1>1. CASE Running(r)'
  BY <1>1, ViewStep
<1>2. CASE ~Running(r)'
  <2>1. Exe' = Exe /\ Asked # {} /\ Asked' = {}
    BY <1>2, ViewStep
  <2> QED
    BY <2>1 DEF Promise!End, Exe, Record, Asked
<1> QED
  BY <1>1, <1>2

-----------------------------------------------------------------------------
(* The steps that the user sees. *)

LEMMA CommitSeen ==
  ASSUME MapInv, NEW r \in Runs, Acts(r), Commit(r)
  PROVE  UNCHANGED <<Exe, Record, Asked>> \/ Promise!Install
<1>1. /\ me[r].pc = "commit" /\ binary' = binary /\ me \in [Runs -> RunState]
      /\ me'[r].before = me[r].before /\ me'[r].job = me[r].job
  BY ActsAlone DEF Commit, At, MapInv, VInv, FilesInv
<1>2. Promise!MayInstall(Wish(me[r].job)) /\ binary = me[r].job.version
  BY <1>1, MayReplace DEF Undecided, Working
<1>3. CASE Goto(r, "undoCommit") /\ state' = state
  <2>1. me'[r].pc = "undoCommit"
    BY <1>1, <1>3 DEF Goto, RunState
  <2> QED
    BY <1>1, <1>3, <2>1, ViewStep DEF ExeOf, Undecided, Running, Working, Record
<1>4. CASE Goto(r, "flagCommit") /\ state' = temps[r].state
  <2>1. me'[r].pc = "flagCommit"
    BY <1>1, <1>4 DEF Goto, RunState
  <2>2. state' = NewState(r) /\ NewState(r) # NoState /\ me[r].job.version \in Versions
    BY <1>1, <1>4, NewStateTyped, JobVersion DEF MapInv, VInv, RunInv, Replacing, RunState
  <2>3. Record' = me[r].job.version
    BY <2>2 DEF Record, NewState
  <2>4. /\ Exe' = me[r].job.version /\ Asked' = Asked
        /\ Wish(me[r].job) \in Asked
    BY <1>1, <1>2, <2>1, ViewStep DEF ExeOf, Undecided, Running, Working
  <2>5. Wish(me[r].job).version = me[r].job.version
    BY DEF Wish
  <2> QED
    BY <1>2, <2>3, <2>4, <2>5 DEF Promise!Install, Exe, Record, Asked
<1> QED
  BY <1>3, <1>4 DEF Commit

LEMMA UndoCommitSeen ==
  ASSUME MapInv, NEW r \in Runs, Acts(r), UndoCommit(r)
  PROVE  UNCHANGED <<Exe, Record, Asked>> \/ Promise!CutInstall
<1>1. /\ me[r].pc = "undoCommit" /\ state' = state /\ me \in [Runs -> RunState]
      /\ me'[r].before = me[r].before
  BY ActsAlone DEF UndoCommit, At, MapInv, VInv, FilesInv
<1>2. me'[r].pc = "cleanFiles"
  <2>1. CASE me' = [me EXCEPT ![r] = [@ EXCEPT !.swapped = FALSE, !.preserved = TRUE,
                                               !.pc = "cleanFiles"]]
    BY <1>1, <2>1 DEF RunState
  <2>2. CASE Exit(r)
    BY <1>1, <2>2 DEF RunState, Exit, Goto
  <2> QED
    BY <2>1, <2>2 DEF UndoCommit
<1>3. Promise!MayInstall(Wish(me[r].job)) /\ binary = me[r].job.version
  BY <1>1, MayReplace DEF Undecided, Working
<1>4. ExeOf(r) = me[r].before.binary /\ Record' = Record /\ Running(r)'
  BY <1>1, <1>2 DEF ExeOf, Undecided, Record, Running, Cleaning
<1>5. /\ me[r].hadOld <=> me[r].before.binary # NoFile
      /\ me[r].hadOld => temps[r].rollback = me[r].before.binary
  BY <1>1 DEF MapInv, SeqInv, OrderInv, ReplaceInv, Placed, Replacing
<1>6. CASE ExeOf(r)' = me[r].before.binary
  BY <1>4, <1>6, ViewStep
<1>7. CASE ExeOf(r)' = binary
  <2>1. Exe' = me[r].job.version /\ Asked' = Asked /\ Wish(me[r].job) \in Asked
    BY <1>3, <1>4, <1>7, ViewStep
  <2>2. Wish(me[r].job).version = me[r].job.version
    BY DEF Wish
  <2> QED
    BY <1>3, <1>4, <2>1, <2>2 DEF Promise!CutInstall, Exe, Record, Asked
<1>8. binary' \in {binary, me[r].before.binary}
  BY <1>5 DEF UndoCommit, MoveBack
<1>9. ExeOf(r)' \in {me[r].before.binary, binary'}
  BY <1>1 DEF ExeOf
<1> QED
  BY <1>6, <1>7, <1>8, <1>9

LEMMA RemoveStateSeen ==
  ASSUME MapInv, NEW r \in Runs, Acts(r), RemoveState(r)
  PROVE  Promise!Remove
<1>1. /\ me[r].pc = "rmState" /\ state' = NoState /\ binary' = binary
      /\ me \in [Runs -> RunState]
  BY DEF RemoveState, At, MapInv, VInv, FilesInv
<1>2. Promise!MayRemove(Wish(me[r].job)) /\ binary = NoFile
  BY <1>1, MayTakeAway
<1>3. me'[r].pc \in {"cleanFiles", "rmDir"}
  BY <1>1 DEF RemoveState, Exit, Goto, RunState
<1>4. ~Torn(r)
  BY <1>1 DEF MapInv, SeqInv, OrderInv, FlagsInv, Over, Cleaning
<1>5. ~Torn(r)'
  BY <1>4, GoingMoves DEF MapInv, Moves
<1>6. ExeOf(r)' = NoFile /\ Running(r)'
  BY <1>1, <1>2, <1>3, <1>5 DEF ExeOf, Undecided, Running, Working, Cleaning
<1>7. Running(r) /\ Record' = NoFile
  BY <1>1 DEF Running, Working, Record
<1>8. Exe' = NoFile /\ Record' = NoFile /\ Asked' = Asked /\ Wish(me[r].job) \in Asked
  BY <1>6, <1>7, ViewStep
<1> QED
  BY <1>2, <1>8 DEF Promise!Remove, Exe, Record, Asked

LEMMA CutSeen ==
  ASSUME MapInv, NEW r \in Runs, Acts(r), Undecided(r), ~Undecided(r)', state' = state,
         binary' = binary \/ (me[r].pc \in Cleaning /\ binary' = NoFile)
  PROVE  [Promise!Next]_<<Exe, Record, Asked>>
<1>1. Record' = Record /\ Exe = me[r].before.binary /\ Exe' = binary'
  BY ViewStep DEF ExeOf, Record
<1>2. Wish(me[r].job) \in Asked /\ Asked' \in {Asked, {}} /\ Asked # {}
  BY ViewStep
<1>3. CASE me[r].pc = "rmState"
  <2>1. Promise!MayRemove(Wish(me[r].job)) /\ Exe' = NoFile
    BY <1>1, <1>3, MayTakeAway DEF Cleaning
  <2> QED
    BY <1>1, <1>2, <2>1 DEF Promise!Next, Promise!CutRemove, Exe, Record, Asked
<1>4. CASE me[r].pc # "rmState" /\ binary' = me[r].job.version
  <2>1. Promise!MayInstall(Wish(me[r].job)) /\ Exe' = Wish(me[r].job).version
    BY <1>1, <1>4, MayReplace DEF Wish
  <2> QED
    BY <1>1, <1>2, <2>1 DEF Promise!Next, Promise!CutInstall, Exe, Record, Asked
<1>5. CASE me[r].pc # "rmState" /\ binary' # me[r].job.version
  <2>1. me[r].pc \in Working \cup Cleaning
    BY UndecidedRuns DEF Running
  <2>2. TornInv(r)
    BY <1>5, <2>1, MayReplace DEF Working, Cleaning
  <2>3. binary' = NoFile /\ me[r].before.binary = NoFile
    BY <1>5, <2>2 DEF TornInv
  <2>4. Exe' = Exe
    BY <1>1, <2>3
  <2> QED
    BY <1>1, <1>2, <2>4 DEF Promise!Next, Promise!End, Exe, Record, Asked
<1> QED
  BY <1>3, <1>4, <1>5

LEMMA RecordKept ==
  ASSUME MapInv, NEW r \in Runs, Acts(r), ~Commit(r), ~RemoveState(r)
  PROVE  Record' = Record
<1>1. CASE WriteState(r)
  <2>1. state # NoState /\ me[r].seen.version = state.version
    BY <1>1 DEF WriteState, At, MapInv, SeqInv, OrderInv, ManageInv, Managing
  <2>2. CASE state' = state
    BY <2>2 DEF Record
  <2>3. CASE state' # state
    <3>1. state' = [version |-> me[r].seen.version, hash |-> me[r].seen.hash,
                    path |-> me[r].seen.path]
      BY <1>1, <2>3 DEF WriteState, Recording
    <3>2. me[r].pc = "writeState" /\ me[r].seen \in Seen
      BY <1>1 DEF WriteState, At, MapInv, VInv, FilesInv, RunState
    <3>3. state' \in States
      BY <3>1, <3>2 DEF MapInv, VInv, RunInv, Managing, Seen, States, Contents
    <3> QED
      BY <2>1, <3>1, <3>3, VersionsAssumption DEF Record
  <2> QED
    BY <2>2, <2>3
<1>2. CASE state' = state
  BY <1>2 DEF Record
<1> QED
  BY <1>1, <1>2, StateChanges

LEMMA ExeKept ==
  ASSUME MapInv, NEW r \in Runs, Acts(r), ~Commit(r), ~UndoCommit(r), ~RemoveState(r),
         Undecided(r) => Undecided(r)'
  PROVE  ExeOf(r)' = ExeOf(r)
<1>1. /\ me \in [Runs -> RunState] /\ OrderInv(r) /\ Removal(r)
      /\ me'[r].before = me[r].before
  BY ActsAlone DEF MapInv, VInv, FilesInv, SeqInv
<1>2. CASE Undecided(r)
  BY <1>1, <1>2, Decisions DEF ExeOf, MapInv
<1>3. CASE Swap(r)
  <2>1. /\ me[r].pc = "swap" /\ binary = me[r].before.binary
        /\ me'[r].pc \in {"flagSwap", "undoSwap"}
        /\ me'[r].pc = "undoSwap" => binary' = binary
    BY <1>1, <1>3
       DEF Swap, At, Goto, RunState, OrderInv, ReplaceInv, Replacing, Placed, Unchanged
  <2> QED
    BY <1>1, <2>1 DEF ExeOf, Undecided
<1>4. CASE RemoveBinary(r)
  <2>1. me[r].pc = "rmBinary" /\ binary # NoFile /\ binary = me[r].before.binary
    BY <1>1, <1>4 DEF RemoveBinary, At, OrderInv, ManageInv, Removal
  <2>2. me'[r].pc = "rmState"
    BY <1>1, <1>4, <2>1 DEF RemoveBinary, Goto, RunState
  <2> QED
    BY <1>1, <2>1, <2>2 DEF ExeOf, Undecided
<1>5. CASE ~Undecided(r) /\ ~Swap(r) /\ ~RemoveBinary(r)
  <2>1. ~Undecided(r)'
    BY <1>5, Decisions DEF MapInv
  <2>2. CASE UndoSwap(r)
    <3>1. binary = me[r].before.binary /\ (me[r].hadOld => temps[r].rollback = binary)
      BY <1>1, <2>2
         DEF UndoSwap, At, OrderInv, ReplaceInv, Replacing, Placed, Unchanged
    <3>2. binary' = binary
      BY <2>2, <3>1 DEF UndoSwap, MoveBack
    <3> QED
      BY <1>5, <2>1, <3>2 DEF ExeOf
  <2>3. CASE CleanBinary(r)
    <3>1. ~Torn(r)
      BY <1>5, <2>3 DEF CleanBinary, At, Undecided
    <3>2. binary' = binary
      BY <2>3, <3>1 DEF CleanBinary
    <3> QED
      BY <1>5, <2>1, <3>2 DEF ExeOf
  <2>4. CASE binary' = binary
    BY <1>5, <2>1, <2>4 DEF ExeOf
  <2> QED
    BY <1>5, <2>2, <2>3, <2>4, BinaryChanges
<1> QED
  BY <1>2, <1>3, <1>4, <1>5

LEMMA ActsSeen ==
  ASSUME MapInv, NEW r \in Runs, Acts(r)
  PROVE  [Promise!Next]_<<Exe, Record, Asked>>
<1>1. CASE Commit(r) \/ UndoCommit(r) \/ RemoveState(r)
  BY <1>1, CommitSeen, UndoCommitSeen, RemoveStateSeen DEF Promise!Next
<1>2. CASE /\ ~Commit(r) /\ ~UndoCommit(r) /\ ~RemoveState(r)
           /\ Undecided(r) /\ ~Undecided(r)'
  <2>1. CASE UNCHANGED install
    BY <1>2, <2>1, CutSeen DEF install
  <2>2. CASE CleanBinary(r)
    <3>1. Torn(r) /\ me[r].pc = "cleanBinary" /\ state' = state
      BY <1>2, <2>2 DEF CleanBinary, At, Undecided
    <3>2. ~me[r].hadOld
      BY <1>2, <3>1, MayReplace DEF TornInv, Cleaning
    <3>3. binary' \in {binary, NoFile}
      BY <2>2, <3>2 DEF CleanBinary
    <3> QED
      BY <1>2, <3>1, <3>3, CutSeen DEF Cleaning
  <2> QED
    BY <1>2, <2>1, <2>2, Decisions DEF MapInv
<1>3. CASE /\ ~Commit(r) /\ ~UndoCommit(r) /\ ~RemoveState(r)
           /\ Undecided(r) => Undecided(r)'
  BY <1>3, RecordKept, ExeKept, UnseenStep DEF Promise!Next
<1> QED
  BY <1>1, <1>2, <1>3

LEMMA StartSeen ==
  ASSUME Quiet, MapInv, NEW r \in Runs, Start(r)
  PROVE  Promise!Begin
<1>1. /\ \A q \in Runs : ~Running(q)
      /\ UNCHANGED install
  BY DEF Start, Quiet
<1>2. PICK j \in Jobs : me' = [me EXCEPT ![r] = Fresh("inspect", j)]
  BY DEF Start
<1>3. me'[r] = Fresh("inspect", j) /\ \A q \in Runs \ {r} : me'[q] = me[q]
  BY <1>2 DEF MapInv, VInv, FilesInv
<1>4. /\ ~Undecided(r) /\ ~Undecided(r)' /\ Running(r)' /\ me'[r].job = j
      /\ \A q \in Runs \ {r} : ~Running(q)'
  BY <1>1, <1>3, UndecidedRuns DEF Fresh, Undecided, Running, Working
<1>5. Exe = binary /\ Asked = {} /\ Exe' = binary /\ Asked' = {Wish(j)} /\ Record' = Record
  BY <1>1, <1>4, View, ViewNext DEF Seeing, ExeOf, Record, install
<1> QED
  BY <1>5, Wishes DEF Promise!Begin, Exe, Record, Asked

LEMMA InitSeen == Init => Promise!Init
<1> SUFFICES ASSUME Init PROVE Promise!Init
  OBVIOUS
<1>1. \A r \in Runs : ~Running(r) /\ ~Undecided(r)
  BY DEF Init, Fresh, Running, Working, Cleaning, Undecided
<1>2. Exe = binary /\ Asked = {}
  BY <1>1 DEF Exe, Asked
<1>3. \/ Record = NoFile /\ binary \in {NoFile, Edited}
      \/ Record \in Versions /\ binary \in {Record, Edited}
  BY VersionsAssumption DEF Init, Record, States, Contents
<1> QED
  BY <1>2, <1>3 DEF Promise!Init, Exe, Record, Asked

\* Runs that do not overlap and get no signal change the executable and its record at
\* one moment, the rename or the removal of the state file, and only as their options
\* allow, for any number of runs and releases, whatever commands fail and wherever runs
\* are killed; cut short, they leave the new executable under the old record at worst
\* (install.sh:930-1016, 898-927).
THEOREM InstallationKept == ASSUME Quiet PROVE Spec => KeepsInstallation
<1>1. MapInv /\ [Next]_vars => [Promise!Next]_<<Exe, Record, Asked>>
  <2>1. CASE UNCHANGED vars
    BY <2>1 DEF vars, install, Exe, Record, Asked, Undecided, Torn, Running
  <2>2. ASSUME MapInv, Next PROVE [Promise!Next]_<<Exe, Record, Asked>>
    BY <2>2, OneActor, ActsSeen, StartSeen DEF Promise!Next
  <2> QED
    BY <2>1, <2>2
<1> QED
  BY <1>1, InitSeen, AlwaysMapInv, PTL
     DEF Spec, KeepsInstallation, Promise!Spec, Exe, Record, Asked

\* "existing executable was preserved" (install.sh:1004 and 1014) is true of a run that
\* says so and ends, as long as one command fails at most, wherever runs are killed.
THEOREM PreservedIsTrueHolds == ASSUME Quiet, MaxFailures <= 1 PROVE Spec => PreservedIsTrue
<1>1. MapInv => [\A r \in Runs : Ends(r) /\ me[r].preserved => binary = me[r].before.binary]_vars
  <2>1. MapInv => failures <= 1
    BY BoundsAssumption DEF MapInv, VInv, FilesInv
  <2> QED
    BY <2>1 DEF MapInv, Said, Ends, At, Cleaning
<1> QED
  BY <1>1, AlwaysMapInv, PTL DEF Spec, PreservedIsTrue
=============================================================================
