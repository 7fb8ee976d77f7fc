------------------------- MODULE TransferRefinement -------------------------
(***************************************************************************)
(* Proof that Transfer implements Delivery, for any number of senders,     *)
(* files, names and permits, and of the invariants about what a manifest   *)
(* entry leaves in the output directory.                                   *)
(*                                                                         *)
(* EntryInv places every file a session wrote: at an index the session has *)
(* reached, alone under that index, and whole only after the verdict on it.*)
(* RejectInv follows a rejection from the session to the sender.           *)
(***************************************************************************)
EXTENDS TransferProofs, FiniteSetTheorems

BeforeFile == BeforeAnswer \cup {"fileWait", "mkdir", "creating"}

\* The file of session s that is under the name n.
FileOK(n, s) ==
  /\ disk[n].file <= rIdx[s]
  /\ disk[n].file = rIdx[s] => rpc[s] \notin BeforeFile
  /\ disk[n] = Whole(s, rIdx[s]) => rpc[s] \in {"verified", "ended", "cancelled"}
  /\ disk[n].kind = "partial" /\ "disk" \notin Faults =>
       \/ rpc[s] \in {"body", "cleanup"} /\ n = dest[s]
       \/ rpc[s] = "cancelled"

EntryInv ==
  /\ OneNamePerEntry
  /\ \A n \in Names, s \in Senders : disk[n].by = s => FileOK(n, s)

RejectInv ==
  \A s \in Senders : NFiles(s) > 0 =>
    /\ rpc[s] = "rejecting" => rIdx[s] <= NFiles(s)
    /\ reply[s] = "rejected" \/ spc[s] = "rejected" =>
         rpc[s] = "ended" /\ rIdx[s] <= NFiles(s) /\ ~Saved(s, rIdx[s])

RInv == IInv /\ EntryInv /\ RejectInv

-----------------------------------------------------------------------------
(* What one step may do to a session, to a sender and to the directory. *)

LEMMA SessionMove ==
  ASSUME TypeInv, [Next]_vars, NEW t \in Senders
  PROVE  \/ rpc'[t] = rpc[t] /\ rIdx'[t] = rIdx[t]
         \/ /\ rIdx'[t] = rIdx[t]
            /\ \/ rpc[t] \in SessionBusy /\ rpc'[t] = "cancelled"
               \/ rpc[t] \in SessionBusy \ {"body", "cleanup"} /\ rpc'[t] = "ended"
               \/ /\ rpc[t] \in BeforeFile
                  /\ rpc'[t] \in BeforeFile \cup {"rejecting", "body"}
                  /\ rpc'[t] = "rejecting" => rpc[t] # "none"
               \/ rpc[t] = "body" /\ rpc'[t] \in {"verified", "cleanup"}
               \/ /\ rpc[t] = "cleanup" /\ rpc'[t] = "rejecting"
                  /\ "disk" \notin Faults => disk'[dest[t]] = Free
         \/ /\ rpc[t] = "verified" /\ rIdx'[t] = rIdx[t] + 1
            /\ rpc'[t] \in {"fileWait", "closing"}
<1> DEFINE Move ==
         \/ rpc'[t] = rpc[t] /\ rIdx'[t] = rIdx[t]
         \/ /\ rIdx'[t] = rIdx[t]
            /\ \/ rpc[t] \in SessionBusy /\ rpc'[t] = "cancelled"
               \/ rpc[t] \in SessionBusy \ {"body", "cleanup"} /\ rpc'[t] = "ended"
               \/ /\ rpc[t] \in BeforeFile
                  /\ rpc'[t] \in BeforeFile \cup {"rejecting", "body"}
                  /\ rpc'[t] = "rejecting" => rpc[t] # "none"
               \/ rpc[t] = "body" /\ rpc'[t] \in {"verified", "cleanup"}
               \/ /\ rpc[t] = "cleanup" /\ rpc'[t] = "rejecting"
                  /\ "disk" \notin Faults => disk'[dest[t]] = Free
         \/ /\ rpc[t] = "verified" /\ rIdx'[t] = rIdx[t] + 1
            /\ rpc'[t] \in {"fileWait", "closing"}
<1> USE DEF TypeInv, TypeOK, BeforeFile, BeforeAnswer, SessionBusy, senderVars, sessionVars,
            consoleVars, loopVars
<1>1. CASE UNCHANGED vars \/ Interrupt \/ CloseEndpoint \/ WaitIdle \/ Exit
             \/ Terminated \/ Kill
  BY <1>1 DEF vars, Interrupt, CloseEndpoint, WaitIdle, Exit, Terminated, Kill, Active
<1>2. ASSUME NEW s \in Senders,
             Start(s) \/ Connected(s) \/ ConnectTimeout(s) \/ SendRequest(s)
               \/ ReadAcceptance(s) \/ OpenFile(s) \/ FinishBody(s)
               \/ SourceChanged(s) \/ ReadVerdict(s) \/ SenderLosesConnection(s)
               \/ SenderLosesNetwork(s) \/ SenderQuits(s)
      PROVE  Move
  BY <1>2 DEF Start, Connected, ConnectTimeout, SendRequest, ReadAcceptance,
     OpenFile, FinishBody, SourceChanged, ReadVerdict, SenderLosesConnection,
     SenderLosesNetwork, SenderQuits, SenderFails
<1>3. ASSUME NEW s \in Senders,
             Accept(s) \/ Refuse(s) \/ Cancel(s) \/ Handshake(s) \/ ReadRequest(s)
               \/ Prompt(s) \/ UserAnswers(s) \/ ConsoleFails(s)
      PROVE  Move
  <2>1. CASE Accept(s)
    BY <2>1 DEF Accept, SessionOK
  <2>2. CASE Refuse(s) \/ Cancel(s) \/ Handshake(s)
    BY <2>2 DEF Refuse, Cancel, Active, Handshake, SessionStep
  <2>3. CASE ReadRequest(s)
    BY <2>3 DEF ReadRequest, SessionStep, EndSession
  <2>4. CASE Prompt(s) \/ UserAnswers(s) \/ ConsoleFails(s)
    BY <2>4 DEF Prompt, UserAnswers, ConsoleFails, SessionStep, EndSession
  <2> QED BY <1>3, <2>1, <2>2, <2>3, <2>4
<1>4. ASSUME NEW s \in Senders,
             WriteAcceptance(s) \/ WriteRejection(s) \/ ReadHeader(s) \/ MakeParents(s)
               \/ CreateFails(s) \/ Probe(s)
      PROVE  Move
  BY <1>4 DEF WriteAcceptance, WriteRejection, ReadHeader, MakeParents, CreateFails, Probe,
     SessionStep, EndSession
<1>5. ASSUME NEW s \in Senders,
             ReceiveBody(s) \/ ReceiveBodyFails(s) \/ RemovePartial(s) \/ WriteVerdict(s)
      PROVE  Move
  BY <1>5 DEF ReceiveBody, ReceiveBodyFails, RemovePartial, WriteVerdict, SessionStep
<1>6. ASSUME NEW s \in Senders,
             PeerClosed(s) \/ ConnectionError(s) \/ Timeout(s) \/ ConnectionLost(s)
      PROVE  Move
  BY <1>6 DEF PeerClosed, ConnectionError, Timeout, ConnectionLost, EndSession, AtConnection
<1> QED
  BY <1>1, <1>2, <1>3, <1>4, <1>5, <1>6
  DEF Next, LoopProgress, Fault, SenderProgress, SessionProgress, PeerPaced

\* A rejection comes from a session that then ends, and a sender that has
\* reported stays as it is.
LEMMA ReportMove ==
  ASSUME TypeInv, [Next]_vars, NEW t \in Senders
  PROVE  /\ reply'[t] = "rejected" =>
              reply[t] = "rejected" \/ (rpc[t] = "rejecting" /\ rpc'[t] = "ended")
         /\ spc'[t] = "rejected" => spc[t] = "rejected" \/ reply[t] = "rejected"
         /\ spc[t] \in {"done", "rejected", "failed"} => spc'[t] = spc[t]
<1> DEFINE Move ==
         /\ reply'[t] = "rejected" =>
              reply[t] = "rejected" \/ (rpc[t] = "rejecting" /\ rpc'[t] = "ended")
         /\ spc'[t] = "rejected" => spc[t] = "rejected" \/ reply[t] = "rejected"
         /\ spc[t] \in {"done", "rejected", "failed"} => spc'[t] = spc[t]
<1> USE DEF TypeInv, TypeOK, senderVars, sessionVars, consoleVars, loopVars
<1>1. CASE UNCHANGED vars \/ Interrupt \/ CloseEndpoint \/ WaitIdle \/ Exit
             \/ Terminated \/ Kill
  BY <1>1 DEF vars, Interrupt, CloseEndpoint, WaitIdle, Exit, Terminated, Kill
<1>2. ASSUME NEW s \in Senders,
             Start(s) \/ Connected(s) \/ ConnectTimeout(s) \/ SendRequest(s)
               \/ ReadAcceptance(s) \/ OpenFile(s) \/ FinishBody(s) \/ SourceChanged(s)
               \/ ReadVerdict(s)
      PROVE  Move
  BY <1>2 DEF Start, Connected, ConnectTimeout, SendRequest, ReadAcceptance,
     OpenFile, FinishBody, SourceChanged, ReadVerdict, SenderStep
<1>3. ASSUME NEW s \in Senders,
             SenderLosesConnection(s) \/ SenderLosesNetwork(s) \/ SenderQuits(s)
      PROVE  Move
  BY <1>3 DEF SenderLosesConnection, SenderLosesNetwork, SenderQuits, SenderFails, SenderUp,
     SenderBusy
<1>4. ASSUME NEW s \in Senders,
             Accept(s) \/ Refuse(s) \/ Cancel(s) \/ Handshake(s) \/ ReadRequest(s)
               \/ Prompt(s) \/ UserAnswers(s) \/ ConsoleFails(s)
      PROVE  Move
  BY <1>4 DEF Accept, Refuse, Cancel, Handshake, ReadRequest, Prompt, UserAnswers, ConsoleFails
<1>5. ASSUME NEW s \in Senders,
             WriteAcceptance(s) \/ WriteRejection(s) \/ WriteVerdict(s)
      PROVE  Move
  BY <1>5 DEF WriteAcceptance, WriteRejection, WriteVerdict, Answer, EndSession
<1>6. ASSUME NEW s \in Senders,
             ReadHeader(s) \/ MakeParents(s) \/ CreateFails(s) \/ Probe(s) \/ ReceiveBody(s)
               \/ ReceiveBodyFails(s) \/ RemovePartial(s) \/ PeerClosed(s)
               \/ ConnectionError(s) \/ Timeout(s) \/ ConnectionLost(s)
      PROVE  Move
  BY <1>6 DEF ReadHeader, MakeParents, CreateFails, Probe, ReceiveBody, ReceiveBodyFails,
     RemovePartial, PeerClosed, ConnectionError, Timeout, ConnectionLost
<1> QED
  BY <1>1, <1>2, <1>3, <1>4, <1>5, <1>6
  DEF Next, LoopProgress, Fault, SenderProgress, SessionProgress, PeerPaced

\* A session gets another name only with a new file.
LEMMA DestMove ==
  ASSUME TypeOK, [Next]_vars, NEW t \in Senders, rpc[t] # "creating"
  PROVE  dest'[t] = dest[t]
<1>1. dest' = dest \/ \E s \in Senders : Probe(s)
  BY QuietSteps DEF Quiet, MakeParents, ReceiveBody, RemovePartial
<1>2. ASSUME NEW s \in Senders, Probe(s)
      PROVE  dest'[t] = dest[t]
  BY <1>2 DEF TypeOK, Probe
<1> QED BY <1>1, <1>2

\* What a step leaves under a name, and of which session.
LEMMA DiskMove ==
  ASSUME TypeInv, DiskInv, [Next]_vars, NEW n \in Names
  PROVE  \/ disk'[n] = disk[n]
         \/ disk'[n] = Dir \/ disk'[n] = Free
         \/ \E s \in Senders :
              \/ /\ rpc[s] = "creating" /\ rpc'[s] = "body" /\ rIdx' = rIdx
                 /\ n = dest'[s] /\ disk'[n] = Partial(s, rIdx[s])
              \/ /\ rpc[s] = "body" /\ rpc'[s] = "verified" /\ rIdx' = rIdx
                 /\ n = dest[s] /\ disk'[n] = Whole(s, rIdx[s])
<1> USE DEF TypeInv, TypeOK
<1>1. CASE Quiet
  BY <1>1 DEF Quiet
<1>2. ASSUME NEW s \in Senders, MakeParents(s)
      PROVE  disk'[n] = disk[n] \/ disk'[n] = Dir
  BY <1>2 DEF MakeParents
<1>3. ASSUME NEW s \in Senders, Probe(s)
      PROVE  \/ disk'[n] = disk[n]
             \/ /\ rpc[s] = "creating" /\ rpc'[s] = "body" /\ rIdx' = rIdx
                /\ n = dest'[s] /\ disk'[n] = Partial(s, rIdx[s])
  BY <1>3 DEF Probe, SessionStep
<1>4. ASSUME NEW s \in Senders, ReceiveBody(s)
      PROVE  \/ disk'[n] = disk[n]
             \/ /\ rpc[s] = "body" /\ rpc'[s] = "verified" /\ rIdx' = rIdx
                /\ n = dest[s] /\ disk'[n] = Whole(s, rIdx[s])
  BY <1>4 DEF ReceiveBody, SessionStep
<1>5. ASSUME NEW s \in Senders, RemovePartial(s)
      PROVE  disk'[n] = disk[n] \/ disk'[n] = Free
  BY <1>5 DEF RemovePartial
<1> QED BY <1>1, <1>2, <1>3, <1>4, <1>5, QuietSteps

\* A session sees a file of its own saved only by receiving the one it is at.
LEMMA SavedMove ==
  ASSUME TypeInv, DiskInv, [Next]_vars, NEW s \in Senders, NEW j
  PROVE  /\ Saved(s, j) => Saved(s, j)'
         /\ Saved(s, j)' /\ ~Saved(s, j) =>
              rpc[s] = "body" /\ rpc'[s] = "verified" /\ j = rIdx[s] /\ rIdx' = rIdx
<1> USE DEF TypeInv
<1>1. ASSUME Saved(s, j)
      PROVE  Saved(s, j)'
  <2>1. PICK n \in Names : disk[n] = Whole(s, j)
    BY <1>1 DEF Saved
  <2>2. disk'[n] = Whole(s, j)
    <3>1. Kept
      BY TypeStep, DiskStep
    <3> QED BY <2>1, <3>1, ContentDistinct DEF Kept
  <2> QED BY <2>2 DEF Saved, Whole
<1>2. ASSUME Saved(s, j)', ~Saved(s, j)
      PROVE  rpc[s] = "body" /\ rpc'[s] = "verified" /\ j = rIdx[s] /\ rIdx' = rIdx
  <2>1. PICK n \in Names : disk'[n] = Whole(s, j)
    BY <1>2 DEF Saved, Whole
  <2>2. disk[n] # Whole(s, j)
    BY <1>2 DEF Saved
  <2>3. PICK t \in Senders :
          \/ disk'[n] = Partial(t, rIdx[t])
          \/ /\ rpc[t] = "body" /\ rpc'[t] = "verified" /\ rIdx' = rIdx
             /\ disk'[n] = Whole(t, rIdx[t])
    BY <2>1, <2>2, DiskMove, ContentDistinct
  <2> QED BY <2>1, <2>3, ContentDistinct
<1> QED BY <1>1, <1>2

-----------------------------------------------------------------------------
(* The invariants. *)

LEMMA FileStep ==
  ASSUME TypeInv, DiskInv, EntryInv, [Next]_vars,
         NEW n \in Names, NEW s \in Senders, disk'[n].by = s
  PROVE  FileOK(n, s)'
<1> USE DEF TypeInv
<1>1. TypeOK' /\ DiskInv' /\ config' = config
  BY TypeStep, DiskStep, ConfigFixed
<1>2. s # NoOne /\ rIdx[s] \in Nat /\ rIdx'[s] \in Nat
      /\ disk[n].file \in Nat /\ disk'[n].file \in Nat
  BY <1>1, SendersAssumption DEF TypeOK, Content
<1>3. CASE disk'[n] = disk[n]
  <2>1. FileOK(n, s)
    BY <1>3 DEF EntryInv, FileOK
  <2>2. disk'[n].file <= rIdx'[s] /\ disk[n].file <= rIdx[s]
    BY <1>2, <1>3, <2>1, SessionMove DEF FileOK
  <2>3. disk'[n].file = rIdx'[s] =>
          /\ rIdx'[s] = rIdx[s]
          /\ rpc'[s] \notin BeforeFile
    BY <1>2, <1>3, <2>1, SessionMove DEF FileOK, BeforeFile, BeforeAnswer
  <2>4. disk'[n] = Whole(s, rIdx'[s]) => rpc'[s] \in {"verified", "ended", "cancelled"}
    <3>1. Whole(s, rIdx'[s]).file = rIdx'[s]
      BY ContentDistinct
    <3>2. disk'[n] = Whole(s, rIdx'[s]) => rpc[s] \in {"verified", "ended", "cancelled"}
                                          /\ rIdx'[s] = rIdx[s]
      BY <1>3, <2>1, <2>3, <3>1 DEF FileOK
    <3> QED BY <1>2, <3>2, SessionMove DEF BeforeFile, BeforeAnswer, SessionBusy
  <2>5. disk'[n].kind = "partial" /\ "disk" \notin Faults =>
          \/ rpc'[s] \in {"body", "cleanup"} /\ n = dest'[s]
          \/ rpc'[s] = "cancelled"
    <3> SUFFICES ASSUME disk'[n].kind = "partial", "disk" \notin Faults
                 PROVE  \/ rpc'[s] \in {"body", "cleanup"} /\ n = dest'[s]
                        \/ rpc'[s] = "cancelled"
      OBVIOUS
    <3>1. CASE rpc[s] = "cancelled"
      BY <3>1, SessionMove DEF BeforeFile, BeforeAnswer, SessionBusy
    <3>2. CASE rpc[s] \in {"body", "cleanup"} /\ n = dest[s]
      <4>1. dest'[s] = dest[s]
        BY <3>2, DestMove
      <4>2. rpc'[s] # "verified"
        BY <1>1, <3>2, <4>1, ContentDistinct DEF DiskInv
      <4>3. ~(rpc[s] = "cleanup" /\ rpc'[s] = "rejecting")
        BY <3>2, SessionMove, ContentDistinct DEF BeforeFile, BeforeAnswer, SessionBusy
      <4> QED BY <3>2, <4>1, <4>2, <4>3, SessionMove DEF BeforeFile, BeforeAnswer, SessionBusy
    <3> QED BY <1>3, <2>1, <3>1, <3>2 DEF FileOK
  <2> QED BY <1>1, <2>2, <2>3, <2>4, <2>5 DEF FileOK, Faults, Whole
<1>4. CASE disk'[n] # disk[n]
  <2>1. \/ /\ rpc'[s] = "body" /\ rIdx' = rIdx
           /\ n = dest'[s] /\ disk'[n] = Partial(s, rIdx[s])
        \/ /\ rpc'[s] = "verified" /\ rIdx' = rIdx /\ disk'[n] = Whole(s, rIdx[s])
    BY <1>2, <1>4, DiskMove, ContentDistinct
  <2> QED BY <1>2, <2>1, ContentDistinct DEF FileOK, BeforeFile, BeforeAnswer
<1> QED BY <1>3, <1>4

LEMMA EntryStep ==
  ASSUME TypeInv, DiskInv, EntryInv, [Next]_vars
  PROVE  EntryInv'
<1> USE DEF TypeInv
<1>1. TypeOK' /\ config' = config
  BY TypeStep, ConfigFixed
<1>2. \A n \in Names, s \in Senders : disk'[n].by = s => FileOK(n, s)'
  BY FileStep
<1>3. ASSUME NEW n \in Names, NEW m \in Names, disk'[n].by # NoOne,
             disk'[n].by = disk'[m].by, disk'[n].file = disk'[m].file
      PROVE  n = m
  <2>1. PICK s \in Senders : disk'[n].by = s /\ disk'[m].by = s /\ s # NoOne
    BY <1>1, <1>3 DEF TypeOK, Content
  <2> DEFINE New(k) == rpc[s] = "creating" /\ k = dest'[s] /\ disk'[k].file = rIdx[s]
             Done(k) == rpc[s] = "body" /\ k = dest[s] /\ disk'[k].file = rIdx[s]
  <2>2. ASSUME NEW k \in {n, m}
        PROVE  disk'[k] = disk[k] \/ New(k) \/ Done(k)
    BY <2>1, DiskMove, ContentDistinct
  <2>3. ASSUME NEW k \in {n, m}, Done(k)
        PROVE  disk[k].by = s /\ disk[k].file = rIdx[s]
    BY <2>3, ContentDistinct DEF DiskInv, DestinationOwned
  <2>4. ASSUME NEW k \in {n, m}, disk'[k] = disk[k]
        PROVE  disk[k].file = rIdx[s] => rpc[s] # "creating"
    BY <2>1, <2>4 DEF EntryInv, FileOK, BeforeFile
  <2>5. CASE New(n) \/ New(m)
    BY <1>3, <2>2, <2>4, <2>5
  <2>6. CASE ~New(n) /\ ~New(m)
    <3>1. \A k \in {n, m} : disk[k].by = s /\ disk[k].file = disk'[k].file
      BY <2>1, <2>2, <2>3, <2>6
    <3> QED BY <1>3, <2>1, <3>1 DEF EntryInv, OneNamePerEntry
  <2> QED BY <2>5, <2>6
<1>4. OneNamePerEntry'
  BY <1>3 DEF OneNamePerEntry
<1> QED BY <1>2, <1>4 DEF EntryInv, FileOK, Whole

LEMMA RejectStep ==
  ASSUME TypeInv, DiskInv, EntryInv, RejectInv, [Next]_vars
  PROVE  RejectInv'
<1> USE DEF TypeInv
<1> SUFFICES ASSUME NEW s \in Senders, NFiles(s)' > 0
             PROVE  /\ rpc'[s] = "rejecting" => rIdx'[s] <= NFiles(s)'
                    /\ reply'[s] = "rejected" \/ spc'[s] = "rejected" =>
                         rpc'[s] = "ended" /\ rIdx'[s] <= NFiles(s)' /\ ~Saved(s, rIdx[s])'
  BY DEF RejectInv
<1>1. NFiles(s)' = NFiles(s) /\ NFiles(s) \in Nat /\ rIdx[s] \in Nat
  BY ConfigFixed, ManifestFixed, ManifestType DEF TypeOK
<1>2. rpc[s] \in (BeforeFile \ {"none"}) \cup {"body", "cleanup", "rejecting"} =>
        rIdx[s] <= NFiles(s)
  BY <1>1 DEF SessionOK, BeforeFile, InFile, RejectInv
<1>3. rpc'[s] = "rejecting" => rIdx'[s] <= NFiles(s)'
  BY <1>1, <1>2, SessionMove DEF BeforeFile, BeforeAnswer
<1>4. ASSUME reply'[s] = "rejected" \/ spc'[s] = "rejected"
      PROVE  rpc'[s] = "ended" /\ rIdx'[s] <= NFiles(s)' /\ ~Saved(s, rIdx[s])'
  <2>1. CASE rpc[s] = "rejecting" /\ rpc'[s] = "ended"
    <3>1. rIdx'[s] = rIdx[s] /\ rIdx[s] <= NFiles(s)
      BY <1>2, <2>1, SessionMove
    <3>2. ~Saved(s, rIdx[s])
      BY <2>1, ContentDistinct DEF EntryInv, FileOK, Saved
    <3> QED BY <1>1, <2>1, <3>1, <3>2, SavedMove DEF Saved, Whole
  <2>2. CASE reply[s] = "rejected" \/ spc[s] = "rejected"
    <3>1. rpc[s] = "ended" /\ rIdx[s] <= NFiles(s) /\ ~Saved(s, rIdx[s])
      BY <1>1, <2>2 DEF RejectInv
    <3>2. rpc'[s] = "ended" /\ rIdx'[s] = rIdx[s]
      BY <3>1, SessionMove DEF BeforeFile, BeforeAnswer, SessionBusy
    <3> QED BY <1>1, <3>1, <3>2, SavedMove DEF Saved, Whole
  <2> QED BY <1>4, <2>1, <2>2, ReportMove
<1> QED BY <1>3, <1>4

LEMMA InitRInv == Init => RInv
<1> SUFFICES ASSUME Init PROVE RInv
  OBVIOUS
<1>1. \A n \in Names : disk[n] = Old \/ disk[n] = Free
  BY DEF Init
<1>2. \A n \in Names : disk[n].by = NoOne
  BY <1>1, ContentDistinct
<1>3. EntryInv
  BY <1>2, SendersAssumption DEF EntryInv, OneNamePerEntry
<1>4. RejectInv
  BY DEF Init, RejectInv
<1> QED BY <1>3, <1>4, InitIInv DEF RInv

LEMMA StepRInv == RInv /\ [Next]_vars => RInv'
  BY StepIInv, EntryStep, RejectStep DEF RInv, IInv

LEMMA RInvariant == Spec => []RInv
  BY InitRInv, StepRInv, PTL DEF Spec

-----------------------------------------------------------------------------
(* The permits, when there are finitely many senders. *)

ActiveSet == {s \in Senders : Active(s)}

\* A step that takes a permit starts a session, one that gives it back ends one.
LEMMA PermitMove ==
  ASSUME TypeInv, [Next]_vars, ~Once
  PROVE  \/ phase' = "killed"
         \/ /\ permits' = permits /\ ActiveSet' = ActiveSet /\ phase # "killed"
         \/ \E s \in Senders \ ActiveSet :
              /\ permits > 0 /\ permits' = permits - 1 /\ ActiveSet' = ActiveSet \cup {s}
              /\ phase # "killed"
         \/ \E s \in ActiveSet :
              /\ permits' = permits + 1 /\ ActiveSet' = ActiveSet \ {s} /\ phase' = phase
<1> DEFINE Start1 == \E s \in Senders \ ActiveSet :
              /\ permits > 0 /\ permits' = permits - 1 /\ ActiveSet' = ActiveSet \cup {s}
              /\ phase # "killed"
           End1 == \E s \in ActiveSet :
              /\ permits' = permits + 1 /\ ActiveSet' = ActiveSet \ {s} /\ phase' = phase
           Same == permits' = permits /\ ActiveSet' = ActiveSet
           Alive == phase' = "killed" \/ phase # "killed"
<1> USE DEF TypeInv, TypeOK, senderVars, sessionVars, consoleVars, loopVars
<1>1. CASE UNCHANGED vars \/ Interrupt \/ CloseEndpoint \/ WaitIdle \/ Exit \/ Terminated
  BY <1>1 DEF vars, Interrupt, CloseEndpoint, WaitIdle, Exit, Terminated, ActiveSet, Active
<1>2. CASE Kill
  BY <1>2 DEF Kill
<1>3. ASSUME NEW s \in Senders,
             Start(s) \/ Connected(s) \/ ConnectTimeout(s) \/ SendRequest(s)
               \/ ReadAcceptance(s) \/ OpenFile(s) \/ FinishBody(s)
               \/ SourceChanged(s) \/ ReadVerdict(s) \/ SenderLosesConnection(s)
               \/ SenderLosesNetwork(s) \/ SenderQuits(s) \/ Refuse(s)
      PROVE  Same /\ Alive
  BY <1>3 DEF Start, Connected, ConnectTimeout, SendRequest, ReadAcceptance,
     OpenFile, FinishBody, SourceChanged, ReadVerdict, SenderLosesConnection,
     SenderLosesNetwork, SenderQuits, SenderFails, Refuse, ActiveSet, Active
<1>4. ASSUME NEW s \in Senders, Accept(s)
      PROVE  Start1
  <2>1. rpc[s] = "none"
    BY <1>4 DEF Accept, SessionOK
  <2>2. rpc'[s] = "handshake" /\ \A t \in Senders \ {s} : rpc'[t] = rpc[t]
    BY <1>4 DEF Accept
  <2>3. s \notin ActiveSet /\ ActiveSet' = ActiveSet \cup {s}
    BY <2>1, <2>2 DEF ActiveSet, Active, SessionBusy
  <2> QED BY <1>4, <2>3 DEF Accept
<1>5. ASSUME NEW s \in Senders, rpc[s] \in SessionBusy,
             rpc' = [rpc EXCEPT ![s] = "ended"] \/ rpc' = [rpc EXCEPT ![s] = "cancelled"],
             permits' = permits + 1, phase' = phase
      PROVE  End1
  <2>1. rpc'[s] \in {"ended", "cancelled"} /\ \A t \in Senders \ {s} : rpc'[t] = rpc[t]
    BY <1>5
  <2>2. s \in ActiveSet /\ ActiveSet' = ActiveSet \ {s}
    BY <1>5, <2>1 DEF ActiveSet, Active, SessionBusy
  <2> QED BY <1>5, <2>2
<1>6. ASSUME NEW s \in Senders, rpc[s] \in SessionBusy, EndSession(s)
      PROVE  End1
  BY <1>5, <1>6 DEF EndSession
<1>7. ASSUME NEW s \in Senders, NEW at \in SessionBusy, rpc[s] \in SessionBusy,
             rpc' = [rpc EXCEPT ![s] = at], permits' = permits, phase' = phase
      PROVE  Same /\ phase' = phase
  <2>1. rpc'[s] = at /\ \A t \in Senders \ {s} : rpc'[t] = rpc[t]
    BY <1>7
  <2> QED BY <1>7, <2>1 DEF ActiveSet, Active
<1>8. ASSUME NEW s \in Senders,
             Cancel(s) \/ ConsoleFails(s) \/ WriteRejection(s) \/ PeerClosed(s)
               \/ ConnectionError(s) \/ Timeout(s) \/ ConnectionLost(s)
      PROVE  End1
  <2>1. CASE Cancel(s)
    BY <1>5, <2>1 DEF Cancel, Active
  <2>2. CASE ~Cancel(s)
    <3>1. rpc[s] \in SessionBusy /\ EndSession(s)
      BY <1>8, <2>2
        DEF ConsoleFails, WriteRejection, PeerClosed, ConnectionError, Timeout,
            ConnectionLost,
         AtConnection, SessionBusy
    <3> QED BY <1>6, <3>1
  <2> QED BY <2>1, <2>2
<1>9. ASSUME NEW s \in Senders,
             Handshake(s) \/ Prompt(s) \/ WriteAcceptance(s) \/ ReadHeader(s)
               \/ MakeParents(s) \/ Probe(s) \/ CreateFails(s) \/ ReceiveBody(s)
               \/ ReceiveBodyFails(s) \/ RemovePartial(s) \/ WriteVerdict(s) \/ UserAnswers(s)
      PROVE  Same /\ phase' = phase
  <2>1. permits' = permits /\ phase' = phase
    BY <1>9 DEF Handshake, Prompt, WriteAcceptance, ReadHeader, MakeParents, Probe,
       CreateFails, ReceiveBody, ReceiveBodyFails, RemovePartial, WriteVerdict, UserAnswers
  <2>2. \/ rpc' = rpc
        \/ rpc[s] \in SessionBusy /\ \E at \in SessionBusy : rpc' = [rpc EXCEPT ![s] = at]
    BY <1>9 DEF Handshake, Prompt, WriteAcceptance, ReadHeader, MakeParents, Probe,
       CreateFails, ReceiveBody, ReceiveBodyFails, RemovePartial, WriteVerdict, UserAnswers,
       SessionStep, SessionBusy
  <2> QED BY <1>7, <2>1, <2>2 DEF ActiveSet, Active
<1>10. ASSUME NEW s \in Senders, ReadRequest(s)
       PROVE  End1 \/ (Same /\ phase' = phase)
  <2>1. CASE EndSession(s)
    BY <1>6, <1>10, <2>1 DEF ReadRequest, SessionStep, SessionBusy
  <2>2. CASE ~EndSession(s)
    <3>1. /\ permits' = permits /\ phase' = phase /\ rpc[s] \in SessionBusy
          /\ \E at \in SessionBusy : rpc' = [rpc EXCEPT ![s] = at]
      BY <1>10, <2>2 DEF ReadRequest, SessionStep, SessionBusy
    <3> QED BY <1>7, <3>1
  <2> QED BY <2>1, <2>2
<1> QED
  BY <1>1, <1>2, <1>3, <1>4, <1>8, <1>9, <1>10
  DEF Next, LoopProgress, Fault, SenderProgress, SessionProgress, PeerPaced

LEMMA PermitStep ==
  ASSUME IsFiniteSet(Senders), TypeInv, PermitsAccounted, [Next]_vars
  PROVE  PermitsAccounted'
<1> SUFFICES ASSUME ~Once, phase' # "killed"
             PROVE  permits' + Cardinality(ActiveSet') = MaxActive
  BY ConfigFixed DEF PermitsAccounted, ActiveSet, Active, Once
<1>1. IsFiniteSet(ActiveSet) /\ Cardinality(ActiveSet) \in Nat
  BY FS_Subset, FS_CardinalityType DEF ActiveSet
<1>2. phase # "killed" => permits + Cardinality(ActiveSet) = MaxActive
  BY DEF PermitsAccounted, ActiveSet
<1>3. permits \in Nat /\ MaxActive \in Nat
  BY LimitsAssumption DEF TypeInv, TypeOK
<1>4. CASE permits' = permits /\ ActiveSet' = ActiveSet /\ phase # "killed"
  BY <1>2, <1>4
<1>5. ASSUME NEW s \in Senders \ ActiveSet, permits' = permits - 1, phase # "killed",
             ActiveSet' = ActiveSet \cup {s}
      PROVE  permits' + Cardinality(ActiveSet') = MaxActive
  <2>1. Cardinality(ActiveSet \cup {s}) = Cardinality(ActiveSet) + 1
    BY <1>1, <1>5, FS_AddElement
  <2> QED BY <1>1, <1>2, <1>3, <1>5, <2>1
<1>6. ASSUME NEW s \in ActiveSet, permits' = permits + 1, phase' = phase,
             ActiveSet' = ActiveSet \ {s}
      PROVE  permits' + Cardinality(ActiveSet') = MaxActive
  <2>1. Cardinality(ActiveSet \ {s}) = Cardinality(ActiveSet) - 1
    BY <1>1, <1>6, FS_RemoveElement
  <2> QED BY <1>1, <1>2, <1>3, <1>6, <2>1
<1> QED BY <1>4, <1>5, <1>6, PermitMove

LEMMA PermitInit ==
  ASSUME Init
  PROVE  PermitsAccounted
<1>1. {s \in Senders : Active(s)} = {}
  BY DEF Init, Active, SessionBusy
<1>2. Cardinality({s \in Senders : Active(s)}) = 0
  BY <1>1, FS_EmptySet
<1> QED BY <1>2, LimitsAssumption DEF Init, PermitsAccounted

-----------------------------------------------------------------------------
(* The refinement. *)

\* The receiver has saved exactly the files before the one a session is at, up to
\* the verdict on that one.
LEMMA SavedPrefix ==
  ASSUME RInv, NEW s \in Senders, rpc[s] = "body"
  PROVE  /\ rIdx[s] \in 1..NFiles(s)
         /\ SavedFiles(s) = 1..(rIdx[s] - 1)
<1>1. NFiles(s) \in Nat /\ rIdx[s] \in 1..NFiles(s)
  BY ManifestType DEF RInv, IInv, TypeInv, TypeOK, SessionOK, InFile
<1>2. ASSUME NEW j \in 1..NFiles(s), Saved(s, j)
      PROVE  j < rIdx[s]
  <2>1. PICK n \in Names : disk[n] = Whole(s, j)
    BY <1>2 DEF Saved
  <2>2. disk[n].by = s /\ disk[n].file = j
    BY <2>1, ContentDistinct
  <2>3. j <= rIdx[s] /\ j # rIdx[s]
    BY <2>1, <2>2 DEF RInv, EntryInv, FileOK
  <2> QED BY <1>1, <2>3
<1>3. \A j \in 1..(rIdx[s] - 1) : j \in 1..NFiles(s) /\ Saved(s, j)
  BY <1>1 DEF RInv, IInv, SavedInv
<1> QED BY <1>1, <1>2, <1>3 DEF SavedFiles

\* How one step changes what a sender reports: at most one sender at a time.
LEMMA OneReports ==
  ASSUME TypeInv, [Next]_vars
  PROVE  \/ spc' = spc
         \/ \E s \in Senders :
              \E to \in SenderStates : spc' = [spc EXCEPT ![s] = to] /\ disk' = disk
<1> USE DEF senderVars, sessionVars, consoleVars, loopVars
<1>1. CASE UNCHANGED vars \/ Interrupt \/ CloseEndpoint \/ WaitIdle \/ Exit
             \/ Terminated \/ Kill
  BY <1>1 DEF vars, Interrupt, CloseEndpoint, WaitIdle, Exit, Terminated, Kill
<1>2. ASSUME NEW s \in Senders,
             Start(s) \/ Connected(s) \/ ConnectTimeout(s) \/ SendRequest(s)
               \/ ReadAcceptance(s) \/ OpenFile(s) \/ FinishBody(s) \/ SourceChanged(s)
               \/ ReadVerdict(s) \/ SenderLosesConnection(s) \/ SenderLosesNetwork(s)
               \/ SenderQuits(s)
      PROVE  \E to \in SenderStates : spc' = [spc EXCEPT ![s] = to] /\ disk' = disk
  BY <1>2 DEF Start, Connected, ConnectTimeout, SendRequest, ReadAcceptance,
     OpenFile, FinishBody, SourceChanged, ReadVerdict, SenderStep, SenderLosesConnection,
     SenderLosesNetwork, SenderQuits, SenderFails, SenderStates, SenderBusy
<1>3. ASSUME NEW s \in Senders,
             Accept(s) \/ Refuse(s) \/ Cancel(s) \/ Handshake(s) \/ ReadRequest(s)
               \/ Prompt(s) \/ UserAnswers(s) \/ ConsoleFails(s) \/ WriteAcceptance(s)
               \/ WriteRejection(s) \/ WriteVerdict(s)
      PROVE  spc' = spc
  BY <1>3 DEF Accept, Refuse, Cancel, Handshake, ReadRequest, Prompt, UserAnswers,
     ConsoleFails, WriteAcceptance, WriteRejection, WriteVerdict
<1>4. ASSUME NEW s \in Senders,
             ReadHeader(s) \/ MakeParents(s) \/ CreateFails(s) \/ Probe(s) \/ ReceiveBody(s)
               \/ ReceiveBodyFails(s) \/ RemovePartial(s) \/ PeerClosed(s)
               \/ ConnectionError(s) \/ Timeout(s) \/ ConnectionLost(s)
      PROVE  spc' = spc
  BY <1>4 DEF ReadHeader, MakeParents, CreateFails, Probe, ReceiveBody, ReceiveBodyFails,
     RemovePartial, PeerClosed, ConnectionError, Timeout, ConnectionLost
<1> QED
  BY <1>1, <1>2, <1>3, <1>4
  DEF Next, LoopProgress, Fault, SenderProgress, SessionProgress, PeerPaced

\* What Delivery calls the outcome, in the state of the sender.
Outcome(s) == CASE spc[s] = "done" -> "delivered"
                [] spc[s] \in {"rejected", "failed"} -> "failed"
                [] OTHER -> "pending"

LEMMA PromiseInit == Init => Promise!Init
<1> SUFFICES ASSUME Init PROVE Promise!Init
  OBVIOUS
<1>1. TypeInv
  BY TypeInit
<1>2. \A s \in Senders : NFiles(s) \in Nat
  BY <1>1, ManifestType DEF TypeInv, TypeOK
<1>3. \A s \in Senders : SavedFiles(s) = {}
  <2>1. \A n \in Names : disk[n] = Old \/ disk[n] = Free
    BY DEF Init
  <2> QED BY <2>1, ContentDistinct DEF SavedFiles, Saved
<1>4. \A s \in Senders : spc[s] = "idle"
  BY DEF Init
<1> QED BY <1>2, <1>3, <1>4 DEF Promise!Init

\* One session at most changes what is saved.
LEMMA OneSaves ==
  ASSUME TypeInv, DiskInv, [Next]_vars
  PROVE  \/ \A t \in Senders : SavedFiles(t)' = SavedFiles(t)
         \/ \E s \in Senders :
              /\ rpc[s] = "body" /\ rIdx' = rIdx /\ spc' = spc
              /\ SavedFiles(s)' = SavedFiles(s) \cup ({rIdx[s]} \cap 1..NFiles(s))
              /\ \A t \in Senders \ {s} : SavedFiles(t)' = SavedFiles(t)
<1>1. \A t \in Senders : NFiles(t)' = NFiles(t)
  BY ConfigFixed, ManifestFixed
<1>2. ASSUME NEW t \in Senders, ~(rpc[t] = "body" /\ rpc'[t] = "verified")
      PROVE  SavedFiles(t)' = SavedFiles(t)
  <2>1. \A j : Saved(t, j)' <=> Saved(t, j)
    BY <1>2, SavedMove
  <2> QED BY <1>1, <2>1 DEF SavedFiles
<1>3. CASE Quiet
  BY <1>2, <1>3 DEF Quiet
<1>4. ASSUME NEW s \in Senders, MakeParents(s) \/ Probe(s) \/ RemovePartial(s),
             NEW t \in Senders
      PROVE  SavedFiles(t)' = SavedFiles(t)
  <2>1. ~(rpc[t] = "body" /\ rpc'[t] = "verified")
    BY <1>4 DEF TypeInv, TypeOK, MakeParents, Probe, RemovePartial, SessionStep
  <2> QED BY <1>2, <2>1
<1>5. ASSUME NEW s \in Senders, ReceiveBody(s)
      PROVE  \/ \A t \in Senders : SavedFiles(t)' = SavedFiles(t)
             \/ /\ rpc[s] = "body" /\ rIdx' = rIdx /\ spc' = spc
                /\ SavedFiles(s)' = SavedFiles(s) \cup ({rIdx[s]} \cap 1..NFiles(s))
                /\ \A t \in Senders \ {s} : SavedFiles(t)' = SavedFiles(t)
  <2>1. rpc[s] = "body" /\ rIdx' = rIdx /\ spc' = spc
    BY <1>5 DEF ReceiveBody, SessionStep, senderVars
  <2>2. \A t \in Senders \ {s} : SavedFiles(t)' = SavedFiles(t)
    <3>1. \A t \in Senders \ {s} : rpc'[t] = rpc[t]
      BY <1>5 DEF TypeInv, TypeOK, ReceiveBody, SessionStep
    <3> QED BY <1>2, <3>1
  <2>3. CASE rpc'[s] # "verified"
    BY <1>2, <2>2, <2>3
  <2>4. CASE rpc'[s] = "verified"
    <3>1. disk'[dest[s]] = Whole(s, rIdx[s]) /\ dest[s] \in Names
      BY <1>5, <2>1, <2>4 DEF TypeInv, TypeOK, ReceiveBody, SessionStep
    <3>2. Saved(s, rIdx[s])'
      BY <2>1, <3>1 DEF Saved, Whole
    <3>3. \A j : Saved(s, j)' <=> Saved(s, j) \/ j = rIdx[s]
      BY <2>1, <3>2, SavedMove DEF Saved, Whole
    <3>4. SavedFiles(s)' = SavedFiles(s) \cup ({rIdx[s]} \cap 1..NFiles(s))
      BY <1>1, <3>3 DEF SavedFiles
    <3> QED BY <2>1, <2>2, <3>4
  <2> QED BY <2>3, <2>4
<1>6. Quiet \/ \E s \in Senders :
        MakeParents(s) \/ Probe(s) \/ ReceiveBody(s) \/ RemovePartial(s)
  BY QuietSteps DEF TypeInv
<1> QED BY <1>3, <1>4, <1>5, <1>6

LEMMA PromiseStep ==
  ASSUME RInv, [Next]_vars
  PROVE  [Promise!Next]_<<[s \in Senders |-> NFiles(s)], [s \in Senders |-> SavedFiles(s)],
                          [s \in Senders |-> Outcome(s)]>>
<1> DEFINE length == [s \in Senders |-> NFiles(s)]
           saved == [s \in Senders |-> SavedFiles(s)]
           outcome == [s \in Senders |-> Outcome(s)]
<1>1. TypeInv /\ DiskInv /\ SavedInv' /\ TypeInv'
  BY StepRInv DEF RInv, IInv
<1>2. \A s \in Senders : NFiles(s)' = NFiles(s) /\ NFiles(s) \in Nat
  BY <1>1, ConfigFixed, ManifestFixed, ManifestType DEF TypeInv, TypeOK
<1>3. length' = length
  BY <1>2
<1>4. ASSUME NEW s \in Senders, NEW to, spc' = [spc EXCEPT ![s] = to], disk' = disk
      PROVE  \/ outcome' = outcome /\ saved' = saved
             \/ Promise!Deliver(s) \/ Promise!Fail(s)
  <2>1. saved' = saved
    BY <1>2, <1>4 DEF SavedFiles, Saved, Whole
  <2>2. \A t \in Senders \ {s} : Outcome(t)' = Outcome(t)
    BY <1>1, <1>4 DEF TypeInv, TypeOK, Outcome
  <2>3. outcome' = [outcome EXCEPT ![s] = Outcome(s)']
    BY <2>2
  <2>4. Outcome(s)' # Outcome(s) => Outcome(s) = "pending"
    BY <1>1, ReportMove DEF Outcome
  <2>5. Outcome(s)' \in {"pending", "delivered", "failed"}
    BY DEF Outcome
  <2>6. CASE Outcome(s)' = Outcome(s)
    BY <2>1, <2>2, <2>6
  <2>7. CASE Outcome(s)' = "delivered" /\ Outcome(s) = "pending"
    <3>1. spc'[s] = "done"
      BY <2>7 DEF Outcome
    <3>2. \A j \in 1..NFiles(s) : Saved(s, j)'
      BY <1>1, <1>2, <3>1 DEF SavedInv, TypeInv, TypeOK
    <3>3. SavedFiles(s) = 1..NFiles(s)
      BY <1>4, <3>2 DEF SavedFiles, Saved, Whole
    <3> QED BY <1>3, <2>1, <2>3, <2>7, <3>3 DEF Promise!Deliver, Outcome
  <2>8. CASE Outcome(s)' = "failed" /\ Outcome(s) = "pending"
    BY <1>3, <2>1, <2>3, <2>8 DEF Promise!Fail, Outcome
  <2> QED BY <2>4, <2>5, <2>6, <2>7, <2>8
<1>5. ASSUME NEW s \in Senders, rpc[s] = "body", rIdx' = rIdx, spc' = spc,
             SavedFiles(s)' = SavedFiles(s) \cup ({rIdx[s]} \cap 1..NFiles(s)),
             \A t \in Senders \ {s} : SavedFiles(t)' = SavedFiles(t)
      PROVE  Promise!Save(s)
  <2>1. rIdx[s] \in 1..NFiles(s) /\ SavedFiles(s) = 1..(rIdx[s] - 1)
    BY <1>5, SavedPrefix
  <2>2. SavedFiles(s)' = 1..rIdx[s]
    BY <1>2, <1>5, <2>1
  <2>3. saved' = [saved EXCEPT ![s] = 1..rIdx[s]]
    BY <1>5, <2>2
  <2>4. outcome' = outcome
    BY <1>5 DEF Outcome
  <2> QED BY <1>3, <2>1, <2>3, <2>4 DEF Promise!Save, Outcome
<1>6. CASE spc' = spc /\ \A t \in Senders : SavedFiles(t)' = SavedFiles(t)
  BY <1>3, <1>6 DEF Outcome
<1> QED BY <1>1, <1>3, <1>4, <1>5, <1>6, OneReports, OneSaves DEF Promise!Next

-----------------------------------------------------------------------------
(* The theorems. *)

\* Whatever the senders' manifests collide on, an entry is left under one name.
THEOREM OneNameHolds == Spec => []OneNamePerEntry
<1>1. RInv => OneNamePerEntry
  BY DEF RInv, EntryInv
<1> QED BY <1>1, RInvariant, PTL

\* A session that ran to its end has removed what it did not finish, unless the
\* disk fails, however many sessions ran beside it.
THEOREM NoPartialHolds == Spec => []NoPartialLeft
<1>1. RInv => NoPartialLeft
  BY DEF RInv, EntryInv, FileOK, NoPartialLeft
<1> QED BY <1>1, RInvariant, PTL

\* A sender that was told of a rejection has a file missing at the receiver.
THEOREM RejectedIsMissing == Spec => []RejectedMeansMissing
<1>1. RInv => RejectedMeansMissing
  <2> SUFFICES ASSUME RInv, NEW s \in Senders, spc[s] = "rejected", NFiles(s) > 0
               PROVE  SavedFiles(s) # 1..NFiles(s)
    BY DEF RejectedMeansMissing
  <2>1. rIdx[s] \in 1..NFiles(s) /\ ~Saved(s, rIdx[s])
    BY ManifestType DEF RInv, RejectInv, IInv, TypeInv, TypeOK
  <2> QED BY <2>1 DEF SavedFiles
<1> QED BY <1>1, RInvariant, PTL

\* A run of the protocol, seen through the mapping of Transfer, is a run of
\* Delivery: files saved in order and for good, and a report that follows them.
THEOREM PromiseKept == Spec => KeepsPromise
<1>1. RInv /\ [Next]_vars =>
        [Promise!Next]_<<[s \in Senders |-> NFiles(s)], [s \in Senders |-> SavedFiles(s)],
           [s \in Senders |-> CASE spc[s] = "done" -> "delivered"
                                [] spc[s] \in {"rejected", "failed"} -> "failed"
                                [] OTHER -> "pending"]>>
  BY PromiseStep DEF Outcome
<1> QED BY <1>1, PromiseInit, RInvariant, PTL DEF Spec, KeepsPromise, Promise!Spec

\* No path out of a session loses its permit or gives it back twice, for any finite
\* number of senders and any number of permits.
THEOREM PermitsHold ==
  ASSUME IsFiniteSet(Senders)
  PROVE  Spec => []PermitsAccounted
<1>1. RInv /\ PermitsAccounted /\ [Next]_vars => PermitsAccounted'
  BY PermitStep DEF RInv, IInv
<1> QED BY <1>1, PermitInit, RInvariant, PTL DEF Spec
=============================================================================
