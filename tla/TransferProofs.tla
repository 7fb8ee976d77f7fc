--------------------------- MODULE TransferProofs ---------------------------
(***************************************************************************)
(* Proofs about Transfer, for any number of senders, files, names and      *)
(* permits and any set of situations.                                      *)
(***************************************************************************)
EXTENDS Transfer, SequenceTheorems, TLAPS

\* A session that has not accepted its request yet.
BeforeAnswer == {"none", "handshake", "control", "lockWait", "prompting", "accepting"}
Asked == {"lockWait", "prompting", "accepting"}
\* A session at work on the file rIdx.
InFile == {"fileWait", "mkdir", "creating", "body", "cleanup", "verified"}

\* A connection is queued once.  A session only gets to a file that its (valid)
\* manifest has, and the loop of create_destination stays within its candidates.
SessionOK ==
  \A s \in Senders :
    /\ spc[s] = "idle" => s \notin pending
    /\ spc[s] = "idle" \/ s \in pending => rpc[s] = "none"
    /\ rpc[s] \in BeforeAnswer => rIdx[s] = 1
    /\ rpc[s] \in Asked \cup InFile => ValidateRequest(s)
    /\ rpc[s] \in InFile => rIdx[s] <= NFiles(s)
    /\ rpc[s] = "creating" => probe[s] <= Len(Candidate[Path(s, rIdx[s])])

TypeInv == TypeOK /\ SessionOK

LEMMA ConfigFixed == [Next]_vars => config' = config
  BY DEF Next, vars, Interrupt, LoopProgress, CloseEndpoint, WaitIdle, Exit, Accept,
     Refuse, Fault, Kill, SourceChanged, SenderLosesNetwork, SenderQuits, SenderFails,
     ConsoleFails, CreateFails, ReceiveBodyFails, Timeout, ConnectionLost, Terminated,
     Start, WithIncoming,
     SenderProgress, Connected, ConnectTimeout, SendRequest, ReadAcceptance, OpenFile,
     FinishBody, ReadVerdict, SenderLosesConnection, SessionProgress, PeerPaced, Handshake,
     ReadRequest, Prompt, WriteAcceptance, WriteRejection, ReadHeader, MakeParents,
     Probe, ReceiveBody, RemovePartial, WriteVerdict, PeerClosed, ConnectionError,
     Cancel, UserAnswers

LEMMA ManifestFixed ==
  ASSUME config' = config, NEW s \in Senders
  PROVE  /\ ValidateRequest(s)' = ValidateRequest(s)
         /\ NFiles(s)' = NFiles(s)
         /\ \A i : Path(s, i)' = Path(s, i)
  BY DEF ValidateRequest, HasDuplicate, NFiles, Path, Files, Request

LEMMA ManifestType ==
  ASSUME config \in Configs, NEW s \in Senders
  PROVE  /\ NFiles(s) \in Nat
         /\ \A i \in 1..NFiles(s) : Path(s, i) \in Paths
         /\ ValidateRequest(s) => NFiles(s) > 0
<1>1. config.request \in [Senders -> [version : Nat, files : Seq(Entry)]]
  BY SendersAssumption DEF Config
<1>2. Files(s) \in Seq(Entry)
  BY <1>1 DEF Files, Request
<1>3. NFiles(s) \in Nat /\ \A i \in 1..NFiles(s) : Files(s)[i] \in Entry
  BY <1>2 DEF NFiles
<1>4. \A i \in 1..NFiles(s) : Path(s, i) \in Paths
  BY <1>3 DEF Path, Entry
<1> QED BY <1>3, <1>4 DEF ValidateRequest

LEMMA CandidateType ==
  ASSUME NEW p \in Paths
  PROVE  /\ Candidate[p] \in Seq(Names)
         /\ Len(Candidate[p]) \in Nat /\ Len(Candidate[p]) > 0
         /\ \A i \in 1..Len(Candidate[p]) : Candidate[p][i] \in Names
  BY NamesAssumption

LEMMA ContentType ==
  /\ Free \in Content /\ Old \in Content /\ Dir \in Content
  /\ \A s \in Senders, i \in Nat : Partial(s, i) \in Content /\ Whole(s, i) \in Content
  BY DEF Content, FileKinds, Free, Old, Dir, Partial, Whole

\* SessionOK when one session goes on with its file, or gives it up.
LEMMA SessionMoves ==
  ASSUME TypeInv, config' = config, spc' = spc, pending' = pending, rIdx' = rIdx,
         NEW s \in Senders, rpc[s] \in InFile,
         NEW at \in InFile \cup {"rejecting"}, rpc' = [rpc EXCEPT ![s] = at],
         \A t \in Senders \ {s} : probe'[t] = probe[t],
         at = "creating" => probe'[s] <= Len(Candidate[Path(s, rIdx[s])])
  PROVE  SessionOK'
<1> SUFFICES ASSUME NEW t \in Senders
             PROVE  /\ spc'[t] = "idle" => t \notin pending'
                    /\ spc'[t] = "idle" \/ t \in pending' => rpc'[t] = "none"
                    /\ rpc'[t] \in BeforeAnswer => rIdx'[t] = 1
                    /\ rpc'[t] \in Asked \cup InFile => ValidateRequest(t)'
                    /\ rpc'[t] \in InFile => rIdx'[t] <= NFiles(t)'
                    /\ rpc'[t] = "creating" => probe'[t] <= Len(Candidate[Path(t, rIdx[t])'])
  BY DEF SessionOK
<1>1. /\ ValidateRequest(t)' = ValidateRequest(t)
      /\ NFiles(t)' = NFiles(t)
      /\ Path(t, rIdx[t])' = Path(t, rIdx[t])
  BY ManifestFixed
<1>2. CASE t # s
  <2>1. rpc'[t] = rpc[t] /\ probe'[t] = probe[t]
    BY <1>2 DEF TypeInv, TypeOK
  <2> QED BY <1>1, <2>1 DEF TypeInv, SessionOK
<1>3. CASE t = s
  <2>1. rpc'[s] = at
    BY DEF TypeInv, TypeOK
  <2> QED BY <1>1, <1>3, <2>1 DEF TypeInv, SessionOK, InFile, BeforeAnswer, Asked
<1> QED BY <1>2, <1>3

LEMMA TypeInit == Init => TypeInv
  BY NamesAssumption, LimitsAssumption, SendersAssumption
  DEF Init, TypeInv, TypeOK, SessionOK, SenderStates, SessionStates, Content, Free,
      Old, FileKinds, BeforeAnswer, Asked, InFile

LEMMA TypeStep ==
  ASSUME TypeInv, [Next]_vars
  PROVE  TypeInv'
<1> USE DEF TypeInv
<1>1. config' = config
  BY ConfigFixed
<1>2. \A s \in Senders :
        /\ ValidateRequest(s)' = ValidateRequest(s)
        /\ NFiles(s)' = NFiles(s)
        /\ \A i : Path(s, i)' = Path(s, i)
  BY <1>1, ManifestFixed
<1>3. \A s \in Senders :
        /\ NFiles(s) \in Nat
        /\ \A i \in 1..NFiles(s) : Path(s, i) \in Paths
        /\ ValidateRequest(s) => NFiles(s) > 0
  BY ManifestType DEF TypeOK
<1>4. CASE UNCHANGED vars
  BY <1>2, <1>4 DEF TypeOK, SessionOK, vars, senderVars, sessionVars, consoleVars, loopVars
<1> USE DEF senderVars, sessionVars, consoleVars, loopVars
<1>5. CASE Interrupt \/ CloseEndpoint \/ WaitIdle \/ Exit \/ Terminated
  BY <1>2, <1>5
    DEF TypeOK, SessionOK, Interrupt, CloseEndpoint, WaitIdle, Exit, Terminated, vars
<1>6. CASE Kill
  <2>1. TypeOK'
    BY <1>1, <1>6 DEF TypeOK, Kill, SessionStates
  <2>2. SessionOK'
    BY <1>2, <1>3, <1>6
      DEF TypeOK, SessionOK, BeforeAnswer, Asked, InFile, Kill, Active, SessionBusy
  <2> QED BY <2>1, <2>2
<1>7. ASSUME NEW s \in Senders, Start(s)
      PROVE  TypeInv'
  <2>1. TypeOK'
    BY <1>1, <1>7 DEF TypeOK, Start, WithIncoming, SenderStep, Write, SenderStates, SenderBusy
  <2>2. SessionOK'
    BY <1>2, <1>3, <1>7
      DEF TypeOK, SessionOK, BeforeAnswer, Asked, InFile, Start, WithIncoming, SenderStep
  <2> QED BY <2>1, <2>2
<1>8. ASSUME NEW s \in Senders, Connected(s)
      PROVE  TypeInv'
  <2>1. TypeOK'
    BY <1>1, <1>8 DEF TypeOK, Connected, SenderStep, Write, SenderStates, SenderBusy
  <2>2. SessionOK'
    BY <1>2, <1>3, <1>8
      DEF TypeOK, SessionOK, BeforeAnswer, Asked, InFile, Connected, SenderStep
  <2> QED BY <2>1, <2>2
<1>9. ASSUME NEW s \in Senders, ConnectTimeout(s)
      PROVE  TypeInv'
  <2>1. TypeOK'
    BY <1>1, <1>9 DEF TypeOK, ConnectTimeout, SenderStep, Write, SenderStates, SenderBusy
  <2>2. SessionOK'
    BY <1>2, <1>3, <1>9
      DEF TypeOK, SessionOK, BeforeAnswer, Asked, InFile, ConnectTimeout, SenderStep
  <2> QED BY <2>1, <2>2
<1>10. ASSUME NEW s \in Senders, SendRequest(s)
      PROVE  TypeInv'
  <2>1. TypeOK'
    <3>1. written' = written \/ written' = [written EXCEPT ![s] = @ + 1]
      BY <1>10 DEF SendRequest, Write
    <3>2. \E to \in SenderStates : spc' = [spc EXCEPT ![s] = to]
      BY <1>10 DEF SendRequest, SenderStep, SenderStates, SenderBusy
    <3>3. written' \in [Senders -> Nat] /\ spc' \in [Senders -> SenderStates]
      BY <3>1, <3>2 DEF TypeOK
    <3> QED BY <1>1, <1>10, <3>3 DEF TypeOK, SendRequest
  <2>2. SessionOK'
    BY <1>2, <1>3, <1>10
      DEF TypeOK, SessionOK, BeforeAnswer, Asked, InFile, SendRequest, SenderStep
  <2> QED BY <2>1, <2>2
<1>11. ASSUME NEW s \in Senders, ReadAcceptance(s)
      PROVE  TypeInv'
  <2>1. TypeOK'
    BY <1>1, <1>11 DEF TypeOK, ReadAcceptance, SenderStep, Write, SenderStates, SenderBusy
  <2>2. SessionOK'
    BY <1>2, <1>3, <1>11
      DEF TypeOK, SessionOK, BeforeAnswer, Asked, InFile, ReadAcceptance, SenderStep
  <2> QED BY <2>1, <2>2
<1>12. ASSUME NEW s \in Senders, OpenFile(s)
      PROVE  TypeInv'
  <2>1. TypeOK'
    BY <1>1, <1>12 DEF TypeOK, OpenFile, SenderStep, Write, SenderStates, SenderBusy
  <2>2. SessionOK'
    BY <1>2, <1>3, <1>12
      DEF TypeOK, SessionOK, BeforeAnswer, Asked, InFile, OpenFile, SenderStep
  <2> QED BY <2>1, <2>2
<1>13. ASSUME NEW s \in Senders, FinishBody(s)
      PROVE  TypeInv'
  <2>1. TypeOK'
    BY <1>1, <1>13 DEF TypeOK, FinishBody, SenderStep, Write, SenderStates, SenderBusy
  <2>2. SessionOK'
    BY <1>2, <1>3, <1>13
      DEF TypeOK, SessionOK, BeforeAnswer, Asked, InFile, FinishBody, SenderStep
  <2> QED BY <2>1, <2>2
<1>14. ASSUME NEW s \in Senders, SourceChanged(s)
      PROVE  TypeInv'
  <2>1. TypeOK'
    BY <1>1, <1>14 DEF TypeOK, SourceChanged, SenderStep, Write, SenderStates, SenderBusy
  <2>2. SessionOK'
    BY <1>2, <1>3, <1>14
      DEF TypeOK, SessionOK, BeforeAnswer, Asked, InFile, SourceChanged, SenderStep
  <2> QED BY <2>1, <2>2
<1>15. ASSUME NEW s \in Senders, ReadVerdict(s)
      PROVE  TypeInv'
  <2>1. TypeOK'
    BY <1>1, <1>15 DEF TypeOK, ReadVerdict, SenderStep, Write, SenderStates, SenderBusy
  <2>2. SessionOK'
    BY <1>2, <1>3, <1>15
      DEF TypeOK, SessionOK, BeforeAnswer, Asked, InFile, ReadVerdict, SenderStep
  <2> QED BY <2>1, <2>2
<1>16. ASSUME NEW s \in Senders, SenderLosesConnection(s)
      PROVE  TypeInv'
  <2>1. TypeOK'
    BY <1>1, <1>16 DEF TypeOK, SenderLosesConnection, SenderFails, SenderStates, SenderBusy
  <2>2. SessionOK'
    BY <1>2, <1>3, <1>16
      DEF TypeOK, SessionOK, BeforeAnswer, Asked, InFile, SenderLosesConnection, SenderFails
  <2> QED BY <2>1, <2>2
<1>17. ASSUME NEW s \in Senders, SenderLosesNetwork(s)
      PROVE  TypeInv'
  <2>1. TypeOK'
    BY <1>1, <1>17 DEF TypeOK, SenderLosesNetwork, SenderFails, SenderStates, SenderBusy
  <2>2. SessionOK'
    BY <1>2, <1>3, <1>17
      DEF TypeOK, SessionOK, BeforeAnswer, Asked, InFile, SenderLosesNetwork, SenderFails
  <2> QED BY <2>1, <2>2
<1>18. ASSUME NEW s \in Senders, SenderQuits(s)
      PROVE  TypeInv'
  <2>1. TypeOK'
    BY <1>1, <1>18 DEF TypeOK, SenderQuits, SenderFails, SenderStates, SenderBusy
  <2>2. SessionOK'
    BY <1>2, <1>3, <1>18
      DEF TypeOK, SessionOK, BeforeAnswer, Asked, InFile, SenderQuits, SenderFails
  <2> QED BY <2>1, <2>2
<1>19. ASSUME NEW s \in Senders, Accept(s)
      PROVE  TypeInv'
  <2>1. TypeOK'
    BY <1>1, <1>19 DEF TypeOK, Accept, SessionStates, SessionBusy, Active
  <2>2. SessionOK'
    BY <1>2, <1>3, <1>19
      DEF TypeOK, SessionOK, BeforeAnswer, Asked, InFile, Accept, Active, SessionBusy
  <2> QED BY <2>1, <2>2
<1>20. ASSUME NEW s \in Senders, Refuse(s)
      PROVE  TypeInv'
  <2>1. TypeOK'
    BY <1>1, <1>20 DEF TypeOK, Refuse, SessionStates, SessionBusy, Active
  <2>2. SessionOK'
    BY <1>2, <1>3, <1>20
      DEF TypeOK, SessionOK, BeforeAnswer, Asked, InFile, Refuse, Active, SessionBusy
  <2> QED BY <2>1, <2>2
<1>21. ASSUME NEW s \in Senders, Cancel(s)
      PROVE  TypeInv'
  <2>1. TypeOK'
    BY <1>1, <1>21 DEF TypeOK, Cancel, SessionStates, SessionBusy, Active
  <2>2. SessionOK'
    BY <1>2, <1>3, <1>21
      DEF TypeOK, SessionOK, BeforeAnswer, Asked, InFile, Cancel, Active, SessionBusy
  <2> QED BY <2>1, <2>2
<1>22. ASSUME NEW s \in Senders, Handshake(s)
      PROVE  TypeInv'
  <2>1. TypeOK'
    BY <1>1, <1>22
      DEF TypeOK, Handshake, SessionStep, EndSession, Answer, SessionStates, SessionBusy
  <2>2. SessionOK'
    BY <1>2, <1>3, <1>22
      DEF TypeOK, SessionOK, BeforeAnswer, Asked, InFile, Handshake, SessionStep, EndSession
  <2> QED BY <2>1, <2>2
<1>23. ASSUME NEW s \in Senders, ReadRequest(s)
      PROVE  TypeInv'
  <2>1. TypeOK'
    <3>1. rpc' \in [Senders -> SessionStates]
      BY <1>23 DEF TypeOK, ReadRequest, SessionStep, EndSession, SessionStates, SessionBusy
    <3>2. queue' \in Seq(Senders)
      <4>1. queue' = queue \/ queue' = Append(queue, s)
        BY <1>23 DEF ReadRequest
      <4>2. queue \in Seq(Senders)
        BY DEF TypeOK
      <4>3. Append(queue, s) \in Seq(Senders)
        BY <4>2, AppendProperties
      <4> QED BY <4>1, <4>2, <4>3
    <3>3. phase' = phase \/ phase' = "stopping"
      BY <1>23 DEF ReadRequest, EndSession
    <3>4. permits' \in {permits, permits + 1}
      BY <1>23 DEF ReadRequest, EndSession
    <3>5. pending' = pending
      BY <1>23 DEF ReadRequest, EndSession
    <3> QED
      BY <1>1, <1>23, <3>1, <3>2, <3>3, <3>4, <3>5 DEF TypeOK, ReadRequest
  <2>2. SessionOK'
    BY <1>2, <1>3, <1>23
      DEF TypeOK, SessionOK, BeforeAnswer, Asked, InFile, ReadRequest, SessionStep,
          EndSession
  <2> QED BY <2>1, <2>2
<1>24. ASSUME NEW s \in Senders, Prompt(s)
      PROVE  TypeInv'
  <2>1. TypeOK'
    BY <1>1, <1>24
      DEF TypeOK, Prompt, SessionStep, EndSession, Answer, SessionStates, SessionBusy
  <2>2. SessionOK'
    BY <1>2, <1>3, <1>24
      DEF TypeOK, SessionOK, BeforeAnswer, Asked, InFile, Prompt, SessionStep, EndSession
  <2> QED BY <2>1, <2>2
<1>25. ASSUME NEW s \in Senders, UserAnswers(s)
      PROVE  TypeInv'
  <2>1. TypeOK'
    BY <1>1, <1>25
      DEF TypeOK, UserAnswers, SessionStep, EndSession, Answer, SessionStates, SessionBusy
  <2>2. SessionOK'
    BY <1>2, <1>3, <1>25
      DEF TypeOK, SessionOK, BeforeAnswer, Asked, InFile, UserAnswers, SessionStep,
          EndSession
  <2> QED BY <2>1, <2>2
<1>26. ASSUME NEW s \in Senders, ConsoleFails(s)
      PROVE  TypeInv'
  <2>1. TypeOK'
    BY <1>1, <1>26
      DEF TypeOK, ConsoleFails, SessionStep, EndSession, Answer, SessionStates, SessionBusy
  <2>2. SessionOK'
    BY <1>2, <1>3, <1>26
      DEF TypeOK, SessionOK, BeforeAnswer, Asked, InFile, ConsoleFails, SessionStep,
          EndSession
  <2> QED BY <2>1, <2>2
<1>27. ASSUME NEW s \in Senders, WriteAcceptance(s)
      PROVE  TypeInv'
  <2>1. TypeOK'
    BY <1>1, <1>27
      DEF TypeOK, WriteAcceptance, SessionStep, EndSession, Answer, SessionStates,
          SessionBusy
  <2>2. SessionOK'
    BY <1>2, <1>3, <1>27
      DEF TypeOK, SessionOK, BeforeAnswer, Asked, InFile, WriteAcceptance, SessionStep,
          EndSession
  <2> QED BY <2>1, <2>2
<1>28. ASSUME NEW s \in Senders, WriteRejection(s)
      PROVE  TypeInv'
  <2>1. TypeOK'
    <3>1. rpc' \in [Senders -> SessionStates]
      BY <1>28 DEF TypeOK, WriteRejection, EndSession, SessionStates
    <3>2. reply' \in [Senders -> {"none", "accepted", "rejected"}]
      BY <1>28 DEF TypeOK, WriteRejection, Answer
    <3>3. /\ phase' \in {phase, "stopping"}
          /\ permits' \in {permits, permits + 1}
          /\ pending' = pending
      BY <1>28 DEF WriteRejection, EndSession
    <3> QED
      BY <1>1, <1>28, <3>1, <3>2, <3>3 DEF TypeOK, WriteRejection
  <2>2. SessionOK'
    BY <1>2, <1>3, <1>28
      DEF TypeOK, SessionOK, BeforeAnswer, Asked, InFile, WriteRejection, SessionStep,
          EndSession
  <2> QED BY <2>1, <2>2
<1>29. ASSUME NEW s \in Senders, ReadHeader(s)
      PROVE  TypeInv'
  <2>1. TypeOK'
    BY <1>1, <1>29 DEF TypeOK, ReadHeader, SessionStep, SessionStates, SessionBusy
  <2>2. SessionOK'
    BY <1>2, <1>3, <1>29
      DEF TypeOK, SessionOK, BeforeAnswer, Asked, InFile, ReadHeader, SessionStep
  <2> QED BY <2>1, <2>2
<1>30. ASSUME NEW s \in Senders, MakeParents(s)
      PROVE  TypeInv'
  <2>1. TypeOK'
    <3>1. rpc' \in [Senders -> SessionStates]
      BY <1>30 DEF TypeOK, MakeParents, SessionStep, SessionStates, SessionBusy
    <3>2. probe' \in [Senders -> Nat \ {0}]
      BY <1>30 DEF TypeOK, MakeParents
    <3>3. disk' \in [Names -> Content]
      BY <1>30, ContentType DEF TypeOK, MakeParents
    <3> QED
      BY <1>1, <1>30, <3>1, <3>2, <3>3 DEF TypeOK, MakeParents
  <2>2. SessionOK'
    BY <1>2, <1>3, <1>30, CandidateType
      DEF TypeOK, SessionOK, BeforeAnswer, Asked, InFile, MakeParents, SessionStep
  <2> QED BY <2>1, <2>2
<1>31. ASSUME NEW s \in Senders, CreateFails(s)
      PROVE  TypeInv'
  <2>1. TypeOK'
    BY <1>1, <1>31 DEF TypeOK, CreateFails, SessionStep, SessionStates, SessionBusy
  <2>2. SessionOK'
    <3>1. /\ spc' = spc /\ pending' = pending /\ rIdx' = rIdx /\ probe' = probe
          /\ rpc[s] \in InFile /\ rpc' = [rpc EXCEPT ![s] = "rejecting"]
      BY <1>31 DEF CreateFails, SessionStep, InFile
    <3> QED BY <1>1, <3>1, SessionMoves
  <2> QED BY <2>1, <2>2
<1>32. ASSUME NEW s \in Senders, ReceiveBody(s)
      PROVE  TypeInv'
  <2>1. TypeOK'
    <3>1. rpc' \in [Senders -> SessionStates]
      BY <1>32 DEF TypeOK, ReceiveBody, SessionStep, SessionStates, SessionBusy
    <3>2. disk' \in [Names -> Content]
      BY <1>32, ContentType DEF TypeOK, ReceiveBody
    <3> QED
      BY <1>1, <1>32, <3>1, <3>2 DEF TypeOK, ReceiveBody
  <2>2. SessionOK'
    BY <1>2, <1>3, <1>32
      DEF TypeOK, SessionOK, BeforeAnswer, Asked, InFile, ReceiveBody, SessionStep
  <2> QED BY <2>1, <2>2
<1>33. ASSUME NEW s \in Senders, ReceiveBodyFails(s)
      PROVE  TypeInv'
  <2>1. TypeOK'
    BY <1>1, <1>33 DEF TypeOK, ReceiveBodyFails, SessionStep, SessionStates, SessionBusy
  <2>2. SessionOK'
    BY <1>2, <1>3, <1>33
      DEF TypeOK, SessionOK, BeforeAnswer, Asked, InFile, ReceiveBodyFails, SessionStep
  <2> QED BY <2>1, <2>2
<1>34. ASSUME NEW s \in Senders, RemovePartial(s)
      PROVE  TypeInv'
  <2>1. TypeOK'
    BY <1>1, <1>34, ContentType
      DEF TypeOK, RemovePartial, SessionStep, SessionStates, SessionBusy
  <2>2. SessionOK'
    BY <1>2, <1>3, <1>34
      DEF TypeOK, SessionOK, BeforeAnswer, Asked, InFile, RemovePartial, SessionStep
  <2> QED BY <2>1, <2>2
<1>35. ASSUME NEW s \in Senders, Probe(s)
      PROVE  TypeInv'
  <2>1. TypeOK'
    <3> DEFINE names == Candidate[Path(s, rIdx[s])]
    <3>1. names[probe[s]] \in Names
      <4>1. rpc[s] = "creating"
        BY <1>35 DEF Probe
      <4>2. Path(s, rIdx[s]) \in Paths /\ probe[s] \in 1..Len(names)
        BY <4>1, <1>3, CandidateType DEF TypeOK, SessionOK, InFile
      <4> QED BY <4>2, CandidateType
    <3>2. rpc' \in [Senders -> SessionStates]
      BY <1>35 DEF TypeOK, Probe, SessionStep, SessionStates, SessionBusy
    <3>3. probe' \in [Senders -> Nat \ {0}]
      <4>1. probe' = probe \/ probe' = [probe EXCEPT ![s] = probe[s] + 1]
        BY <1>35 DEF Probe
      <4>2. probe[s] + 1 \in Nat \ {0}
        BY DEF TypeOK
      <4> QED BY <4>1, <4>2 DEF TypeOK
    <3>4. dest' \in [Senders -> Names]
      BY <1>35, <3>1 DEF TypeOK, Probe
    <3>5. disk' \in [Names -> Content]
      <4>1. disk' = disk \/ disk' = [disk EXCEPT ![names[probe[s]]] = Partial(s, rIdx[s])]
        BY <1>35 DEF Probe
      <4>2. Partial(s, rIdx[s]) \in Content
        BY ContentType DEF TypeOK
      <4> QED BY <4>1, <4>2, <3>1 DEF TypeOK
    <3> QED
      BY <1>1, <1>35, <3>2, <3>3, <3>4, <3>5 DEF TypeOK, Probe
  <2>2. SessionOK'
    <3> DEFINE names == Candidate[Path(s, rIdx[s])]
    <3>1. /\ spc' = spc /\ pending' = pending /\ rIdx' = rIdx
          /\ rpc[s] = "creating"
      BY <1>35 DEF Probe
    <3>2. CASE probe' = probe /\ \E at \in {"body", "rejecting"} : SessionStep(s, "creating", at)
      BY <1>1, <3>1, <3>2, SessionMoves DEF SessionStep, InFile
    <3>3. CASE /\ probe[s] < Len(names) /\ rpc' = rpc
               /\ probe' = [probe EXCEPT ![s] = probe[s] + 1]
      <4>1. rpc' = [rpc EXCEPT ![s] = "creating"]
        BY <3>1, <3>3 DEF TypeOK
      <4>2. Path(s, rIdx[s]) \in Paths /\ Len(names) \in Nat
        BY <1>3, <3>1, CandidateType DEF TypeOK, SessionOK, InFile
      <4>3. probe'[s] <= Len(names) /\ \A t \in Senders \ {s} : probe'[t] = probe[t]
        BY <3>3, <4>2 DEF TypeOK
      <4> QED BY <1>1, <3>1, <4>1, <4>3, SessionMoves DEF InFile
    <3> QED BY <1>35, <3>2, <3>3 DEF Probe
  <2> QED BY <2>1, <2>2
<1>36. ASSUME NEW s \in Senders, WriteVerdict(s)
      PROVE  TypeInv'
  <2>1. TypeOK'
    BY <1>1, <1>36
      DEF TypeOK, WriteVerdict, SessionStep, EndSession, Answer, SessionStates, SessionBusy
  <2>2. SessionOK'
    BY <1>2, <1>3, <1>36
      DEF TypeOK, SessionOK, BeforeAnswer, Asked, InFile, WriteVerdict, SessionStep,
          EndSession, AtConnection
  <2> QED BY <2>1, <2>2
<1>37. ASSUME NEW s \in Senders, PeerClosed(s)
      PROVE  TypeInv'
  <2>1. TypeOK'
    BY <1>1, <1>37
      DEF TypeOK, PeerClosed, SessionStep, EndSession, Answer, SessionStates, SessionBusy
  <2>2. SessionOK'
    BY <1>2, <1>3, <1>37
      DEF TypeOK, SessionOK, BeforeAnswer, Asked, InFile, PeerClosed, SessionStep,
          EndSession, AtConnection
  <2> QED BY <2>1, <2>2
<1>38. ASSUME NEW s \in Senders, ConnectionError(s)
      PROVE  TypeInv'
  <2>1. TypeOK'
    BY <1>1, <1>38
      DEF TypeOK, ConnectionError, SessionStep, EndSession, Answer, SessionStates,
          SessionBusy
  <2>2. SessionOK'
    BY <1>2, <1>3, <1>38
      DEF TypeOK, SessionOK, BeforeAnswer, Asked, InFile, ConnectionError, SessionStep,
          EndSession, AtConnection
  <2> QED BY <2>1, <2>2
<1>39. ASSUME NEW s \in Senders, Timeout(s)
      PROVE  TypeInv'
  <2>1. TypeOK'
    BY <1>1, <1>39
      DEF TypeOK, Timeout, SessionStep, EndSession, Answer, SessionStates, SessionBusy
  <2>2. SessionOK'
    BY <1>2, <1>3, <1>39
      DEF TypeOK, SessionOK, BeforeAnswer, Asked, InFile, Timeout, SessionStep, EndSession,
          AtConnection
  <2> QED BY <2>1, <2>2
<1>40. ASSUME NEW s \in Senders, ConnectionLost(s)
      PROVE  TypeInv'
  <2>1. TypeOK'
    BY <1>1, <1>40
      DEF TypeOK, ConnectionLost, AtConnection, SessionStep, EndSession, Answer,
          SessionStates, SessionBusy
  <2>2. SessionOK'
    BY <1>2, <1>3, <1>40
      DEF TypeOK, SessionOK, BeforeAnswer, Asked, InFile, ConnectionLost, SessionStep,
          EndSession, AtConnection
  <2> QED BY <2>1, <2>2
<1> QED
  BY <1>4, <1>5, <1>6, <1>7, <1>8, <1>9, <1>10, <1>11, <1>12, <1>13, <1>14, <1>15, <1>16,
     <1>17, <1>18, <1>19, <1>20, <1>21, <1>22, <1>23, <1>24, <1>25, <1>26, <1>27, <1>28,
     <1>29, <1>30, <1>31, <1>32, <1>33, <1>34, <1>35, <1>36, <1>37, <1>38, <1>39, <1>40
  DEF Next, LoopProgress, Fault, SenderProgress, SessionProgress, PeerPaced

\* What almost every step leaves alone: the directory, and the file a session holds.
Quiet ==
  /\ disk' = disk /\ dest' = dest
  /\ \A t \in Senders : rpc'[t] \in {"body", "cleanup", "verified"} =>
       /\ rIdx'[t] = rIdx[t]
       /\ rpc'[t] = rpc[t] \/ (rpc[t] = "body" /\ rpc'[t] = "cleanup")

LEMMA QuietSteps ==
  ASSUME TypeOK, [Next]_vars
  PROVE  Quiet \/ \E s \in Senders :
           MakeParents(s) \/ Probe(s) \/ ReceiveBody(s) \/ RemovePartial(s)
<1> USE DEF TypeOK, senderVars, sessionVars, consoleVars, loopVars
<1>1. CASE UNCHANGED vars \/ Interrupt \/ CloseEndpoint \/ WaitIdle \/ Exit
             \/ Terminated \/ Kill
  BY <1>1 DEF Quiet, vars, Interrupt, CloseEndpoint, WaitIdle, Exit, Terminated, Kill
<1>2. ASSUME NEW s \in Senders,
             Start(s) \/ Connected(s) \/ ConnectTimeout(s) \/ SendRequest(s)
               \/ ReadAcceptance(s) \/ OpenFile(s) \/ FinishBody(s)
               \/ SourceChanged(s) \/ ReadVerdict(s) \/ SenderLosesConnection(s)
               \/ SenderLosesNetwork(s) \/ SenderQuits(s)
      PROVE  Quiet
  BY <1>2
    DEF Quiet, Start, WithIncoming, Connected, ConnectTimeout, SendRequest, ReadAcceptance,
     OpenFile, FinishBody, SourceChanged, ReadVerdict, SenderLosesConnection,
     SenderLosesNetwork, SenderQuits, SenderFails
<1>3. ASSUME NEW s \in Senders,
             Accept(s) \/ Refuse(s) \/ Cancel(s) \/ Handshake(s) \/ ReadRequest(s)
               \/ Prompt(s) \/ UserAnswers(s) \/ ConsoleFails(s)
      PROVE  Quiet
  BY <1>3 DEF Quiet, Accept, Refuse, Cancel, Handshake, ReadRequest, Prompt,
     UserAnswers, ConsoleFails, SessionStep, EndSession
<1>4. ASSUME NEW s \in Senders,
             WriteAcceptance(s) \/ WriteRejection(s) \/ ReadHeader(s) \/ CreateFails(s)
               \/ ReceiveBodyFails(s) \/ WriteVerdict(s) \/ PeerClosed(s)
               \/ ConnectionError(s) \/ Timeout(s) \/ ConnectionLost(s)
      PROVE  Quiet
  BY <1>4 DEF Quiet, WriteAcceptance, WriteRejection, ReadHeader, CreateFails,
     ReceiveBodyFails, WriteVerdict, PeerClosed, ConnectionError, Timeout, ConnectionLost,
     SessionStep, EndSession
<1> QED
  BY <1>1, <1>2, <1>3, <1>4
  DEF Next, LoopProgress, Fault, SenderProgress, SessionProgress, PeerPaced

\* A session holds the name it created until it is done with the file.
DiskInv ==
  /\ DestinationOwned
  /\ \A s \in Senders : rpc[s] = "verified" => disk[dest[s]] = Whole(s, rIdx[s])
  /\ \A n \in Names : disk[n].kind = "dir" => disk[n] = Dir

Kept == \A n \in Names : disk[n].kind \in {"old", "whole", "dir"} => disk'[n] = disk[n]

LEMMA ContentDistinct ==
  ASSUME NEW s, NEW i
  PROVE  /\ Partial(s, i).kind = "partial" /\ Partial(s, i).by = s
         /\ Whole(s, i).kind = "whole" /\ Whole(s, i).by = s
         /\ Free.kind = "free" /\ Dir.kind = "dir" /\ Old.kind = "old"
         /\ Partial(s, i).file = i /\ Whole(s, i).file = i
         /\ Free.by = NoOne /\ Dir.by = NoOne /\ Old.by = NoOne
  BY DEF Partial, Whole, Free, Dir, Old

\* A step keeps DiskInv when it keeps the names held, and what was not free.
LEMMA DiskKept ==
  ASSUME TypeOK, TypeOK', DiskInv,
         \A n \in Names : disk[n].kind # "free" =>
           disk'[n] = disk[n] \/ (disk[n].kind = "partial" /\ disk'[n].kind # "dir"),
         \A n \in Names : disk[n].kind = "free" =>
           disk'[n] = Dir \/ disk'[n].kind # "dir",
         \A t \in Senders :
           /\ rpc'[t] \in {"body", "cleanup"} => disk'[dest'[t]] = Partial(t, rIdx'[t])
           /\ rpc'[t] = "verified" => disk'[dest'[t]] = Whole(t, rIdx'[t])
  PROVE  DiskInv' /\ Kept
<1>1. DestinationOwned'
  BY DEF DestinationOwned
<1>2. \A s \in Senders : rpc'[s] = "verified" => disk'[dest'[s]] = Whole(s, rIdx'[s])
  OBVIOUS
<1>3. Kept
  BY DEF Kept
<1>4. \A n \in Names : disk'[n].kind = "dir" => disk'[n] = Dir
  BY DEF DiskInv, TypeOK, Content
<1> QED BY <1>1, <1>2, <1>3, <1>4 DEF DiskInv, Whole

LEMMA DiskStep ==
  ASSUME TypeOK, TypeOK', DiskInv, [Next]_vars
  PROVE  DiskInv' /\ Kept
<1> DEFINE Held(t) == rpc'[t] \in {"body", "cleanup", "verified"}
<1>0. \A t \in Senders : rpc[t] \in {"body", "cleanup", "verified"} =>
        dest[t] \in Names /\ disk[dest[t]].kind # "free"
  <2>1. \A t \in Senders : rpc[t] \in {"body", "cleanup"} =>
          disk[dest[t]] = Partial(t, rIdx[t])
    BY DEF DiskInv, DestinationOwned
  <2>2. \A t \in Senders : rpc[t] = "verified" => disk[dest[t]] = Whole(t, rIdx[t])
    BY DEF DiskInv
  <2>3. dest \in [Senders -> Names]
    BY DEF TypeOK
  <2> QED BY <2>1, <2>2, <2>3, ContentDistinct
<1>1. CASE Quiet
  <2>1. disk' = disk /\ dest' = dest
    BY <1>1 DEF Quiet
  <2>2. \A t \in Senders :
          rpc'[t] \in {"body", "cleanup"} => disk'[dest'[t]] = Partial(t, rIdx'[t])
    BY <1>1, <2>1 DEF Quiet, DiskInv, DestinationOwned
  <2>3. \A t \in Senders : rpc'[t] = "verified" => disk'[dest'[t]] = Whole(t, rIdx'[t])
    BY <1>1, <2>1 DEF Quiet, DiskInv
  <2> QED BY <2>1, <2>2, <2>3 DEF DiskInv, DestinationOwned, Kept
<1>2. ASSUME NEW s \in Senders, MakeParents(s)
      PROVE  DiskInv' /\ Kept
  <2>1. \A n \in Names : \/ disk'[n] = disk[n]
                         \/ disk'[n] = Dir /\ disk[n].kind \notin FileKinds
    BY <1>2 DEF TypeOK, MakeParents
  <2>2. \A n \in Names : disk[n].kind # "free" => disk'[n] = disk[n]
    BY <2>1 DEF TypeOK, Content, FileKinds, DiskInv
  <2>3. \A t \in Senders : Held(t) => rpc'[t] = rpc[t]
    BY <1>2 DEF TypeOK, MakeParents, SessionStep
  <2>4. rIdx' = rIdx /\ dest' = dest
    BY <1>2 DEF MakeParents
  <2>5. \A t \in Senders : Held(t) => disk'[dest[t]] = disk[dest[t]]
    BY <1>0, <2>2, <2>3
  <2> QED BY <2>1, <2>2, <2>3, <2>4, <2>5, DiskKept DEF DiskInv, DestinationOwned
<1>3. ASSUME NEW s \in Senders, Probe(s)
      PROVE  DiskInv' /\ Kept
  <2> DEFINE name == Candidate[Path(s, rIdx[s])][probe[s]]
  <2>1. \/ /\ disk[name] = Free /\ disk' = [disk EXCEPT ![name] = Partial(s, rIdx[s])]
           /\ dest' = [dest EXCEPT ![s] = name] /\ rpc' = [rpc EXCEPT ![s] = "body"]
        \/ disk' = disk /\ dest' = dest /\ rpc' = rpc
        \/ disk' = disk /\ dest' = dest /\ rpc' = [rpc EXCEPT ![s] = "rejecting"]
    BY <1>3 DEF Probe, SessionStep
  <2>2. rIdx' = rIdx
    BY <1>3 DEF Probe
  <2>3. CASE /\ disk' = disk /\ dest' = dest
             /\ rpc' = rpc \/ rpc' = [rpc EXCEPT ![s] = "rejecting"]
    <3>1. \A t \in Senders : Held(t) => rpc'[t] = rpc[t]
      BY <2>3 DEF TypeOK
    <3> QED BY <2>2, <2>3, <3>1 DEF DiskInv, DestinationOwned, Kept
  <2>4. CASE /\ disk[name] = Free /\ disk' = [disk EXCEPT ![name] = Partial(s, rIdx[s])]
             /\ dest' = [dest EXCEPT ![s] = name] /\ rpc' = [rpc EXCEPT ![s] = "body"]
    <3>1. name \in Names
      BY <2>4 DEF TypeOK
    <3>2. \A n \in Names : disk[n].kind # "free" => disk'[n] = disk[n]
      BY <2>4, <3>1, ContentDistinct DEF TypeOK
    <3>3. disk'[name] = Partial(s, rIdx[s]) /\ disk'[name].kind # "dir"
      <4>1. disk \in [Names -> Content]
        BY DEF TypeOK
      <4>2. disk'[name] = Partial(s, rIdx[s])
        BY <2>4, <3>1, <4>1
      <4> QED BY <4>2, ContentDistinct
    <3>4. \A n \in Names : disk[n].kind = "free" => disk'[n] = disk[n] \/ n = name
      BY <2>4 DEF TypeOK
    <3>5. \A t \in Senders : Held(t) /\ t # s =>
             rpc'[t] = rpc[t] /\ dest'[t] = dest[t] /\ disk'[dest[t]] = disk[dest[t]]
      BY <2>4, <3>2, ContentDistinct DEF TypeOK, DiskInv, DestinationOwned
    <3>6. rpc'[s] = "body" /\ dest'[s] = name
      BY <2>4 DEF TypeOK
    <3> QED
      BY <2>2, <3>1, <3>2, <3>3, <3>4, <3>5, <3>6, DiskKept DEF DiskInv, DestinationOwned
  <2> QED BY <2>1, <2>3, <2>4
<1>4. ASSUME NEW s \in Senders, NEW new \in {Whole(s, rIdx[s]), Free},
             rpc[s] \in {"body", "cleanup"},
             disk' = [disk EXCEPT ![dest[s]] = new],
             rIdx' = rIdx /\ dest' = dest,
             \A t \in Senders : t # s => rpc'[t] = rpc[t],
             rpc'[s] = IF new = Free THEN "rejecting" ELSE "verified"
      PROVE  DiskInv' /\ Kept
  <2>1. disk[dest[s]] = Partial(s, rIdx[s]) /\ dest[s] \in Names
    BY <1>4 DEF TypeOK, DiskInv, DestinationOwned
  <2>2. \A n \in Names : n # dest[s] => disk'[n] = disk[n]
    BY <1>4 DEF TypeOK
  <2>3. disk'[dest[s]] = new /\ new.kind # "dir" /\ disk[dest[s]].kind = "partial"
    <3>1. disk \in [Names -> Content]
      BY DEF TypeOK
    <3>2. disk'[dest[s]] = new
      BY <1>4, <2>1, <3>1
    <3> QED BY <2>1, <3>2, ContentDistinct
  <2>4. \A t \in Senders : Held(t) /\ t # s => dest[t] # dest[s]
    BY <1>4, <2>1, ContentDistinct DEF DiskInv, DestinationOwned
  <2>5. \A t \in Senders : Held(t) /\ t # s => rpc'[t] = rpc[t] /\ disk'[dest[t]] = disk[dest[t]]
    BY <1>4, <2>2, <2>4 DEF TypeOK
  <2>6. rpc'[s] \in {"rejecting", "verified"} /\ (rpc'[s] = "verified" => new = Whole(s, rIdx[s]))
    BY <1>4
  <2> QED
    BY <1>4, <2>1, <2>2, <2>3, <2>5, <2>6, DiskKept DEF DiskInv, DestinationOwned
<1>5. ASSUME NEW s \in Senders, ReceiveBody(s)
      PROVE  DiskInv' /\ Kept
  <2>1. CASE SessionStep(s, "body", "verified") /\ disk' = [disk EXCEPT ![dest[s]] = Whole(s, rIdx[s])]
    <3>1. Whole(s, rIdx[s]) # Free
      BY ContentDistinct
    <3> QED BY <1>4, <1>5, <2>1, <3>1 DEF TypeOK, SessionStep, ReceiveBody
  <2>2. CASE SessionStep(s, "body", "cleanup") /\ UNCHANGED disk
    BY <1>5, <2>2 DEF TypeOK, SessionStep, ReceiveBody, DiskInv, DestinationOwned, Kept
  <2> QED BY <1>5, <2>1, <2>2 DEF ReceiveBody
<1>6. ASSUME NEW s \in Senders, RemovePartial(s)
      PROVE  DiskInv' /\ Kept
  <2>1. CASE disk' = [disk EXCEPT ![dest[s]] = Free]
    BY <1>4, <1>6, <2>1 DEF TypeOK, SessionStep, RemovePartial
  <2>2. CASE UNCHANGED disk
    BY <1>6, <2>2 DEF TypeOK, SessionStep, RemovePartial, DiskInv, DestinationOwned, Kept
  <2> QED BY <1>6, <2>1, <2>2 DEF RemovePartial
<1> QED BY QuietSteps, <1>1, <1>2, <1>3, <1>5, <1>6

\* The question on the console is the one of the session that reads it.
LEMMA PromptStep ==
  ASSUME TypeOK, OnePrompt, [Next]_vars
  PROVE  OnePrompt'
<1> USE DEF TypeOK, OnePrompt, senderVars, sessionVars, consoleVars, loopVars
<1>1. CASE UNCHANGED vars \/ Interrupt \/ CloseEndpoint \/ WaitIdle \/ Exit
             \/ Terminated \/ Kill
  BY <1>1
    DEF vars, Interrupt, CloseEndpoint, WaitIdle, Exit, Terminated, Kill, Active,
        SessionBusy
<1>2. ASSUME NEW s \in Senders,
             Start(s) \/ Connected(s) \/ ConnectTimeout(s) \/ SendRequest(s)
               \/ ReadAcceptance(s) \/ OpenFile(s) \/ FinishBody(s)
               \/ SourceChanged(s) \/ ReadVerdict(s) \/ SenderLosesConnection(s)
               \/ SenderLosesNetwork(s) \/ SenderQuits(s)
      PROVE  OnePrompt'
  BY <1>2 DEF Start, WithIncoming, Connected, ConnectTimeout, SendRequest, ReadAcceptance,
     OpenFile, FinishBody, SourceChanged, ReadVerdict, SenderLosesConnection,
     SenderLosesNetwork, SenderQuits, SenderFails
<1>3. ASSUME NEW s \in Senders, Prompt(s) \/ UserAnswers(s) \/ ConsoleFails(s)
      PROVE  OnePrompt'
  BY <1>3 DEF Prompt, UserAnswers, ConsoleFails, SessionStep, EndSession
<1>4. ASSUME NEW s \in Senders,
             Accept(s) \/ Refuse(s) \/ Cancel(s) \/ Handshake(s) \/ ReadRequest(s)
               \/ WriteAcceptance(s) \/ WriteRejection(s) \/ ReadHeader(s)
               \/ MakeParents(s) \/ CreateFails(s) \/ Probe(s) \/ ReceiveBody(s)
      PROVE  OnePrompt'
  BY <1>4 DEF Accept, Refuse, Cancel, Handshake, ReadRequest, WriteAcceptance,
     WriteRejection, ReadHeader, MakeParents, CreateFails, Probe, ReceiveBody,
     SessionStep, EndSession
<1>5. ASSUME NEW s \in Senders,
             ReceiveBodyFails(s) \/ RemovePartial(s) \/ WriteVerdict(s) \/ PeerClosed(s)
               \/ ConnectionError(s) \/ Timeout(s) \/ ConnectionLost(s)
      PROVE  OnePrompt'
  BY <1>5 DEF ReceiveBodyFails, RemovePartial, WriteVerdict, PeerClosed, ConnectionError,
     Timeout, ConnectionLost, SessionStep, EndSession
<1> QED
  BY <1>1, <1>2, <1>3, <1>4, <1>5
  DEF Next, LoopProgress, Fault, SenderProgress, SessionProgress, PeerPaced

\* The two ends move in step: the sender never writes ahead of the answers it
\* read, and an answer it has not read yet is about what it wrote last.
InStep ==
  \A s \in Senders :
    /\ rpc[s] \in BeforeAnswer =>
         /\ spc[s] \in {"idle", "connecting", "requesting", "awaitAccept", "failed"}
         /\ reply[s] = "none" /\ written[s] <= 1
    /\ spc[s] \in {"idle", "connecting", "requesting"} => written[s] = 0
    /\ spc[s] = "awaitAccept" => written[s] = 1
    /\ spc[s] = "opening" => written[s] <= 2 * rIdx[s] - 1
    /\ spc[s] = "streaming" => written[s] <= 2 * rIdx[s]
    /\ spc[s] = "awaitVerdict" => written[s] <= 2 * rIdx[s] + 1
    /\ spc[s] = "awaitVerdict" /\ reply[s] = "accepted" => written[s] <= 2 * rIdx[s] - 1
    /\ spc[s] \in {"opening", "streaming"} => reply[s] # "accepted"
    /\ rpc[s] = "verified" => written[s] >= 2 * rIdx[s] + 1

LEMMA InStepStep ==
  ASSUME TypeInv, InStep, [Next]_vars
  PROVE  InStep'
<1> USE DEF TypeInv, TypeOK, InStep, BeforeAnswer, senderVars, sessionVars, consoleVars, loopVars
<1>1. CASE UNCHANGED vars \/ Interrupt \/ CloseEndpoint \/ WaitIdle \/ Exit
             \/ Terminated \/ Kill
  BY <1>1
    DEF vars, Interrupt, CloseEndpoint, WaitIdle, Exit, Terminated, Kill, Active,
        SessionBusy
<1>2. ASSUME NEW s \in Senders,
             Start(s) \/ Connected(s) \/ ConnectTimeout(s) \/ SendRequest(s)
      PROVE  InStep'
  BY <1>2 DEF Start, WithIncoming, Connected, ConnectTimeout, SendRequest, SenderStep, Write
<1>3. ASSUME NEW s \in Senders, ReadAcceptance(s) \/ ReadVerdict(s)
      PROVE  InStep'
  <2>1. CASE ReadAcceptance(s)
    BY <2>1 DEF ReadAcceptance, SenderStep
  <2>2. CASE ReadVerdict(s)
    BY <2>2 DEF ReadVerdict, SenderStep
  <2> QED BY <1>3, <2>1, <2>2
<1>4. ASSUME NEW s \in Senders,
             OpenFile(s) \/ FinishBody(s) \/ SourceChanged(s) \/ SenderLosesConnection(s)
               \/ SenderLosesNetwork(s) \/ SenderQuits(s)
      PROVE  InStep'
  <2>1. CASE OpenFile(s)
    BY <2>1 DEF OpenFile, SenderStep, Write
  <2>2. CASE FinishBody(s)
    BY <2>2 DEF FinishBody, SenderStep, Write
  <2>3. CASE SourceChanged(s) \/ SenderLosesConnection(s)
               \/ SenderLosesNetwork(s) \/ SenderQuits(s)
    BY <2>3 DEF SourceChanged, SenderLosesConnection, SenderLosesNetwork, SenderQuits,
       SenderFails, SenderStep
  <2> QED BY <1>4, <2>1, <2>2, <2>3
<1>5. ASSUME NEW s \in Senders,
             Accept(s) \/ Refuse(s) \/ Cancel(s) \/ Handshake(s) \/ ReadRequest(s)
               \/ Prompt(s) \/ UserAnswers(s) \/ ConsoleFails(s)
      PROVE  InStep'
  <2>1. CASE Accept(s) \/ Refuse(s) \/ Cancel(s) \/ Handshake(s)
    BY <2>1 DEF SessionOK, Accept, Refuse, Cancel, Handshake, SessionStep
  <2>2. CASE ReadRequest(s)
    BY <2>2 DEF ReadRequest, SessionStep, EndSession
  <2>3. CASE Prompt(s)
    BY <2>3 DEF Prompt, SessionStep
  <2>4. CASE UserAnswers(s)
    BY <2>4 DEF UserAnswers, SessionStep
  <2>5. CASE ConsoleFails(s)
    BY <2>5 DEF ConsoleFails, EndSession
  <2> QED BY <1>5, <2>1, <2>2, <2>3, <2>4, <2>5
<1>6. ASSUME NEW s \in Senders,
             ReadHeader(s) \/ MakeParents(s) \/ CreateFails(s) \/ Probe(s) \/ ReceiveBody(s)
               \/ ReceiveBodyFails(s) \/ RemovePartial(s) \/ PeerClosed(s)
               \/ ConnectionError(s) \/ Timeout(s) \/ ConnectionLost(s)
      PROVE  InStep'
  <2>1. CASE ReceiveBody(s)
    <3>1. written[s] >= 2 * rIdx[s] + 1 /\ rpc[s] = "body"
      BY <2>1 DEF ReceiveBody, BodyWritten, SessionStep
    <3>2. \A t \in Senders : t # s => rpc'[t] = rpc[t]
      BY <2>1 DEF ReceiveBody, SessionStep
    <3>3. rpc'[s] \in {"verified", "cleanup"}
      BY <2>1 DEF ReceiveBody, SessionStep
    <3>4. UNCHANGED <<spc, written, reply, rIdx>>
      BY <2>1 DEF ReceiveBody
    <3> QED BY <3>1, <3>2, <3>3, <3>4
  <2>2. ASSUME UNCHANGED <<spc, written, reply, rIdx>>,
               \A t \in Senders :
                 rpc'[t] = rpc[t] \/ rpc'[t] \notin BeforeAnswer \cup {"verified"}
        PROVE  InStep'
    BY <2>2
  <2>3. CASE ReadHeader(s) \/ MakeParents(s) \/ CreateFails(s)
    BY <2>2, <2>3 DEF ReadHeader, MakeParents, CreateFails, SessionStep
  <2>4. CASE Probe(s)
    BY <2>2, <2>4 DEF Probe, SessionStep
  <2>5. CASE ReceiveBodyFails(s) \/ RemovePartial(s) \/ PeerClosed(s)
               \/ ConnectionError(s) \/ Timeout(s) \/ ConnectionLost(s)
    BY <2>2, <2>5
      DEF ReceiveBodyFails, RemovePartial, PeerClosed, ConnectionError, Timeout,
          ConnectionLost,
       SessionStep, EndSession
  <2> QED BY <1>6, <2>1, <2>3, <2>4, <2>5
<1>7. ASSUME NEW s \in Senders, WriteAcceptance(s)
      PROVE  InStep'
  BY <1>7 DEF WriteAcceptance, SessionStep, Answer
<1>8. ASSUME NEW s \in Senders, WriteRejection(s) \/ WriteVerdict(s)
      PROVE  InStep'
  <2>1. CASE WriteRejection(s)
    BY <2>1 DEF WriteRejection, EndSession, Answer
  <2>2. CASE WriteVerdict(s)
    BY <2>2 DEF WriteVerdict, SessionStep, Answer
  <2> QED BY <1>8, <2>1, <2>2
<1> QED
  BY <1>1, <1>2, <1>3, <1>4, <1>5, <1>6, <1>7, <1>8
  DEF Next, LoopProgress, Fault, SenderProgress, SessionProgress, PeerPaced

\* The index of a session only moves when the verdict of a saved file is written.
LEMMA IndexStep ==
  ASSUME TypeOK, [Next]_vars, NEW t \in Senders
  PROVE  \/ rIdx'[t] = rIdx[t]
         \/ rpc[t] = "verified" /\ rIdx'[t] = rIdx[t] + 1
<1>1. ASSUME NEW s \in Senders, WriteVerdict(s)
      PROVE  \/ rIdx'[t] = rIdx[t]
             \/ rpc[t] = "verified" /\ rIdx'[t] = rIdx[t] + 1
  BY <1>1 DEF TypeOK, WriteVerdict, SessionStep
<1>2. rIdx' = rIdx \/ \E s \in Senders : WriteVerdict(s)
  BY DEF Next, vars, sessionVars, Interrupt, LoopProgress, CloseEndpoint, WaitIdle, Exit,
     Accept, Refuse, Fault, Kill, SourceChanged, SenderLosesNetwork, SenderQuits,
     SenderFails, ConsoleFails, CreateFails, ReceiveBodyFails, Timeout, ConnectionLost,
     Terminated, Start,
     WithIncoming,
     SenderProgress, Connected, ConnectTimeout, SendRequest, ReadAcceptance, OpenFile,
     FinishBody, ReadVerdict, SenderLosesConnection, SessionProgress, PeerPaced, Handshake,
     ReadRequest, Prompt, WriteAcceptance, WriteRejection, ReadHeader, MakeParents,
     Probe, ReceiveBody, RemovePartial, PeerClosed, ConnectionError, Cancel, UserAnswers
<1> QED BY <1>1, <1>2

\* A sender only gets done by reading the last file's verdict.
LEMMA DoneStep ==
  ASSUME TypeOK, [Next]_vars, NEW t \in Senders, spc'[t] = "done"
  PROVE  \/ spc[t] = "done"
         \/ /\ spc[t] = "awaitVerdict" /\ reply[t] = "accepted"
            /\ written[t] = 2 * NFiles(t) + 1
<1>1. ASSUME NEW s \in Senders,
             Start(s) \/ Connected(s) \/ ConnectTimeout(s) \/ SendRequest(s)
               \/ ReadAcceptance(s) \/ OpenFile(s) \/ FinishBody(s)
               \/ SourceChanged(s) \/ SenderLosesConnection(s)
               \/ SenderLosesNetwork(s) \/ SenderQuits(s)
      PROVE  spc[t] = "done"
  BY <1>1
    DEF TypeOK, Start, WithIncoming, Connected, ConnectTimeout, SendRequest, ReadAcceptance,
     OpenFile, FinishBody, SourceChanged, SenderLosesConnection, SenderLosesNetwork,
     SenderQuits, SenderFails, SenderStep
<1>2. ASSUME NEW s \in Senders, ReadVerdict(s)
      PROVE  \/ spc[t] = "done"
             \/ /\ spc[t] = "awaitVerdict" /\ reply[t] = "accepted"
                /\ written[t] = 2 * NFiles(t) + 1
  BY <1>2 DEF TypeOK, ReadVerdict, SenderStep
<1>3. CASE spc' = spc
  BY <1>3
<1>4. \/ spc' = spc
      \/ \E s \in Senders :
            \/ Start(s) \/ Connected(s) \/ ConnectTimeout(s) \/ SendRequest(s)
            \/ ReadAcceptance(s) \/ OpenFile(s) \/ FinishBody(s) \/ ReadVerdict(s)
            \/ SourceChanged(s) \/ SenderLosesConnection(s)
            \/ SenderLosesNetwork(s) \/ SenderQuits(s)
  BY DEF Next, vars, senderVars, Interrupt, LoopProgress, CloseEndpoint, WaitIdle, Exit,
     Accept, Refuse, Fault, Kill, ConsoleFails, CreateFails, ReceiveBodyFails, Timeout,
     ConnectionLost,
     Terminated, SenderProgress, SessionProgress, PeerPaced, Handshake, ReadRequest, Prompt,
     WriteAcceptance, WriteRejection, ReadHeader, MakeParents, Probe, ReceiveBody,
     RemovePartial, WriteVerdict, PeerClosed, ConnectionError, Cancel, UserAnswers
<1> QED BY <1>1, <1>2, <1>3, <1>4

\* The files before the one a session expects are saved, and a sender that is done
\* was told so of all of its files.
SavedInv ==
  \A s \in Senders :
    /\ \A j \in 1..(rIdx[s] - 1) : Saved(s, j)
    /\ spc[s] = "done" => NFiles(s) < rIdx[s]

LEMMA SavedStep ==
  ASSUME TypeInv, DiskInv, InStep, SavedInv, [Next]_vars
  PROVE  SavedInv'
<1> USE DEF TypeInv
<1>1. TypeOK' /\ DiskInv' /\ Kept
  BY TypeStep, DiskStep
<1>2. \A s \in Senders : NFiles(s)' = NFiles(s) /\ NFiles(s) \in Nat
  BY ConfigFixed, ManifestFixed, ManifestType DEF TypeOK
<1>3. ASSUME NEW s \in Senders, NEW j, Saved(s, j)
      PROVE  Saved(s, j)'
  <2>1. PICK n \in Names : disk[n] = Whole(s, j)
    BY <1>3 DEF Saved
  <2>2. disk'[n] = Whole(s, j)
    BY <1>1, <2>1, ContentDistinct DEF Kept
  <2> QED BY <2>2 DEF Saved, Whole
<1>4. ASSUME NEW s \in Senders, rpc[s] = "verified"
      PROVE  Saved(s, rIdx[s])
  BY <1>4 DEF DiskInv, Saved, TypeOK
<1>5. ASSUME NEW s \in Senders, NEW j \in 1..(rIdx'[s] - 1)
      PROVE  Saved(s, j)'
  <2>1. CASE rIdx'[s] = rIdx[s]
    BY <1>3, <1>5, <2>1 DEF SavedInv
  <2>2. CASE rpc[s] = "verified" /\ rIdx'[s] = rIdx[s] + 1
    <3>1. rIdx[s] \in Nat /\ (j \in 1..(rIdx[s] - 1) \/ j = rIdx[s])
      BY <1>5, <2>2 DEF TypeOK
    <3> QED BY <1>3, <1>4, <2>2, <3>1 DEF SavedInv
  <2> QED BY <2>1, <2>2, IndexStep
<1>6. ASSUME NEW s \in Senders, spc'[s] = "done"
      PROVE  NFiles(s)' < rIdx'[s]
  <2>1. rIdx[s] \in Nat /\ rIdx'[s] \in {rIdx[s], rIdx[s] + 1}
    BY IndexStep DEF TypeOK
  <2>2. NFiles(s) < rIdx[s]
    BY <1>2, <1>6, <2>1, DoneStep DEF SavedInv, InStep
  <2> QED BY <1>2, <2>1, <2>2
<1> QED BY <1>5, <1>6 DEF SavedInv

\* A session past the question was approved; one before it was not asked yet.
ApprovalInv ==
  /\ \A s \in Senders :
       /\ rpc[s] \in {"accepting"} \cup InFile => AcceptAll \/ answer[s] = "yes"
       /\ rpc[s] \in BeforeAnswer \ {"accepting"} => answer[s] = "none"
  /\ \A n \in Names, s \in Senders :
       disk[n].by = s => ValidateRequest(s) /\ (AcceptAll \/ answer[s] = "yes")

\* What a step leaves under a name is of who had it, or of a session in a file.
LEMMA ByStep ==
  ASSUME TypeOK, [Next]_vars, NEW n \in Names, disk'[n].by # NoOne
  PROVE  \/ disk'[n].by = disk[n].by
         \/ disk'[n].by \in Senders /\ rpc[disk'[n].by] \in InFile
<1>1. CASE Quiet
  BY <1>1 DEF Quiet
<1>2. ASSUME NEW s \in Senders, MakeParents(s)
      PROVE  disk'[n].by = disk[n].by
  <2>1. disk'[n] = disk[n] \/ disk'[n] = Dir
    BY <1>2 DEF TypeOK, MakeParents
  <2> QED BY <2>1, ContentDistinct
<1>3. ASSUME NEW s \in Senders, Probe(s) \/ ReceiveBody(s) \/ RemovePartial(s)
      PROVE  \/ disk'[n].by = disk[n].by
             \/ disk'[n].by \in Senders /\ rpc[disk'[n].by] \in InFile
  <2>1. rpc[s] \in InFile
    BY <1>3 DEF Probe, ReceiveBody, RemovePartial, SessionStep, InFile
  <2>2. \/ disk'[n] = disk[n] \/ disk'[n] = Partial(s, rIdx[s])
        \/ disk'[n] = Whole(s, rIdx[s]) \/ disk'[n] = Free
    <3>1. CASE Probe(s)
      BY <3>1 DEF TypeOK, Probe
    <3>2. CASE ReceiveBody(s)
      BY <3>2 DEF TypeOK, ReceiveBody
    <3>3. CASE RemovePartial(s)
      BY <3>3 DEF TypeOK, RemovePartial
    <3> QED BY <1>3, <3>1, <3>2, <3>3
  <2> QED BY <2>1, <2>2, ContentDistinct
<1> QED BY <1>1, <1>2, <1>3, QuietSteps

\* How a step moves one session, as far as approval goes.
LEMMA ApprovalMove ==
  ASSUME TypeInv, [Next]_vars, NEW t \in Senders
  PROVE  \/ /\ answer'[t] = answer[t]
            /\ \/ rpc'[t] = rpc[t]
               \/ rpc'[t] \notin BeforeAnswer \cup InFile
               \/ rpc[t] \in {"accepting"} \cup InFile /\ rpc'[t] \in InFile
               \/ rpc[t] \in BeforeAnswer \ {"accepting"} /\ rpc'[t] \in BeforeAnswer \ {"accepting"}
               \/ rpc[t] = "control" /\ rpc'[t] = "accepting" /\ AcceptAll
         \/ /\ rpc[t] = "prompting"
            /\ \/ rpc'[t] = "accepting" /\ answer'[t] = "yes"
               \/ rpc'[t] = "rejecting" /\ answer'[t] = "no"
<1> DEFINE Move ==
      \/ /\ answer'[t] = answer[t]
         /\ \/ rpc'[t] = rpc[t]
            \/ rpc'[t] \notin BeforeAnswer \cup InFile
            \/ rpc[t] \in {"accepting"} \cup InFile /\ rpc'[t] \in InFile
            \/ rpc[t] \in BeforeAnswer \ {"accepting"} /\ rpc'[t] \in BeforeAnswer \ {"accepting"}
            \/ rpc[t] = "control" /\ rpc'[t] = "accepting" /\ AcceptAll
      \/ /\ rpc[t] = "prompting"
         /\ \/ rpc'[t] = "accepting" /\ answer'[t] = "yes"
            \/ rpc'[t] = "rejecting" /\ answer'[t] = "no"
<1> USE DEF TypeInv, TypeOK, BeforeAnswer, InFile, senderVars, sessionVars, consoleVars, loopVars
<1>1. CASE UNCHANGED vars \/ Interrupt \/ CloseEndpoint \/ WaitIdle \/ Exit
             \/ Terminated \/ Kill
  BY <1>1 DEF vars, Interrupt, CloseEndpoint, WaitIdle, Exit, Terminated, Kill
<1>2. ASSUME NEW s \in Senders,
             Start(s) \/ Connected(s) \/ ConnectTimeout(s) \/ SendRequest(s)
               \/ ReadAcceptance(s) \/ OpenFile(s) \/ FinishBody(s)
               \/ SourceChanged(s) \/ ReadVerdict(s) \/ SenderLosesConnection(s)
               \/ SenderLosesNetwork(s) \/ SenderQuits(s)
      PROVE  Move
  BY <1>2 DEF Start, WithIncoming, Connected, ConnectTimeout, SendRequest, ReadAcceptance,
     OpenFile, FinishBody, SourceChanged, ReadVerdict, SenderLosesConnection,
     SenderLosesNetwork, SenderQuits, SenderFails
<1>3. ASSUME NEW s \in Senders,
             Accept(s) \/ Refuse(s) \/ Cancel(s) \/ Handshake(s) \/ ReadRequest(s)
      PROVE  Move
  <2>1. CASE ReadRequest(s)
    BY <2>1 DEF ReadRequest, SessionStep, EndSession
  <2>2. CASE Accept(s)
    BY <2>2 DEF Accept, SessionOK
  <2>3. CASE Refuse(s) \/ Cancel(s) \/ Handshake(s)
    BY <2>3 DEF Refuse, Cancel, Handshake, SessionStep
  <2> QED BY <1>3, <2>1, <2>2, <2>3
<1>4. ASSUME NEW s \in Senders, Prompt(s) \/ UserAnswers(s) \/ ConsoleFails(s)
      PROVE  Move
  BY <1>4 DEF Prompt, UserAnswers, ConsoleFails, SessionStep, EndSession
<1>5. ASSUME NEW s \in Senders,
             WriteAcceptance(s) \/ WriteRejection(s) \/ ReadHeader(s) \/ CreateFails(s)
               \/ MakeParents(s) \/ Probe(s) \/ ReceiveBody(s) \/ RemovePartial(s)
      PROVE  Move
  BY <1>5 DEF WriteAcceptance, WriteRejection, ReadHeader, CreateFails, MakeParents,
     Probe, ReceiveBody, RemovePartial, SessionStep, EndSession
<1>6. ASSUME NEW s \in Senders,
             ReceiveBodyFails(s) \/ WriteVerdict(s) \/ PeerClosed(s)
               \/ ConnectionError(s) \/ Timeout(s) \/ ConnectionLost(s)
      PROVE  Move
  BY <1>6
    DEF ReceiveBodyFails, WriteVerdict, PeerClosed, ConnectionError, Timeout,
        ConnectionLost,
     SessionStep, EndSession
<1> QED
  BY <1>1, <1>2, <1>3, <1>4, <1>5, <1>6
  DEF Next, LoopProgress, Fault, SenderProgress, SessionProgress, PeerPaced

LEMMA ApprovalStep ==
  ASSUME TypeInv, ApprovalInv, [Next]_vars
  PROVE  ApprovalInv'
<1> USE DEF TypeInv
<1>1. AcceptAll' = AcceptAll
  BY ConfigFixed DEF AcceptAll
<1>2. \A s \in Senders : ValidateRequest(s)' = ValidateRequest(s)
  BY ConfigFixed, ManifestFixed
<1>3. ASSUME NEW s \in Senders
      PROVE  /\ rpc'[s] \in {"accepting"} \cup InFile => AcceptAll \/ answer'[s] = "yes"
             /\ rpc'[s] \in BeforeAnswer \ {"accepting"} => answer'[s] = "none"
  BY ApprovalMove DEF ApprovalInv, BeforeAnswer, InFile
<1>4. ASSUME NEW s \in Senders, AcceptAll \/ answer[s] = "yes"
      PROVE  AcceptAll \/ answer'[s] = "yes"
  BY <1>4, ApprovalMove DEF ApprovalInv, BeforeAnswer, InFile
<1>5. ASSUME NEW n \in Names, NEW s \in Senders, disk'[n].by = s
      PROVE  ValidateRequest(s)' /\ (AcceptAll' \/ answer'[s] = "yes")
  <2>1. s # NoOne
    BY SendersAssumption
  <2>2. CASE disk[n].by = s
    BY <1>1, <1>2, <1>4, <2>2 DEF ApprovalInv
  <2>3. CASE rpc[s] \in InFile
    <3>1. ValidateRequest(s) /\ (AcceptAll \/ answer[s] = "yes")
      BY <2>3 DEF ApprovalInv, SessionOK
    <3> QED BY <1>1, <1>2, <1>4, <3>1
  <2> QED BY <1>5, <2>1, <2>2, <2>3, ByStep
<1> QED BY <1>1, <1>3, <1>5 DEF ApprovalInv

-----------------------------------------------------------------------------
(* The theorems. *)

\* All of it together: inductive, and what every theorem below follows from.
IInv == TypeInv /\ DiskInv /\ OnePrompt /\ InStep /\ SavedInv /\ ApprovalInv

LEMMA InitIInv == Init => IInv
<1> SUFFICES ASSUME Init PROVE IInv
  OBVIOUS
<1>1. TypeInv
  BY TypeInit
<1>2. \A n \in Names : disk[n] = Old \/ disk[n] = Free
  BY DEF Init
<1>3. \A s \in Senders : rpc[s] = "none" /\ spc[s] = "idle" /\ answer[s] = "none"
                          /\ written[s] = 0 /\ reply[s] = "none" /\ rIdx[s] = 1
  BY DEF Init
<1>4. DiskInv
  BY <1>2, <1>3, ContentDistinct DEF DiskInv, DestinationOwned
<1>5. OnePrompt /\ InStep /\ SavedInv
  BY <1>3 DEF OnePrompt, InStep, SavedInv, BeforeAnswer
<1>6. ApprovalInv
  BY <1>2, <1>3, ContentDistinct, SendersAssumption DEF ApprovalInv, BeforeAnswer, InFile
<1> QED BY <1>1, <1>4, <1>5, <1>6 DEF IInv

LEMMA StepIInv == IInv /\ [Next]_vars => IInv'
<1> SUFFICES ASSUME IInv, [Next]_vars PROVE IInv'
  OBVIOUS
<1> USE DEF IInv
<1>1. TypeInv'
  BY TypeStep
<1>2. DiskInv'
  BY <1>1, DiskStep DEF TypeInv
<1>3. OnePrompt'
  BY PromptStep DEF TypeInv
<1>4. InStep' /\ SavedInv' /\ ApprovalInv'
  BY InStepStep, SavedStep, ApprovalStep
<1> QED BY <1>1, <1>2, <1>3, <1>4

LEMMA Invariant == Spec => []IInv
  BY InitIInv, StepIInv, PTL DEF Spec

\* The variables stay in their ranges for every number of senders, of files and of
\* permits.
THEOREM TypeCorrect == Spec => []TypeOK
<1>1. IInv => TypeOK
  BY DEF IInv, TypeInv
<1> QED BY <1>1, Invariant, PTL

\* The name a session writes to or removes is its own partial file, for any number of
\* sessions and any names the manifests collide on.
THEOREM OwnDestination == Spec => []DestinationOwned
<1>1. IInv => DestinationOwned
  BY DEF IInv, DiskInv
<1> QED BY <1>1, Invariant, PTL

\* No step of the receiver changes a file that was there, a completed one or a directory.
THEOREM NothingClobbered == Spec => NeverClobber
<1>1. IInv /\ IInv' /\ [Next]_vars =>
        [\A n \in Names : disk[n].kind \in {"old", "whole", "dir"} => disk'[n] = disk[n]]_vars
  BY DiskStep DEF IInv, TypeInv, Kept
<1> QED BY <1>1, Invariant, PTL DEF Spec, NeverClobber

\* A line typed at the console answers the one question that is on it.
THEOREM OneQuestion == Spec => []OnePrompt
<1>1. IInv => OnePrompt
  BY DEF IInv
<1> QED BY <1>1, Invariant, PTL

\* Only what the user, or --accept-all, let through is ever written to the directory.
THEOREM ApprovedOnly == Spec => []OnlyApproved
<1>1. IInv => OnlyApproved
  BY DEF IInv, TypeInv, TypeOK, Content, ApprovalInv, OnlyApproved
<1> QED BY <1>1, Invariant, PTL

\* A sender that reports a complete transfer has all its files saved, across every
\* interleaving of sessions, loss of connections and death of the receiver.
THEOREM DoneIsSaved == Spec => []DoneMeansSaved
<1>1. IInv => DoneMeansSaved
  <2> SUFFICES ASSUME IInv, NEW s \in Senders, spc[s] = "done",
                      NEW i \in 1..NFiles(s)
               PROVE  Saved(s, i)
    BY DEF DoneMeansSaved
  <2>1. NFiles(s) \in Nat /\ rIdx[s] \in Nat /\ NFiles(s) < rIdx[s]
    BY ManifestType DEF IInv, TypeInv, TypeOK, SavedInv
  <2>2. i \in 1..(rIdx[s] - 1)
    BY <2>1
  <2> QED BY <2>2 DEF IInv, SavedInv
<1> QED BY <1>1, Invariant, PTL
=============================================================================
