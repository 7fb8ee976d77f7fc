------------------------------ MODULE Transfer ------------------------------
(***************************************************************************)
(* A gitler receiver (`gitler receive`) and the senders (`gitler send`)    *)
(* that connect to it: src/src/transfer.rs.                                *)
(*                                                                         *)
(* The receiver is one process.  Its accept loop takes a permit and spawns *)
(* one task (a session) for each connection; the sessions share a console, *)
(* behind the approval lock, and the output directory.  A sender is a      *)
(* process that sends its manifest, waits for the answer, and then sends   *)
(* one file after the other, waiting for a verdict after each.             *)
(*                                                                         *)
(* What travels from a sender to its session is a prefix of a fixed        *)
(* sequence of writes (the request, then for each file its header and its  *)
(* body with the digest), so the module keeps the number of writes done.   *)
(* In the other direction at most one answer is unread.  The bytes of a    *)
(* body are the subject of module FileStream.                              *)
(***************************************************************************)
EXTENDS Integers, Sequences, FiniteSets

CONSTANTS
  Senders,        \* the senders, each running `gitler send` once
  NoOne,          \* not a sender
  Paths,          \* relative paths a manifest may hold
  PortablePaths,  \* those validate_manifest_path accepts
  Names,          \* names under the output directory
  Candidate,      \* Candidate[p]: the names collision_name tries for p, in order
  Ancestors,      \* Ancestors[p]: the names of the directories that hold p
  VERSION,        \* the protocol version of this build
  MaxSize,        \* --max-size
  MaxTotal,       \* the largest u64
  MaxActive,      \* MAX_ACTIVE_TRANSFERS
  MaxIncoming,    \* max_incoming: the connections that may wait for accept()
  MaxEntries,     \* the entries a request of MAX_MESSAGE_LENGTH bytes can hold
  Configs         \* the situations the receiver may be run in

FaultKinds == {"network", "disk", "source", "stdin", "crash"}

Entry == [path : Paths, size : Nat]

\* A situation: who sends what, which senders are another build of the wire
\* protocol, the files the output directory holds before, the receiver's options,
\* whether standard input is a terminal, and the faults that may happen.
Config == [sending : SUBSET Senders,
           request : [Senders -> [version : Nat, files : Seq(Entry)]],
           foreign : SUBSET Senders,
           existing : SUBSET Names,
           once : BOOLEAN, acceptAll : BOOLEAN, terminal : BOOLEAN,
           faults : SUBSET FaultKinds]

ASSUME SendersAssumption == NoOne \notin Senders /\ Configs \subseteq Config

ASSUME NamesAssumption ==
  /\ Names # {}
  /\ Candidate \in [Paths -> Seq(Names) \ {<<>>}]
  /\ Ancestors \in [Paths -> SUBSET Names]
  /\ PortablePaths \subseteq Paths

ASSUME LimitsAssumption ==
  /\ MaxActive \in Nat \ {0} /\ MaxIncoming \in Nat
  /\ MaxSize \in Nat /\ MaxTotal \in Nat /\ MaxEntries \in Nat /\ VERSION \in Nat

VARIABLES
  config,   \* the situation, which never changes
  spc,      \* spc[s]: where the sender is in send_files
  written,  \* written[s]: how many of its writes the sender has done
  reply,    \* reply[s]: the TransferResponse the sender has not read yet
  rpc,      \* rpc[s]: where the session of s is in handle_connection
  rIdx,     \* rIdx[s]: the file the session expects next, from 1
  probe,    \* probe[s]: the index in the loop of create_destination
  dest,     \* dest[s]: the name create_destination returned last
  disk,     \* disk[n]: what the output directory has under the name n
  answer,   \* answer[s]: what the user said of the request of s
  queue,    \* the sessions waiting for the approval lock, first come first
  reader,   \* the session whose blocking read of standard input is running
  phase,    \* where receive_files and the runtime around it are
  pending,  \* the connections the endpoint has queued for accept()
  permits   \* the free permits of the accept loop's semaphore

senderVars  == <<spc, written>>
sessionVars == <<rpc, rIdx, probe, dest>>
consoleVars == <<answer, queue, reader>>
loopVars    == <<phase, pending, permits>>
vars == <<config, senderVars, reply, sessionVars, disk, consoleVars, loopVars>>

Foreign   == config.foreign
Existing  == config.existing
Request   == config.request
Once      == config.once
AcceptAll == config.acceptAll
Terminal  == config.terminal
Faults    == config.faults

-----------------------------------------------------------------------------
(* The manifest. *)

Files(s) == Request[s].files
NFiles(s) == Len(Files(s))
Path(s, i) == Files(s)[i].path

HasDuplicate(files) ==
  \E i, j \in 1..Len(files) : i # j /\ files[i].path = files[j].path

\* collect_files lets a selection through when it has files, no two of them
\* under one relative path.
Collected(s) == NFiles(s) > 0 /\ ~HasDuplicate(Files(s))

ValidateRequest(s) ==
  /\ Request[s].version = VERSION
  /\ NFiles(s) > 0
  /\ \A i \in 1..NFiles(s) : /\ Path(s, i) \in PortablePaths
                             /\ Files(s)[i].size <= MaxSize
  /\ ~HasDuplicate(Files(s))

\* The checked additions of send_files and request_approval.
TotalOverflows(s) ==
  LET sum[i \in 0..NFiles(s)] ==
        IF i = 0 THEN 0 ELSE sum[i - 1] + Files(s)[i].size
  IN  sum[NFiles(s)] > MaxTotal

-----------------------------------------------------------------------------
(* The two ends of a connection. *)

SenderBusy == {"connecting", "requesting", "awaitAccept", "opening",
               "streaming", "awaitVerdict"}
SenderStates == SenderBusy \cup {"idle", "done", "rejected", "failed"}

\* The sender still holds its connection.
SenderUp(s) == spc[s] \in SenderBusy

RequestWritten(s) == written[s] >= 1
HeaderWritten(s, i) == written[s] >= 2 * i
BodyWritten(s, i) == written[s] >= 2 * i + 1

SessionBusy == {"handshake", "control", "lockWait", "prompting", "accepting",
                "rejecting", "fileWait", "mkdir", "creating", "body",
                "cleanup", "verified", "closing"}
SessionStates == SessionBusy \cup {"none", "ended", "cancelled"}

Active(s) == rpc[s] \in SessionBusy

EndpointOpen == phase \in {"listening", "serving", "stopping"}
ProcessAlive == phase \notin {"exited", "killed"}

\* What the session of s awaits on the connection fails for good.
LinkDown(s) == ~SenderUp(s) \/ ~EndpointOpen

\* The receiver holds the connection of s no more, or never took it.
Gone(s) ==
  \/ ~EndpointOpen
  \/ s \notin pending /\ ~Active(s)

-----------------------------------------------------------------------------
(* The output directory. *)

FileKinds == {"old", "partial", "whole"}
Content == [kind : FileKinds \cup {"free", "dir"},
            by : Senders \cup {NoOne}, file : Nat]

Free == [kind |-> "free", by |-> NoOne, file |-> 0]
Old  == [kind |-> "old", by |-> NoOne, file |-> 0]
Dir  == [kind |-> "dir", by |-> NoOne, file |-> 0]
Partial(s, i) == [kind |-> "partial", by |-> s, file |-> i]
Whole(s, i)   == [kind |-> "whole", by |-> s, file |-> i]

Saved(s, i) == \E n \in Names : disk[n] = Whole(s, i)
SavedFiles(s) == {i \in 1..NFiles(s) : Saved(s, i)}

-----------------------------------------------------------------------------
Init ==
  /\ config \in Configs
  /\ spc = [s \in Senders |-> "idle"]
  /\ written = [s \in Senders |-> 0]
  /\ reply = [s \in Senders |-> "none"]
  /\ rpc = [s \in Senders |-> "none"]
  /\ rIdx = [s \in Senders |-> 1]
  /\ probe = [s \in Senders |-> 1]
  /\ dest = [s \in Senders |-> CHOOSE n \in Names : TRUE]
  /\ disk = [n \in Names |-> IF n \in Existing THEN Old ELSE Free]
  /\ answer = [s \in Senders |-> "none"]
  /\ queue = <<>>
  /\ reader = NoOne
  /\ phase = "listening"
  /\ pending = {}
  /\ permits = MaxActive

-----------------------------------------------------------------------------
(* The sender: send_files. *)

SenderStep(s, from, to) == spc[s] = from /\ spc' = [spc EXCEPT ![s] = to]

Write(s) == written' = [written EXCEPT ![s] = @ + 1]

\* The endpoint keeps a new connection for accept(), or refuses it when too many wait.
WithIncoming(s) ==
  IF EndpointOpen /\ Cardinality(pending) < MaxIncoming THEN pending \cup {s} ELSE pending

\* collect_files, the total, Endpoint::client and connect.
Start(s) ==
  /\ s \in config.sending
  /\ \/ /\ (Collected(s) /\ ~TotalOverflows(s)) \/ s \in Foreign
        /\ SenderStep(s, "idle", "connecting")
        /\ pending' = WithIncoming(s)
     \/ /\ ~Collected(s) \/ TotalOverflows(s)
        /\ s \notin Foreign
        /\ SenderStep(s, "idle", "failed")
        /\ UNCHANGED pending
  /\ UNCHANGED <<config, written, reply, sessionVars, disk, consoleVars, phase, permits>>

Connected(s) ==
  /\ rpc[s] = "handshake" /\ EndpointOpen
  /\ SenderStep(s, "connecting", "requesting")
  /\ UNCHANGED <<config, written, reply, sessionVars, disk, consoleVars, loopVars>>

\* Nobody takes the queued connection: connect() ends with the idle timeout.
ConnectTimeout(s) ==
  /\ s \in pending
  /\ phase # "listening" \/ "network" \in Faults
  /\ SenderStep(s, "connecting", "failed")
  /\ UNCHANGED <<config, written, reply, sessionVars, disk, consoleVars, loopVars>>

\* write_message finds a manifest too long only now, with the connection made.
SendRequest(s) ==
  /\ \/ /\ NFiles(s) <= MaxEntries
        /\ SenderStep(s, "requesting", "awaitAccept")
        /\ Write(s)
     \/ /\ NFiles(s) > MaxEntries
        /\ SenderStep(s, "requesting", "failed")
        /\ UNCHANGED written
  /\ UNCHANGED <<config, reply, sessionVars, disk, consoleVars, loopVars>>

\* The read of the control response.
ReadAcceptance(s) ==
  /\ \/ reply[s] = "accepted" /\ SenderStep(s, "awaitAccept", "opening")
     \/ reply[s] = "rejected" /\ SenderStep(s, "awaitAccept", "rejected")
  /\ reply' = [reply EXCEPT ![s] = "none"]
  /\ UNCHANGED <<config, written, sessionVars, disk, consoleVars, loopVars>>

\* open_bi and the FileRequest of the next file.
OpenFile(s) ==
  /\ SenderStep(s, "opening", "streaming")
  /\ Write(s)
  /\ UNCHANGED <<config, reply, sessionVars, disk, consoleVars, loopVars>>

\* stream_file to the end, and finish.
FinishBody(s) ==
  /\ SenderStep(s, "streaming", "awaitVerdict")
  /\ Write(s)
  /\ UNCHANGED <<config, reply, sessionVars, disk, consoleVars, loopVars>>

\* stream_file found the file shorter or longer than the manifest says.
SourceChanged(s) ==
  /\ "source" \in Faults
  /\ SenderStep(s, "streaming", "failed")
  /\ UNCHANGED <<config, written, reply, sessionVars, disk, consoleVars, loopVars>>

\* Variation: the loop over the files ends one file early.
ReadVerdict_OneShort(s) ==
  /\ reply[s] = "accepted"
  /\ IF written[s] < 2 * NFiles(s) - 1
       THEN SenderStep(s, "awaitVerdict", "opening")
       ELSE SenderStep(s, "awaitVerdict", "done")
  /\ reply' = [reply EXCEPT ![s] = "none"]
  /\ UNCHANGED <<config, written, sessionVars, disk, consoleVars, loopVars>>

\* The read of a file's response; after the last file the connection is closed.
ReadVerdict(s) ==
  /\ \/ /\ reply[s] = "accepted"
        /\ written[s] < 2 * NFiles(s) + 1
        /\ SenderStep(s, "awaitVerdict", "opening")
     \/ /\ reply[s] = "accepted"
        /\ written[s] = 2 * NFiles(s) + 1
        /\ SenderStep(s, "awaitVerdict", "done")
     \/ /\ reply[s] = "rejected"
        /\ SenderStep(s, "awaitVerdict", "rejected")
  /\ reply' = [reply EXCEPT ![s] = "none"]
  /\ UNCHANGED <<config, written, sessionVars, disk, consoleVars, loopVars>>

\* An operation of the sender on the connection fails.  An answer that was
\* written but not read by now is lost with the connection.
SenderFails(s, why) ==
  /\ why
  /\ SenderUp(s)
  /\ spc' = [spc EXCEPT ![s] = "failed"]
  /\ UNCHANGED <<config, written, reply, sessionVars, disk, consoleVars, loopVars>>

SenderLosesConnection(s) == SenderFails(s, Gone(s))
SenderLosesNetwork(s) == SenderFails(s, "network" \in Faults)
SenderQuits(s) == SenderFails(s, "crash" \in Faults)

-----------------------------------------------------------------------------
(* The accept loop: receive_files. *)

\* Variation: the permit is taken without a look at what is left.
Accept_Unchecked(s) ==
  /\ phase = "listening" /\ s \in pending /\ ~Once
  /\ permits' = permits - 1
  /\ pending' = pending \ {s}
  /\ rpc' = [rpc EXCEPT ![s] = "handshake"]
  /\ UNCHANGED <<config, senderVars, reply, rIdx, probe, dest, disk, consoleVars, phase>>

Accept(s) ==
  /\ phase = "listening" /\ s \in pending
  /\ \/ Once /\ phase' = "serving" /\ UNCHANGED permits
     \/ ~Once /\ permits > 0 /\ permits' = permits - 1 /\ UNCHANGED phase
  /\ pending' = pending \ {s}
  /\ rpc' = [rpc EXCEPT ![s] = "handshake"]
  /\ UNCHANGED <<config, senderVars, reply, rIdx, probe, dest, disk, consoleVars>>

\* try_acquire_owned found no permit.
Refuse(s) ==
  /\ phase = "listening" /\ s \in pending
  /\ ~Once /\ permits = 0
  /\ pending' = pending \ {s}
  /\ UNCHANGED <<config, senderVars, reply, sessionVars, disk, consoleVars, phase, permits>>

\* Ctrl+C wins the select; --once listens to no signal.
Interrupt ==
  /\ phase = "listening" /\ ~Once
  /\ phase' = "stopping"
  /\ UNCHANGED <<config, senderVars, reply, sessionVars, disk, consoleVars, pending, permits>>

\* advertisement.shutdown is over; endpoint.close drops what is queued.
CloseEndpoint ==
  /\ phase = "stopping"
  /\ phase' = "draining"
  /\ pending' = {}
  /\ UNCHANGED <<config, senderVars, reply, sessionVars, disk, consoleVars, permits>>

\* wait_idle returns: it waits for connections, not for the sessions.
WaitIdle ==
  /\ phase = "draining"
  /\ phase' = "unwinding"
  /\ UNCHANGED <<config, senderVars, reply, sessionVars, disk, consoleVars, pending, permits>>

\* main has returned and the runtime drops a task at its await point.
Cancel(s) ==
  /\ phase = "unwinding" /\ Active(s)
  /\ rpc' = [rpc EXCEPT ![s] = "cancelled"]
  /\ permits' = IF Once THEN permits ELSE permits + 1
  /\ UNCHANGED <<config, senderVars, reply, rIdx, probe, dest, disk, consoleVars, phase, pending>>

\* The runtime is gone once no task and no blocking call is left.
Exit ==
  /\ phase = "unwinding"
  /\ \A s \in Senders : ~Active(s)
  /\ reader = NoOne
  /\ phase' = "exited"
  /\ UNCHANGED <<config, senderVars, reply, sessionVars, disk, consoleVars, pending, permits>>

\* The process is killed, or takes Ctrl+C under --once.
Kill ==
  /\ "crash" \in Faults /\ ProcessAlive
  /\ phase' = "killed"
  /\ rpc' = [s \in Senders |-> IF Active(s) THEN "cancelled" ELSE rpc[s]]
  /\ pending' = {}
  /\ reader' = NoOne
  /\ UNCHANGED <<config, senderVars, reply, rIdx, probe, dest, disk, answer, queue, permits>>

-----------------------------------------------------------------------------
(* A session: handle_connection and the task around it. *)

SessionStep(s, from, to) == rpc[s] = from /\ rpc' = [rpc EXCEPT ![s] = to]

Answer(s, response) == reply' = [reply EXCEPT ![s] = response]

\* handle_connection returns: the task gives its permit back and the connection
\* goes with it; under --once receive_files goes on to stop.
EndSession(s) ==
  /\ rpc' = [rpc EXCEPT ![s] = "ended"]
  /\ \/ Once /\ phase' = "stopping" /\ UNCHANGED permits
     \/ ~Once /\ permits' = permits + 1 /\ UNCHANGED phase
  /\ UNCHANGED pending

\* incoming.await
Handshake(s) ==
  /\ spc[s] # "connecting" /\ EndpointOpen
  /\ SessionStep(s, "handshake", "control")
  /\ UNCHANGED <<config, senderVars, reply, rIdx, probe, dest, disk, consoleVars, loopVars>>

\* Variation: the session waits for the lock without its place in the queue.
ReadRequest_NoPlace(s) ==
  /\ RequestWritten(s) /\ EndpointOpen
  /\ SessionStep(s, "control", IF ValidateRequest(s) THEN "lockWait" ELSE "rejecting")
  /\ UNCHANGED <<config, senderVars, reply, rIdx, probe, dest, disk, consoleVars, loopVars>>

\* The request is read, validated, and accepted, refused or put to the user.
\* request_approval gives up without an answer when the total overflows.
ReadRequest(s) ==
  /\ RequestWritten(s) /\ EndpointOpen
  /\ LET valid == ValidateRequest(s)
         ask == valid /\ ~AcceptAll /\ Terminal
     IN \/ /\ ~valid \/ (~AcceptAll /\ ~Terminal)
           /\ SessionStep(s, "control", "rejecting")
           /\ UNCHANGED <<queue, loopVars>>
        \/ /\ valid /\ AcceptAll
           /\ SessionStep(s, "control", "accepting")
           /\ UNCHANGED <<queue, loopVars>>
        \/ /\ ask /\ ~TotalOverflows(s)
           /\ SessionStep(s, "control", "lockWait")
           /\ queue' = Append(queue, s)
           /\ UNCHANGED loopVars
        \/ /\ ask /\ TotalOverflows(s)
           /\ rpc[s] = "control"
           /\ EndSession(s)
           /\ UNCHANGED queue
  /\ UNCHANGED <<config, senderVars, reply, rIdx, probe, dest, disk, answer, reader>>

\* Variation: no approval lock.
Prompt_Unlocked(s) ==
  /\ queue # <<>> /\ Head(queue) = s
  /\ SessionStep(s, "lockWait", "prompting")
  /\ queue' = Tail(queue)
  /\ reader' = s
  /\ UNCHANGED <<config, senderVars, reply, rIdx, probe, dest, disk, answer, loopVars>>

\* The approval lock is free: the question is printed and a blocking thread
\* reads the console.
Prompt(s) ==
  /\ queue # <<>> /\ Head(queue) = s
  /\ \A t \in Senders : rpc[t] # "prompting"
  /\ phase \in {"listening", "serving", "stopping", "draining"}
  /\ SessionStep(s, "lockWait", "prompting")
  /\ queue' = Tail(queue)
  /\ reader' = s
  /\ UNCHANGED <<config, senderVars, reply, rIdx, probe, dest, disk, answer, loopVars>>

\* Variation: any line that comes in counts as a yes.
UserAnswers_AnyLine(s) ==
  /\ reader = s
  /\ reader' = NoOne
  /\ SessionStep(s, "prompting", "accepting")
  /\ answer' \in {[answer EXCEPT ![s] = a] : a \in {"yes", "no"}}
  /\ UNCHANGED <<config, senderVars, reply, rIdx, probe, dest, disk, queue, loopVars>>

\* Variation: the blocking read ends only for a session that still waits.
UserAnswers_Orphan(s) ==
  /\ reader = s
  /\ reader' = NoOne
  /\ \E said \in {"yes", "no"} :
       /\ SessionStep(s, "prompting", IF said = "yes" THEN "accepting" ELSE "rejecting")
       /\ answer' = [answer EXCEPT ![s] = said]
  /\ UNCHANGED <<config, senderVars, reply, rIdx, probe, dest, disk, queue, loopVars>>

\* A line comes in.  If the session is gone by then it only frees the thread.
UserAnswers(s) ==
  /\ reader = s
  /\ reader' = NoOne
  /\ \/ /\ SessionStep(s, "prompting", "accepting")
        /\ answer' = [answer EXCEPT ![s] = "yes"]
     \/ /\ SessionStep(s, "prompting", "rejecting")
        /\ answer' = [answer EXCEPT ![s] = "no"]
     \/ rpc[s] # "prompting" /\ UNCHANGED <<rpc, answer>>
  /\ UNCHANGED <<config, senderVars, reply, rIdx, probe, dest, disk, queue, loopVars>>

\* Standard input fails: the session ends with no answer to the sender.
ConsoleFails(s) ==
  /\ "stdin" \in Faults
  /\ reader = s /\ rpc[s] = "prompting"
  /\ reader' = NoOne
  /\ EndSession(s)
  /\ UNCHANGED <<config, senderVars, reply, rIdx, probe, dest, disk, answer, queue>>

WriteAcceptance(s) ==
  /\ EndpointOpen
  /\ SessionStep(s, "accepting", "fileWait")
  /\ Answer(s, "accepted")
  /\ UNCHANGED <<config, senderVars, rIdx, probe, dest, disk, consoleVars, loopVars>>

\* A rejection is written and finished, and the session returns at once.
WriteRejection(s) ==
  /\ EndpointOpen
  /\ rpc[s] = "rejecting"
  /\ Answer(s, "rejected")
  /\ EndSession(s)
  /\ UNCHANGED <<config, senderVars, rIdx, probe, dest, disk, consoleVars>>

\* Another build may send any index in a header: all that counts is whether it
\* is the expected one.
HeaderMatches(s) == IF s \in Foreign THEN BOOLEAN ELSE {TRUE}

ReadHeader(s) ==
  /\ HeaderWritten(s, rIdx[s]) /\ EndpointOpen
  /\ \E matches \in HeaderMatches(s) :
       SessionStep(s, "fileWait", IF matches THEN "mkdir" ELSE "rejecting")
  /\ UNCHANGED <<config, senderVars, reply, rIdx, probe, dest, disk, consoleVars, loopVars>>

\* create_dir_all of the parent: it fails when a file has an ancestor's name.
MakeParents(s) ==
  LET parents == Ancestors[Path(s, rIdx[s])]
      blocked == \E n \in parents : disk[n].kind \in FileKinds
  IN  /\ rpc[s] = "mkdir"
      /\ \/ /\ ~blocked
            /\ SessionStep(s, "mkdir", "creating")
            /\ disk' = [n \in Names |-> IF n \in parents THEN Dir ELSE disk[n]]
         \/ blocked /\ SessionStep(s, "mkdir", "rejecting") /\ UNCHANGED disk
      /\ probe' = [probe EXCEPT ![s] = 1]
      /\ UNCHANGED <<config, senderVars, reply, rIdx, dest, consoleVars, loopVars>>

\* Variation: the file is opened with create in place of create_new.
Probe_Overwrite(s) ==
  LET name == Candidate[Path(s, rIdx[s])][probe[s]]
  IN  /\ SessionStep(s, "creating", "body")
      /\ disk' = [disk EXCEPT ![name] = Partial(s, rIdx[s])]
      /\ dest' = [dest EXCEPT ![s] = name]
      /\ UNCHANGED <<config, senderVars, reply, rIdx, probe, consoleVars, loopVars>>

\* One turn of create_destination's loop: create_new under one candidate.
Probe(s) ==
  LET names == Candidate[Path(s, rIdx[s])]
      name == names[probe[s]]
  IN  /\ rpc[s] = "creating"
      /\ \/ /\ disk[name] = Free
            /\ SessionStep(s, "creating", "body")
            /\ disk' = [disk EXCEPT ![name] = Partial(s, rIdx[s])]
            /\ dest' = [dest EXCEPT ![s] = name]
            /\ UNCHANGED probe
         \/ /\ disk[name] # Free /\ probe[s] < Len(names)
            /\ probe' = [probe EXCEPT ![s] = @ + 1]
            /\ UNCHANGED <<rpc, disk, dest>>
         \/ /\ disk[name] # Free /\ probe[s] = Len(names)
            /\ SessionStep(s, "creating", "rejecting")
            /\ UNCHANGED <<probe, disk, dest>>
      /\ UNCHANGED <<config, senderVars, reply, rIdx, consoleVars, loopVars>>

\* The file system refuses a directory or a file.
CreateFails(s) ==
  /\ "disk" \in Faults
  /\ \E at \in {"mkdir", "creating"} : SessionStep(s, at, "rejecting")
  /\ UNCHANGED <<config, senderVars, reply, rIdx, probe, dest, disk, consoleVars, loopVars>>

\* Another build may send a digest that is not the body's.
DigestMatches(s) == IF s \in Foreign THEN BOOLEAN ELSE {TRUE}

\* Variation: a file whose digest is wrong is kept and rejected.
ReceiveBody_KeepsMismatch(s) ==
  /\ BodyWritten(s, rIdx[s]) /\ EndpointOpen
  /\ \E matches \in DigestMatches(s) :
       SessionStep(s, "body", IF matches THEN "verified" ELSE "rejecting")
  /\ disk' = [disk EXCEPT ![dest[s]] = Whole(s, rIdx[s])]
  /\ UNCHANGED <<config, senderVars, reply, rIdx, probe, dest, consoleVars, loopVars>>

\* receive_body to its end: the digest decides.
ReceiveBody(s) ==
  /\ BodyWritten(s, rIdx[s]) /\ EndpointOpen
  /\ \E matches \in DigestMatches(s) :
       \/ /\ matches
          /\ SessionStep(s, "body", "verified")
          /\ disk' = [disk EXCEPT ![dest[s]] = Whole(s, rIdx[s])]
       \/ ~matches /\ SessionStep(s, "body", "cleanup") /\ UNCHANGED disk
  /\ UNCHANGED <<config, senderVars, reply, rIdx, probe, dest, consoleVars, loopVars>>

\* Variation: the error is reported before the file is removed.
ReceiveBodyFails_NoCleanup(s) ==
  /\ LinkDown(s) \/ "network" \in Faults
  /\ SessionStep(s, "body", "rejecting")
  /\ UNCHANGED <<config, senderVars, reply, rIdx, probe, dest, disk, consoleVars, loopVars>>

\* receive_body fails: the stream ends, stalls for CHUNK_TIMEOUT or breaks, or the
\* disk is full.
ReceiveBodyFails(s) ==
  /\ LinkDown(s) \/ s \in Foreign \/ "network" \in Faults \/ "disk" \in Faults
  /\ SessionStep(s, "body", "cleanup")
  /\ UNCHANGED <<config, senderVars, reply, rIdx, probe, dest, disk, consoleVars, loopVars>>

\* Variation: the manifest's name is removed, not the name that was created.
RemovePartial_FirstName(s) ==
  /\ SessionStep(s, "cleanup", "rejecting")
  /\ disk' = [disk EXCEPT ![Candidate[Path(s, rIdx[s])][1]] = Free]
  /\ UNCHANGED <<config, senderVars, reply, rIdx, probe, dest, consoleVars, loopVars>>

\* Variation: the error of receive_body is swallowed.
RemovePartial_Swallows(s) ==
  /\ SessionStep(s, "cleanup", "verified")
  /\ disk' = [disk EXCEPT ![dest[s]] = Free]
  /\ UNCHANGED <<config, senderVars, reply, rIdx, probe, dest, consoleVars, loopVars>>

\* Variation: the file is tried again under a fresh name.
RemovePartial_Retries(s) ==
  /\ SessionStep(s, "cleanup", "mkdir")
  /\ UNCHANGED <<config, senderVars, reply, rIdx, probe, dest, disk, consoleVars, loopVars>>

\* remove_file, whose error is ignored.
RemovePartial(s) ==
  /\ SessionStep(s, "cleanup", "rejecting")
  /\ \/ disk' = [disk EXCEPT ![dest[s]] = Free]
     \/ "disk" \in Faults /\ UNCHANGED disk
  /\ UNCHANGED <<config, senderVars, reply, rIdx, probe, dest, consoleVars, loopVars>>

WriteVerdict(s) ==
  /\ EndpointOpen
  /\ SessionStep(s, "verified", IF rIdx[s] = NFiles(s) THEN "closing" ELSE "fileWait")
  /\ rIdx' = [rIdx EXCEPT ![s] = @ + 1]
  /\ Answer(s, "accepted")
  /\ UNCHANGED <<config, senderVars, probe, dest, disk, consoleVars, loopVars>>

\* connection.closed()
PeerClosed(s) ==
  /\ rpc[s] = "closing" /\ LinkDown(s)
  /\ EndSession(s)
  /\ UNCHANGED <<config, senderVars, reply, rIdx, probe, dest, disk, consoleVars>>

\* An operation on the connection returns an error.
AtConnection == {"handshake", "control", "accepting", "rejecting", "fileWait", "verified"}

\* Variation: the error path forgets what follows a session: the permit, or the end
\* of the receiver under --once.
ConnectionError_Leaks(s) ==
  /\ rpc[s] \in AtConnection /\ LinkDown(s)
  /\ rpc' = [rpc EXCEPT ![s] = "ended"]
  /\ UNCHANGED <<config, senderVars, reply, rIdx, probe, dest, disk, consoleVars, loopVars>>

ConnectionError(s) ==
  /\ rpc[s] \in AtConnection /\ LinkDown(s)
  /\ EndSession(s)
  /\ UNCHANGED <<config, senderVars, reply, rIdx, probe, dest, disk, consoleVars>>

\* Variation: no timeout on the next file's stream.
Timeout_NotForFiles(s) ==
  /\ "network" \in Faults \/ s \in Foreign
  /\ rpc[s] = "control"
  /\ EndSession(s)
  /\ UNCHANGED <<config, senderVars, reply, rIdx, probe, dest, disk, consoleVars>>

\* CONTROL_TIMEOUT runs out on a stream or a message that does not come.  A
\* message that cannot be read ends the session in the same way.
Timeout(s) ==
  /\ "network" \in Faults \/ s \in Foreign
  /\ rpc[s] \in {"control", "fileWait"}
  /\ EndSession(s)
  /\ UNCHANGED <<config, senderVars, reply, rIdx, probe, dest, disk, consoleVars>>

\* The path is cut for long enough that QUIC gives the connection up.  No timer of
\* the code does this, and a peer that keeps the path alive prevents it.
ConnectionLost(s) ==
  /\ "network" \in Faults
  /\ rpc[s] \in AtConnection \cup {"closing"}
  /\ EndSession(s)
  /\ UNCHANGED <<config, senderVars, reply, rIdx, probe, dest, disk, consoleVars>>

-----------------------------------------------------------------------------
SenderProgress(s) ==
  \/ Connected(s) \/ ConnectTimeout(s) \/ SendRequest(s) \/ ReadAcceptance(s)
  \/ OpenFile(s) \/ FinishBody(s) \/ ReadVerdict(s) \/ SenderLosesConnection(s)

SessionProgress(s) ==
  \/ ReadRequest(s) \/ Prompt(s) \/ ReadHeader(s) \/ MakeParents(s) \/ Probe(s)
  \/ ReceiveBody(s) \/ RemovePartial(s) \/ PeerClosed(s) \/ ConnectionError(s)
  \/ Cancel(s)

\* The steps that need the peer to go on and have no timeout in the code.
PeerPaced(s) ==
  Handshake(s) \/ WriteAcceptance(s) \/ WriteRejection(s) \/ WriteVerdict(s)

LoopProgress == CloseEndpoint \/ WaitIdle \/ Exit \/ \E s \in Senders : Accept(s) \/ Refuse(s)

\* Every process has ended: the only state in which nothing is left to do.
Terminated ==
  /\ ~ProcessAlive
  /\ \A s \in Senders : ~SenderUp(s)
  /\ UNCHANGED vars

Fault ==
  \/ Kill
  \/ \E s \in Senders :
       \/ SourceChanged(s) \/ SenderLosesNetwork(s) \/ SenderQuits(s)
       \/ ConsoleFails(s) \/ CreateFails(s) \/ ReceiveBodyFails(s) \/ Timeout(s)
       \/ ConnectionLost(s)

Next ==
  \/ Interrupt
  \/ LoopProgress
  \/ Fault
  \/ Terminated
  \/ \E s \in Senders :
       \/ Start(s) \/ SenderProgress(s)
       \/ SessionProgress(s) \/ PeerPaced(s) \/ UserAnswers(s)

Spec == Init /\ [][Next]_vars

(* Fairness.  The runtime polls every task that can go on, and the timers   *)
(* of handle_connection and receive_body fire: these steps are fair.  The   *)
(* handshake, the writes of responses and connection.closed() have no       *)
(* timer: they go on for a peer that reads and closes as this build does,   *)
(* and for a peer that is gone; one of another build may stay as long as it *)
(* likes.  That the path is cut is possible and never fair.  A sender is a  *)
(* process of its own, and one of another build may stall.  Nothing in the  *)
(* code makes the user answer.                                              *)

ReceiverFairness ==
  /\ WF_vars(CloseEndpoint) /\ WF_vars(WaitIdle) /\ WF_vars(Exit)
  /\ \A s \in Senders : /\ WF_vars(Accept(s)) /\ WF_vars(Refuse(s))
                        /\ WF_vars(SessionProgress(s))
                        /\ WF_vars(s \notin Foreign /\ PeerPaced(s))
                        /\ WF_vars(ReceiveBodyFails(s)) /\ WF_vars(Timeout(s))

SenderFairness == \A s \in Senders : WF_vars(s \notin Foreign /\ SenderProgress(s))

UserFairness == \A s \in Senders : WF_vars(UserAnswers(s))

UnattendedSpec == Spec /\ ReceiverFairness /\ SenderFairness
FairSpec == UnattendedSpec /\ UserFairness

-----------------------------------------------------------------------------
(* Properties. *)

\* Every variable stays in its range: what the accept loop, the sessions and the
\* senders of transfer.rs assign.
TypeOK ==
  /\ config \in Configs
  /\ spc \in [Senders -> SenderStates]
  /\ written \in [Senders -> Nat]
  /\ reply \in [Senders -> {"none", "accepted", "rejected"}]
  /\ rpc \in [Senders -> SessionStates]
  /\ rIdx \in [Senders -> Nat \ {0}]
  /\ probe \in [Senders -> Nat \ {0}]
  /\ dest \in [Senders -> Names]
  /\ disk \in [Names -> Content]
  /\ answer \in [Senders -> {"none", "yes", "no"}]
  /\ queue \in Seq(Senders)
  /\ reader \in Senders \cup {NoOne}
  /\ phase \in {"listening", "serving", "stopping", "draining", "unwinding",
                "exited", "killed"}
  /\ pending \subseteq Senders
  /\ permits \in Nat

\* A sender that reports "Transfer complete" (transfer.rs:106) has every file of
\* its manifest whole in the receiver's directory, whatever happened to the other
\* sessions, to the process or to the connection in between.
DoneMeansSaved ==
  \A s \in Senders :
    spc[s] = "done" => \A i \in 1..NFiles(s) : Saved(s, i)

\* A sender told that a file was rejected can trust it: that transfer is not
\* complete in the receiver's directory (transfer.rs:89, 444-450).
RejectedMeansMissing ==
  \A s \in Senders :
    spc[s] = "rejected" /\ NFiles(s) > 0 => SavedFiles(s) # 1..NFiles(s)

\* While a session writes or removes a file, the name it holds from
\* create_destination is its own partial file and no other session's.
DestinationOwned ==
  \A s \in Senders :
    rpc[s] \in {"body", "cleanup"} => disk[dest[s]] = Partial(s, rIdx[s])

\* A manifest entry ends up under one name at most: no session leaves two files
\* for one entry, whatever collisions and failures it met.
OneNamePerEntry ==
  \A n, m \in Names :
    disk[n].by # NoOne /\ disk[n].by = disk[m].by /\ disk[n].file = disk[m].file => n = m

\* No step of any session changes a file that was there before, a file another
\* transfer completed, or a directory: names come from create_new (transfer.rs:656)
\* and remove_file (transfer.rs:446) takes only what its session created.
NeverClobber ==
  [][\A n \in Names : disk[n].kind \in {"old", "whole", "dir"} => disk'[n] = disk[n]]_vars

\* A session that ran to its end leaves no partial file behind, if the disk
\* itself does not fail (transfer.rs:444-450).  Sessions dropped with the runtime
\* or the process are not covered: they do leave one.
NoPartialLeft ==
  "disk" \notin Faults =>
    \A s \in Senders : rpc[s] = "ended" =>
      \A n \in Names : ~(disk[n].kind = "partial" /\ disk[n].by = s)

\* One question is on the console at a time and the line that comes in belongs
\* to the session that asked (the approval lock, transfer.rs:520).
OnePrompt ==
  \A s \in Senders : rpc[s] = "prompting" => reader = s

\* Nothing is written for a sender whose request is invalid, or that the user
\* was to approve and did not ("required for every transfer", ui.rs:64).
OnlyApproved ==
  \A n \in Names : disk[n].by # NoOne =>
    /\ ValidateRequest(disk[n].by)
    /\ AcceptAll \/ answer[disk[n].by] = "yes"

\* No path out of a session loses its permit or gives it back twice, so at most
\* MAX_ACTIVE_TRANSFERS sessions run at a time.
PermitsAccounted ==
  ~Once /\ phase # "killed" =>
    permits + Cardinality({s \in Senders : Active(s)}) = MaxActive

\* A run of the protocol is a run of Delivery.
Promise == INSTANCE Delivery WITH
  Transfers <- Senders,
  length <- [s \in Senders |-> NFiles(s)],
  outcome <- [s \in Senders |->
                CASE spc[s] = "done" -> "delivered"
                  [] spc[s] \in {"rejected", "failed"} -> "failed"
                  [] OTHER -> "pending"],
  saved <- [s \in Senders |-> SavedFiles(s)]

\* Files are saved in manifest order, none is skipped or lost again, and the
\* sender's report follows what is on the receiver's disk (transfer.rs:407-456).
KeepsPromise == Promise!Spec

\* The sender reads the rejection the receiver wrote: with no fault at all, it
\* does not end with a connection error instead.
RejectionDelivered ==
  \A s \in Senders : spc[s] = "failed" => reply[s] # "rejected"

\* The session waits for a peer of another build where the code has no timeout
\* (transfer.rs:356, the writes of responses up to 452, and 458).
HeldByPeer(s) ==
  /\ s \in Foreign
  /\ rpc[s] \in {"handshake", "accepting", "rejecting", "verified", "closing"}

\* Every session ends for good and gives its permit back, also when its sender
\* stalls or disappears, as long as the user answers: the timeouts of
\* handle_connection and receive_body leave a sender of another build five places
\* to hold its session, and no place to a sender of this build.
SessionsEnd ==
  \A s \in Senders : rpc[s] = "handshake" ~> [](~Active(s) \/ HeldByPeer(s))

\* send_files reads without a timeout of its own; it returns all the same, for
\* the receiver ends its session or the connection is found lost.
SendersFinish ==
  \A s \in Senders :
    spc[s] = "connecting" /\ s \notin Foreign ~> spc[s] \in {"done", "rejected", "failed"}

\* Under --once the receiver exits after its one connection, however it ended,
\* unless that connection is held by a peer of another build.
OnceExits ==
  phase = "serving" ~> [](~ProcessAlive \/ \E s \in Senders : HeldByPeer(s))

\* "Press Ctrl+C to stop." (ui.rs:71): an interrupted receiver ends.
InterruptStops == phase = "stopping" ~> ~ProcessAlive

=============================================================================
