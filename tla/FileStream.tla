----------------------------- MODULE FileStream -----------------------------
(***************************************************************************)
(* One file on its stream: the FileRequest that names it (write_message,   *)
(* read_message), stream_file at the sender, receive_body at the receiver, *)
(* and the flow-controlled stream between them (protocol.rs, transfer.rs). *)
(* Module Transfer takes this for one write and one read.                  *)
(*                                                                         *)
(* The sender reads the file in pieces no longer than a chunk, and shorter *)
(* when the file system says so; the receiver reads whole chunks; the      *)
(* stream keeps neither's boundaries.  The file may change while it is     *)
(* read.  The receiver's writes go through tokio::fs::File, which finishes *)
(* a write in the background and reports its failure at the next call.     *)
(*                                                                         *)
(* A digest is the sequence it is the digest of: SHA-256 has no collision. *)
(***************************************************************************)
EXTENDS Integers, Sequences, FiniteSets

CONSTANTS Byte,          \* values of a byte
          MaxLength,     \* bound: the longest content of the source
          MaxEdits,      \* bound: how often the source changes
          CHUNK_SIZE,
          DIGEST_LENGTH,
          PREFIX_LENGTH, \* bytes of the length before a message
          HeaderLength,  \* bytes of the FileRequest
          MAX_MESSAGE_LENGTH,
          Window         \* bytes the stream holds (QUIC's flow control)

ASSUME SizesAssumption ==
    /\ MaxLength \in Nat /\ MaxEdits \in Nat
    /\ CHUNK_SIZE \in Nat \ {0}
    /\ DIGEST_LENGTH \in Nat \ {0}
    /\ PREFIX_LENGTH \in Nat \ {0}
    /\ HeaderLength \in Nat \ {0}
    /\ MAX_MESSAGE_LENGTH \in Nat /\ HeaderLength <= MAX_MESSAGE_LENGTH
    /\ Window \in Nat \ {0}

VARIABLES original,  \* the content when collect_files looked at it
          source,    \* the content now
          edits,     \* the changes so far
          rewritten, \* history: a change touched bytes it did not cut off or append
          foreign,   \* the sender is another program
          faulty,    \* history: something failed or stalled
          spc,       \* where the sender is
          sread,     \* the bytes it has read, which its hasher has seen
          sbuf,      \* what it still has to write
          claimed,   \* history: the bytes whose digest it sends
          wire,      \* the bytes in the stream
          rpc,       \* where the receiver is
          rbuf,      \* the bytes read_exact has so far
          rread,     \* the bytes the receiver's hasher has seen
          pending,   \* the write the file is still busy with
          disk,      \* the bytes in the destination
          diskError  \* the last write failed, which nobody has been told

sourceVars == <<original, source, edits, rewritten, foreign>>
senderVars == <<spc, sread, sbuf, claimed>>
fileVars == <<pending, disk, diskError>>
receiverVars == <<rpc, rbuf, rread>>
vars == <<sourceVars, faulty, senderVars, wire, receiverVars, fileVars>>

size == Len(original)

Smaller(a, b) == IF a < b THEN a ELSE b

Contents == UNION {[1..n -> Byte] : n \in 0..MaxLength}

(* The i-th byte of the digest of s, on the stream or in a file. *)
DigestByte(s, i) == [digest |-> s, at |-> i]
DigestOf(s) == [i \in 1..DIGEST_LENGTH |-> DigestByte(s, i)]

(* What write_message puts on the stream: the length, then the message,    *)
(* here a FileRequest for this file or, from another program, for another. *)
LengthByte(n, i) == [length |-> n, at |-> i]
Message(file) == [i \in 1..HeaderLength |-> [request |-> file, at |-> i]]
Frame(n, file) == [i \in 1..PREFIX_LENGTH |-> LengthByte(n, i)] \o Message(file)
FileRequest == Frame(HeaderLength, "this")
ForeignFrames == {Frame(n, file) : n \in 0..MAX_MESSAGE_LENGTH + 1, file \in {"this", "other"}}

Take(s, n) == SubSeq(s, 1, n)
Drop(s, n) == SubSeq(s, n + 1, Len(s))

Init ==
    /\ original \in Contents
    /\ source = original /\ edits = 0 /\ rewritten = FALSE
    /\ foreign \in BOOLEAN
    /\ faulty = FALSE
    /\ spc = "header"
    /\ sbuf \in IF foreign THEN ForeignFrames ELSE {FileRequest}
    /\ sread = << >> /\ claimed = << >>
    /\ wire = << >>
    /\ rpc = "length" /\ rbuf = << >> /\ rread = << >>
    /\ pending = << >> /\ disk = << >> /\ diskError = FALSE

----------------------------------------------------------------------------
(* Another program changes the file: it appends, truncates or rewrites. *)
Edit(c) ==
    /\ edits < MaxEdits
    /\ ~foreign /\ spc \in {"header", "reading"}
    /\ c # source
    /\ source' = c
    /\ edits' = edits + 1
    /\ rewritten' =
         (rewritten \/ \E i \in 1..Smaller(Len(c), size) : c[i] # original[i])
    /\ UNCHANGED <<original, foreign, faulty, senderVars, wire, receiverVars, fileVars>>

----------------------------------------------------------------------------
(* The sender.                                                             *)

unread == Drop(source, Len(sread))
toRead == size - Len(sread)

(* read: n bytes, not necessarily all that were asked for. *)
ReadChunk(n) ==
    /\ spc = "reading"
    /\ n \in 1..Smaller(Smaller(toRead, CHUNK_SIZE), Len(unread))
    /\ sread' = sread \o Take(unread, n)
    /\ sbuf' = Take(unread, n)
    /\ spc' = "writing"
    /\ UNCHANGED <<sourceVars, faulty, claimed, wire, receiverVars, fileVars>>

SenderFails ==
    /\ spc' = "failed"
    /\ UNCHANGED <<sourceVars, sread, sbuf, claimed, wire, receiverVars, fileVars>>

(* read returned 0: "reached end before declared size". *)
SourceShrank ==
    /\ spc = "reading"
    /\ toRead > 0 /\ unread = << >>
    /\ SenderFails /\ UNCHANGED faulty

(* The loop is over and there is another byte: "grew beyond declared size" *)
SourceGrew ==
    /\ spc = "reading"
    /\ toRead = 0 /\ unread # << >>
    /\ SenderFails /\ UNCHANGED faulty

(* All read: the digest is written. *)
Digest ==
    /\ spc = "reading"
    /\ toRead = 0 /\ unread = << >>
    /\ sbuf' = DigestOf(sread)
    /\ claimed' = sread
    /\ spc' = "digest"
    /\ UNCHANGED <<sourceVars, faulty, sread, wire, receiverVars, fileVars>>

(* write_all puts in what the window has room for.  Nothing comes between  *)
(* the last byte of the digest and finish().                               *)
WriteSome(n) ==
    /\ spc \in {"header", "writing", "digest"}
    /\ n \in 1..Smaller(Len(sbuf), Window - Len(wire))
    /\ wire' = wire \o Take(sbuf, n)
    /\ sbuf' = Drop(sbuf, n)
    /\ spc' = IF spc = "digest" /\ n = Len(sbuf) THEN "sent" ELSE spc
    /\ UNCHANGED <<sourceVars, faulty, sread, claimed, receiverVars, fileVars>>

(* It returns when everything is in. *)
Written ==
    /\ spc \in {"header", "writing"}
    /\ sbuf = << >>
    /\ spc' = IF spc = "header" /\ foreign THEN "foreign" ELSE "reading"
    /\ UNCHANGED <<sourceVars, faulty, sread, sbuf, claimed, wire, receiverVars, fileVars>>

(* The file cannot be read, the window stays closed for a minute, or the   *)
(* connection is lost.                                                     *)
SenderError ==
    /\ spc \in {"header", "reading", "writing", "digest"}
    /\ SenderFails /\ faulty' = TRUE

(* The receiver has given up: the stream is stopped or the connection gone. *)
SenderStopped ==
    /\ spc \in {"header", "writing", "digest"}
    /\ rpc = "failed"
    /\ SenderFails /\ UNCHANGED faulty

(* Another program at the sender's end writes what it likes: bytes, the    *)
(* right digest or a wrong one; sread are the bytes it has written.        *)
ForeignByte(b) ==
    /\ spc = "foreign" /\ rpc # "failed"
    /\ Len(sread) <= size
    /\ Len(wire) < Window
    /\ sread' = Append(sread, b)
    /\ wire' = Append(wire, b)
    /\ UNCHANGED <<sourceVars, faulty, spc, sbuf, claimed, receiverVars, fileVars>>

ForeignDigest(s) ==
    /\ spc = "foreign"
    /\ sbuf' = DigestOf(s)
    /\ claimed' = s
    /\ spc' = "digest"
    /\ UNCHANGED <<sourceVars, faulty, sread, wire, receiverVars, fileVars>>

ForeignQuits ==
    /\ foreign /\ spc \in {"header", "foreign"}
    /\ SenderFails /\ UNCHANGED faulty

----------------------------------------------------------------------------
(* The receiver.                                                           *)

(* Variation: a whole chunk each time. *)
wanted_Chunk ==
    CASE rpc = "length" -> PREFIX_LENGTH
      [] rpc = "message" -> PREFIX_LENGTH + rbuf[1].length
      [] rpc = "body" /\ Len(rread) < size -> CHUNK_SIZE
      [] OTHER -> DIGEST_LENGTH
(* Variation: the length counts its own bytes. *)
wanted_CountsPrefix ==
    CASE rpc = "length" -> PREFIX_LENGTH
      [] rpc = "message" -> rbuf[1].length
      [] rpc = "body" /\ Len(rread) < size -> Smaller(size - Len(rread), CHUNK_SIZE)
      [] OTHER -> DIGEST_LENGTH
(* How many bytes read_exact is asked for; with a message, rbuf holds the  *)
(* length before it as well.                                               *)
wanted ==
    CASE rpc = "length" -> PREFIX_LENGTH
      [] rpc = "message" -> PREFIX_LENGTH + rbuf[1].length
      [] rpc = "body" /\ Len(rread) < size -> Smaller(size - Len(rread), CHUNK_SIZE)
      [] OTHER -> DIGEST_LENGTH

reading == rpc \in {"length", "message", "body"}

ReadSome(n) ==
    /\ reading
    /\ n \in 1..Smaller(wanted - Len(rbuf), Len(wire))
    /\ rbuf' = rbuf \o Take(wire, n)
    /\ wire' = Drop(wire, n)
    /\ UNCHANGED <<sourceVars, faulty, senderVars, rpc, rread, fileVars>>

(* Its buffer and its end of the stream are gone. *)
ReceiverFails ==
    /\ rpc' = "failed" /\ rbuf' = << >> /\ wire' = << >>
    /\ UNCHANGED <<sourceVars, senderVars, rread, fileVars>>

lengthRead == rpc = "length" /\ Len(rbuf) = wanted
messageRead == rpc = "message" /\ Len(rbuf) = wanted
messageIsRequest == Drop(rbuf, PREFIX_LENGTH) = Message("this")

ReadLength ==
    /\ lengthRead
    /\ rbuf[1].length <= MAX_MESSAGE_LENGTH
    /\ rpc' = "message"
    /\ UNCHANGED <<sourceVars, faulty, senderVars, wire, rbuf, rread, fileVars>>

ReadRequest ==
    /\ messageRead /\ messageIsRequest
    /\ rpc' = "body" /\ rbuf' = << >>
    /\ UNCHANGED <<sourceVars, faulty, senderVars, wire, rread, fileVars>>

(* "maximum is": such a message is not waited for.  Or it cannot be        *)
(* decoded, or it is not about the file that is expected.                  *)
BadRequest ==
    /\ \/ lengthRead /\ rbuf[1].length > MAX_MESSAGE_LENGTH
       \/ messageRead /\ ~messageIsRequest
    /\ ReceiverFails /\ UNCHANGED faulty

chunkRead == rpc = "body" /\ Len(rread) < size /\ Len(rbuf) = wanted
digestRead == rpc = "body" /\ Len(rread) >= size /\ Len(rbuf) = wanted

(* write_all waits for the write before, and passes the chunk on. *)
Save ==
    /\ chunkRead
    /\ pending = << >> /\ ~diskError
    /\ pending' = rbuf
    /\ rread' = rread \o rbuf
    /\ rbuf' = << >>
    /\ UNCHANGED <<sourceVars, faulty, senderVars, wire, rpc, disk, diskError>>

(* The background write of the destination. *)
DiskWrite ==
    /\ pending # << >>
    /\ disk' = disk \o pending
    /\ pending' = << >>
    /\ UNCHANGED <<sourceVars, faulty, senderVars, wire, receiverVars, diskError>>

(* It fails, with any part of it done. *)
DiskFull(n) ==
    /\ pending # << >>
    /\ n \in 0..Len(pending) - 1
    /\ disk' = disk \o Take(pending, n)
    /\ pending' = << >>
    /\ diskError' = TRUE
    /\ faulty' = TRUE
    /\ UNCHANGED <<sourceVars, senderVars, wire, receiverVars>>

(* The next write_all, or the flush, gets the error. *)
DiskErrorSeen ==
    /\ chunkRead \/ rpc = "flushing"
    /\ diskError
    /\ ReceiverFails /\ UNCHANGED faulty

Compare ==
    /\ digestRead
    /\ rbuf = DigestOf(rread)
    /\ rpc' = "flushing"
    /\ UNCHANGED <<sourceVars, faulty, senderVars, wire, rbuf, rread, fileVars>>

(* "SHA-256 digest mismatch" *)
Mismatch ==
    /\ digestRead
    /\ rbuf # DigestOf(rread)
    /\ ReceiverFails /\ UNCHANGED faulty

(* Variation: success without the flush. *)
Flush_Not ==
    /\ rpc = "flushing"
    /\ rpc' = "verified"
    /\ UNCHANGED <<sourceVars, faulty, senderVars, wire, rbuf, rread, fileVars>>
(* flush waits for the last write. *)
Flush ==
    /\ rpc = "flushing"
    /\ pending = << >> /\ ~diskError
    /\ rpc' = "verified"
    /\ UNCHANGED <<sourceVars, faulty, senderVars, wire, rbuf, rread, fileVars>>

waiting == reading /\ Len(rbuf) < wanted

(* The stream ends in the middle of a message, of the data or the digest. *)
EndedEarly ==
    /\ waiting
    /\ wire = << >>
    /\ spc \in {"sent", "failed"}
    /\ ReceiverFails /\ UNCHANGED faulty

(* Variation: the digest is awaited without a timeout. *)
Stalled_NotForDigest ==
    /\ waiting /\ Len(rread) < size
    /\ ReceiverFails /\ faulty' = TRUE
(* Nothing for a minute, or the connection is lost with what was in it. *)
Stalled ==
    /\ waiting
    /\ ReceiverFails /\ faulty' = TRUE

----------------------------------------------------------------------------
Sender ==
    \/ \E n \in 1..CHUNK_SIZE : ReadChunk(n)
    \/ \E n \in 1..Window : WriteSome(n)
    \/ SourceShrank \/ SourceGrew \/ Digest \/ Written \/ SenderStopped

Foreign ==
    \/ \E b \in Byte : ForeignByte(b)
    \/ \E s \in {sread, << >>, original} : ForeignDigest(s)
    \/ ForeignQuits

Receiver ==
    \/ \E n \in 1..Window : ReadSome(n)
    \/ ReadLength \/ ReadRequest \/ BadRequest
    \/ Save \/ DiskErrorSeen \/ Compare \/ Mismatch \/ Flush \/ EndedEarly

Faults ==
    \/ \E n \in 0..CHUNK_SIZE : DiskFull(n)
    \/ SenderError \/ Stalled

Finished ==
    /\ rpc \in {"verified", "failed"} /\ pending = << >>
    /\ spc \in {"sent", "failed"}
    /\ UNCHANGED vars

Next ==
    \/ Sender \/ Foreign \/ Receiver \/ DiskWrite \/ Faults \/ Finished
    \/ \E c \in Contents : Edit(c)

Spec == Init /\ [][Next]_vars

(* Tasks are scheduled, background writes end and timeouts run out.  A     *)
(* foreign sender may stop at any point.                                   *)
FairSpec ==
    /\ Spec
    /\ WF_vars(Sender) /\ WF_vars(Receiver)
    /\ WF_vars(DiskWrite) /\ WF_vars(Stalled)

----------------------------------------------------------------------------
(* The variables have the values the code can give them. *)
TypeOK ==
    /\ original \in Contents /\ source \in Contents
    /\ edits \in 0..MaxEdits /\ rewritten \in BOOLEAN
    /\ foreign \in BOOLEAN /\ faulty \in BOOLEAN
    /\ spc \in {"header", "reading", "writing", "digest", "foreign", "sent", "failed"}
    /\ Len(sbuf) <= PREFIX_LENGTH + HeaderLength + CHUNK_SIZE + DIGEST_LENGTH
    /\ Len(wire) <= Window
    /\ rpc \in {"length", "message", "body", "flushing", "verified", "failed"}
    /\ reading => Len(rbuf) <= wanted
    /\ Len(rbuf) <= PREFIX_LENGTH + MAX_MESSAGE_LENGTH + CHUNK_SIZE + DIGEST_LENGTH
    /\ rpc = "message" => wanted <= PREFIX_LENGTH + MAX_MESSAGE_LENGTH
    /\ Len(rread) <= size
    /\ Len(pending) <= CHUNK_SIZE
    /\ Len(disk) + Len(pending) <= size
    /\ diskError \in BOOLEAN

(* "Integrity verified" means that the destination holds the declared      *)
(* number of bytes, none still on its way to the file system, and that     *)
(* they are the bytes whose digest the sender sent: for this build, those  *)
(* it read, and if nobody rewrote the source while it was read, those the  *)
(* source had when it was declared (receive_body, stream_file).            *)
VerifiedIsWhole ==
    rpc = "verified" =>
        /\ pending = << >> /\ Len(disk) = size
        /\ disk = claimed
        /\ ~foreign => disk = sread
        /\ ~foreign /\ ~rewritten => disk = original

(* Both ends come to an end, also if the other one stops                   *)
(* (the timeouts of stream_file and receive_body).                         *)
StreamEnds ==
    /\ <>(rpc \in {"verified", "failed"})
    /\ foreign \/ <>(spc \in {"sent", "failed"})

(* The file as Transfer sees it: a header or a body is written when its    *)
(* last byte is in the stream.                                             *)
Promise == INSTANCE FileDelivery WITH
    changed <- edits # 0,
    sender <- CASE spc = "header" /\ sbuf # << >> -> "opening"
                [] spc \in {"sent", "failed"} -> spc
                [] OTHER -> "streaming",
    sent <- IF spc = "sent" THEN {claimed} ELSE {},
    receiver <- CASE rpc \in {"length", "message"} -> "waiting"
                  [] rpc \in {"body", "flushing"} -> "body"
                  [] OTHER -> rpc,
    kept <- IF rpc = "verified" THEN {disk} ELSE {}

(* The stream of a file is what Transfer takes it for, and neither end     *)
(* gives up without a reason: the sender only for a file that changed, the *)
(* receiver never because of it, since it is told by the sender's end; and *)
(* nothing is verified before the sender has finished                      *)
(* (transfer.rs:313-345, 462-499; protocol.rs:60-100).                     *)
KeepsPromise == Promise!Spec
=============================================================================
