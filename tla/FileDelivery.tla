---------------------------- MODULE FileDelivery ----------------------------
(***************************************************************************)
(* One file as Transfer sees it, without chunks, windows and background    *)
(* writes: the header is written and read, the body is written and read,   *)
(* each in one step, and the receiver has what the sender's digest is of.  *)
(* Each end may give up, but only for a reason.                            *)
(***************************************************************************)
EXTENDS Integers

VARIABLES
  original,   \* the content that was declared
  foreign,    \* the sender is another program
  changed,    \* the file has changed
  rewritten,  \* a change touched bytes it did not cut off or append
  faulty,     \* the network, a disk or the source has failed
  sender,     \* where the sender is
  sent,       \* the content whose digest the sender has finished with, if it has
  receiver,   \* where the receiver is
  kept        \* the content of the destination, once it is verified

conditions == <<original, foreign, changed, rewritten, faulty>>
vars == <<conditions, sender, sent, receiver, kept>>

Init ==
  /\ foreign \in BOOLEAN /\ ~changed /\ ~rewritten /\ ~faulty
  /\ sender = "opening" /\ sent = {}
  /\ receiver = "waiting" /\ kept = {}

\* What has happened to the file, the disk or the network stays so.
Grow ==
  /\ UNCHANGED <<original, foreign>>
  /\ (changed => changed') /\ (rewritten => rewritten') /\ (faulty => faulty')

SenderGoes(from, to) == sender = from /\ sender' = to /\ UNCHANGED <<receiver, kept>>
ReceiverGoes(from, to) == receiver = from /\ receiver' = to /\ UNCHANGED <<sender, sent>>

\* Transfer!OpenFile
OpenFile == SenderGoes("opening", "streaming") /\ UNCHANGED sent

\* Transfer!FinishBody
FinishBody ==
  /\ SenderGoes("streaming", "sent")
  /\ sent' # {}
  /\ foreign \/ rewritten \/ sent' = {original}

\* Transfer!SourceChanged, and the sender's ways to fail.
SenderFails ==
  /\ \E at \in {"opening", "streaming"} : SenderGoes(at, "failed")
  /\ foreign \/ changed \/ faulty' \/ receiver = "failed"
  /\ UNCHANGED sent

\* Transfer!ReadHeader
ReadHeader == sender # "opening" /\ ReceiverGoes("waiting", "body") /\ UNCHANGED kept

\* Transfer!ReceiveBody
ReceiveBody == sender = "sent" /\ ReceiverGoes("body", "verified") /\ kept' = sent

\* Transfer!ReceiveBodyFails: no error but of a sender that has failed, of another
\* program, of the disk or of the network.
ReceiveBodyFails ==
  /\ \E at \in {"waiting", "body"} : ReceiverGoes(at, "failed")
  /\ foreign \/ faulty' \/ sender = "failed"
  /\ UNCHANGED kept

Next ==
  /\ Grow
  /\ \/ OpenFile \/ FinishBody \/ SenderFails
     \/ ReadHeader \/ ReceiveBody \/ ReceiveBodyFails
     \/ UNCHANGED <<sender, sent, receiver, kept>>

Spec == Init /\ [][Next]_vars
=============================================================================
