------------------------------ MODULE Delivery ------------------------------
(***************************************************************************)
(* What a transfer promises, without sessions, prompts or connections: the *)
(* files of a manifest are saved in its order and stay saved, and a sender *)
(* learns that all is well only when all of them are.  A transfer may stop *)
(* after any number of files, and the receiver may be ahead of what the    *)
(* sender was told.                                                        *)
(***************************************************************************)
EXTENDS Integers

CONSTANT Transfers

VARIABLES
  length,   \* length[t]: how many files the manifest of t has
  saved,    \* saved[t]: those that are saved
  outcome   \* outcome[t]: what the sender reports

Init ==
  /\ length \in [Transfers -> Nat]
  /\ saved = [t \in Transfers |-> {}]
  /\ outcome = [t \in Transfers |-> "pending"]

\* The receiver saves the next file.
Save(t) ==
  /\ \E i \in 1..length[t] :
       saved[t] = 1..(i - 1) /\ saved' = [saved EXCEPT ![t] = 1..i]
  /\ UNCHANGED <<length, outcome>>

Deliver(t) ==
  /\ outcome[t] = "pending"
  /\ saved[t] = 1..length[t]
  /\ outcome' = [outcome EXCEPT ![t] = "delivered"]
  /\ UNCHANGED <<length, saved>>

Fail(t) ==
  /\ outcome[t] = "pending"
  /\ outcome' = [outcome EXCEPT ![t] = "failed"]
  /\ UNCHANGED <<length, saved>>

Next == \E t \in Transfers : Save(t) \/ Deliver(t) \/ Fail(t)

Spec == Init /\ [][Next]_<<length, saved, outcome>>
=============================================================================
