--------------------------- MODULE DiscoveryProofs ---------------------------
(***************************************************************************)
(* Proofs about module Discovery: for any receivers, any names, addresses  *)
(* and restarts among them and any --to, a sender is connected with the    *)
(* receiver it chose, and chooses without asking only where there is no    *)
(* choice.                                                                 *)
(*                                                                         *)
(* The invariant follows a receiver's answer from the scan to the          *)
(* connection: what was heard was answered and is compatible (HeardInv),   *)
(* the map holds exactly what was heard, under its id (PeersInv), the list *)
(* is the map (ListInv), and the choice is an element of the list, the     *)
(* only one that --to selects unless the user was asked (ChosenInv).       *)
(***************************************************************************)
EXTENDS Discovery, FiniteSetTheorems, WellFoundedInduction, TLAPS

Listed == pc \notin {"starting", "listening", "failed"}

HeardInv ==
    /\ heard \subseteq answered /\ heard \subseteq Receivers
    /\ \A r \in heard : Version[r] = VERSION

PeersInv ==
    /\ DOMAIN peers = heard
    /\ \A k \in DOMAIN peers : peers[k].id = k

ListInv ==
    Listed =>
        /\ IsFiniteSet(DOMAIN list)
        /\ \A i \in DOMAIN list : list[i].id \in heard
        /\ \A r \in heard : \E i \in DOMAIN list : list[i].id = r

(* chosen is assigned on the way to the connection, and stays after it. *)
ChosenInv ==
    /\ pc \in {"starting", "listening", "selecting", "choosing"} => chosen = None
    /\ pc = "choosing" => asked
    /\ pc \in {"connecting", "connected"} => chosen.id \in heard
    /\ pc = "connected" => other = chosen.id
    /\ NoGuess

DInv == HeardInv /\ PeersInv /\ ListInv /\ ChosenInv

----------------------------------------------------------------------------
(* The map holds what was heard, each run once, so there are finitely many *)
(* entries. *)
LEMMA FoundFinite ==
    ASSUME HeardInv, PeersInv
    PROVE  IsFiniteSet(Found)
<1>1. IsFiniteSet(heard)
  BY RunsAssumption, FS_Subset DEF HeardInv
<1> DEFINE entry == [k \in heard |-> peers[k]]
<1>2. entry \in Surjection(heard, Found)
  BY DEF Found, PeersInv, Surjection
<1> QED
  BY <1>1, <1>2, FS_Surjection

(* If one candidate is left, every other run heard is excluded by --to. *)
LEMMA OnlyCandidate ==
    ASSUME ListInv, Listed, Cardinality(Candidates) = 1,
           NEW i \in Candidates, NEW r \in heard, r # list[i].id
    PROVE  selector # NoSelector /\ r \notin Matches[selector]
<1>1. IsFiniteSet(Candidates)
  BY FS_Subset DEF ListInv, Candidates
<1>2. PICK c : Candidates = {c}
  BY <1>1, FS_Singleton
<1>3. PICK j \in DOMAIN list : list[j].id = r
  BY DEF ListInv
<1>4. j \notin Candidates
  BY <1>2, <1>3
<1> QED
  BY <1>3, <1>4 DEF Candidates

LEMMA InitDInv == Init => DInv
  BY DEF Init, DInv, HeardInv, PeersInv, ListInv, ChosenInv, NoGuess, Listed

----------------------------------------------------------------------------
LEMMA ResolveKeeps ==
    ASSUME DInv, NEW r \in Receivers, NEW A, Resolve(r, A)
    PROVE  DInv'
<1> USE DEF Resolve, pickVars, options, receiverVars
<1>1. HeardInv'
  BY DEF DInv, HeardInv, Compatible
<1>2. PeersInv'
  BY DEF DInv, PeersInv, Inserted, KeyOf
<1>3. ListInv'
  BY DEF ListInv, Listed
<1>4. ChosenInv'
  BY DEF DInv, ChosenInv, NoGuess
<1> QED
  BY <1>1, <1>2, <1>3, <1>4 DEF DInv

LEMMA DeadlineReachedKeeps ==
    ASSUME DInv, DeadlineReached
    PROVE  DInv'
<1> USE DEF DeadlineReached, scanVars, options, receiverVars
<1>1. HeardInv' /\ PeersInv'
  BY DEF DInv, HeardInv, PeersInv
<1>2. ListInv'
  <2>1. list' \in [1..Cardinality(Found) -> Found]
    BY DEF Orders
  <2>2. IsFiniteSet(DOMAIN list')
    <3>1. Cardinality(Found) \in Nat
      BY FoundFinite, FS_CardinalityType DEF DInv
    <3>2. IsFiniteSet(1..Cardinality(Found))
      BY <3>1, FS_Interval
    <3> QED
      BY <2>1, <3>2
  <2>3. \A i \in DOMAIN list' : list'[i].id \in heard
    BY <2>1 DEF Found, DInv, PeersInv
  <2>4. ASSUME NEW r \in heard
        PROVE  \E i \in DOMAIN list' : list'[i].id = r
    <3>1. peers[r] \in Found /\ peers[r].id = r
      BY DEF Found, DInv, PeersInv
    <3>2. PICK i \in DOMAIN list' : list'[i] = peers[r]
      BY <3>1 DEF Orders
    <3> QED
      BY <3>1, <3>2
  <2> QED
    BY <2>2, <2>3, <2>4 DEF ListInv
<1>3. ChosenInv'
  BY DEF DInv, ChosenInv, NoGuess
<1> QED
  BY <1>1, <1>2, <1>3 DEF DInv

LEMMA TakeOnlyKeeps ==
    ASSUME DInv, TakeOnly
    PROVE  DInv'
<1> USE DEF TakeOnly, scanVars, options, receiverVars
<1>1. HeardInv' /\ PeersInv'
  BY DEF DInv, HeardInv, PeersInv
<1>2. ListInv'
  BY DEF DInv, ListInv, Listed
<1>3. ChosenInv'
  <2> DEFINE i == CHOOSE i \in Candidates : TRUE
  <2>1. i \in Candidates
    <3>1. Candidates # {}
      BY FS_EmptySet
    <3> QED
      BY <3>1
  <2>2. chosen' = list[i]
    OBVIOUS
  <2>3. ListInv /\ Listed
    BY DEF DInv, Listed
  <2> HIDE DEF i
  <2>4. chosen'.id \in heard
    BY <2>1, <2>2, <2>3 DEF ListInv, Candidates
  <2>5. NoGuess'
    BY <2>1, <2>2, <2>3, OnlyCandidate DEF NoGuess
  <2> QED
    BY <2>4, <2>5 DEF ChosenInv
<1> QED
  BY <1>1, <1>2, <1>3 DEF DInv

LEMMA ChooseKeeps ==
    ASSUME DInv, NEW n, Choose(n)
    PROVE  DInv'
<1> USE DEF Choose, scanVars, options, receiverVars
<1>1. HeardInv' /\ PeersInv'
  BY DEF DInv, HeardInv, PeersInv
<1>2. ListInv'
  BY DEF DInv, ListInv, Listed
<1>3. ChosenInv'
  BY DEF DInv, ChosenInv, ListInv, Listed, NoGuess
<1> QED
  BY <1>1, <1>2, <1>3 DEF DInv

(* The other steps leave the map, the list and the choice as they are, or  *)
(* end in failure.                                                         *)
LEMMA OthersKeep ==
    ASSUME DInv,
           \/ Browse \/ Tick \/ DaemonError \/ PrintPeers \/ Ask \/ NoChoice
           \/ ChooseBadly \/ ConnectFails \/ Finished
           \/ \E r \in Receivers : Answer(r) \/ Connect(r) \/ ReceiverStep(r)
           \/ UNCHANGED vars
    PROVE  DInv'
<1> USE DEF vars, scanVars, pickVars, options, receiverVars
<1>1. HeardInv'
  BY DEF DInv, HeardInv, Browse, Tick, DaemonError, PrintPeers, Ask, NoChoice,
         ChooseBadly, ConnectFails, Finished, Answer, Connect, ReceiverStep, Fail
<1>2. PeersInv'
  BY DEF DInv, PeersInv, Browse, Tick, DaemonError, PrintPeers, Ask, NoChoice,
         ChooseBadly, ConnectFails, Finished, Answer, Connect, ReceiverStep, Fail
<1>3. ListInv'
  BY DEF DInv, ListInv, Listed, Browse, Tick, DaemonError, PrintPeers, Ask, NoChoice,
         ChooseBadly, ConnectFails, Finished, Answer, Connect, ReceiverStep, Fail
<1>4. ChosenInv'
  BY DEF DInv, ChosenInv, NoGuess, Pinned, Browse, Tick, DaemonError, PrintPeers, Ask, NoChoice,
         ChooseBadly, ConnectFails, Finished, Answer, Connect, ReceiverStep, Fail
<1> QED
  BY <1>1, <1>2, <1>3, <1>4 DEF DInv

LEMMA NextDInv == DInv /\ [Next]_vars => DInv'
  BY ResolveKeeps, DeadlineReachedKeeps, TakeOnlyKeeps, ChooseKeeps, OthersKeep
     DEF Next, SenderStep

(* The invariant holds in every state of every behaviour. *)
THEOREM Discovered == Spec => []DInv
  BY InitDInv, NextDInv, PTL DEF Spec

(* The sender is connected with the run it chose, which answered the scan  *)
(* and speaks the sender's protocol, whoever has its socket now            *)
(* (security.rs verify_fingerprint, discovery.rs parse_peer).              *)
THEOREM Pinning == Spec => []RightReceiver
<1>1. DInv => RightReceiver
  BY DEF DInv, HeardInv, ChosenInv, RightReceiver
<1> QED
  BY <1>1, Discovered, PTL

(* A receiver is chosen without asking only where every other one heard is *)
(* excluded by --to (lib.rs select_peer, discovery.rs discover_peers).     *)
THEOREM NeverGuessed == Spec => []NoGuess
<1>1. DInv => NoGuess
  BY DEF DInv, ChosenInv
<1> QED
  BY <1>1, Discovered, PTL

----------------------------------------------------------------------------
(* A run advertises itself while it serves, with its endpoint open, and    *)
(* after that only while its daemon is late.                               *)
ServingInv ==
    /\ \A r \in registered : r \in Receivers /\ stage[r] \in {"serving", "lingering"}
    /\ \A r \in Receivers : stage[r] \in {"bound", "serving"} => r \in endpoints
    /\ stage \in [Receivers -> {"new", "bound", "serving", "stopping",
                              "lingering", "gone"}]

(* A run that advertises itself has its endpoint open, unless it is on its *)
(* way out and its daemon did not stop in the second it was given: no      *)
(* start that fails half-way, no restart and no crash leads senders to a   *)
(* closed port (receive_files binds before it publishes, and withdraws     *)
(* before it closes).                                                      *)
THEOREM ServedWhileAdvertised == Spec => []AdvertisedIsServed
<1>1. Init => ServingInv
  BY DEF Init, ServingInv
<1>2. ServingInv /\ [Next]_vars => ServingInv'
  <2> SUFFICES ASSUME ServingInv, [Next]_vars PROVE ServingInv'
    OBVIOUS
  <2>1. ASSUME NEW r \in Receivers, ReceiverStep(r) PROVE ServingInv'
    BY <2>1 DEF ServingInv, ReceiverStep, Bind, Publish, StartFails, Withdraw,
                DaemonStops, Close, Exit, Crash
  <2>2. CASE UNCHANGED receiverVars
    BY <2>2 DEF ServingInv, receiverVars
  <2>3. SenderStep \/ Finished \/ UNCHANGED vars => UNCHANGED receiverVars
    BY DEF SenderStep, Finished, vars, Browse, Tick, DaemonError, DeadlineReached,
           PrintPeers, TakeOnly, Ask, NoChoice, ChooseBadly, ConnectFails, Fail, Answer,
           Connect, Resolve, Choose
  <2> QED
    BY <2>1, <2>2, <2>3 DEF Next
<1>3. ServingInv => AdvertisedIsServed
  BY DEF ServingInv, AdvertisedIsServed
<1> QED
  BY <1>1, <1>2, <1>3, PTL DEF Spec

----------------------------------------------------------------------------
(* Every non-empty set of sockets has a preferred one. *)
LEMMA PreferredIsOne ==
    ASSUME NEW r \in Receivers, NEW A \in (SUBSET Sockets[r]) \ {{}}
    PROVE  Preferred(A) \in Socket
<1> DEFINE lan == A \ Loopback
           usable == IF lan # {} THEN lan ELSE A
<1>1. usable # {} /\ usable \subseteq A
  BY Zenon
<1>2. usable \subseteq Nat
  <2>1. A \subseteq Sockets[r] /\ Sockets[r] \subseteq Nat
    BY RunsAssumption
  <2> QED
    BY <1>1, <2>1
<1>3. PICK a \in usable : \A b \in usable : ~ (<<b, a>> \in OpToRel(<, Nat))
  BY <1>1, <1>2, NatLessThanWellFounded, WFMin
<1>4. \A b \in usable : a <= b
  <2>1. ASSUME NEW b \in usable, b < a PROVE FALSE
    BY <1>2, <1>3, <2>1 DEF OpToRel
  <2> QED
    BY <1>2, <2>1
<1>5. Preferred(A) \in usable
  BY <1>4 DEF Preferred
<1> QED
  BY <1>1, <1>5 DEF Socket

(* The variables have the values the code can give them, whatever answers  *)
(* arrive and whatever order the map has.                                  *)
THEOREM DiscoveryTyped == Spec => []TypeOK
<1>1. Init => TypeOK
  <2> SUFFICES ASSUME Init PROVE TypeOK
    OBVIOUS
  <2>1. peers = << >> /\ DOMAIN peers = {} /\ list \in Seq(Peer)
    BY DEF Init
  <2>2. remaining \in 0..Timeout
    BY TimeoutAssumption DEF Init
  <2> QED
    BY <2>1, <2>2 DEF Init, TypeOK
<1>2. TypeOK /\ DInv /\ [Next]_vars => TypeOK'
  <2> SUFFICES ASSUME TypeOK, DInv, [Next]_vars PROVE TypeOK'
    OBVIOUS
  <2>1. ASSUME NEW r \in Receivers, ReceiverStep(r) PROVE TypeOK'
    BY <2>1 DEF TypeOK, ReceiverStep, Bind, Publish, StartFails, Withdraw, DaemonStops,
                Close, Exit, Crash, scanVars, pickVars, options
  <2>2. ASSUME NEW r \in Receivers, NEW A \in (SUBSET Sockets[r]) \ {{}}, Resolve(r, A)
        PROVE  TypeOK'
    <3>1. [id |-> r, name |-> Name[r], address |-> Preferred(A)] \in Peer
      BY PreferredIsOne, RunsAssumption DEF Peer
    <3> QED
      BY <2>2, <3>1 DEF TypeOK, Resolve, Inserted, KeyOf, pickVars, options, receiverVars
  <2>3. CASE DeadlineReached
    <3>1. Found \subseteq Peer
      BY DEF TypeOK, Found
    <3>2. Cardinality(Found) \in Nat
      BY FoundFinite, FS_CardinalityType DEF DInv
    <3>3. list' \in Seq(Peer)
      BY <2>3, <3>1, <3>2 DEF DeadlineReached, Orders
    <3> QED
      BY <2>3, <3>3 DEF TypeOK, DeadlineReached, scanVars, options, receiverVars
  <2>4. CASE TakeOnly
    <3>1. Candidates # {}
      BY <2>4, FS_EmptySet DEF TakeOnly
    <3>2. Candidates \subseteq DOMAIN list
      BY DEF Candidates
    <3>3. chosen' \in Peer
      BY <2>4, <3>1, <3>2 DEF TypeOK, TakeOnly
    <3> QED
      BY <2>4, <3>3 DEF TypeOK, TakeOnly, scanVars, options, receiverVars
  <2>5. ASSUME NEW n \in DOMAIN list, Choose(n) PROVE TypeOK'
    BY <2>5 DEF TypeOK, Choose, scanVars, options, receiverVars
  <2>6. CASE Tick
    BY <2>6, TimeoutAssumption DEF TypeOK, Tick, options, receiverVars, pickVars
  <2>7. ASSUME NEW r \in Receivers, Answer(r) \/ Connect(r) PROVE TypeOK'
    BY <2>7 DEF TypeOK, Answer, Connect, scanVars, pickVars, options, receiverVars
  <2>8. CASE \/ Browse \/ DaemonError \/ PrintPeers \/ Ask \/ NoChoice \/ ChooseBadly
             \/ ConnectFails \/ Finished \/ UNCHANGED vars
    BY <2>8 DEF TypeOK, Browse, DaemonError, PrintPeers, Ask, NoChoice, ChooseBadly,
                ConnectFails, Finished, Fail, vars, scanVars, pickVars, options, receiverVars
  <2> QED
    BY <2>1, <2>2, <2>3, <2>4, <2>5, <2>6, <2>7, <2>8 DEF Next, SenderStep, Choose
<1> QED
  BY <1>1, <1>2, Discovered, PTL DEF Spec
=============================================================================
