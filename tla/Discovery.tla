------------------------------ MODULE Discovery ------------------------------
(***************************************************************************)
(* How a sender finds the receiver it sends to: receivers advertise        *)
(* themselves over mDNS (discovery.rs, receive_files), a sender collects   *)
(* the answers for a while (discover_peers), picks one (lib.rs,            *)
(* select_peer) and connects to it, pinned to the fingerprint that was     *)
(* advertised (security.rs).                                               *)
(*                                                                         *)
(* A receiver here is one RUN of `gitler receive`.  It makes its own       *)
(* certificate, so the run is also its fingerprint and its id; a restarted *)
(* receiver is another element of Receivers with the same name and         *)
(* sockets.  Ids are the first 48 bits of the fingerprint: two runs with   *)
(* one id are left out.  A socket is an IPv4 address with a port.          *)
(*                                                                         *)
(* mDNS itself is external.  It may lose answers, repeat them, deliver     *)
(* them after the receiver is gone, and name only some of the addresses.   *)
(***************************************************************************)
EXTENDS Naturals, Sequences, FiniteSets

CONSTANTS Receivers,   \* runs of `gitler receive`
          Name,        \* [Receivers -> Nat]: the advertised name, by its place in the sort order
          Sockets,     \* [Receivers -> SUBSET Socket]: where the run's endpoint answers
          Loopback,    \* the sockets on loopback addresses
          Machine,     \* [Receivers -> Nat]: the machine the run is on
          Here,        \* the sender's machine
          Version,     \* [Receivers -> Nat]: the protocol version of the build
          VERSION,     \* the sender's protocol version
          Selectors,   \* what may be given as --to
          Matches,     \* [Selectors -> SUBSET Receivers]: whose name or id it selects
          NoSelector,  \* --to was not given
          Timeout,     \* the length of the scan, in ticks
          None

ASSUME RunsAssumption ==
    /\ IsFiniteSet(Receivers) /\ None \notin Receivers
    /\ Name \in [Receivers -> Nat] /\ Version \in [Receivers -> Nat]
    /\ Machine \in [Receivers -> Nat]
    /\ \A r \in Receivers : IsFiniteSet(Sockets[r]) /\ Sockets[r] \subseteq Nat
ASSUME SelectorsAssumption ==
    /\ NoSelector \notin Selectors
    /\ Matches \in [Selectors -> SUBSET Receivers]
ASSUME TimeoutAssumption == Timeout \in Nat

VARIABLES stage,      \* where each receiver run is
          endpoints,  \* the runs whose QUIC endpoint is open
          registered, \* the runs whose mDNS daemon answers queries
          pc,         \* where the sender is
          command,    \* `gitler send` or `gitler peers`
          terminal,   \* whether the sender's standard input is a terminal
          selector,   \* its --to
          remaining,  \* time left of the scan
          answered,   \* the runs that have answered the query
          heard,      \* history: the runs whose answer was processed and kept
          peers,      \* the HashMap of discover_peers
          list,       \* the sorted result
          asked,      \* whether the user was asked to choose
          chosen,     \* the peer select_peer returned
          other       \* the run the connection was made with

receiverVars == <<stage, endpoints, registered>>
options == <<command, terminal, selector>>
scanVars == <<remaining, answered, heard, peers>>
pickVars == <<list, asked, chosen, other>>
vars == <<receiverVars, options, scanVars, pickVars, pc>>

Socket == UNION {Sockets[r] : r \in Receivers}

(* A Peer: id and fingerprint are both the run. *)
Peer == [id : Receivers, name : Nat, address : Socket]

(* Variation: peers are told apart by name. *)
KeyOf_Name(p) == p.name
(* The key of the map. *)
KeyOf(p) == p.id

(* The address parse_peer keeps: the smallest, loopback only if there is   *)
(* nothing else.  Sockets are numbers, so that "smallest" has a meaning.   *)
Preferred(A) ==
    LET lan == A \ Loopback
        usable == IF lan # {} THEN lan ELSE A
    IN CHOOSE a \in usable : \A b \in usable : a <= b

(* Answers of other builds are dropped. *)
Compatible(r) == Version[r] = VERSION

(* The run a datagram sent to socket a reaches. *)
Reached(a) ==
    {r \in endpoints : a \in Sockets[r] /\ (a \in Loopback => Machine[r] = Here)}

Init ==
    /\ stage = [r \in Receivers |-> "new"]
    /\ endpoints = {} /\ registered = {}
    /\ pc = "starting"
    /\ command \in {"send", "peers"}
    /\ terminal \in BOOLEAN
    /\ selector \in Selectors \cup {NoSelector}
    /\ command = "peers" => selector = NoSelector
    /\ remaining = Timeout
    /\ answered = {}
    /\ heard = {}
    /\ peers = << >>
    /\ list = << >>
    /\ asked = FALSE
    /\ chosen = None
    /\ other = None

----------------------------------------------------------------------------
(* The receiver.  Every operation leaves the sender alone.                 *)

(* A loopback address is another socket on every machine. *)
Clash(o, r) ==
    \E a \in Sockets[o] \cap Sockets[r] : a \in Loopback => Machine[o] = Machine[r]

(* Endpoint::server: no other run may hold one of the sockets.  A run holds *)
(* its socket until it is gone, open or closed.                             *)
Bind(r) ==
    /\ stage[r] = "new"
    /\ \A o \in Receivers : stage[o] \notin {"new", "gone"} => ~Clash(o, r)
    /\ stage' = [stage EXCEPT ![r] = "bound"]
    /\ endpoints' = endpoints \cup {r}
    /\ UNCHANGED registered

Publish(r) ==
    /\ stage[r] = "bound"
    /\ stage' = [stage EXCEPT ![r] = "serving"]
    /\ registered' = registered \cup {r}
    /\ UNCHANGED endpoints

(* No certificate, no free port, or no daemon: receive_files returns, which *)
(* drops the endpoint.                                                      *)
StartFails(r) ==
    /\ stage[r] \in {"new", "bound"}
    /\ stage' = [stage EXCEPT ![r] = "gone"]
    /\ endpoints' = endpoints \ {r}
    /\ UNCHANGED registered

(* Variation: the endpoint goes first. *)
Withdraw_Last(r) ==
    /\ stage[r] = "serving"
    /\ stage' = [stage EXCEPT ![r] = "stopping"]
    /\ endpoints' = endpoints \ {r}
    /\ UNCHANGED registered
(* Ctrl+C or the end of --once: the advertisement is withdrawn first.  The  *)
(* daemon stops within the second that shutdown_daemon waits; or it is late *)
(* or takes no command, which is ignored.                                   *)
Withdraw(r) ==
    /\ stage[r] = "serving"
    /\ \/ /\ stage' = [stage EXCEPT ![r] = "stopping"]
          /\ registered' = registered \ {r}
       \/ /\ stage' = [stage EXCEPT ![r] = "lingering"]
          /\ UNCHANGED registered
    /\ UNCHANGED endpoints

(* External: a late daemon stops. *)
DaemonStops(r) ==
    /\ stage[r] = "lingering"
    /\ registered' = registered \ {r}
    /\ UNCHANGED <<stage, endpoints>>

(* endpoint.close *)
Close(r) ==
    /\ stage[r] \in {"stopping", "lingering"}
    /\ endpoints' = endpoints \ {r}
    /\ UNCHANGED <<stage, registered>>

(* receive_files and the process end: socket and daemon go with them. *)
Exit(r) ==
    /\ stage[r] \in {"stopping", "lingering"}
    /\ r \notin endpoints
    /\ stage' = [stage EXCEPT ![r] = "gone"]
    /\ registered' = registered \ {r}
    /\ UNCHANGED endpoints

(* The process is killed; its daemon is one of its threads. *)
Crash(r) ==
    /\ stage[r] \in {"bound", "serving", "stopping", "lingering"}
    /\ stage' = [stage EXCEPT ![r] = "gone"]
    /\ endpoints' = endpoints \ {r}
    /\ registered' = registered \ {r}

ReceiverStep(r) ==
    /\ \/ Bind(r) \/ Publish(r) \/ StartFails(r)
       \/ Withdraw(r) \/ DaemonStops(r) \/ Close(r) \/ Exit(r) \/ Crash(r)
    /\ UNCHANGED <<options, scanVars, pickVars, pc>>

----------------------------------------------------------------------------
(* The scan.                                                               *)

Fail ==
    /\ pc' = "failed"
    /\ UNCHANGED <<receiverVars, options, scanVars, pickVars>>

(* ServiceDaemon::new, browse, monitor; the deadline is set once. *)
Browse ==
    /\ pc = "starting"
    /\ pc' = "listening"
    /\ UNCHANGED <<receiverVars, options, scanVars, pickVars>>

(* External: r's daemon answers; from now on the answer may arrive. *)
Answer(r) ==
    /\ pc = "listening"
    /\ r \in registered
    /\ answered' = answered \cup {r}
    /\ UNCHANGED <<receiverVars, options, remaining, heard, peers, pickVars, pc>>

(* HashMap::insert *)
Inserted(p) ==
    [k \in DOMAIN peers \cup {KeyOf(p)} |-> IF k = KeyOf(p) THEN p ELSE peers[k]]

(* Variation: every answer starts the wait anew. *)
Resolve_Extends(r, A) ==
    /\ pc = "listening"
    /\ remaining > 0
    /\ r \in answered
    /\ Compatible(r)
    /\ peers' = Inserted([id |-> r, name |-> Name[r], address |-> Preferred(A)])
    /\ heard' = heard \cup {r}
    /\ remaining' = Timeout
    /\ UNCHANGED <<receiverVars, options, answered, pickVars, pc>>
(* ServiceResolved with the addresses A known so far: the entry with the   *)
(* same key is replaced.  ServiceRemoved and the rest change nothing.      *)
Resolve(r, A) ==
    /\ pc = "listening"
    /\ remaining > 0
    /\ r \in answered
    /\ Compatible(r)
    /\ peers' = Inserted([id |-> r, name |-> Name[r], address |-> Preferred(A)])
    /\ heard' = heard \cup {r}
    /\ UNCHANGED <<receiverVars, options, remaining, answered, pickVars, pc>>

Tick ==
    /\ pc = "listening"
    /\ remaining > 0
    /\ remaining' = remaining - 1
    /\ UNCHANGED <<receiverVars, options, answered, heard, peers, pickVars, pc>>

(* The daemon does not start, reports an error or closes a channel. *)
DaemonError ==
    /\ pc \in {"starting", "listening"}
    /\ Fail

(* The peers in some order that agrees with their names: HashMap order is  *)
(* arbitrary and the sort looks at names only.                             *)
Found == {peers[k] : k \in DOMAIN peers}
Orders ==
    {s \in [1..Cardinality(Found) -> Found] :
        /\ \A p \in Found : \E i \in DOMAIN s : s[i] = p
        /\ \A i, j \in DOMAIN s : i < j => s[i].name <= s[j].name}

DeadlineReached ==
    /\ pc = "listening"
    /\ remaining = 0
    /\ pc' = "selecting"
    /\ list' \in Orders
    /\ UNCHANGED <<receiverVars, options, scanVars, asked, chosen, other>>

----------------------------------------------------------------------------
(* select_peer.                                                            *)

Candidates ==
    {i \in DOMAIN list : selector # NoSelector => list[i].id \in Matches[selector]}

(* `gitler peers` prints the list. *)
PrintPeers ==
    /\ pc = "selecting"
    /\ command = "peers"
    /\ pc' = "printed"
    /\ UNCHANGED <<receiverVars, options, scanVars, pickVars>>

(* Variation: `next` without the second `next`. *)
TakeOnly_First ==
    /\ pc = "selecting" /\ command = "send"
    /\ Candidates # {}
    /\ chosen' = list[CHOOSE i \in Candidates : \A j \in Candidates : i <= j]
    /\ pc' = "connecting"
    /\ UNCHANGED <<receiverVars, options, scanVars, list, asked, other>>
(* One candidate is taken without a question. *)
TakeOnly ==
    /\ pc = "selecting" /\ command = "send"
    /\ Cardinality(Candidates) = 1
    /\ chosen' = list[CHOOSE i \in Candidates : TRUE]
    /\ pc' = "connecting"
    /\ UNCHANGED <<receiverVars, options, scanVars, list, asked, other>>

(* Several and no --to: ask, if there is somebody to ask. *)
Ask ==
    /\ pc = "selecting" /\ command = "send"
    /\ selector = NoSelector
    /\ Cardinality(Candidates) > 1
    /\ terminal
    /\ asked' = TRUE
    /\ pc' = "choosing"
    /\ UNCHANGED <<receiverVars, options, scanVars, list, chosen, other>>

NoChoice ==
    /\ pc = "selecting" /\ command = "send"
    /\ \/ Candidates = {}
       \/ Cardinality(Candidates) > 1 /\ (selector # NoSelector \/ ~terminal)
    /\ Fail

(* The user types the number n. *)
Choose(n) ==
    /\ pc = "choosing"
    /\ n \in DOMAIN list
    /\ chosen' = list[n]
    /\ pc' = "connecting"
    /\ UNCHANGED <<receiverVars, options, scanVars, list, asked, other>>

(* Anything else. *)
ChooseBadly ==
    /\ pc = "choosing"
    /\ Fail

----------------------------------------------------------------------------
(* The connection.                                                         *)

(* Variation: any certificate is good. *)
Pinned_Any(r) == TRUE
(* verify_fingerprint: the certificate of the run at the other end has the *)
(* fingerprint of the chosen peer.                                         *)
Pinned(r) == r = chosen.id

Connect(r) ==
    /\ pc = "connecting"
    /\ r \in Reached(chosen.address)
    /\ Pinned(r)
    /\ other' = r
    /\ pc' = "connected"
    /\ UNCHANGED <<receiverVars, options, scanVars, list, asked, chosen>>

(* A wrong certificate, nobody there, or packets lost until the timeout. *)
ConnectFails ==
    /\ pc = "connecting"
    /\ Fail

----------------------------------------------------------------------------
SenderStep ==
    \/ Browse \/ Tick \/ DaemonError \/ DeadlineReached
    \/ PrintPeers \/ TakeOnly \/ Ask \/ NoChoice \/ ChooseBadly \/ ConnectFails
    \/ \E r \in Receivers : Answer(r) \/ Connect(r)
    \/ \E r \in Receivers : \E A \in (SUBSET Sockets[r]) \ {{}} : Resolve(r, A)
    \/ \E n \in 1..Cardinality(Receivers) : Choose(n)

(* The command is done: connected senders go on in module Transfer. *)
Finished == pc \in {"failed", "printed", "connected"} /\ UNCHANGED vars

Next == SenderStep \/ Finished \/ \E r \in Receivers : ReceiverStep(r)

Spec == Init /\ [][Next]_vars

(* The clock runs and the sender's task is scheduled; nothing is assumed   *)
(* of receivers, of the network, of the daemon or of the user.             *)
FairSpec ==
    /\ Spec
    /\ WF_vars(Browse) /\ WF_vars(Tick) /\ WF_vars(DeadlineReached)
    /\ WF_vars(PrintPeers \/ TakeOnly \/ Ask \/ NoChoice)
    /\ WF_vars(ConnectFails \/ \E r \in Receivers : Connect(r))

----------------------------------------------------------------------------
(* The variables have the values the code can give them. *)
TypeOK ==
    /\ stage \in [Receivers -> {"new", "bound", "serving", "stopping",
                           "lingering", "gone"}]
    /\ endpoints \subseteq Receivers
    /\ registered \subseteq Receivers
    /\ pc \in {"starting", "listening", "selecting", "choosing", "connecting",
               "printed", "connected", "failed"}
    /\ command \in {"send", "peers"}
    /\ terminal \in BOOLEAN
    /\ selector \in Selectors \cup {NoSelector}
    /\ remaining \in 0..Timeout
    /\ answered \subseteq Receivers
    /\ heard \subseteq answered
    /\ DOMAIN peers \subseteq Receivers
    /\ \A k \in DOMAIN peers : peers[k] \in Peer /\ peers[k].id = k
    /\ list \in Seq(Peer)
    /\ asked \in BOOLEAN
    /\ chosen \in Peer \cup {None}
    /\ other \in Receivers \cup {None}

(* The connection is with the run that was chosen, and with no other that  *)
(* has taken over its socket since it answered: a restarted receiver, or a *)
(* local one behind a loopback address (security.rs verify_fingerprint).   *)
(* It speaks the sender's protocol (parse_peer).                           *)
RightReceiver ==
    pc = "connected" =>
        /\ other = chosen.id
        /\ other \in answered
        /\ Version[other] = VERSION

(* A receiver is chosen without asking the user only if every other        *)
(* compatible receiver the scan heard is excluded by --to: nothing the     *)
(* scan keeps, orders or drops hides a second candidate (discover_peers,   *)
(* select_peer).                                                           *)
NoGuess ==
    chosen # None /\ ~asked =>
        \A r \in heard \ {chosen.id} :
            selector # NoSelector /\ r \notin Matches[selector]

(* A sender that hears of a run can reach it: a run that advertises itself  *)
(* has its endpoint open.  The one exception is a run on its way out whose  *)
(* daemon did not stop in time: shutdown_daemon waits one second and        *)
(* ignores errors, and then the endpoint is closed all the same             *)
(* (receive_files binds before it publishes and withdraws before it closes, *)
(* transfer.rs:225-228, 307-308; discovery.rs:98-109, 226-233).             *)
AdvertisedIsServed ==
    \A r \in registered \ endpoints : stage[r] = "lingering"

(* A scan ends after its timeout however many answers keep arriving, and   *)
(* the command gets as far as the printed list, a question, a connection   *)
(* or an error (discover_peers computes the deadline once).                *)
ScanEnds ==
    pc = "starting" ~> pc \in {"choosing", "printed", "connected", "failed"}
=============================================================================
