----------------------------- MODULE MCDiscovery -----------------------------
(***************************************************************************)
(* Two machines.  "desk" runs a receiver on a fixed port, and a second run *)
(* of it (desk2) after a restart: same name, same sockets.  "here" is a    *)
(* receiver on the sender's own machine whose port is also "desk"'s, so    *)
(* that the loopback address an answer may name leads to it; it is of      *)
(* another protocol version.                                               *)
(***************************************************************************)
EXTENDS Discovery, TLC

CONSTANTS desk, desk2, here, byName, byId

MCReceivers == {desk, desk2, here}
MCName == (here :> 1) @@ [r \in {desk, desk2} |-> 2]
(* 0 is 127.0.0.1, 1 the address of the other machine, 2 of this one. *)
MCSockets == (here :> {0, 2}) @@ [r \in {desk, desk2} |-> {0, 1}]
MCLoopback == {0}
MCMachine == (here :> 2) @@ [r \in {desk, desk2} |-> 1]
MCVersion == (here :> 1) @@ [r \in {desk, desk2} |-> 2]
MCSelectors == {byName, byId}
MCMatches == (byName :> {desk, desk2}) @@ (byId :> {desk})
=============================================================================
