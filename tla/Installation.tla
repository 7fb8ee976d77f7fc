---------------------------- MODULE Installation ----------------------------
(***************************************************************************)
(* What the installers promise, without the files they stage, move and     *)
(* move back: the executable and the record of its release change together *)
(* at one moment of a run, or not at all.  A run that is cut short between *)
(* its changes, or cannot undo them, may leave one without the other: an   *)
(* install then leaves the new executable under the old record, never the  *)
(* new record with another executable.                                     *)
(***************************************************************************)
EXTENDS Integers

CONSTANTS
  Versions,  \* the releases; the executable of a release is its version
  Edited,    \* an executable that is no release
  None       \* no executable, no record

VARIABLES
  exe,     \* the executable
  record,  \* the release the state file names
  asked    \* what the run that is under way was asked to do: one wish, or none

Wish == [what : {"install", "uninstall", "removePath"}, version : Versions,
         force : BOOLEAN, allowDowngrade : BOOLEAN]

Init ==
  /\ asked = {}
  /\ \/ record = None /\ exe \in {None, Edited}
     \/ record \in Versions /\ exe \in {record, Edited}

Begin ==
  /\ asked = {}
  /\ \E wish \in Wish : asked' = {wish}
  /\ UNCHANGED <<exe, record>>

End == asked # {} /\ asked' = {} /\ UNCHANGED <<exe, record>>

\* A first installation, for which the Windows installer also takes -RemovePath; or
\* one that replaces an installation, an older one and one nobody changed.
MayInstall(wish) ==
  \/ /\ record = None /\ exe = None
     /\ wish.what # "uninstall"
  \/ /\ record # None /\ exe # None
     /\ wish.what = "install"
     /\ wish.version >= record \/ wish.allowDowngrade
     /\ exe = record \/ wish.force

MayRemove(wish) == wish.what = "uninstall" /\ record # None /\ exe # None

Install ==
  /\ \E wish \in asked :
       MayInstall(wish) /\ exe' = wish.version /\ record' = wish.version
  /\ UNCHANGED asked

Remove ==
  /\ \E wish \in asked : MayRemove(wish)
  /\ exe' = None /\ record' = None
  /\ UNCHANGED asked

\* Cut short, the run ends or goes on to clean up.  Failures are not seen here: that
\* only a run which something cut ends so is for AllOrNothing and OutcomeIsTrue to say.
CutInstall ==
  /\ \E wish \in asked : MayInstall(wish) /\ exe' = wish.version
  /\ UNCHANGED record
  /\ asked' \in {asked, {}}

CutRemove ==
  /\ \E wish \in asked : MayRemove(wish)
  /\ exe' \in {exe, None} /\ record' \in {record, None}
  /\ asked' \in {asked, {}}

Next == Begin \/ End \/ Install \/ Remove \/ CutInstall \/ CutRemove

Spec == Init /\ [][Next]_<<exe, record, asked>>
=============================================================================
