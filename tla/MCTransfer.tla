----------------------------- MODULE MCTransfer -----------------------------
(* Instances of Transfer for TLC: who sends what into which directory. *)
EXTENDS Transfer

\* The paths: two files, a directory's name used as a file's, a file in that
\* directory, and a name that is not portable.
MCPaths == {"f", "g", "d", "d/g", "bad."}
MCPortable == MCPaths \ {"bad."}
MCNames == {"f", "f (1)", "g", "g (1)", "d", "d (1)", "d/g", "d/g (1)"}

\* Two candidates where create_destination tries 10,000.
MCCandidate == [p \in MCPaths |->
  CASE p = "f" -> <<"f", "f (1)">>
    [] p = "g" -> <<"g", "g (1)">>
    [] p = "d" -> <<"d", "d (1)">>
    [] OTHER -> <<"d/g", "d/g (1)">>]
MCAncestors == [p \in MCPaths |-> IF p = "d/g" THEN {"d"} ELSE {}]

File(p, n) == [path |-> p, size |-> n]
Req(files) == [version |-> 2, files |-> files]

\* r gives the requests of those who send; the others have an empty one.
Situation(r, foreign, existing, once, acceptAll, terminal, faults) ==
  [sending |-> DOMAIN r,
   request |-> [s \in Senders |-> IF s \in DOMAIN r THEN r[s] ELSE Req(<<>>)],
   foreign |-> foreign, existing |-> existing,
   once |-> once, acceptAll |-> acceptAll, terminal |-> terminal,
   faults |-> faults]

\* Two senders race for the name f, taken before; one goes on with a second file.
Race == [s \in {"s1", "s2"} |->
  IF s = "s1" THEN Req(<<File("f", 1), File("g", 0)>>) ELSE Req(<<File("f", 1)>>)]

\* Two senders of one file under one name.
Pair == [s \in {"s1", "s2"} |-> Req(<<File("f", 1)>>)]

\* A file and a directory share a name, within one manifest and across two.
Nested == [s \in {"s1", "s2"} |->
  IF s = "s1" THEN Req(<<File("d", 1), File("d/g", 1)>>) ELSE Req(<<File("d/g", 1)>>)]

\* Requests that break one rule each.
Invalid == [s \in {"s1", "s2", "s3"} |->
  CASE s = "s1" -> [version |-> 1, files |-> <<File("f", 1)>>]
    [] s = "s2" -> Req(<<File("bad.", 1)>>)
    [] OTHER -> Req(<<File("f", 1), File("f", 1)>>)]
TooMuch == [s \in {"s1", "s2", "s3"} |->
  CASE s = "s1" -> Req(<<File("f", 2), File("g", 2)>>)
    [] s = "s2" -> Req(<<>>)
    [] OTHER -> Req(<<File("f", 0), File("g", 0), File("d", 0)>>)]

\* One file each, and one sender more than there are permits.
Busy == [s \in {"s1", "s2", "s3"} |->
  Req(<<File(CASE s = "s1" -> "f" [] s = "s2" -> "g" [] OTHER -> "d", 1)>>)]

Solo == [s \in {"s1"} |-> Req(<<File("f", 1)>>)]

SafetyConfigs ==
  {Situation(Race, {}, {"f"}, FALSE, FALSE, TRUE, FaultKinds),
   Situation(Nested, {"s2"}, {}, FALSE, TRUE, TRUE, {"network", "source"}),
   Situation(Race, {}, {}, TRUE, FALSE, TRUE, {"network"}),
   Situation(Race, {"s1"}, {"f"}, FALSE, TRUE, TRUE, {"disk"}),
   Situation(Invalid, {"s1", "s3"}, {}, FALSE, FALSE, TRUE, {}),
   Situation(TooMuch, {"s1"}, {}, FALSE, FALSE, TRUE, {}),
   Situation(TooMuch, {}, {}, FALSE, FALSE, FALSE, {}),
   Situation(Solo, {}, {}, FALSE, FALSE, FALSE, {}),
   Situation(Busy, {}, {}, FALSE, TRUE, TRUE, {})}

LivenessConfigs ==
  {Situation(Race, {}, {"f"}, FALSE, FALSE, TRUE, {}),
   Situation(Pair, {}, {}, FALSE, FALSE, TRUE, {"network"}),
   Situation(Nested, {"s2"}, {}, FALSE, FALSE, TRUE, {"network"}),
   Situation(Race, {}, {}, TRUE, FALSE, TRUE, {"network"}),
   Situation(Race, {"s1"}, {}, TRUE, FALSE, TRUE, {})}

SoloConfigs == {Situation(Solo, {}, {}, FALSE, FALSE, TRUE, {})}
=============================================================================
