---------------------------- MODULE MCRunRecords ----------------------------
(* Workers and datasets for Evaluation: one that is accepted, with a blank  *)
(* line and default names beside a given one, one that gives a default name *)
(* twice, one with a bad line, and one without a case.                      *)
EXTENDS Evaluation, TLC
CONSTANTS w1, w2
MCWorker == {w1, w2}
MCOption == {"x", "y"}
MCLine(kind, id, expected) == [kind |-> kind, id |-> id, expected |-> expected]
MCShuffles == {<<1, 2, 3>>, <<2, 3, 1>>}
MCBlank == MCLine("blank", 0, "x")
MCDatasets == {<<MCLine("case", 0, "x"), MCBlank, MCLine("case", 2, "y"), MCLine("case", 0, "x")>>,
               <<MCLine("case", 3, "x"), MCLine("case", 0, "y"), MCLine("case", 0, "x")>>,
               <<MCLine("case", 0, "x"), MCLine("bad", 0, "y"), MCLine("case", 0, "x")>>,
               <<MCBlank>>}
=============================================================================
