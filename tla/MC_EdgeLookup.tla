----------------------------- MODULE MC_EdgeLookup -----------------------------
(***************************************************************************)
(* Small match stores.  The old file holds a chain that a scan has to pass *)
(* over twice from 4, partly under the keys of the oldest format, and a    *)
(* self-edge of the time when unique documents had one.  New rows close a  *)
(* cycle, reverse an edge, raise a score, and repeat a legacy row's edge.  *)
(***************************************************************************)
EXTENDS EdgeLookup

Row(c, p, s)    == [legacy |-> FALSE, child |-> c, parent |-> p, score |-> s]
Legacy(c, p, s) == [legacy |-> TRUE, child |-> c, parent |-> p, score |-> s]

OldChain  == {Legacy(2, 1, 1), Row(3, 2, 1), Legacy(3, 3, 1), Row(4, 3, 1)}
NewCycle  == {Row(1, 4, 1), Row(1, 2, 1), Row(2, 1, 2), Row(3, 2, 2), Row(3, 2, 3)}
===============================================================================
