------------------------------ MODULE EventOrder ------------------------------
(***************************************************************************)
(* The order of events and cursors: block number first, log index second.  *)
(* A cursor position and an event are both records with these two fields.  *)
(***************************************************************************)
EXTENDS Integers

Position == [block : Int, log : Int]
PositionOf(e) == [block |-> e.block, log |-> e.log]

(* The WHERE clause of buildCursorCondition: e comes strictly after p.     *)
Before(p, e) == p.block < e.block \/ (p.block = e.block /\ p.log < e.log)

Covers(p, e) == ~ Before(p, e)

=============================================================================
