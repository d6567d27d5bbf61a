---------------------------- MODULE MCLocServer -----------------------------
(* LocServer with two devices and two positions, which the constructor's   *)
(* grid puts in one cell and the configured one in two.                    *)
EXTENDS LocServer

CONSTANTS d1, d2, c1, c2, p1, p2

MCDevice     == {d1, d2}
MCPos        == {p1, p2}
MCCell       == {c1, c2}
MCReport     == [dev : MCDevice, pos : MCPos, n : 1 .. MaxReports]
MCDefault    == [p \in MCPos |-> c1]
MCConfigured == [p \in MCPos |-> IF p = p1 THEN c1 ELSE c2]
=============================================================================
