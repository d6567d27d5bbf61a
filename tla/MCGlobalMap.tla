---------------------------- MODULE MCGlobalMap -----------------------------
(* GlobalMap with two decoders, two devices, two cells, and one cell of two*)
(* positions.  The second device reports from one position, and first, so  *)
(* that the other one may move into the cell it is in.                     *)
EXTENDS GlobalMap, TLC

CONSTANTS d1, d2, c1, c2, p1, p2, p3, u1, u2, MaxReports

MCDevice  == {d1, d2}
MCPos     == {p1, p2, p3}
MCCell    == {c1, c2}
MCReport  == {r \in [dev : MCDevice, pos : MCPos, n : 1 .. MaxReports] :
                r.dev = d2 => r.pos = p3 /\ r.n = 1}
MCGrid    == [p \in MCPos |-> IF p = p3 THEN c2 ELSE c1]
MCUpdater == {u1, u2}
Symmetry  == Permutations(MCUpdater)
=============================================================================
