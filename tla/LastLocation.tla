---------------------------- MODULE LastLocation ----------------------------
(***************************************************************************)
(* What the location server promises of a device, without the threads and  *)
(* the tables: whereis() tells the last report of it that came in, and     *)
(* after a restart a report saved before, never one that had not come in   *)
(* and never one older than what was saved earlier.                        *)
(***************************************************************************)
EXTENDS Naturals

CONSTANTS Device, Report, None

VARIABLES
    last,    \* what whereis() answers
    saved    \* what a restart starts from

vars == <<last, saved>>

Nothing == [d \in Device |-> None]

(* r is newer than what is known, in m, of its device.                     *)
Newer(r, m) == m[r.dev] = None \/ m[r.dev].n < r.n

Init == last = Nothing /\ saved = Nothing

Accept(r) ==
    /\ Newer(r, last)
    /\ last' = [last EXCEPT ![r.dev] = r]
    /\ UNCHANGED saved

(* Not necessarily the last report: it may be one that was overtaken.      *)
Save(r) ==
    /\ Newer(r, saved)
    /\ last[r.dev] # None /\ r.n <= last[r.dev].n
    /\ saved' = [saved EXCEPT ![r.dev] = r]
    /\ UNCHANGED last

(* A restart may fail to read back some of the devices.                    *)
Restart(read) ==
    /\ last' = [d \in Device |-> IF d \in read THEN saved[d] ELSE None]
    /\ UNCHANGED saved

Next ==
    \/ \E r \in Report : Accept(r) \/ Save(r)
    \/ \E read \in SUBSET Device : Restart(read)

Spec == Init /\ [][Next]_vars
=============================================================================
