----------------------------- MODULE MCDBSyncer -----------------------------
(* DBSyncer with two devices; a report is told apart by its device alone.  *)
EXTENDS DBSyncer

CONSTANTS d1, d2

MCDevice == {d1, d2}
MCLoc    == [dev : MCDevice]
=============================================================================
