--------------------------- MODULE SessionDatabase ---------------------------
(***************************************************************************)
(* The sessions of CalibrationSession in the file of DatabaseUpgrade: an   *)
(* operation is a transaction of a process that holds the database, so it  *)
(* needs the write lock a process that is just opening it may have.        *)
(***************************************************************************)
EXTENDS CalibrationSession, DatabaseUpgrade

(* Bound: sessions are issued in a file that was new.  Other files are     *)
(* opened and upgraded only.                                               *)
CONSTANT NewData

Held == lock = Nobody /\ \E o \in Openers : opener[o] = "open"

StoreInit == Init /\ UpgradeInit
SessionStep == Next /\ Held /\ file.data = NewData /\ UNCHANGED disk
UpgradeStep == UpgradeNext /\ UNCHANGED vars
StoreNext == SessionStep \/ UpgradeStep
StoreSpec == StoreInit /\ [][StoreNext]_<<vars, disk>>
=============================================================================
