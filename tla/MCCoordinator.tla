---------------------------- MODULE MCCoordinator ----------------------------
(* Instances of Coordinator for TLC.                                       *)
EXTENDS Coordinator

CONSTANT EventCount

ASSUME EventCountAssumption == EventCount \in Nat

FirstEvents == 1 .. EventCount

OldestEvent == 1 .. 1

AllButNewest == 1 .. EventCount - 1
=============================================================================
