--------------------------- MODULE MCParkingTable ---------------------------
(* ParkingTable with interchangeable workers. *)
EXTENDS ParkingTable, TLC

WorkerSymmetry == Permutations(Workers)
=============================================================================
