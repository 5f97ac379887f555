----------------------------- MODULE MCTagTable -----------------------------
(* Two beacons that differ in both numbers, so that a half-moved entry is neither's. *)
EXTENDS TagTable

MCBeacons == {[majorID |-> n, minorID |-> n] : n \in {1, 2}}
=============================================================================
