-------------------------- MODULE MCWarrantyQueue --------------------------
(* Small instances of WarrantyQueue.  Lanes are interchangeable: no guard or
   property tells them apart, and symmetry is used in safety runs only. *)
EXTENDS WarrantyQueue, TLC

CONSTANTS l1, l2, j1, j2, s1, blank

LaneSymmetry == Permutations({l1, l2}) \cup Permutations({j1, j2})


=============================================================================
