------------------------ MODULE MCWarrantyJobStatus ------------------------
(* A small instance of WarrantyJobStatus: one job, two requests besides the
   one that creates it, and one lane.  No symmetry: the run checks a liveness property. *)
EXTENDS WarrantyJobStatus

CONSTANTS l1, l2, j1, s1, r1, r2
=============================================================================
