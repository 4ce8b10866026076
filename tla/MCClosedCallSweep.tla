------------------------- MODULE MCClosedCallSweep -------------------------
(* A small instance of ClosedCallSweep: one viewer of a list of one serial
   that HP does not resolve. *)
EXTENDS ClosedCallSweep

CONSTANTS viewer, sweeper, first

OneSerial == <<first>>
=============================================================================
