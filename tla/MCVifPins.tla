------------------------------- MODULE MCVifPins -------------------------------
(***************************************************************************)
(* Both owners, and a pin of each kind: 12 is the calibration's, 9 is on   *)
(* both sides, 15 is the L line.                                           *)
(***************************************************************************)
EXTENDS VifPins

===============================================================================
