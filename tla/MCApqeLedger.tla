---------------------------- MODULE MCApqeLedger ----------------------------
(* Two slots; the bounds are in ApqeLedger.cfg. *)
EXTENDS ApqeLedger
=============================================================================
