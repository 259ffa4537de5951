-------------------------- MODULE MCApqeHandshake --------------------------
(* Two slots, two boots of each UAV; the bounds are in ApqeHandshake.cfg. *)
EXTENDS ApqeHandshake
=============================================================================
