--------------------------- MODULE MCUavHandshake ---------------------------
(* Small instances of UavHandshake for TLC. *)
EXTENDS UavHandshake

\* Flash erased or written by an earlier, shorter experiment.
MCStoredFresh == {1}
MCStoredOld == {0, 1, 3}
=============================================================================
