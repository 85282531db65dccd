------------------------- MODULE MCCopyOnReadRaces -------------------------
(* Instances of CopyOnReadRaces for TLC.                                   *)
EXTENDS MCCopyOnRead, CopyOnReadRaces
=============================================================================
