--------------------------- MODULE MCSeededAccess ---------------------------
(***************************************************************************)
(* The instance of SeededAccess for TLC.                                   *)
(***************************************************************************)
EXTENDS SeededAccess, TLC
=============================================================================
