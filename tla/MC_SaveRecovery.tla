------------------------- MODULE MC_SaveRecovery -------------------------
(***************************************************************************)
(* Instances of SaveRecovery for TLC.  The slots are model values, so that *)
(* they differ from the generations, which are numbers.                    *)
(***************************************************************************)
EXTENDS SaveRecovery
==========================================================================
