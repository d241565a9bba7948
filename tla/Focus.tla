-------------------------------- MODULE Focus --------------------------------
(***************************************************************************)
(* Which part of the company is followed.  The parts of a domain share no  *)
(* state: a behaviour follows one of them, and what that part keeps to is  *)
(* said of the behaviours that follow it.                                  *)
(***************************************************************************)
VARIABLE focus

FocusStays == [][focus' = focus]_focus
=============================================================================
