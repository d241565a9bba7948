--------------------------- MODULE MC_GameStore ---------------------------
(***************************************************************************)
(* Instances of GameStore for TLC.                                         *)
(***************************************************************************)
EXTENDS GameStore

\* Bound: a behaviour is followed through saves of every kind and a load; or
\* through saves and a worker that stops; or through two commands, a load, a
\* restart and a failed tick within a month.  What leaves the bound is only
\* what the player, a tick or a failure does, never a step that fairness asks
\* for.
SavesOrVerdicts ==
  LET calm == spent["restarts"] = 0 /\ spent["throws"] = 0 /\ tickets < 2
      working == spent["stops"] = 0
      inAMonth == counter <= 3 /\ (game # None => game.month = 0)
  IN  \/ calm /\ (working \/ spent["loads"] = 0)
      \/ working /\ inAMonth
=============================================================================
