------------------------ MODULE MC_CommandBoundary ------------------------
(***************************************************************************)
(* Instances of CommandBoundary for TLC.  One id is enough for a retry;    *)
(* standing orders bring ids of their own.                                 *)
(***************************************************************************)
EXTENDS CommandBoundary

\* Bound: beyond two commands a history is followed only while nothing drew,
\* emitted or changed the hotel: the log, the versions and the order of the
\* decisions need the length, the journal and the streams do not.
LongHistoriesAreQuiet ==
  Len(owed) > 2 => /\ state.emitted = 0 /\ streams = 0 /\ state.hotel = 0
===========================================================================
