-------------------------------- MODULE Lists --------------------------------
(***************************************************************************)
(* Lists as the code filters and searches them: Array.filter keeps what is *)
(* meant of a list, in its order.                                          *)
(***************************************************************************)
EXTENDS Integers, Sequences

ElementsOf(s) == {s[i] : i \in DOMAIN s}
NoneTwice(s) == \A i, j \in DOMAIN s : s[i] = s[j] => i = j

\* A sequence with only some of its elements, in their order.
Sifted(s, kept) ==
  LET UpTo[n \in 0 .. Len(s)] ==
        IF n = 0 THEN <<>>
        ELSE IF s[n] \in kept THEN Append(UpTo[n - 1], s[n]) ELSE UpTo[n - 1]
  IN  UpTo[Len(s)]
=============================================================================
