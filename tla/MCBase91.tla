------------------------------ MODULE MCBase91 ------------------------------
(* Inputs around the places where the code decides: 88 and 90 in the low   *)
(* bits, full and empty octets, every length up to four, and the longest   *)
(* messages the mesh carries.                                              *)
EXTENDS Base91

Octets == {0, 1, 88, 89, 91, 127, 128, 255}

Chars == {65, 89, 126, 45, 32}

SeqsUpTo(S, n) == UNION {[1..k -> S] : k \in 1..n}

MCInputs ==
  SeqsUpTo(Octets, 4) \cup {[k \in 1..n |-> o] : n \in {28, 113, 120}, o \in {0, 255}}

MCTexts == SeqsUpTo(Chars, 5) \cup {[k \in 1..255 |-> c] : c \in {65, 126}}

============================================================================
