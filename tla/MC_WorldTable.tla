--------------------------- MODULE MC_WorldTable ---------------------------
(***************************************************************************)
(* Model-checking instance of WorldTable: a one-bit initial directory and *)
(* buckets of two pairs, so that doubling the directory and splitting      *)
(* buckets happen after a handful of variables (the code uses 10 bits and *)
(* 30 pairs; the control flow is the same).  Six variable ids give chains *)
(* of ids sharing their low bits (0, 4, 8; 0, 2) and ids whose slot lies *)
(* in the upper half of a doubled directory (3).                          *)
(***************************************************************************)
EXTENDS WorldTable

MC_Keys == {0, 1, 2, 3, 4, 8}
MC_Rngs == {1}
=============================================================================
