------------------------- MODULE MC_ConfAggregate -------------------------
EXTENDS ConfAggregate, Tconf, TLC

\* two variables, one with an incomplete distribution (else mass 1/4)
MC_Dist ==
  (1 :> (1 :> <<1, 2>> @@ 2 :> <<1, 4>>)) @@
  (2 :> (1 :> <<1, 3>> @@ 2 :> <<2, 3>>))

\* variable 2's outcomes sum to 4/3: getMissingRngs rejects S once both are in it
MC_DistLate ==
  (1 :> (1 :> <<1, 2>> @@ 2 :> <<1, 4>>)) @@
  (2 :> (1 :> <<2, 3>> @@ 2 :> <<2, 3>>))

\* the epsilon of conf(approach, epsilon), which no conf() query reads
MC_Eps == {<<0, 1>>}

\* tconf's argument rows: up to MC_TconfLen literals of Dist, repeated and
\* contradictory ones included, each with its probability
MC_TconfLen == 4
MC_TconfRows == UNION {[1 .. n -> Lits] : n \in 0 .. MC_TconfLen}
MC_Triples(c) == [k \in DOMAIN c |-> <<c[k][1], c[k][2], Dist[c[k][1]][c[k][2]]>>]
MC_TconfAgrees == \A c \in MC_TconfRows : TconfOf(MC_Triples(c)) = BruteForce(<<c>>)

\* the tconf check is evaluated once, in the initial state
VARIABLE tconfOK
MC_Init == tconfOK = MC_TconfAgrees /\ Init
MC_Next == Next /\ UNCHANGED tconfOK

(* tconf() of a row (product_ge, product1_ge, product0) returns what      *)
(* conf() returns for a group holding only that row: the probability of   *)
(* the conjunction of its literals, each (variable, outcome) counted once *)
(* and 0 for a contradictory row, however the pairwise loop rewrites the  *)
(* literals it has already neutralised.                                   *)
TconfIsConfOfRow == tconfOK
=============================================================================
