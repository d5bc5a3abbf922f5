------------------------------ MODULE MC_Aconf ------------------------------
EXTENDS Aconf, TLC

\* variable 1 has an else outcome of mass 1/4
MC_AconfDist ==
  (1 :> (1 :> <<1, 2>> @@ 2 :> <<1, 4>>)) @@
  (2 :> (1 :> <<1, 3>> @@ 2 :> <<2, 3>>))

\* variable 2's outcomes sum to 4/3: getMissingRngs rejects S once both are in it
MC_AconfDistLate ==
  (1 :> (1 :> <<1, 2>> @@ 2 :> <<1, 4>>)) @@
  (2 :> (1 :> <<2, 3>> @@ 2 :> <<2, 3>>))
MC_EpsPositive == {<<1, 10>>}
MC_EpsZero     == {<<0, 1>>}
MC_Deltas      == {<<1, 10>>}
\* upsilon1_sra is 155.8 for epsilon = delta = 0.1; two unit samples reach 2
MC_Upsilon1    == <<2, 1>>
MC_AccCap      == <<3, 1>>
=============================================================================
