----------------------------- MODULE MCWindows -----------------------------
EXTENDS InputTargets, TLC
CONSTANTS a, b, c
ThreeWindows == {a, b, c}
WindowsPerDevice ==
  [d \in {"keyboard", "pointer", "grab", "tree"} |->
     IF d \in {"keyboard", "pointer"} THEN 2 ELSE 3]
Symmetry == Permutations(ThreeWindows)
=============================================================================
