--------------------------- MODULE MCMainDispatch ---------------------------
EXTENDS MainDispatch, TLC
CONSTANTS main, w1, w2, none
MCThreads == {main, w1, w2}
MadeBy(m, one, other) == main :> m @@ w1 :> one @@ w2 :> other
TwoEach == {MadeBy(1, 2, 2)}
TwoEachOrThree == TwoEach \union {MadeBy(1, 3, 0)}
=============================================================================
