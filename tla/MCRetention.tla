----------------------------- MODULE MCRetention -----------------------------
EXTENDS Retention, TLC

CONSTANTS older, one, two

OneCall == {older}
TwoRequests == {one, two}
ShortAndLong == {1, 2}
Symmetry == Permutations(TwoRequests)
=============================================================================
