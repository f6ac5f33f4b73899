--------------------------- MODULE MCKnowledgeBase ---------------------------
EXTENDS KnowledgeBase, TLC

CONSTANTS faq, prices, nomic

TwoDocuments == {faq, prices}
OneProvider == {nomic}
Lengths == {1, 4, 9}
UpToThree == UNION {[1..n -> Lengths] : n \in 1..3}
NearAndFar == {0, 4, 5}
Symmetry == Permutations(TwoDocuments)
=============================================================================
