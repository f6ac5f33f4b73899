----------------------------- MODULE MCAccounts -----------------------------
EXTENDS Accounts, TLC

CONSTANTS ann, bob, cas, dee, northside, riverside, one, two, main, second, other

FourPeople == {ann, bob, cas, dee}
ThreeEmails == {main, second, other}
TwoBusinesses == {northside, riverside}
TwoRequests == {one, two}
Symmetry == Permutations(TwoRequests) \cup Permutations({bob, cas, dee})
=============================================================================
