------------------------------ MODULE MCKycCases ------------------------------
EXTENDS KycCases, TLC

CONSTANTS ana, ben, eve, r1, r2

Three == {ana, ben, eve}
Two == {r1, r2}
Alike == Permutations(Three) \cup Permutations(Two)
===============================================================================
