-------------------------- MODULE MCMobileApproval --------------------------
\* MobileApproval for TLC: sessions and proposals are interchangeable.
EXTENDS MobileApproval, TLC

MobileSymmetry == Permutations(Sessions) \cup Permutations(Subjects)
=============================================================================
