------------------------------ MODULE MCInvites ------------------------------
EXTENDS Invites, TLC

Symmetry == Permutations(Codes) \cup Permutations(Requests)
=============================================================================
