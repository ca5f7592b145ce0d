----------------------------- MODULE MCReferral -----------------------------
EXTENDS Referral, TLC

(* Friends of one inviter are interchangeable.                             *)
Symmetry == Permutations(Friends)
=============================================================================
