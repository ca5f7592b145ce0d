------------------------------ MODULE MCLinking ------------------------------
EXTENDS Linking, TLC

(* Rows, names, accounts and requests are interchangeable.                 *)
Symmetry == Permutations(Users) \cup Permutations(Names)
            \cup Permutations(Accounts) \cup Permutations(Requests)
=============================================================================
