------------------------------ MODULE MCBrowser ------------------------------
EXTENDS Browser, TLC

(* Requests, pages and providers are interchangeable.                      *)
Symmetry == Permutations(Requests) \cup Permutations(Pages) \cup Permutations(Providers)

(* What makes no difference to the pages: no reset is served, so a letter  *)
(* is of no use, and a token that expires without having been exchanged is *)
(* refused like any other that is over.                                    *)
Quiet == /\ letter = NoArg
         /\ \A t \in Tokens : session[t] = "over" =>
              state = "deleted" \/ \E u \in Tokens : line[u].of = t
=============================================================================
