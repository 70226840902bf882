----------------------------- MODULE MCGateway -----------------------------
(* Instances of Gateway for TLC. *)
EXTENDS Gateway, TLC

Symmetry == Permutations(Clients) \cup Permutations(Codes) \cup Permutations(Tokens)
              \cup Permutations(Requests) \cup Permutations(ToolCalls)
=============================================================================
