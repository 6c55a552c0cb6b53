------------------------- MODULE MCMcpRefreshTokens -------------------------
(* Model checking of McpRefreshTokens on small sets.                       *)
EXTENDS McpRefreshTokens, TLC

(* Tokens, families, users, clients and requests are interchangeable: no   *)
(* definition singles one out.                                             *)
Symmetry == Permutations(Tokens) \cup Permutations(Requests)
            \cup Permutations(Families) \cup Permutations(Clients)
            \cup Permutations(Users)
=============================================================================
