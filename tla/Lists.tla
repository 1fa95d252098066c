------------------------------- MODULE Lists -------------------------------
(***************************************************************************)
(* Parts of a list named by their positions, and two functions as one.  A  *)
(* list is filtered by naming the positions that stay, not by walking it.  *)
(***************************************************************************)
EXTENDS Naturals, Sequences, FiniteSets

\* The n-th of a set of positions.
Nth(P, n) == CHOOSE i \in P : Cardinality({j \in P : j < i}) = n - 1

\* What a list has at these positions, in their order.
At(s, P) == [n \in 1..Cardinality(P) |-> s[Nth(P, n)]]

\* Two functions as one; the first decides what both are defined for.
Joined(f, g) == [x \in DOMAIN f \cup DOMAIN g |-> IF x \in DOMAIN f THEN f[x] ELSE g[x]]

=============================================================================
