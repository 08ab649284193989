----------------------------- MODULE MCSessions -----------------------------
(* A small instance of Sessions for TLC. *)
EXTENDS Sessions, TLC

CONSTANTS w1, w2, c1, c2, c3

\* Calls differ in their route only, which is chosen for each of them, and wallets
\* in their role.
Symmetry == Permutations(Calls) \union Permutations(Wallets)

=============================================================================
