-------------------------- MODULE MCUploadService --------------------------
(* Small instances of UploadService for TLC. *)
EXTENDS UploadService, TLC

CONSTANTS u1, u2, h1, h2, h3, t1, t2, r1, r2, r3

\* u2 has another price than u1: t1 pays for u1 only, under two spellings, and t2
\* for u2 only.
TwoPrices == {<<t1, u1>>, <<t2, u2>>} \intersect (Transactions \X Uploads)

\* u1 and u2 have one price, so that each transaction pays for either.
OnePrice == Transactions \X Uploads

\* h1 and h2 are two spellings of t1, h3 is the only one of t2.
TwoSpellings == [h \in Hashes |-> IF h = h3 THEN t2 ELSE t1]

\* h1 and h2 name two transactions.
OwnSpellings == [h \in Hashes |-> IF h = h1 THEN t1 ELSE t2]

\* For the runs without liveness properties: calls are alike when all may fail, and
\* so are two spellings.
Symmetry == Permutations(Requests) \union Permutations({h1, h2})

=============================================================================
