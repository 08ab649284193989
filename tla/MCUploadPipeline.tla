-------------------------- MODULE MCUploadPipeline --------------------------
(* Small instances of UploadPipeline for TLC. *)
EXTENDS UploadPipeline

CONSTANTS u1, u2, h1, h2, t1, t2, r1, r2

\* Each text names a transaction of its own.
OwnTransaction == [h \in Hashes |-> IF h = h1 THEN t1 ELSE t2]

\* Each upload has a transaction of its own; where there is one upload, t2 pays for
\* nothing.
OwnCarries == {<<t1, u1>>, <<t2, u2>>} \intersect (Transactions \X Uploads)

EvmChain == [u \in Uploads |-> "evm"]

\* The fee debit throws for u1; u2 is paid on a chain without one.
MixedChain == [u \in Uploads |-> IF u = u1 THEN "solana" ELSE "cosmos"]

=============================================================================
