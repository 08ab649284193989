--------------------------- MODULE PaymentLedger ---------------------------
(***************************************************************************)
(* What the service promises a client about money, whatever its handlers   *)
(* do in between: one hash that names a payment buys one upload, a         *)
(* receipt is given for a recorded transfer only and once per upload, and  *)
(* one job per receipted upload is handed to the queue.                    *)
(*                                                                         *)
(* UploadService.tla implements this ledger; Tickets stands for whatever   *)
(* identifies a queued job (there: the HTTP call that produced it).        *)
(***************************************************************************)
CONSTANTS Uploads,   \* upload requests
          Hashes,    \* texts that name on-chain transactions
          Tickets,   \* identities of queued jobs
          Pays,      \* <<h, u>> \in Pays: what h names pays the price of u
          NoHash

VARIABLES paidBy,     \* the hash recorded for each upload, or NoHash
          receipted,  \* the uploads with a receipt
          jobs        \* <<u, t>>: job t of upload u is in the queue

vars == <<paidBy, receipted, jobs>>

Init == /\ paidBy = [u \in Uploads |-> NoHash]
        /\ receipted = {}
        /\ jobs = {}

\* Hash h can be recorded for u: it pays for u, and stands in no other row.
Spendable(h, u) == /\ <<h, u>> \in Pays
                   /\ \A v \in Uploads \ {u} : paidBy[v] # h

\* The hash of a payment is recorded, and replaces an earlier one of the same
\* upload as long as no receipt was given for that one.
Record(u, h) == /\ u \notin receipted
                /\ Spendable(h, u)
                /\ paidBy' = [paidBy EXCEPT ![u] = h]
                /\ UNCHANGED <<receipted, jobs>>

\* The hash on record is replaced after the receipt was given. Only a
\* client that overlaps its own calls for one upload gets here.
Amend(u, h) == /\ u \in receipted
               /\ Spendable(h, u)
               /\ paidBy' = [paidBy EXCEPT ![u] = h]
               /\ UNCHANGED <<receipted, jobs>>

Issue(u) == /\ paidBy[u] # NoHash
            /\ u \notin receipted
            /\ receipted' = receipted \union {u}
            /\ UNCHANGED <<paidBy, jobs>>

Dispatch(u, t) == /\ u \in receipted
                  /\ \A k \in Tickets : <<u, k>> \notin jobs
                  /\ jobs' = jobs \union {<<u, t>>}
                  /\ UNCHANGED <<paidBy, receipted>>

StrictNext == \E u \in Uploads :
                \/ \E h \in Hashes : Record(u, h)
                \/ Issue(u)
                \/ \E t \in Tickets : Dispatch(u, t)

Next == StrictNext \/ \E u \in Uploads, h \in Hashes : Amend(u, h)

\* The ledger as clients that overlap their calls see it.
Spec == Init /\ [][Next]_vars

\* The ledger as a client that makes one call at a time sees it.
StrictSpec == Init /\ [][StrictNext]_vars

=============================================================================
