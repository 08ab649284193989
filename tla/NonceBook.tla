----------------------------- MODULE NonceBook -----------------------------
(***************************************************************************)
(* What sign-in promises a wallet, whatever its handlers do in between: a  *)
(* nonce is written down for one wallet, at any time, and a later one      *)
(* replaces it; a nonce that stands in the book when it is presented is    *)
(* accepted, and buys one sign-in of that wallet. The sign-in empties the  *)
(* page, also of a nonce that was written there since.                     *)
(*                                                                         *)
(* SignIn.tla implements this book for wallets that present one signature  *)
(* at a time, whoever asks for nonces in their name; Tickets stands for    *)
(* whatever identifies a nonce.                                            *)
(***************************************************************************)
CONSTANTS Wallets, Tickets, NoTicket

VARIABLES book,      \* the nonce written down for each wallet, or NoTicket
          issued,    \* nonces written down so far
          accepted,  \* <<w, n>>: a sign-in of w with nonce n is under way
          spent      \* <<w, n>>: wallet w signed in with nonce n

vars == <<book, issued, accepted, spent>>

Init == /\ book = [w \in Wallets |-> NoTicket]
        /\ issued = {}
        /\ accepted = {}
        /\ spent = {}

Issue(w, n) == /\ n \notin issued
               /\ book' = [book EXCEPT ![w] = n]
               /\ issued' = issued \union {n}
               /\ UNCHANGED <<accepted, spent>>

\* Only what stands in the book is accepted, and one sign-in at a time.
Accept(w, n) == /\ book[w] = n
                /\ \A m \in Tickets : <<w, m>> \notin accepted
                /\ accepted' = accepted \union {<<w, n>>}
                /\ UNCHANGED <<book, issued, spent>>

Spend(w, n) == /\ <<w, n>> \in accepted
               /\ <<w, n>> \notin spent
               /\ book' = [book EXCEPT ![w] = NoTicket]
               /\ accepted' = accepted \ {<<w, n>>}
               /\ spent' = spent \union {<<w, n>>}
               /\ UNCHANGED issued

\* The sign-in fails half-way; its nonce may still stand in the book.
Drop(w, n) == /\ <<w, n>> \in accepted
              /\ accepted' = accepted \ {<<w, n>>}
              /\ UNCHANGED <<book, issued, spent>>

Next == \E w \in Wallets, n \in Tickets :
            Issue(w, n) \/ Accept(w, n) \/ Spend(w, n) \/ Drop(w, n)

Spec == Init /\ [][Next]_vars

=============================================================================
