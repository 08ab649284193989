--------------------------- MODULE PaymentOracle ---------------------------
(***************************************************************************)
(* What the upload handlers take a payment verification for (the actions   *)
(* VerifyConfirms, VerifyDenies and VerifyThrows of UploadService): it     *)
(* confirms a transfer that pays and no other, and each time it does not   *)
(* know of one a try is used up; an exception ends it at once.             *)
(*                                                                         *)
(* PaymentVerification.tla implements this oracle.                         *)
(***************************************************************************)
EXTENDS Naturals

VARIABLES paid,    \* the transaction is a payment
          left,    \* tries left
          answer

vars == <<paid, left, answer>>

Init == paid \in BOOLEAN /\ left \in Nat \ {0} /\ answer = "none"

Confirm == /\ answer = "none" /\ paid
           /\ answer' = "confirmed"
           /\ UNCHANGED <<paid, left>>

Deny == /\ answer = "none"
        /\ left' = left - 1
        /\ answer' = IF left > 1 THEN "none" ELSE "denied"
        /\ UNCHANGED paid

Throw == /\ answer = "none"
         /\ answer' = "thrown"
         /\ UNCHANGED <<paid, left>>

Next == Confirm \/ Deny \/ Throw

Spec == Init /\ [][Next]_vars

=============================================================================
