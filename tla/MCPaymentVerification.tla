----------------------- MODULE MCPaymentVerification -----------------------
(* Small instances of PaymentVerification for TLC. *)
EXTENDS PaymentVerification

CONSTANTS payer, system

=============================================================================
