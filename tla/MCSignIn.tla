------------------------------ MODULE MCSignIn ------------------------------
(* Small instances of SignIn for TLC. *)
EXTENDS SignIn

CONSTANTS w1, w2, c1, c2, c3

=============================================================================
