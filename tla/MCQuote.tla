------------------------------ MODULE MCQuote ------------------------------
(* Small instances of Quote for TLC. *)
EXTENDS Quote

CONSTANTS q1, q2, t1, t2

\* Prices that are whole, that are not, and that are less than one sub-unit.
SomePrices == {<<2, 1>>, <<5, 3>>, <<1, 30>>}

=============================================================================
