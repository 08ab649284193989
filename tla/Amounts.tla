------------------------------ MODULE Amounts ------------------------------
(***************************************************************************)
(* The arithmetic of prices and fees (src/src/modules/token/               *)
(* price-feed.service.ts, UploadService.createFeeTransaction). A price is  *)
(* a fraction <<n, d>> of a token, a token has unit sub-units (10 to the   *)
(* power of its decimals), and an amount in whole sub-units is what is     *)
(* paid. BigNumber computes exactly here: tokens have at most 20 decimals. *)
(***************************************************************************)
EXTENDS Integers

\* integerValue(ROUND_UP) of a / b.
RoundUp(a, b) == (a + b - 1) \div b

\* Mutant: the fraction is cut off.
convertToSubUnits_Cut(price, unit) == (price[1] * unit) \div price[2]

convertToSubUnits(price, unit) == RoundUp(price[1] * unit, price[2])

\* The same amount as a fraction of a token.
convertToScaledUnits(sub, unit) == <<sub, unit>>

\* Mutant: the percentage is taken for a fraction.
feeInSubUnits_Whole(sub, percentage) == RoundUp(sub * percentage, 1)

feeInSubUnits(sub, percentage) == RoundUp(sub * percentage, 100)

\* BigNumber's toString writes numbers from ExponentFrom (10^21) on with an
\* exponent, which BigInt does not read.
Printed(n, ExponentFrom) == IF n < ExponentFrom THEN [digits |-> n] ELSE [exponent |-> n]

=============================================================================
