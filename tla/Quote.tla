-------------------------------- MODULE Quote --------------------------------
(***************************************************************************)
(* What an upload costs: POST /upload/create up to the two inserts         *)
(* (UploadService.createUploadRequest, validateToken, getCostEstimate,     *)
(* PriceFeedService), the token catalogue it reads and the administrator   *)
(* edits (src/src/modules/token/), and the fee row that is worked out from *)
(* the payment later (createFeeTransaction). One action per await that     *)
(* reads or writes a row; the three requests to the price feed are one.    *)
(*                                                                         *)
(* All requests ask for one combination of ticker, chain and network; a    *)
(* catalogue row is listed when it has that combination. No column is      *)
(* unique but the id, and findFirst has no order: it returns any of them.  *)
(***************************************************************************)
EXTENDS Amounts, FiniteSets

CONSTANTS
    Quotes,         \* requests to create an upload
    Tokens,         \* ids of catalogue rows
    Units,          \* sub-units per token: 10^decimals
    Prices,         \* answers of the price feed: fractions <<n, d>> of a token
    FeePercentage,
    ExponentFrom,   \* the first number printed with an exponent: 10^21
    MaxEdits,       \* bound on the edits of the catalogue
    NoRow

ASSUME UnitsAssumption == Units \subseteq Nat \ {0}
ASSUME PricesAssumption == Prices \subseteq Nat \X (Nat \ {0})
ASSUME PercentageAssumption == FeePercentage \in 0 .. 100
ASSUME QuoteBoundsAssumption == MaxEdits \in Nat /\ ExponentFrom \in Nat
ASSUME NoRowAssumption == NoRow \notin [unit : Units, listed : BOOLEAN]

VARIABLES
    row,      \* Token rows
    edits,    \* edits so far
    pc,       \* the await each request is at
    frame,    \* what it holds: its token, the unit and the price it worked with
    payment,  \* PaymentTransaction rows: token, amount, amountInSubUnits
    upload,   \* Upload rows: uploadEstimate
    fee       \* FeeTransaction rows: amount, amountInSubUnits as printed

catalogue == <<row, edits>>
records == <<payment, upload, fee>>
vars == <<catalogue, pc, frame, records>>

Rows == [unit : Units, listed : BOOLEAN]

Listed == {t \in Tokens : row[t] # NoRow /\ row[t].listed}

QuoteTypeOK ==
    /\ row \in [Tokens -> Rows \union {NoRow}]
    /\ edits \in 0 .. MaxEdits
    /\ pc \in [Quotes -> {"idle", "estimate", "price", "pay", "insert", "quoted", "refused"}]
    /\ \A q \in Quotes : pc[q] \notin {"idle", "refused"} => frame[q].token \in Tokens
    /\ \A q \in Quotes : pc[q] \in {"pay", "insert", "quoted"} =>
           frame[q].unit \in Units /\ frame[q].price \in Prices
    /\ \A q \in Quotes : payment[q] # NoRow => payment[q].token \in Tokens
    /\ \A q \in Quotes : upload[q] # NoRow => payment[q] # NoRow
    /\ \A q \in Quotes : fee[q] # NoRow => upload[q] # NoRow

Init ==
    /\ row \in [Tokens -> Rows \union {NoRow}]
    /\ edits = 0
    /\ pc = [q \in Quotes |-> "idle"]
    /\ frame = [q \in Quotes |-> NoRow]
    /\ payment = [q \in Quotes |-> NoRow]
    /\ upload = [q \in Quotes |-> NoRow]
    /\ fee = [q \in Quotes |-> NoRow]

Goto(q, s) == pc' = [pc EXCEPT ![q] = s]

-----------------------------------------------------------------------------
(* The catalogue.                                                          *)

Edit(t, r) ==
    /\ edits < MaxEdits
    /\ edits' = edits + 1
    /\ row' = [row EXCEPT ![t] = r]
    /\ UNCHANGED <<pc, frame, records>>

CreateToken(t) == row[t] = NoRow /\ \E r \in Rows : Edit(t, r)

\* Any column of a row may be changed, also when payments refer to it.
UpdateToken(t) == row[t] # NoRow /\ \E r \in Rows \ {row[t]} : Edit(t, r)

Referring(t) == {q \in Quotes : payment[q] # NoRow /\ payment[q].token = t}

\* Mutant: the rows that refer to the token are not looked at.
RemoveToken_Forced(t) == row[t] # NoRow /\ Edit(t, NoRow)

\* A row that a payment refers to cannot be deleted (ON DELETE RESTRICT).
RemoveToken(t) ==
    /\ row[t] # NoRow
    /\ Referring(t) = {}
    /\ Edit(t, NoRow)

-----------------------------------------------------------------------------
(* POST /upload/create                                                     *)

\* validateToken. Its row is the payment's token.
ValidateToken(q) ==
    /\ pc[q] = "idle"
    /\ \/ \E t \in Listed : /\ frame' = [frame EXCEPT ![q] = [token |-> t, unit |-> row[t].unit]]
                            /\ Goto(q, "estimate")
       \/ Listed = {} /\ Goto(q, "refused") /\ UNCHANGED frame
    /\ UNCHANGED <<catalogue, records>>

\* getCostEstimate looks the combination up once more: its row gives the
\* decimals, and need not be the row that was validated.
EstimateCost(q) ==
    /\ pc[q] = "estimate"
    /\ \/ \E t \in Listed : frame' = [frame EXCEPT ![q].unit = row[t].unit] /\ Goto(q, "price")
       \/ Listed = {} /\ Goto(q, "refused") /\ UNCHANGED frame
    /\ UNCHANGED <<catalogue, records>>

\* getUploadCostEstimateInUSD and convertToTokenAmount; the price feed may fail.
GetPrice(q) ==
    /\ pc[q] = "price"
    /\ \/ \E p \in Prices : /\ frame' = [frame EXCEPT ![q] =
                                 [token |-> @.token, unit |-> @.unit, price |-> p]]
                            /\ Goto(q, "pay")
       \/ Goto(q, "refused") /\ UNCHANGED frame
    /\ UNCHANGED <<catalogue, records>>

AmountInSubUnits(q) == convertToSubUnits(frame[q].price, frame[q].unit)

\* The amount of the estimate: the price when it is a whole number of
\* sub-units, and else those sub-units scaled; the same number either way.
Amount(q) == convertToScaledUnits(AmountInSubUnits(q), frame[q].unit)

\* A payment cannot refer to a row that is gone.
CreatePayment(q) ==
    /\ pc[q] = "pay"
    /\ \/ /\ row[frame[q].token] # NoRow
          /\ payment' = [payment EXCEPT ![q] = [token |-> frame[q].token, amount |-> Amount(q),
                                                inSubUnits |-> AmountInSubUnits(q)]]
          /\ Goto(q, "insert")
       \/ row[frame[q].token] = NoRow /\ Goto(q, "refused") /\ UNCHANGED payment
    /\ UNCHANGED <<catalogue, frame, upload, fee>>

CreateUpload(q) ==
    /\ pc[q] = "insert"
    /\ upload' = [upload EXCEPT ![q] = [estimate |-> Amount(q)]]
    /\ Goto(q, "quoted")
    /\ UNCHANGED <<catalogue, frame, payment, fee>>

\* The database fails, or the process goes down.
Fail(q) ==
    /\ pc[q] \in {"estimate", "price", "pay", "insert"}
    /\ Goto(q, "refused")
    /\ UNCHANGED <<catalogue, frame, records>>

\* createFeeTransaction, once the upload is paid and sent: the payment and, once
\* more, the token row are read.
CreateFee(q) ==
    LET sub == feeInSubUnits(payment[q].inSubUnits, FeePercentage)
    IN  /\ upload[q] # NoRow /\ fee[q] = NoRow
        /\ row[payment[q].token] # NoRow
        /\ fee' = [fee EXCEPT ![q] =
               [amount |-> convertToScaledUnits(sub, row[payment[q].token].unit),
                inSubUnits |-> Printed(sub, ExponentFrom)]]
        /\ UNCHANGED <<catalogue, pc, frame, payment, upload>>

Next ==
    \/ \E t \in Tokens : CreateToken(t) \/ UpdateToken(t) \/ RemoveToken(t)
    \/ \E q \in Quotes : \/ ValidateToken(q) \/ EstimateCost(q) \/ GetPrice(q)
                         \/ CreatePayment(q) \/ CreateUpload(q) \/ Fail(q)
                         \/ CreateFee(q)

Spec == Init /\ [][Next]_vars

-----------------------------------------------------------------------------
(* Properties.                                                             *)

\* The token row of a payment is there as long as the payment: the verification
\* and the fee worker read it again, and an edit may come between any two reads
\* (upload.controller.ts:65, 149, upload.service.ts:211, 583).
PaymentTokenExists ==
    \A q \in Quotes : payment[q] # NoRow => row[payment[q].token] # NoRow

\* What is paid covers the price and exceeds it by less than one sub-unit of the
\* token, whatever the catalogue says (price-feed.service.ts:49-78).
PriceIsCovered ==
    \A q \in Quotes : payment[q] # NoRow =>
        LET p == frame[q].price  sub == payment[q].inSubUnits
        IN  /\ sub * p[2] >= p[1] * frame[q].unit
            /\ (sub - 1) * p[2] < p[1] * frame[q].unit

\* The fee covers its share of the payment and exceeds it by less than one sub-unit,
\* is never more than the payment, and can be read by the fee worker unless it is
\* printed with an exponent (upload.service.ts:217-219, 601-609).
FeeIsItsShare ==
    \A q \in Quotes : fee[q] # NoRow =>
        LET sub == fee[q].amount[1]
        IN  /\ sub * 100 >= payment[q].inSubUnits * FeePercentage
            /\ (sub - 1) * 100 < payment[q].inSubUnits * FeePercentage
            /\ sub <= payment[q].inSubUnits
            /\ sub < ExponentFrom => fee[q].inSubUnits = [digits |-> sub]

=============================================================================
