---------------------------- MODULE QuoteProofs ----------------------------
(***************************************************************************)
(* Theorems about Quote, for any decimals, prices and percentages, any     *)
(* number of requests and any edits of the catalogue, and about the        *)
(* arithmetic of Amounts.                                                  *)
(***************************************************************************)
EXTENDS Quote, TLAPS

-----------------------------------------------------------------------------
(* Rounding.                                                               *)

LEMMA DivIsQuotient ==
    ASSUME NEW x \in Int, NEW b \in Nat \ {0}
    PROVE  /\ x \div b \in Int
           /\ (x \div b) * b <= x
           /\ x < (x \div b) * b + b
OBVIOUS

\* ROUND_UP of a fraction covers it and exceeds it by less than one.
LEMMA RoundUpBounds ==
    ASSUME NEW a \in Nat, NEW b \in Nat \ {0}
    PROVE  /\ RoundUp(a, b) \in Nat
           /\ RoundUp(a, b) * b >= a
           /\ (RoundUp(a, b) - 1) * b < a
<1> DEFINE r == RoundUp(a, b)
<1>1. r \in Int /\ r * b <= a + b - 1 /\ a + b - 1 < r * b + b
  BY DivIsQuotient DEF RoundUp
<1>2. (r - 1) * b = r * b - b
  BY <1>1
<1>3. r \in Nat
  <2>1. CASE r < 0
    <3>1. r * b + b <= 0
      BY <1>1, <2>1
    <3>2. QED BY <1>1, <3>1
  <2>2. QED BY <1>1, <2>1
<1>4. QED BY <1>1, <1>2, <1>3

LEMMA SubUnitsBounds ==
    ASSUME NEW p \in Nat \X (Nat \ {0}), NEW u \in Nat
    PROVE  /\ convertToSubUnits(p, u) \in Nat
           /\ convertToSubUnits(p, u) * p[2] >= p[1] * u
           /\ (convertToSubUnits(p, u) - 1) * p[2] < p[1] * u
<1>1. p[1] * u \in Nat /\ p[2] \in Nat \ {0}
  <2>1. p[1] \in Nat /\ p[2] \in Nat \ {0}
    OBVIOUS
  <2>2. QED BY <2>1
<1>2. QED BY <1>1, RoundUpBounds DEF convertToSubUnits

LEMMA FeeBounds ==
    ASSUME NEW s \in Nat
    PROVE  /\ feeInSubUnits(s, FeePercentage) \in Nat
           /\ feeInSubUnits(s, FeePercentage) * 100 >= s * FeePercentage
           /\ (feeInSubUnits(s, FeePercentage) - 1) * 100 < s * FeePercentage
           /\ feeInSubUnits(s, FeePercentage) <= s
<1> DEFINE f == feeInSubUnits(s, FeePercentage)
<1>1. s * FeePercentage \in Nat /\ s * FeePercentage <= s * 100
  <2>1. FeePercentage \in Nat /\ 100 - FeePercentage \in Nat
    BY PercentageAssumption
  <2>2. s * (100 - FeePercentage) \in Nat
    BY <2>1
  <2>3. s * FeePercentage \in Nat
    BY <2>1
  <2>4. s * (100 - FeePercentage) = s * 100 - s * FeePercentage
    BY <2>1
  <2>5. QED BY <2>2, <2>3, <2>4
<1>2. f \in Nat /\ f * 100 >= s * FeePercentage /\ (f - 1) * 100 < s * FeePercentage
  BY <1>1, RoundUpBounds DEF feeInSubUnits
<1>3. f <= s
  BY <1>1, <1>2
<1>4. QED BY <1>2, <1>3

-----------------------------------------------------------------------------
(* The records of a request.                                               *)

Looked == [token : Tokens, unit : Units]
Priced == [token : Tokens, unit : Units, price : Prices]

\* The payment of q was worked out from the price and the decimals q holds.
Settled(q) ==
    /\ frame[q] \in Priced
    /\ payment[q].token \in Tokens
    /\ payment[q].inSubUnits = convertToSubUnits(frame[q].price, frame[q].unit)

\* The fee of q was worked out from its payment.
Charged(q) ==
    /\ fee[q].amount[1] = feeInSubUnits(payment[q].inSubUnits, FeePercentage)
    /\ fee[q].inSubUnits = Printed(fee[q].amount[1], ExponentFrom)

\* What a request knows at its await, and what the rows it wrote say.
Knows(q) ==
    /\ pc[q] \in {"idle", "estimate", "price", "pay", "insert", "quoted", "refused"}
    /\ pc[q] \in {"estimate", "price"} => frame[q] \in Looked
    /\ pc[q] = "pay" => frame[q] \in Priced
    /\ payment[q] # NoRow => /\ pc[q] \in {"insert", "quoted", "refused"}
                             /\ row[payment[q].token] # NoRow
    /\ payment[q] # NoRow \/ pc[q] \in {"insert", "quoted"} => Settled(q)
    /\ upload[q] # NoRow => pc[q] = "quoted"
    /\ fee[q] # NoRow => upload[q] # NoRow /\ Charged(q)

QuoteInv ==
    /\ row \in [Tokens -> Rows \union {NoRow}]
    /\ DOMAIN pc = Quotes /\ DOMAIN frame = Quotes /\ DOMAIN payment = Quotes
    /\ DOMAIN upload = Quotes /\ DOMAIN fee = Quotes
    /\ \A q \in Quotes : Knows(q)

LEMMA QuoteInit == Init => QuoteInv
BY DEF Init, QuoteInv, Knows

LEMMA QuoteStutter == QuoteInv /\ UNCHANGED vars => QuoteInv'
BY DEF QuoteInv, Knows, Settled, Charged, vars, catalogue, records

\* An edit leaves the row of every payment in place.
LEMMA EditPreserves ==
    ASSUME QuoteInv, NEW t \in Tokens, CreateToken(t) \/ UpdateToken(t) \/ RemoveToken(t)
    PROVE  QuoteInv'
<1>1. PICK r \in Rows \union {NoRow} : Edit(t, r) /\ (r = NoRow => Referring(t) = {})
  BY NoRowAssumption DEF CreateToken, UpdateToken, RemoveToken, Rows
<1>2. row' = [row EXCEPT ![t] = r] /\ UNCHANGED <<pc, frame, payment, upload, fee>>
  BY <1>1 DEF Edit, records
<1>3. ASSUME NEW q \in Quotes, payment[q] # NoRow PROVE row'[payment[q].token] # NoRow
  <2>1. row[payment[q].token] # NoRow /\ payment[q].token \in Tokens
    BY <1>3 DEF QuoteInv, Knows, Settled
  <2>2. payment[q].token = t => r # NoRow
    BY <1>1, <1>3 DEF Referring
  <2>3. QED BY <1>2, <2>1, <2>2 DEF QuoteInv
<1>4. ASSUME NEW q \in Quotes PROVE Knows(q)'
  BY <1>2, <1>3 DEF QuoteInv, Knows, Settled, Charged
<1>5. QED BY <1>2, <1>4 DEF QuoteInv

\* A step of request q leaves what the others know as it was.
LEMMA OthersKnow ==
    ASSUME QuoteInv, NEW q \in Quotes, UNCHANGED row,
           DOMAIN pc' = Quotes, DOMAIN frame' = Quotes, DOMAIN payment' = Quotes,
           DOMAIN upload' = Quotes, DOMAIN fee' = Quotes,
           \A o \in Quotes : o # q => /\ pc'[o] = pc[o] /\ frame'[o] = frame[o]
                                      /\ payment'[o] = payment[o] /\ upload'[o] = upload[o]
                                      /\ fee'[o] = fee[o],
           Knows(q)'
    PROVE  QuoteInv'
<1>1. ASSUME NEW o \in Quotes, o # q PROVE Knows(o)'
  BY <1>1 DEF QuoteInv, Knows, Settled, Charged
<1>2. QED BY <1>1 DEF QuoteInv

LEMMA RequestPreserves ==
    ASSUME QuoteInv, NEW q \in Quotes,
           \/ ValidateToken(q) \/ EstimateCost(q) \/ GetPrice(q)
           \/ CreatePayment(q) \/ CreateUpload(q) \/ Fail(q) \/ CreateFee(q)
    PROVE  QuoteInv'
<1>1. Knows(q)
  BY DEF QuoteInv
<1>2. CASE ValidateToken(q)
  <2>1. /\ pc[q] = "idle" /\ UNCHANGED <<row, payment, upload, fee>>
        /\ payment[q] = NoRow /\ upload[q] = NoRow /\ fee[q] = NoRow
    BY <1>1, <1>2 DEF ValidateToken, catalogue, records, Knows
  <2>2. CASE \E t \in Listed : /\ frame' = [frame EXCEPT ![q] = [token |-> t, unit |-> row[t].unit]]
                               /\ Goto(q, "estimate")
    <3>1. PICK t \in Listed : /\ frame' = [frame EXCEPT ![q] = [token |-> t, unit |-> row[t].unit]]
                              /\ Goto(q, "estimate")
      BY <2>2
    <3>2. [token |-> t, unit |-> row[t].unit] \in Looked
      BY DEF Listed, Looked, Rows, QuoteInv
    <3>3. Knows(q)'
      BY <2>1, <3>1, <3>2 DEF QuoteInv, Goto, Knows
    <3>4. QED BY <2>1, <3>1, <3>3, OthersKnow DEF QuoteInv, Goto
  <2>3. CASE Goto(q, "refused") /\ UNCHANGED frame
    <3>1. Knows(q)'
      BY <2>1, <2>3 DEF QuoteInv, Goto, Knows
    <3>2. QED BY <2>1, <2>3, <3>1, OthersKnow DEF QuoteInv, Goto
  <2>4. QED BY <1>2, <2>2, <2>3 DEF ValidateToken
<1>3. CASE EstimateCost(q)
  <2>1. /\ pc[q] = "estimate" /\ UNCHANGED <<row, payment, upload, fee>>
        /\ payment[q] = NoRow /\ upload[q] = NoRow /\ fee[q] = NoRow /\ frame[q] \in Looked
    BY <1>1, <1>3 DEF EstimateCost, catalogue, records, Knows
  <2>2. CASE \E t \in Listed : frame' = [frame EXCEPT ![q].unit = row[t].unit] /\ Goto(q, "price")
    <3>1. PICK t \in Listed : frame' = [frame EXCEPT ![q].unit = row[t].unit] /\ Goto(q, "price")
      BY <2>2
    <3>2. row[t].unit \in Units
      BY DEF Listed, Rows, QuoteInv
    <3>3. frame'[q] \in Looked
      BY <2>1, <3>1, <3>2 DEF Looked, QuoteInv
    <3>4. Knows(q)'
      BY <2>1, <3>1, <3>3 DEF QuoteInv, Goto, Knows
    <3>5. QED BY <2>1, <3>1, <3>4, OthersKnow DEF QuoteInv, Goto
  <2>3. CASE Goto(q, "refused") /\ UNCHANGED frame
    <3>1. Knows(q)'
      BY <2>1, <2>3 DEF QuoteInv, Goto, Knows
    <3>2. QED BY <2>1, <2>3, <3>1, OthersKnow DEF QuoteInv, Goto
  <2>4. QED BY <1>3, <2>2, <2>3 DEF EstimateCost
<1>4. CASE GetPrice(q)
  <2>1. /\ pc[q] = "price" /\ UNCHANGED <<row, payment, upload, fee>>
        /\ payment[q] = NoRow /\ upload[q] = NoRow /\ fee[q] = NoRow /\ frame[q] \in Looked
    BY <1>1, <1>4 DEF GetPrice, catalogue, records, Knows
  <2>2. ASSUME NEW p \in Prices,
               frame' = [frame EXCEPT ![q] = [token |-> @.token, unit |-> @.unit, price |-> p]],
               Goto(q, "pay")
        PROVE  QuoteInv'
    <3>1. frame'[q] \in Priced
      BY <2>1, <2>2 DEF Looked, Priced, QuoteInv
    <3>2. Knows(q)'
      BY <2>1, <2>2, <3>1 DEF QuoteInv, Goto, Knows
    <3>3. QED BY <2>1, <2>2, <3>2, OthersKnow DEF QuoteInv, Goto
  <2>3. CASE Goto(q, "refused") /\ UNCHANGED frame
    <3>1. Knows(q)'
      BY <2>1, <2>3 DEF QuoteInv, Goto, Knows
    <3>2. QED BY <2>1, <2>3, <3>1, OthersKnow DEF QuoteInv, Goto
  <2>4. QED BY <1>4, <2>2, <2>3 DEF GetPrice
<1>5. CASE CreatePayment(q)
  <2>1. /\ pc[q] = "pay" /\ UNCHANGED <<row, frame, upload, fee>>
        /\ payment[q] = NoRow /\ upload[q] = NoRow /\ fee[q] = NoRow /\ frame[q] \in Priced
    BY <1>1, <1>5 DEF CreatePayment, catalogue, Knows
  <2>2. CASE row[frame[q].token] # NoRow /\ Goto(q, "insert")
    <3>1. payment' = [payment EXCEPT ![q] = [token |-> frame[q].token, amount |-> Amount(q),
                                             inSubUnits |-> AmountInSubUnits(q)]]
      BY <1>5, <2>2 DEF CreatePayment, Goto, QuoteInv
    <3>2. payment'[q].token = frame[q].token /\ payment'[q].inSubUnits = AmountInSubUnits(q)
      BY <3>1 DEF QuoteInv
    <3>3. Settled(q)'
      BY <2>1, <3>2 DEF Settled, Priced, AmountInSubUnits
    <3>4. Knows(q)'
      BY <2>1, <2>2, <3>2, <3>3 DEF QuoteInv, Goto, Knows
    <3>5. QED BY <2>1, <2>2, <3>1, <3>4, OthersKnow DEF QuoteInv, Goto
  <2>3. CASE Goto(q, "refused") /\ UNCHANGED payment
    <3>1. Knows(q)'
      BY <2>1, <2>3 DEF QuoteInv, Goto, Knows
    <3>2. QED BY <2>1, <2>3, <3>1, OthersKnow DEF QuoteInv, Goto
  <2>4. QED BY <1>5, <2>2, <2>3 DEF CreatePayment
<1>6. CASE CreateUpload(q)
  <2>1. /\ pc[q] = "insert" /\ pc' = [pc EXCEPT ![q] = "quoted"] /\ UNCHANGED <<row, frame, payment, fee>>
        /\ upload[q] = NoRow /\ fee[q] = NoRow /\ Settled(q)
        /\ upload' = [upload EXCEPT ![q] = [estimate |-> Amount(q)]]
    BY <1>1, <1>6 DEF CreateUpload, Goto, catalogue, Knows
  <2>2. Settled(q)'
    BY <2>1 DEF Settled
  <2>3. Knows(q)'
    BY <1>1, <2>1, <2>2 DEF QuoteInv, Knows
  <2>4. QED BY <2>1, <2>3, OthersKnow DEF QuoteInv
<1>7. CASE Fail(q)
  <2>1. /\ pc[q] \in {"estimate", "price", "pay", "insert"} /\ pc' = [pc EXCEPT ![q] = "refused"]
        /\ UNCHANGED <<row, frame, payment, upload, fee>>
        /\ upload[q] = NoRow /\ fee[q] = NoRow
    BY <1>1, <1>7 DEF Fail, Goto, catalogue, records, Knows
  <2>2. Knows(q)'
    BY <1>1, <2>1 DEF QuoteInv, Knows, Settled
  <2>3. QED BY <2>1, <2>2, OthersKnow DEF QuoteInv
<1>8. CASE CreateFee(q)
  <2> DEFINE sub == feeInSubUnits(payment[q].inSubUnits, FeePercentage)
  <2>1. /\ upload[q] # NoRow /\ UNCHANGED <<row, pc, frame, payment, upload>>
        /\ fee' = [fee EXCEPT ![q] =
               [amount |-> convertToScaledUnits(sub, row[payment[q].token].unit),
                inSubUnits |-> Printed(sub, ExponentFrom)]]
    BY <1>8 DEF CreateFee, catalogue
  <2>2. fee'[q].amount[1] = sub /\ fee'[q].inSubUnits = Printed(sub, ExponentFrom)
    BY <2>1 DEF QuoteInv, convertToScaledUnits
  <2>3. Charged(q)'
    BY <2>1, <2>2 DEF Charged
  <2>4. Knows(q)'
    BY <1>1, <2>1, <2>3 DEF Knows, Settled
  <2>5. QED BY <2>1, <2>4, OthersKnow DEF QuoteInv
<1>9. QED BY <1>2, <1>3, <1>4, <1>5, <1>6, <1>7, <1>8

LEMMA QuoteInvHolds == Spec => []QuoteInv
<1>1. QuoteInv /\ [Next]_vars => QuoteInv'
  BY QuoteStutter, EditPreserves, RequestPreserves DEF Next
<1>2. QED BY <1>1, QuoteInit, PTL DEF Spec

-----------------------------------------------------------------------------
(* Payments and fees.                                                      *)

\* The token row of a payment outlives every edit.
THEOREM PaymentTokensStay == Spec => []PaymentTokenExists
<1>1. QuoteInv => PaymentTokenExists
  BY DEF QuoteInv, Knows, PaymentTokenExists
<1>2. QED BY <1>1, QuoteInvHolds, PTL

LEMMA SettledAmounts ==
    ASSUME NEW q \in Quotes, Settled(q)
    PROVE  /\ frame[q].price \in Nat \X (Nat \ {0})
           /\ frame[q].unit \in Nat
           /\ payment[q].inSubUnits = convertToSubUnits(frame[q].price, frame[q].unit)
BY UnitsAssumption, PricesAssumption DEF Settled, Priced

\* What is paid covers the price by less than one sub-unit.
THEOREM PricesAreCovered == Spec => []PriceIsCovered
<1>1. QuoteInv => PriceIsCovered
  <2> SUFFICES ASSUME QuoteInv, NEW q \in Quotes, payment[q] # NoRow
               PROVE  LET p == frame[q].price  sub == payment[q].inSubUnits
                      IN  /\ sub * p[2] >= p[1] * frame[q].unit
                          /\ (sub - 1) * p[2] < p[1] * frame[q].unit
    BY DEF PriceIsCovered
  <2>1. Settled(q)
    BY DEF QuoteInv, Knows
  <2>2. QED BY <2>1, SettledAmounts, SubUnitsBounds
<1>2. QED BY <1>1, QuoteInvHolds, PTL

\* A fee covers its share by less than one sub-unit, is at most its payment, and is
\* printed in digits below ExponentFrom.
THEOREM FeesAreShares == Spec => []FeeIsItsShare
<1>1. QuoteInv => FeeIsItsShare
  <2> SUFFICES ASSUME QuoteInv, NEW q \in Quotes, fee[q] # NoRow
               PROVE  LET sub == fee[q].amount[1]
                      IN  /\ sub * 100 >= payment[q].inSubUnits * FeePercentage
                          /\ (sub - 1) * 100 < payment[q].inSubUnits * FeePercentage
                          /\ sub <= payment[q].inSubUnits
                          /\ sub < ExponentFrom => fee[q].inSubUnits = [digits |-> sub]
    BY DEF FeeIsItsShare
  <2>1. Settled(q) /\ Charged(q)
    BY DEF QuoteInv, Knows
  <2>2. payment[q].inSubUnits \in Nat
    BY <2>1, SettledAmounts, SubUnitsBounds
  <2>3. QED BY <2>1, <2>2, FeeBounds DEF Charged, Printed
<1>2. QED BY <1>1, QuoteInvHolds, PTL

\* A row that was inserted is not written again.
QuotesAreFinal ==
    \A q \in Quotes : /\ payment[q] # NoRow => payment'[q] = payment[q]
                      /\ upload[q] # NoRow => upload'[q] = upload[q]
                      /\ fee[q] # NoRow => fee'[q] = fee[q]

\* Neither an edit of the catalogue nor a request that is still under way changes
\* what was asked for an upload, or the fee that was charged for it.
THEOREM QuotesStay == Spec => [][QuotesAreFinal]_vars
<1>1. ASSUME QuoteInv, [Next]_vars PROVE QuotesAreFinal
  <2> SUFFICES ASSUME NEW q \in Quotes
               PROVE  /\ payment[q] # NoRow => payment'[q] = payment[q]
                      /\ upload[q] # NoRow => upload'[q] = upload[q]
                      /\ fee[q] # NoRow => fee'[q] = fee[q]
    BY DEF QuotesAreFinal
  <2>1. Knows(q)
    BY <1>1 DEF QuoteInv
  <2>2. ASSUME NEW t \in Tokens, CreateToken(t) \/ UpdateToken(t) \/ RemoveToken(t)
        PROVE  UNCHANGED records
    BY <2>2 DEF CreateToken, UpdateToken, RemoveToken, Edit
  <2>3. ASSUME NEW o \in Quotes,
               ValidateToken(o) \/ EstimateCost(o) \/ GetPrice(o) \/ Fail(o)
        PROVE  UNCHANGED records
    BY <2>3 DEF ValidateToken, EstimateCost, GetPrice, Fail
  <2>4. ASSUME NEW o \in Quotes, CreatePayment(o)
        PROVE  (payment[q] # NoRow => payment'[q] = payment[q]) /\ UNCHANGED <<upload, fee>>
    BY <1>1, <2>1, <2>4 DEF CreatePayment, QuoteInv, Knows
  <2>5. ASSUME NEW o \in Quotes, CreateUpload(o)
        PROVE  (upload[q] # NoRow => upload'[q] = upload[q]) /\ UNCHANGED <<payment, fee>>
    BY <1>1, <2>1, <2>5 DEF CreateUpload, QuoteInv, Knows
  <2>6. ASSUME NEW o \in Quotes, CreateFee(o)
        PROVE  (fee[q] # NoRow => fee'[q] = fee[q]) /\ UNCHANGED <<payment, upload>>
    BY <1>1, <2>6 DEF CreateFee, QuoteInv
  <2>7. CASE UNCHANGED vars
    BY <2>7 DEF vars, records
  <2>8. QED BY <1>1, <2>2, <2>3, <2>4, <2>5, <2>6, <2>7 DEF Next, records
<1>2. QuoteInv /\ [Next]_vars => [QuotesAreFinal]_vars
  BY <1>1
<1>3. QED BY <1>2, QuoteInvHolds, PTL DEF Spec

=============================================================================
