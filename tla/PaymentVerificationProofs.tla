--------------------- MODULE PaymentVerificationProofs ---------------------
(***************************************************************************)
(* Theorems about PaymentVerification: for transactions with any number of *)
(* entries between any addresses, any amounts, and any number of tries.    *)
(***************************************************************************)
EXTENDS PaymentVerification, SequenceTheorems, TLAPS

LEMMA MovesOfTransactions ==
    ASSUME NEW c, NEW t \in Transactions(c)
    PROVE  /\ t.ok \in BOOLEAN
           /\ t.moves \in Seq(Moves)
           /\ Len(t.moves) \in 0 .. MaxMoves
           /\ \A n \in 1 .. Len(t.moves) : t.moves[n] \in Moves
<1>1. t.ok \in BOOLEAN
  BY DEF Transactions
<1>2. PICK k \in 0 .. MaxMoves : t.moves \in [1 .. k -> Moves]
  BY DEF Transactions
<1>3. k \in Nat
  BY <1>2, BoundsAssumption
<1>4. t.moves \in Seq(Moves)
  BY <1>2, <1>3, SeqDef
<1>5. Len(t.moves) = k
  BY <1>2, <1>3, <1>4, LenProperties
<1>6. QED BY <1>1, <1>2, <1>4, <1>5

LEMMA MovesOfTx ==
    ASSUME TypeOK
    PROVE  /\ tx.ok \in BOOLEAN
           /\ Len(tx.moves) \in 0 .. MaxMoves
           /\ \A n \in 1 .. Len(tx.moves) : tx.moves[n] \in Moves
BY MovesOfTransactions DEF TypeOK

-----------------------------------------------------------------------------
(* What a running scan knows.                                              *)

LEMMA NoMatchInit == Init => NoMatchSoFar
BY BoundsAssumption DEF Init, NoMatchSoFar, TypeOK

LEMMA NoMatchStutter == NoMatchSoFar /\ UNCHANGED vars => NoMatchSoFar'
BY DEF NoMatchSoFar, TypeOK, Matches, MatchesLog, MatchesInstruction, MatchesQuantity,
       MatchesEvent, SameParties, vars

LEMMA SameMatches ==
    ASSUME UNCHANGED <<asked, tx>>
    PROVE  \A n \in Int : Matches(tx.moves[n])' <=> Matches(tx.moves[n])
BY DEF Matches, MatchesLog, MatchesInstruction, MatchesQuantity, MatchesEvent, SameParties

\* A step that ends the verification, or starts it anew, keeps the types.
LEMMA LeavesScan ==
    ASSUME TypeOK, pc # "done", UNCHANGED <<asked, tx>>, known' \in BOOLEAN,
           i' \in 0 .. MaxMoves + 1, errors' \in 0 .. MaxErrors,
           Throw \/ Deny \/ End("confirmed") \/ End("unavailable") \/ Await("fetch")
    PROVE  NoMatchSoFar' /\ pc' \notin {"code", "value", "scan"}
<1>1. tries \in 1 .. MaxTries /\ tries \in Int
  BY BoundsAssumption DEF TypeOK
<1>2. CASE Deny
  BY <1>1, <1>2, BoundsAssumption DEF Deny, TypeOK, NoMatchSoFar
<1>3. CASE Throw \/ End("confirmed") \/ End("unavailable")
  BY <1>3 DEF Throw, End, TypeOK, NoMatchSoFar
<1>4. CASE Await("fetch")
  BY <1>4 DEF Await, TypeOK, NoMatchSoFar
<1>5. QED BY <1>2, <1>3, <1>4

LEMMA ReadsEntries ==
    ASSUME TypeOK, pc # "done", tx.ok, UNCHANGED <<asked, tx, known, errors>>, ReadEntries
    PROVE  NoMatchSoFar'
<1>1. Len(tx.moves) \in Nat /\ 1 \in 0 .. MaxMoves + 1
  BY MovesOfTx, BoundsAssumption
<1>2. i' = 1 /\ UNCHANGED <<tries, verdict>> /\ pc' \in {"code", "scan"}
  BY DEF ReadEntries, Await
<1>3. TypeOK'
  BY <1>1, <1>2 DEF TypeOK
<1>4. QED BY <1>2, <1>3 DEF NoMatchSoFar

LEMMA NoMatchNext == NoMatchSoFar /\ [Next]_vars => NoMatchSoFar'
<1> SUFFICES ASSUME NoMatchSoFar, Next PROVE NoMatchSoFar'
  BY NoMatchStutter
<1> TypeOK
  BY DEF NoMatchSoFar
<1>1. CASE Connect
  <2>1. Await("fetch") \/ Throw
    BY <1>1 DEF Connect
  <2>2. QED BY <1>1, <2>1, LeavesScan DEF Connect, TypeOK
<1>2. CASE Fetch
  <2>1. /\ UNCHANGED <<asked, tx, known, errors>> /\ pc = "fetch"
        /\ (tx.ok /\ ReadEntries) \/ ((Throw \/ Deny) /\ UNCHANGED i)
    BY <1>2 DEF Fetch, FetchReceipt, FetchParsed, FetchQuantity, FetchEvents, Answered, At
  <2>2. QED BY <2>1, LeavesScan, ReadsEntries DEF TypeOK
<1>3. CASE GetCode
  <2>1. UNCHANGED <<asked, tx, known, i, errors>> /\ pc = "code" /\ Await("scan")
    BY <1>3, CodesAssumption DEF GetCode, IsContract, NoMatchSoFar
  <2>2. TypeOK'
    BY <2>1 DEF Await, TypeOK
  <2>3. UNCHANGED <<asked, tx, i>> /\ pc' = "scan"
    BY <2>1 DEF Await
  <2>4. \A n \in 1 .. i - 1 : ~Matches(tx.moves[n])'
    BY <2>1, <2>3, SameMatches DEF NoMatchSoFar, TypeOK
  <2>5. QED BY <2>1, <2>2, <2>3, <2>4 DEF NoMatchSoFar
<1>4. CASE Scan
  <2>1. pc = "scan" /\ UNCHANGED <<asked, tx, known, errors>>
    BY <1>4 DEF Scan
  <2>2. CASE i > Len(tx.moves) \/ Matches(tx.moves[i])
    <3>1. UNCHANGED i /\ (Throw \/ Deny \/ End("confirmed"))
      BY <1>4, <2>2 DEF Scan
    <3>2. QED BY <2>1, <3>1, LeavesScan DEF TypeOK
  <2>3. CASE ~(i > Len(tx.moves)) /\ ~Matches(tx.moves[i])
    <3>1. i' = i + 1 /\ UNCHANGED <<pc, tries, verdict>>
      BY <1>4, <2>3 DEF Scan
    <3>2. i \in 1 .. Len(tx.moves) /\ Len(tx.moves) \in 0 .. MaxMoves /\ MaxMoves \in Nat
      BY <2>1, <2>3, MovesOfTx, BoundsAssumption DEF TypeOK
    <3>3. TypeOK'
      BY <2>1, <3>1, <3>2 DEF TypeOK
    <3>4. \A n \in 1 .. i' - 1 : ~Matches(tx.moves[n])
      BY <2>1, <2>3, <3>1, <3>2 DEF NoMatchSoFar
    <3>5. \A n \in 1 .. i' - 1 : ~Matches(tx.moves[n])'
      BY <2>1, <3>1, <3>2, <3>4, SameMatches
    <3>6. QED BY <2>1, <3>1, <3>3, <3>5 DEF NoMatchSoFar
  <2>4. QED BY <2>2, <2>3
<1>5. CASE NodeLearns
  <2>1. known' = TRUE /\ UNCHANGED <<asked, tx, pc, i, tries, errors, verdict>>
    BY <1>5 DEF NodeLearns
  <2>2. TypeOK'
    BY <2>1 DEF TypeOK
  <2>3. pc \in {"code", "scan"} => \A n \in 1 .. i - 1 : ~Matches(tx.moves[n])'
    BY <2>1, SameMatches DEF NoMatchSoFar, TypeOK
  <2>4. QED BY <2>1, <2>2, <2>3 DEF NoMatchSoFar
<1>6. CASE NodeFails
  <2>1. /\ UNCHANGED <<asked, tx, known, i>> /\ End("unavailable") /\ pc # "done"
        /\ errors' \in 0 .. MaxErrors
    BY <1>6, BoundsAssumption DEF NodeFails, TypeOK
  <2>2. QED BY <2>1, LeavesScan DEF TypeOK
<1>7. QED BY <1>1, <1>2, <1>3, <1>4, <1>5, <1>6 DEF Next, Step

\* A scan that is still running has met no match, and its transaction succeeded.
THEOREM ScanKnows == Spec => []NoMatchSoFar
BY NoMatchInit, NoMatchNext, PTL DEF Spec

-----------------------------------------------------------------------------
(* What an answer means.                                                   *)

\* A match moves the price in the asset that is compared.
LEMMA MatchesMovePrice ==
    ASSUME TypeOK, NEW n \in 1 .. Len(tx.moves), Matches(tx.moves[n])
    PROVE  MovesPrice(tx.moves[n], ComparedAsset)
<1>1. tx.moves[n].form = "plain" /\ SameParties(tx.moves[n]) /\ tx.moves[n].amount = Price
  BY DEF Matches, MatchesLog, MatchesInstruction, MatchesQuantity, MatchesEvent, TypeOK, Asked
<1>2. tx.moves[n].asset = ComparedAsset
  <2>1. CASE asked.chain = "arweave"
    <3>1. tx.moves[1].asset = "native" /\ Len(tx.moves) = 1
      BY <2>1 DEF TypeOK, Transactions
    <3>2. asked.asset = "native"
      BY <2>1 DEF TypeOK, Asked, Assets
    <3>3. QED BY <2>1, <3>1, <3>2 DEF ComparedAsset
  <2>2. CASE asked.chain = "evm"
    BY <2>2 DEF Matches, MatchesLog, ComparedAsset, AssetIsCompared
  <2>3. CASE asked.chain = "solana"
    BY <2>3 DEF Matches, MatchesInstruction, ComparedAsset, AssetIsCompared, TypeOK, Asked
  <2>4. CASE asked.chain = "cosmos"
    BY <2>4 DEF Matches, MatchesEvent, ComparedAsset, AssetIsCompared
  <2>5. QED BY <2>1, <2>2, <2>3, <2>4 DEF TypeOK, Asked
<1>3. QED BY <1>1, <1>2 DEF MovesPrice, SameParties

\* The other way round, for the rows whose asset the code can find.
LEMMA PaymentsMatch ==
    ASSUME TypeOK, Readable, NEW n \in 1 .. Len(tx.moves), tx.moves[n].form = "plain",
           IsPayment(tx.moves[n])
    PROVE  Matches(tx.moves[n])
BY DEF Readable, IsPayment, MovesPrice, Matches, MatchesLog, MatchesInstruction,
       MatchesQuantity, MatchesEvent, SameParties, TypeOK, Asked

\* The verdict is given by a match only.
LEMMA ConfirmsCompared ==
    ASSUME NoMatchSoFar, Next, verdict' = "confirmed", verdict # "confirmed"
    PROVE  Pays(ComparedAsset)
<1>1. Scan /\ i <= Len(tx.moves) /\ Matches(tx.moves[i])
  <2>1. ~Connect
    BY DEF Connect, Await, Throw, End
  <2>2. ~Fetch
    BY DEF Fetch, FetchReceipt, FetchParsed, FetchQuantity, FetchEvents, Answered, ReadEntries,
           Await, Throw, Deny, End
  <2>3. ~GetCode
    BY DEF GetCode, Await, NoMatchSoFar
  <2>4. ~NodeLearns /\ ~NodeFails
    BY DEF NodeLearns, NodeFails, End
  <2>5. Scan
    BY <2>1, <2>2, <2>3, <2>4 DEF Next, Step
  <2>6. QED BY <2>5, MovesOfTx, BoundsAssumption DEF Scan, Throw, Deny, End, NoMatchSoFar, TypeOK
<1>2. i \in 1 .. Len(tx.moves) /\ tx.ok
  BY <1>1, MovesOfTx DEF Scan, NoMatchSoFar, TypeOK
<1>3. QED BY <1>1, <1>2, MatchesMovePrice DEF Pays, NoMatchSoFar

LEMMA AskedStays == Next => UNCHANGED <<asked, tx>>
BY DEF Next, Step, Connect, Fetch, FetchReceipt, FetchParsed, FetchQuantity, FetchEvents, Answered,
       GetCode, Scan, NodeLearns, NodeFails

LEMMA PaymentStays ==
    UNCHANGED <<asked, tx>> => UNCHANGED <<Paid, Pays(ComparedAsset), AssetIsCompared>>
BY DEF Paid, Pays, MovesPrice, ComparedAsset, AssetIsCompared

\* What is confirmed succeeded and moved the price, in the asset of the row, from the
\* caller to the service, unless the row names a token on Solana.
THEOREM ConfirmedArePayments == Spec => []ConfirmedIsPayment
<1>1. Init => ConfirmedIsPayment
  BY DEF Init, ConfirmedIsPayment
<1>2. NoMatchSoFar /\ ConfirmedIsPayment /\ [Next]_vars => ConfirmedIsPayment'
  <2> SUFFICES ASSUME NoMatchSoFar, ConfirmedIsPayment, [Next]_vars, verdict' = "confirmed",
                      AssetIsCompared'
               PROVE  Paid'
    BY DEF ConfirmedIsPayment
  <2>1. UNCHANGED <<Paid, Pays(ComparedAsset), AssetIsCompared>>
    BY AskedStays, PaymentStays DEF vars
  <2>2. CASE verdict = "confirmed"
    BY <2>1, <2>2 DEF ConfirmedIsPayment
  <2>3. CASE verdict # "confirmed"
    <3>1. Pays(ComparedAsset)
      BY <2>3, ConfirmsCompared DEF vars
    <3>2. QED BY <2>1, <3>1 DEF ComparedAsset, Paid
  <2>4. QED BY <2>2, <2>3
<1>3. QED BY <1>1, <1>2, ScanKnows, PTL DEF Spec

\* A payment the node shows is found, wherever it stands among the entries.
THEOREM ShownPaymentsAreFound == Spec => ShownPaymentIsFound
<1>1. NoMatchSoFar /\ [Next]_vars
        => [(pc = "scan" /\ pc' # "scan" /\ Readable /\ PaysPlainly) => verdict' = "confirmed"]_vars
  <2> SUFFICES ASSUME NoMatchSoFar, Next, pc = "scan", pc' # "scan", Readable, PaysPlainly
               PROVE  verdict' = "confirmed"
    OBVIOUS
  <2> TypeOK
    BY DEF NoMatchSoFar
  <2>1. PICK n \in 1 .. Len(tx.moves) : Matches(tx.moves[n])
    BY PaymentsMatch DEF PaysPlainly
  <2>2. n \notin 1 .. i - 1
    BY <2>1 DEF NoMatchSoFar
  <2>3. i <= Len(tx.moves)
    BY <2>1, <2>2, MovesOfTx DEF TypeOK
  <2>4. Scan
    BY DEF Next, Step, Connect, Fetch, FetchReceipt, FetchParsed, FetchQuantity, FetchEvents, At,
           GetCode, NodeLearns, NodeFails
  <2>5. QED BY <2>3, <2>4, MovesOfTx DEF Scan, End, TypeOK
<1>2. QED BY <1>1, ScanKnows, PTL DEF Spec, ShownPaymentIsFound

-----------------------------------------------------------------------------
(* The oracle the upload handlers rely on.                                 *)

Answer == IF verdict = "unavailable" THEN "thrown" ELSE verdict

LEMMA OracleStep ==
    ASSUME NoMatchSoFar, Next
    PROVE  [Oracle!Next]_(Oracle!vars)
<1> TypeOK
  BY DEF NoMatchSoFar
<1>1. UNCHANGED Pays(ComparedAsset)
  BY AskedStays, PaymentStays
<1>2. pc # "done" => Answer = "none"
  BY DEF TypeOK, Answer
<1>3. ASSUME pc # "done", Throw \/ End("unavailable") PROVE Oracle!Throw
  BY <1>1, <1>2, <1>3 DEF Throw, End, Oracle!Throw, Answer
<1>4. ASSUME pc # "done", Deny PROVE Oracle!Deny
  BY <1>1, <1>2, <1>4 DEF Deny, Oracle!Deny, Answer
<1>5. ASSUME UNCHANGED <<tries, verdict>> PROVE UNCHANGED Oracle!vars
  BY <1>1, <1>5 DEF Oracle!vars
<1>6. ASSUME pc # "done", End("confirmed") PROVE Oracle!Confirm
  <2>1. verdict' = "confirmed" /\ verdict = "none" /\ UNCHANGED tries
    BY <1>6 DEF End, TypeOK
  <2>2. Pays(ComparedAsset)
    BY <2>1, ConfirmsCompared
  <2>3. QED BY <1>1, <2>1, <2>2 DEF Oracle!Confirm
<1>7. \/ pc # "done" /\ (Throw \/ End("unavailable") \/ Deny \/ End("confirmed"))
      \/ UNCHANGED <<tries, verdict>>
  BY DEF Next, Step, Connect, Fetch, FetchReceipt, FetchParsed, FetchQuantity, FetchEvents, At,
         Answered, ReadEntries, Await, GetCode, GetTransaction, Scan, NodeLearns, NodeFails
<1>8. QED BY <1>3, <1>4, <1>5, <1>6, <1>7 DEF Oracle!Next

\* Verification answers as the oracle does.
THEOREM VerificationIsOracle == Spec => AnswersAsOracle
<1>1. Init => Oracle!Init
  <2>1. Init => tries \in Nat \ {0}
    BY BoundsAssumption DEF Init
  <2>2. Init => Pays(ComparedAsset) \in BOOLEAN
    BY DEF Pays, Init, Transactions
  <2>3. QED BY <2>1, <2>2 DEF Init, Oracle!Init
<1>2. NoMatchSoFar /\ [Next]_vars => [Oracle!Next]_(Oracle!vars)
  <2>1. UNCHANGED vars => UNCHANGED Oracle!vars
    BY PaymentStays DEF vars, Oracle!vars
  <2>2. QED BY <2>1, OracleStep
<1>3. QED BY <1>1, <1>2, ScanKnows, PTL DEF Spec, AnswersAsOracle, Oracle!Spec

=============================================================================
