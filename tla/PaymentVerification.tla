------------------------ MODULE PaymentVerification ------------------------
(***************************************************************************)
(* UploadService.verifyPayment (src/src/modules/upload/upload.service.ts)  *)
(* and Web3Provider.getProvider: one verification of one transaction, with *)
(* the loop of the chunk handler that asks again after a false answer.     *)
(*                                                                         *)
(* A transaction is abstracted to the movements of assets it makes, as the *)
(* chain shows them: ERC-20 logs or the value of the transaction on EVM,   *)
(* parsed top-level instructions on Solana, the quantity on Arweave,       *)
(* transfer events on Cosmos. The code looks at "plain" movements;         *)
(* "indirect" ones happen where it does not look (inner and checked        *)
(* transfers on Solana, internal transfers on EVM, earlier attributes of a *)
(* merged Cosmos event); "noise" is an entry that moves nothing.           *)
(***************************************************************************)
EXTENDS Sequences, Integers

CONSTANTS
    Addresses,  \* addresses that appear in transactions
    Sender,     \* the wallet of the caller
    System,     \* the address of the service on the chain
    Amounts,    \* amounts in sub-units
    Price,      \* the amount of the payment row
    Codes,      \* answers of getCode: "0x" for an account without code
    MaxMoves,   \* bound on the movements of a transaction
    MaxTries,   \* verifications the caller makes: 30 for a chunk, 1 otherwise
    MaxErrors   \* bound on errors of the node

ASSUME PartiesAssumption == {Sender, System} \subseteq Addresses
ASSUME PriceAssumption == Price \in Amounts
\* ethers answers with hexadecimal digits after 0x, also when there are none.
ASSUME CodesAssumption == "" \notin Codes
ASSUME BoundsAssumption == /\ {MaxMoves, MaxErrors} \subseteq Nat
                           /\ MaxTries \in Nat \ {0}

VARIABLES
    asked,    \* chain and asset of the token row; is its chain id in the maps of
              \* Web3Provider, is the address of the service configured
    tx,       \* the transaction the caller names
    known,    \* does the node know the transaction
    pc,       \* the await the verification is at
    i,        \* the entry the scan is at; 0 before the transaction was read
    tries,    \* tries left
    errors,   \* errors of the node so far
    verdict

vars == <<asked, tx, known, pc, i, tries, errors, verdict>>

Moves == [form : {"plain", "indirect", "noise"}, asset : {"native", "token"},
          from : Addresses, to : Addresses, amount : Amounts]

\* A catalogue row may name a token of its chain or the chain's own asset.
Assets(c) == CASE c = "arweave" -> {"native"}
               [] c = "cosmos"  -> {"token"}
               [] OTHER         -> {"native", "token"}

Asked == {a \in [chain : {"evm", "solana", "arweave", "cosmos"}, asset : {"native", "token"},
                 mapped : BOOLEAN, configured : BOOLEAN] : a.asset \in Assets(a.chain)}

\* An Arweave transaction makes one movement and has no status; a transaction that
\* creates a contract, on EVM, names no receiver.
Transactions(c) ==
    {t \in [ok : BOOLEAN, receiver : BOOLEAN,
            moves : UNION {[1 .. n -> Moves] : n \in 0 .. MaxMoves}] :
       /\ c # "evm" => t.receiver
       /\ c = "arweave" => /\ t.ok
                           /\ Len(t.moves) = 1
                           /\ t.moves[1].form = "plain" /\ t.moves[1].asset = "native"}

TypeOK ==
    /\ asked \in Asked
    /\ tx \in Transactions(asked.chain)
    /\ known \in BOOLEAN
    /\ pc \in {"connect", "fetch", "code", "value", "scan", "done"}
    /\ i \in 0 .. MaxMoves + 1
    /\ tries \in 0 .. MaxTries
    /\ errors \in 0 .. MaxErrors
    /\ verdict \in {"none", "confirmed", "denied", "thrown", "unavailable"}
    /\ verdict = "none" <=> pc # "done"
    /\ pc # "done" => tries > 0
    /\ pc \in {"code", "value", "scan"} => i \in 1 .. Len(tx.moves) + 1

Init ==
    /\ asked \in Asked
    /\ tx \in Transactions(asked.chain)
    /\ known \in BOOLEAN
    /\ pc = "connect"
    /\ i = 0
    /\ tries = MaxTries
    /\ errors = 0
    /\ verdict = "none"

Await(s) == pc' = s /\ UNCHANGED <<tries, verdict>>

End(v) == pc' = "done" /\ verdict' = v /\ UNCHANGED tries

\* An exception ends the call.
Throw == End("thrown")

\* Mutant: the last false answer is thrown on, with its try used up.
Deny_LastThrows == /\ tries' = tries - 1
                   /\ pc' = IF tries > 1 THEN "connect" ELSE "done"
                   /\ verdict' = IF tries > 1 THEN "none" ELSE "thrown"

\* A false answer is asked again after two seconds, until the tries are used up.
Deny == /\ tries' = tries - 1
        /\ pc' = IF tries > 1 THEN "connect" ELSE "done"
        /\ verdict' = IF tries > 1 THEN "none" ELSE "denied"

-----------------------------------------------------------------------------

\* getProvider looks the chain id up on EVM and Cosmos only.
HasProvider == asked.chain \in {"evm", "cosmos"} => asked.mapped

Connect ==
    /\ pc = "connect"
    /\ IF HasProvider /\ asked.configured THEN Await("fetch") ELSE Throw
    /\ UNCHANGED <<asked, tx, known, i, errors>>

\* Only EVM asks the node for more before it looks at the entries.
ReadEntries == i' = 1 /\ Await(IF asked.chain = "evm" THEN "code" ELSE "scan")

\* What a handler makes of the node's answer on a chain.
Answered(found, failed, notFound) ==
    /\ \/ known /\ tx.ok /\ found
       \/ known /\ ~tx.ok /\ failed /\ UNCHANGED i
       \/ ~known /\ notFound /\ UNCHANGED i
    /\ UNCHANGED <<asked, tx, known, errors>>

At(s, c) == pc = s /\ asked.chain = c

\* getTransactionReceipt; a receipt without a receiver, or one that reverted, is
\* refused for good.
FetchReceipt ==
    /\ At("fetch", "evm")
    /\ Answered(IF tx.receiver THEN ReadEntries ELSE Throw /\ UNCHANGED i, Throw, Throw)

\* Mutant: meta.err is not looked at.
FetchParsed_AnyStatus == /\ At("fetch", "solana")
                         /\ \/ known /\ ReadEntries
                            \/ ~known /\ Throw /\ UNCHANGED i
                         /\ UNCHANGED <<asked, tx, known, errors>>

\* getParsedTransaction; a transaction that failed is asked for again.
FetchParsed == At("fetch", "solana") /\ Answered(ReadEntries, Deny, Throw)

\* The GraphQL query; a transaction the gateway has not seen is asked for again.
FetchQuantity == At("fetch", "arweave") /\ Answered(ReadEntries, Deny, Deny)

\* The second getProvider and getTx.
FetchEvents == At("fetch", "cosmos") /\ Answered(ReadEntries, Throw, Throw)

Fetch == FetchReceipt \/ FetchParsed \/ FetchQuantity \/ FetchEvents

\* Mutant: anybody may have sent the transfer.
SameParties_AnySender(m) == m.to = System

SameParties(m) == m.from = Sender /\ m.to = System

\* The branch of the code is taken for any string that is not empty.
IsContract(code) == code # ""

\* The value of the transaction itself, when the receiver is not a contract.
NativeTransfer ==
    \E n \in 1 .. Len(tx.moves) :
        LET m == tx.moves[n]
        IN  m.form = "plain" /\ m.asset = "native" /\ SameParties(m) /\ m.amount = Price

\* getTransaction, which may find none although there was a receipt.
GetTransaction ==
    \E found \in BOOLEAN : IF found /\ NativeTransfer THEN End("confirmed") ELSE Throw

\* getCode, and the await after it when the receiver is not a contract.
GetCode ==
    /\ pc \in {"code", "value"}
    /\ IF pc = "code"
         THEN \E code \in Codes : Await(IF IsContract(code) THEN "scan" ELSE "value")
         ELSE GetTransaction
    /\ UNCHANGED <<asked, tx, known, i, errors>>

\* A Transfer event in a log of the token's contract.
MatchesLog(m) == /\ m.asset = "token" /\ asked.asset = "token"
                 /\ SameParties(m) /\ m.amount = Price

\* A parsed instruction of type transfer, compared by its lamports; a transfer
\* of an SPL token has none.
MatchesInstruction(m) == m.asset = "native" /\ SameParties(m) /\ m.amount = Price

MatchesQuantity(m) == m.amount = Price /\ SameParties(m)

\* A transfer event whose coin is the amount followed by the denom.
MatchesEvent(m) == /\ SameParties(m)
                   /\ m.asset = asked.asset /\ m.amount = Price

Matches(m) == /\ m.form = "plain"
              /\ CASE asked.chain = "evm"     -> MatchesLog(m)
                   [] asked.chain = "solana"  -> MatchesInstruction(m)
                   [] asked.chain = "arweave" -> MatchesQuantity(m)
                   [] asked.chain = "cosmos"  -> MatchesEvent(m)

\* Mutant: the loop returns its comparison instead of going on.
Scan_FirstOnly ==
    /\ pc = "scan"
    /\ IF i <= Len(tx.moves) /\ Matches(tx.moves[i]) THEN End("confirmed") ELSE Deny
    /\ UNCHANGED <<asked, tx, known, i, errors>>

\* One turn of the loop, or its end without a match: only EVM throws there.
Scan ==
    /\ pc = "scan"
    /\ IF i > Len(tx.moves)
         THEN (IF asked.chain = "evm" THEN Throw ELSE Deny) /\ UNCHANGED i
         ELSE IF Matches(tx.moves[i]) THEN End("confirmed") /\ UNCHANGED i
         ELSE i' = i + 1 /\ UNCHANGED <<pc, tries, verdict>>
    /\ UNCHANGED <<asked, tx, known, errors>>

-----------------------------------------------------------------------------

\* The node hears of the transaction.
NodeLearns ==
    /\ pc # "done"
    /\ ~known
    /\ known' = TRUE
    /\ UNCHANGED <<asked, tx, pc, i, tries, errors, verdict>>

\* The node does not answer, or answers with an error; only Cosmos asks it for
\* something when it connects.
NodeFails ==
    /\ pc \in {"fetch", "code", "value"} \/ (pc = "connect" /\ asked.chain = "cosmos")
    /\ errors < MaxErrors
    /\ errors' = errors + 1
    /\ End("unavailable")
    /\ UNCHANGED <<asked, tx, known, i>>

Step == Connect \/ Fetch \/ GetCode \/ Scan

Next == Step \/ NodeLearns \/ NodeFails

Spec == Init /\ [][Next]_vars

-----------------------------------------------------------------------------
(* Properties.                                                             *)

\* The price, in the asset a, from the caller to the service.
MovesPrice(m, a) == /\ m.form # "noise"
                    /\ m.asset = a
                    /\ m.from = Sender /\ m.to = System
                    /\ m.amount = Price

Pays(a) == tx.ok /\ \E n \in 1 .. Len(tx.moves) : MovesPrice(tx.moves[n], a)

\* The transfer the payment row asks for.
IsPayment(m) == MovesPrice(m, asked.asset)
Paid == Pays(asked.asset)

\* The rows whose asset is looked at. The exception is a token on Solana: the amount
\* is read from the lamports, and the token's address is not used.
AssetIsCompared == ~(asked.chain = "solana" /\ asked.asset = "token")

\* The rows whose asset the code can find in a transaction.
Readable == <<asked.chain, asked.asset>> \in
              {<<"evm", "token">>, <<"solana", "native">>, <<"arweave", "native">>,
               <<"cosmos", "token">>}

PaysPlainly == \E n \in 1 .. Len(tx.moves) : /\ tx.moves[n].form = "plain"
                                             /\ IsPayment(tx.moves[n])

\* A confirmed transaction succeeded and moved the price, in the asset of the row,
\* from the caller to the service in one transfer, whatever else it did, for every
\* row but that of a token on Solana (upload.service.ts:260-453).
ConfirmedIsPayment == (verdict = "confirmed" /\ AssetIsCompared) => Paid

\* A payment that the node shows is found wherever it stands among the entries
\* (upload.service.ts:281-314, 369-385, 433-452).
ShownPaymentIsFound ==
    [][(pc = "scan" /\ pc' # "scan" /\ Readable /\ PaysPlainly)
           => verdict' = "confirmed"]_vars

\* What a scan that is still running has found out, preserved by every step; the
\* await of getTransaction is never reached, since no answer of getCode is empty
\* (upload.service.ts:260-274, 281-321, 358-385, 427-452).
NoMatchSoFar ==
    /\ TypeOK
    /\ pc # "value"
    /\ pc \in {"code", "scan"} => tx.ok /\ \A n \in 1 .. i - 1 : ~Matches(tx.moves[n])

\* What the service takes for the payment: for a token on Solana, the price in SOL.
ComparedAsset == IF AssetIsCompared THEN asked.asset ELSE "native"

\* Handlers may rely on PaymentOracle, for what the service takes for a payment
\* (upload.controller.ts:67-78, 156-176).
Oracle == INSTANCE PaymentOracle WITH
              paid <- Pays(ComparedAsset),
              left <- tries,
              answer <- IF verdict = "unavailable" THEN "thrown" ELSE verdict

AnswersAsOracle == Oracle!Spec

\* "normal transfer" (upload.service.ts:320): ETH sent to the system address is
\* compared by sender, receiver and value, and confirmed.
EtherTransferConfirms ==
    (asked.chain = "evm" /\ asked.asset = "native" /\ i > 0 /\ PaysPlainly)
        => verdict # "thrown"

=============================================================================
