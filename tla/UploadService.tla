--------------------------- MODULE UploadService ---------------------------
(***************************************************************************)
(* The paying and uploading half of the service: the handlers of           *)
(*   POST /upload/create   an upload row and the payment it waits for      *)
(*   POST /upload          the whole bundle in one multipart body          *)
(*   POST /upload/chunk    the bundle as the only chunk of a stream        *)
(* (src/src/modules/upload/upload.controller.ts, upload.service.ts), as    *)
(* one action per await: everything the code does between two awaits is    *)
(* one step, and any other call may run between two steps of a call.       *)
(*                                                                         *)
(* The database rows are keyed by the upload: paymentTransactionId is      *)
(* unique in Upload, so payment[u] is the payment row of upload u. Rows of *)
(* different uploads and their immutable columns (token, amount, owner)    *)
(* are abstracted into Carries, in which <<t, u>> says that the on-chain   *)
(* transaction t carries what verification looks for on behalf of the      *)
(* payment row of u (PaymentVerification), to the system wallet and from   *)
(* the caller. Two uploads of one price are carried by one transaction.    *)
(*                                                                         *)
(* A client names the transaction by a text. The chain knows one           *)
(* transaction by several texts where letter case makes no difference (EVM *)
(* and Cosmos hashes), and no code brings them into one form: the payment  *)
(* row holds the text as the client wrote it.                              *)
(***************************************************************************)
EXTENDS Integers, FiniteSets

CONSTANTS
    Uploads,         \* upload rows that may be created
    Transactions,    \* on-chain transactions
    Carries,         \* pairs <<transaction, upload>>: it pays for the upload
    Hashes,          \* texts a client may present as a transaction hash
    TransactionOf,   \* the transaction each text names
    Requests,        \* HTTP calls, each made at most once
    FaultyRequests,  \* the calls whose handler may stop at any await
    Kinds,           \* the endpoints in use: a subset of {"single", "chunk"}
    MaxTries,        \* verifications a chunk call makes before it gives up
    MaxChunkIndex,   \* bound on the chunk numbers a client sends
    MaxInFlight,     \* calls that run for one upload at a time
    NoHash,          \* a payment row without a transaction hash
    NoCall           \* a call not made yet

ASSUME RequestsAssumption == IsFiniteSet(Requests)
ASSUME FaultyAssumption == FaultyRequests \subseteq Requests
ASSUME KindsAssumption == Kinds \subseteq {"single", "chunk"}
ASSUME TransactionAssumption == /\ TransactionOf \in [Hashes -> Transactions]
                                /\ Carries \subseteq Transactions \X Uploads
ASSUME NoHashAssumption == NoHash \notin Hashes
ASSUME BoundsAssumption == /\ MaxTries \in Nat \ {0}
                           /\ MaxChunkIndex \in Nat
                           /\ MaxInFlight \in Nat

VARIABLES
    upload,     \* Upload rows: status, currentChunk, fileLocation
    payment,    \* PaymentTransaction rows: status, hash
    receipt,    \* Receipt rows, by upload: "NONE" or the receipt's status
    file,       \* files under uploads/, by path
    contended,  \* uploads whose .bin file was opened while being written
    pc,         \* the await each call is at
    call,       \* what the call asked for
    chunk,      \* the chunk index a chunk call was accepted with
    tries,      \* verifications a call has left
    job         \* what became of the job the call handed to the upload queue

rows == <<upload, payment, receipt>>
disk == <<file, contended>>
frame == <<call, chunk, tries>>
vars == <<rows, disk, pc, frame, job>>

-----------------------------------------------------------------------------
(* The data.                                                               *)

UploadStatus == {"ABSENT", "NOT_STARTED", "IN_PROGRESS", "COMPLETED"}
PaymentStatus == {"ABSENT", "PENDING", "SUCCEEDED"}
ReceiptStatus == {"NONE", "PAID", "COMPLETED"}

\* The create handler accepts single-chunk uploads only.
TotalChunks == 1

\* A multipart body is stored under a random name before its handler runs; a
\* chunk goes to the .bin file of its upload.
StagedPath(r) == <<"staged", r>>
BinPath(u) == <<"bin", u>>
NoPath == <<"none", "none">>
Paths == ({"staged"} \X Requests) \union ({"bin"} \X Uploads)

Call == [kind : Kinds, upload : Uploads, hash : Hashes]

\* The text h names a transaction that pays for upload u.
Pays == {p \in Hashes \X Uploads : <<TransactionOf[p[1]], p[2]>> \in Carries}

\* The awaits of a handler, in the order the handler meets them.
Waits == {"verify", "read", "open", "pump", "advance", "complete", "find",
          "pay", "locate", "issue", "enqueue"}
Ended == {"done", "failed"}

Uses(r, u) == pc[r] \in Waits /\ call[r].upload = u
InFlight(u) == {r \in Requests : Uses(r, u)}

\* The calls that hold the .bin file of u open.
Writers(u) == {r \in InFlight(u) : pc[r] = "pump"}

\* Where the bundle of call r is stored.
PathOf(r) == IF call[r].kind = "single" THEN StagedPath(r)
                                        ELSE BinPath(call[r].upload)

TypeOK ==
    /\ upload \in [Uploads -> [status : UploadStatus,
                               currentChunk : -1 .. MaxChunkIndex,
                               fileLocation : Paths \union {NoPath}]]
    /\ payment \in [Uploads -> [status : PaymentStatus,
                                hash : Hashes \union {NoHash}]]
    /\ receipt \in [Uploads -> ReceiptStatus]
    /\ file \in [Paths -> {"absent", "empty", "torn", "whole"}]
    /\ contended \subseteq Uploads
    /\ pc \in [Requests -> {"idle"} \union Waits \union Ended]
    /\ call \in [Requests -> Call \union {NoCall}]
    /\ \A r \in Requests : pc[r] # "idle" => call[r] \in Call
    /\ chunk \in [Requests -> -1 .. MaxChunkIndex]
    /\ tries \in [Requests -> 0 .. MaxTries]
    /\ job \in [Requests -> {"none", "adding", "queued", "lost"}]

Init ==
    /\ upload = [u \in Uploads |-> [status |-> "ABSENT", currentChunk |-> -1,
                                    fileLocation |-> NoPath]]
    /\ payment = [u \in Uploads |-> [status |-> "ABSENT", hash |-> NoHash]]
    /\ receipt = [u \in Uploads |-> "NONE"]
    /\ file = [p \in Paths |-> "absent"]
    /\ contended = {}
    /\ pc = [r \in Requests |-> "idle"]
    /\ call = [r \in Requests |-> NoCall]
    /\ chunk = [r \in Requests |-> -1]
    /\ tries = [r \in Requests |-> 0]
    /\ job = [r \in Requests |-> "none"]

\* The handler of r goes on to the await s, or ends there.
Goto(r, s) == pc' = [pc EXCEPT ![r] = s]

-----------------------------------------------------------------------------
(* POST /upload/create. A handler that stops between the two inserts       *)
(* leaves a payment row without an upload; nothing ever reads it.          *)

CreatePayment(u) ==
    /\ payment[u].status = "ABSENT"
    /\ payment' = [payment EXCEPT ![u].status = "PENDING"]
    /\ UNCHANGED <<upload, receipt, disk, pc, frame, job>>

CreateUpload(u) ==
    /\ payment[u].status # "ABSENT"
    /\ upload[u].status = "ABSENT"
    /\ upload' = [upload EXCEPT ![u].status = "NOT_STARTED"]
    /\ UNCHANGED <<payment, receipt, disk, pc, frame, job>>

-----------------------------------------------------------------------------
(* A call arrives. MaxInFlight is the client's discipline: with 1 it calls *)
(* for the same upload again only after an answer (an error is one) or a   *)
(* restart of the service. Nothing in the code imposes it, and a client    *)
(* whose connection broke cannot keep it: once the body is in, the handler *)
(* goes on without its client, so the next call overlaps it, as with a     *)
(* MaxInFlight of 2 and more.                                              *)

Arrives(r, k, u, h) ==
    /\ pc[r] = "idle"
    /\ Cardinality(InFlight(u)) < MaxInFlight
    /\ call' = [call EXCEPT ![r] = [kind |-> k, upload |-> u, hash |-> h]]

\* POST /upload: the body is on disk before the rows are looked up, and stays
\* there when the call is refused.
BeginSingle(r, u, h) ==
    /\ "single" \in Kinds
    /\ Arrives(r, "single", u, h)
    /\ file' = [file EXCEPT ![StagedPath(r)] = "whole"]
    /\ tries' = [tries EXCEPT ![r] = 1]
    /\ Goto(r, IF upload[u].status = "ABSENT" THEN "failed" ELSE "verify")
    /\ UNCHANGED <<rows, contended, chunk, job>>

\* A chunk call is refused when the upload is unknown or has its receipt.
ChunkRefused(u) == upload[u].status = "ABSENT" \/ receipt[u] # "NONE"

\* POST /upload/chunk: the rows and the receipt are looked up first.
BeginChunk(r, u, h) ==
    /\ "chunk" \in Kinds
    /\ Arrives(r, "chunk", u, h)
    /\ tries' = [tries EXCEPT ![r] = MaxTries]
    /\ Goto(r, IF ChunkRefused(u) THEN "failed" ELSE "verify")
    /\ UNCHANGED <<rows, disk, chunk, job>>

-----------------------------------------------------------------------------
(* Verification asks a node of the chain. A transfer that happened may     *)
(* still be unknown to the node (the answer is false on some chains and an *)
(* exception on others); one that did not is never confirmed.              *)

\* Mutant: the amount of the transfer is not compared.
ConfirmedByChain_AnyTransfer(h, u) == \E v \in Uploads : <<h, v>> \in Pays

ConfirmedByChain(h, u) == <<h, u>> \in Pays

AfterVerify(k) == IF k = "single" THEN "find" ELSE "read"

VerifyConfirms(r) ==
    /\ pc[r] = "verify"
    /\ ConfirmedByChain(call[r].hash, call[r].upload)
    /\ Goto(r, AfterVerify(call[r].kind))
    /\ UNCHANGED <<rows, disk, frame, job>>

\* Mutant: the loop runs while retries >= 0.
VerifyDenies_OneTooMany(r) ==
    /\ pc[r] = "verify"
    /\ tries' = [tries EXCEPT ![r] = @ - 1]
    /\ IF tries[r] >= 0 THEN UNCHANGED pc ELSE Goto(r, "failed")
    /\ UNCHANGED <<rows, disk, call, chunk, job>>

\* A false answer is asked again by a chunk call, until its tries are used up;
\* tries is 1 for a call of the other endpoint.
VerifyDenies(r) ==
    /\ pc[r] = "verify"
    /\ tries' = [tries EXCEPT ![r] = @ - 1]
    /\ IF tries[r] > 1 THEN UNCHANGED pc ELSE Goto(r, "failed")
    /\ UNCHANGED <<rows, disk, call, chunk, job>>

\* An exception is not retried.
VerifyThrows(r) ==
    /\ pc[r] = "verify"
    /\ Goto(r, "failed")
    /\ UNCHANGED <<rows, disk, frame, job>>

-----------------------------------------------------------------------------
(* UploadService.uploadChunk. The row is read once, at the start: the      *)
(* status and the chunk number it held then are what the later writes use. *)

\* Mutant: the status of the row is not looked at.
Accepts_AnyStatus(u, c, n) == n = TotalChunks /\ c = upload[u].currentChunk + 1

\* What the row must say for chunk c of n to be accepted.
Accepts(u, c, n) ==
    /\ n = TotalChunks
    /\ upload[u].status \in {"NOT_STARTED", "IN_PROGRESS"}
    /\ c = upload[u].currentChunk + 1

ReadUpload(r) ==
    /\ pc[r] = "read"
    /\ \E c \in 0 .. MaxChunkIndex, n \in {TotalChunks, TotalChunks + 1} :
         /\ chunk' = [chunk EXCEPT ![r] = c]
         /\ Goto(r, IF Accepts(call[r].upload, c, n) THEN "open" ELSE "failed")
    /\ UNCHANGED <<rows, disk, call, tries, job>>

\* Mutant: every chunk is appended.
Opened_AlwaysAppend(c, before) == IF before = "absent" THEN "empty" ELSE before

\* createWriteStream: flag 'w' truncates for chunk 0, 'a' appends for any other.
Opened(c, before) == IF c = 0 \/ before = "absent" THEN "empty" ELSE before

OpenBin(r) ==
    LET u == call[r].upload
    IN  /\ pc[r] = "open"
        /\ file' = [file EXCEPT ![BinPath(u)] = Opened(chunk[r], @)]
        /\ contended' = IF Writers(u) = {} THEN contended \ {u}
                                           ELSE contended \union {u}
        /\ Goto(r, "pump")
        /\ UNCHANGED <<rows, frame, job>>

\* What the .bin file of u may hold once a body was written to it: that body
\* and nothing else if the file was empty and had no other writer.
Written(u) == IF u \in contended THEN {"torn", "whole"}
              ELSE IF file[BinPath(u)] = "empty" THEN {"whole"} ELSE {"torn"}

PumpEnds(r) ==
    LET u == call[r].upload
    IN  /\ pc[r] = "pump"
        /\ \E w \in Written(u) : file' = [file EXCEPT ![BinPath(u)] = w]
        /\ Goto(r, "advance")
        /\ UNCHANGED <<rows, contended, frame, job>>

\* The client goes away, or the process stops, before the body is complete.
PumpBreaks(r) ==
    /\ pc[r] = "pump"
    /\ \E w \in {"torn", file[BinPath(call[r].upload)]} :
         file' = [file EXCEPT ![BinPath(call[r].upload)] = w]
    /\ Goto(r, "failed")
    /\ UNCHANGED <<rows, contended, frame, job>>

\* Mutant: any chunk from the last one on completes the upload.
LastChunk_OrLater(c) == c >= TotalChunks - 1

LastChunk(c) == c = TotalChunks - 1

\* The first update of the row. Its status was NOT_STARTED or IN_PROGRESS when
\* it was read, so the update writes IN_PROGRESS whatever the row says now.
AdvanceChunk(r) ==
    LET u == call[r].upload
    IN  /\ pc[r] = "advance"
        /\ upload' = [upload EXCEPT ![u].currentChunk = chunk[r],
                                    ![u].status = "IN_PROGRESS"]
        /\ Goto(r, IF LastChunk(chunk[r]) THEN "complete" ELSE "done")
        /\ UNCHANGED <<payment, receipt, disk, frame, job>>

CompleteUpload(r) ==
    /\ pc[r] = "complete"
    /\ upload' = [upload EXCEPT ![call[r].upload].status = "COMPLETED"]
    /\ Goto(r, "find")
    /\ UNCHANGED <<payment, receipt, disk, frame, job>>

-----------------------------------------------------------------------------
(* UploadService.createReceipt: a lookup, two updates and an insert, each  *)
(* its own statement, in no transaction.                                   *)

\* Mutant: the lookup is left to the unique column of Receipt.
FindReceipt_Skipped(r) ==
    /\ pc[r] = "find"
    /\ Goto(r, "pay")
    /\ UNCHANGED <<rows, disk, frame, job>>

\* Mutant: a call that finds a receipt waits for it to go away.
FindReceipt_Waits(r) ==
    /\ pc[r] = "find"
    /\ receipt[call[r].upload] = "NONE"
    /\ Goto(r, "pay")
    /\ UNCHANGED <<rows, disk, frame, job>>

FindReceipt(r) ==
    /\ pc[r] = "find"
    /\ Goto(r, IF receipt[call[r].upload] = "NONE" THEN "pay" ELSE "failed")
    /\ UNCHANGED <<rows, disk, frame, job>>

\* Mutant: the column is not unique.
HashTaken_Never(h, u) == FALSE

\* transactionHash is a unique column: it refuses a text another row holds, and
\* takes another text for the same transaction.
HashTaken(h, u) == \E v \in Uploads \ {u} : payment[v].hash = h

RecordPayment(r) ==
    LET u == call[r].upload
        h == call[r].hash
    IN  /\ pc[r] = "pay"
        /\ IF HashTaken(h, u)
           THEN Goto(r, "failed") /\ UNCHANGED payment
           ELSE /\ payment' = [payment EXCEPT ![u] = [status |-> "SUCCEEDED",
                                                      hash |-> h]]
                /\ Goto(r, "locate")
        /\ UNCHANGED <<upload, receipt, disk, frame, job>>

\* Mutant: the path of the .bin file is recorded for both endpoints.
RecordLocation_Bin(r) ==
    /\ pc[r] = "locate"
    /\ upload' = [upload EXCEPT ![call[r].upload].fileLocation = BinPath(call[r].upload)]
    /\ Goto(r, "issue")
    /\ UNCHANGED <<payment, receipt, disk, frame, job>>

RecordLocation(r) ==
    /\ pc[r] = "locate"
    /\ upload' = [upload EXCEPT ![call[r].upload].fileLocation = PathOf(r)]
    /\ Goto(r, "issue")
    /\ UNCHANGED <<payment, receipt, disk, frame, job>>

\* Mutant: the column is not unique.
ReceiptTaken_Never(u) == FALSE

\* uploadId is a unique column of Receipt.
ReceiptTaken(u) == receipt[u] # "NONE"

IssueReceipt(r) ==
    LET u == call[r].upload
    IN  /\ pc[r] = "issue"
        /\ IF ReceiptTaken(u)
           THEN Goto(r, "failed") /\ UNCHANGED receipt
           ELSE /\ receipt' = [receipt EXCEPT ![u] = "PAID"]
                /\ Goto(r, "enqueue")
        /\ UNCHANGED <<upload, payment, disk, frame, job>>

-----------------------------------------------------------------------------
(* The job is handed to the queue by a call nobody awaits: the client has  *)
(* its answer while the job is still on its way to Redis.                  *)

\* Mutant: only one of the two endpoints queues its file.
Enqueue_SingleOnly(r) ==
    /\ pc[r] = "enqueue"
    /\ job' = [job EXCEPT ![r] = IF call[r].kind = "single" THEN "adding" ELSE @]
    /\ Goto(r, "done")
    /\ UNCHANGED <<rows, disk, frame>>

Enqueue(r) ==
    /\ pc[r] = "enqueue"
    /\ job' = [job EXCEPT ![r] = "adding"]
    /\ Goto(r, "done")
    /\ UNCHANGED <<rows, disk, frame>>

JobAdded(r) ==
    /\ job[r] = "adding"
    /\ job' = [job EXCEPT ![r] = "queued"]
    /\ UNCHANGED <<rows, disk, pc, frame>>

-----------------------------------------------------------------------------
(* Faults. A database or file-system error is thrown out of the handler,   *)
(* which catches nothing; a crash of the process stops its handlers where  *)
(* they are and loses the jobs not yet in Redis (a crash of several        *)
(* handlers is a Stop of each). Rows and files survive both. PumpBreaks is *)
(* the fault of a handler that is writing a file: its body breaks off. A   *)
(* connection that breaks later is no fault, the handler does not see it.  *)

Stop(r) ==
    /\ pc[r] \in Waits \ {"pump"}
    /\ Goto(r, "failed")
    /\ UNCHANGED <<rows, disk, frame, job>>

JobLost(r) ==
    /\ job[r] = "adding"
    /\ job' = [job EXCEPT ![r] = "lost"]
    /\ UNCHANGED <<rows, disk, pc, frame>>

-----------------------------------------------------------------------------

Verify(r) == VerifyConfirms(r) \/ VerifyDenies(r) \/ VerifyThrows(r)

WriteChunk(r) == \/ ReadUpload(r) \/ OpenBin(r) \/ PumpEnds(r) \/ PumpBreaks(r)
                 \/ AdvanceChunk(r) \/ CompleteUpload(r)

CreateReceipt(r) == \/ FindReceipt(r) \/ RecordPayment(r) \/ RecordLocation(r)
                    \/ IssueReceipt(r)

\* One step of the handler of r.
Handler(r) == Verify(r) \/ WriteChunk(r) \/ CreateReceipt(r) \/ Enqueue(r)

Next ==
    \/ \E u \in Uploads : CreatePayment(u) \/ CreateUpload(u)
    \/ \E r \in Requests, u \in Uploads, h \in Hashes :
         BeginSingle(r, u, h) \/ BeginChunk(r, u, h)
    \/ \E r \in Requests : Handler(r) \/ JobAdded(r)
    \/ \E r \in FaultyRequests : Stop(r) \/ JobLost(r)

Spec == Init /\ [][Next]_vars

\* A handler that meets no fault goes on: the event loop runs it, the database
\* and the node answer, and the client sends its body or goes away.
Fairness == \A r \in Requests \ FaultyRequests : WF_vars(Handler(r)) /\ WF_vars(JobAdded(r))

FairSpec == Spec /\ Fairness

-----------------------------------------------------------------------------
(* Safety, for clients that overlap their calls in any way.                *)

\* At most one call per upload ever hands a job to the queue, so a bundle is
\* not bundled and paid for on Arweave twice because its client retried: of
\* several calls in createReceipt at once only one gets through
\* receipt.create (upload.service.ts:186).
OneJobPerUpload ==
    \A r, s \in Requests :
        job[r] # "none" /\ job[s] # "none" /\ call[r].upload = call[s].upload
            => r = s

\* Every receipt is for an upload whose payment row names a transaction that pays
\* for that very upload, not for one of another price, also when another call
\* replaced the hash after the receipt was given (upload.service.ts:167-193).
ReceiptIsPaid ==
    \A u \in Uploads :
        receipt[u] # "NONE" => /\ payment[u].status = "SUCCEEDED"
                               /\ <<payment[u].hash, u>> \in Pays

Ledger == INSTANCE PaymentLedger WITH
    Tickets <- Requests,
    paidBy <- [u \in Uploads |-> payment[u].hash],
    receipted <- {u \in Uploads : receipt[u] # "NONE"},
    jobs <- {p \in Uploads \X Requests :
               job[p[2]] = "queued" /\ call[p[2]].upload = p[1]}

\* The handlers, with all their awaits, implement the payment ledger: a
\* receipt only after a payment was recorded, one job per receipt.
ImplementsLedger == Ledger!Spec

-----------------------------------------------------------------------------
(* Safety, for clients whose calls for one upload do not overlap           *)
(* (MaxInFlight = 1), while any of them may stop half-way.                 *)

\* The chain knows transaction t by one text only.
OneSpelling(t) == \A g, h \in Hashes : TransactionOf[g] = t /\ TransactionOf[h] = t => g = h

\* A transaction buys one job: verification confirms it for every upload of the
\* same price and no code remembers that it was spent but the text in a payment
\* row, which two calls race for two awaits later, which a repeated call
\* replaces, and which tells two spellings apart (upload.service.ts:167, 233,
\* schema.prisma:106). It holds of transactions with one spelling, as on Solana
\* and Arweave.
TransactionBuysOneJob ==
    \A r, s \in Requests :
        /\ job[r] # "none" /\ job[s] # "none"
        /\ TransactionOf[call[r].hash] = TransactionOf[call[s].hash]
        /\ OneSpelling(TransactionOf[call[r].hash])
        => r = s

\* The recorded transaction is never replaced once the receipt was given.
ImplementsStrictLedger == Ledger!StrictSpec

\* The file a receipted upload points at holds exactly the client's bundle,
\* however many broken attempts came before (upload.service.ts:708-711).
ReceiptFileWhole ==
    \A u \in Uploads :
        receipt[u] # "NONE" => /\ upload[u].fileLocation \in Paths
                               /\ file[upload[u].fileLocation] = "whole"

\* The rows agree with the job that was queued, also when earlier calls stopped
\* between the three writes and left theirs there: the upload row points at the
\* file the job will send, the payment row at the hash its call presented
\* (upload.service.ts:167-186). A call that overlaps breaks it.
JobMatchesRows ==
    \A r \in Requests :
        job[r] # "none" =>
            LET u == call[r].upload
            IN  /\ upload[u].fileLocation = PathOf(r)
                /\ payment[u].hash = call[r].hash

\* An upload marked COMPLETED by the chunk endpoint has its one chunk, whole,
\* in its .bin file, also after attempts that stopped between the two updates
\* of the row (upload.service.ts:712, 720).
CompletedMeansWhole ==
    \A u \in Uploads :
        upload[u].status = "COMPLETED" =>
            /\ upload[u].currentChunk = TotalChunks - 1
            /\ file[BinPath(u)] = "whole"

\* The chunk counter never goes back, and COMPLETED is never taken back.
ProgressKept ==
    [][\A u \in Uploads :
         /\ upload'[u].currentChunk >= upload[u].currentChunk
         /\ upload[u].status = "COMPLETED" => upload'[u].status = "COMPLETED"]_vars

-----------------------------------------------------------------------------
(* Liveness, under FairSpec.                                               *)

\* A call that meets no fault is answered: the retry loop of the chunk
\* endpoint gives up, and no call waits for another.
CallsEnd ==
    \A r \in Requests \ FaultyRequests : pc[r] \in Waits ~> pc[r] \in Ended

\* When no call is faulty a receipt is followed by a job in the queue, although
\* the handler answers its client without waiting for it.
ReceiptIsDispatched ==
    \A u \in Uploads :
        receipt[u] = "PAID" ~>
            \E r \in Requests : job[r] = "queued" /\ call[r].upload = u

=============================================================================
