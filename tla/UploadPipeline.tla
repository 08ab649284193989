--------------------------- MODULE UploadPipeline ---------------------------
(***************************************************************************)
(* UploadService composed with what happens behind its back: the worker of *)
(* the upload queue, which sends a paid bundle to Arweave, and the worker  *)
(* of the fee queue, which moves the service's fee out of the system       *)
(* wallet (src/src/modules/upload/queue/, UploadService.                   *)
(* createFeeTransaction and debitFeeFromSystemWallet). The handlers and    *)
(* the workers share the rows and the files, and run in any interleaving.  *)
(*                                                                         *)
(* Both queues are BullMQ's: a job is taken by one worker at a time; an    *)
(* exception is an attempt used up; a worker that disappears leaves a      *)
(* stalled job, which is taken again at most MaxStalled times and does not *)
(* count as an attempt. An upload job is identified by the call that       *)
(* queued it, a fee job by its upload.                                     *)
(***************************************************************************)
EXTENDS UploadService

CONSTANTS
    MaxAttempts,  \* attempts of an upload job
    MaxStalled,   \* times a stalled job is taken again
    BadBundles,   \* uploads whose bundle is unsigned, invalid or empty
    Chain,        \* the chain each upload is paid on
    MaxFaults,    \* bound on errors thrown by files, database and chains
    MaxCrashes    \* bound on crashes of the process

Chains == {"evm", "arweave", "solana", "cosmos"}

ASSUME PipelineAssumption ==
    /\ MaxAttempts \in Nat \ {0}
    /\ {MaxStalled, MaxFaults, MaxCrashes} \subseteq Nat
    /\ BadBundles \subseteq Uploads
    /\ Chain \in [Uploads -> Chains]

VARIABLES
    run,        \* the await each upload job is at
    attempts,   \* attempts it has used up
    stalls,     \* times it was found stalled
    pending,    \* updates its worker issued and does not await
    posted,     \* bundles sent to Arweave, by upload
    txKnown,    \* uploads whose row holds the Arweave id
    fee,        \* FeeTransaction rows, by upload: "NONE" or their status
    feeRun,     \* the await each fee job is at
    feeStalls,  \* times it was found stalled
    debits,     \* transfers of the fee out of the system wallet
    faults,     \* errors thrown so far
    crashes     \* crashes so far

worker == <<run, attempts, stalls, pending, posted, txKnown>>
feeWorker == <<fee, feeRun, feeStalls, debits>>
incidents == <<faults, crashes>>
pipelineVars == <<vars, worker, feeWorker, incidents>>

Updates == {"txId", "status", "receipt"}
Active == {"read", "post", "unlink", "charge", "settle"}
FeeActive == {"debit", "record"}

PipelineTypeOK ==
    /\ TypeOK
    /\ run \in [Requests -> Active \union {"waiting", "completed", "failed"}]
    /\ attempts \in [Requests -> 0 .. MaxAttempts]
    /\ stalls \in [Requests -> 0 .. MaxStalled + 1]
    /\ pending \in [Requests -> SUBSET Updates]
    /\ posted \in [Uploads -> Nat]
    /\ txKnown \subseteq Uploads
    /\ fee \in [Uploads -> {"NONE", "PENDING", "SUCCEEDED"}]
    /\ feeRun \in [Uploads -> FeeActive \union
                     {"none", "adding", "waiting", "completed", "failed", "lost"}]
    /\ feeStalls \in [Uploads -> 0 .. MaxStalled + 1]
    /\ debits \in [Uploads -> Nat]
    /\ faults \in 0 .. MaxFaults
    /\ crashes \in 0 .. MaxCrashes

PipelineInit ==
    /\ Init
    /\ run = [r \in Requests |-> "waiting"]
    /\ attempts = [r \in Requests |-> 0]
    /\ stalls = [r \in Requests |-> 0]
    /\ pending = [r \in Requests |-> {}]
    /\ posted = [u \in Uploads |-> 0]
    /\ txKnown = {}
    /\ fee = [u \in Uploads |-> "NONE"]
    /\ feeRun = [u \in Uploads |-> "none"]
    /\ feeStalls = [u \in Uploads |-> 0]
    /\ debits = [u \in Uploads |-> 0]
    /\ faults = 0
    /\ crashes = 0

\* The worker of job r goes on to the await s, or the job ends there.
RunTo(r, s) == run' = [run EXCEPT ![r] = s]
FeeRunTo(u, s) == feeRun' = [feeRun EXCEPT ![u] = s]

-----------------------------------------------------------------------------
(* The upload worker, UploadConsumer.process.                              *)

\* Mutant: one attempt too many.
FailAttempt_OneMore(r) ==
    /\ attempts' = [attempts EXCEPT ![r] = @ + 1]
    /\ RunTo(r, IF attempts[r] < MaxAttempts THEN "waiting" ELSE "failed")

\* Mutant: the job is added without attempts, as the fee job is.
FailAttempt_Once(r) ==
    /\ attempts' = [attempts EXCEPT ![r] = @ + 1]
    /\ RunTo(r, "failed")

\* Mutant: attempts are not counted.
FailAttempt_Forever(r) == RunTo(r, "waiting") /\ UNCHANGED attempts

\* An exception uses up an attempt; after the last one the job has failed.
FailAttempt(r) ==
    /\ attempts' = [attempts EXCEPT ![r] = @ + 1]
    /\ RunTo(r, IF attempts[r] + 1 < MaxAttempts THEN "waiting" ELSE "failed")

\* A worker takes one job at a time.
TakeJob(r) ==
    /\ job[r] = "queued"
    /\ run[r] = "waiting"
    /\ \A s \in Requests : run[s] \notin Active
    /\ RunTo(r, "read")
    /\ UNCHANGED <<vars, attempts, stalls, pending, posted, txKnown, feeWorker, incidents>>

\* A file that was cut short or written twice may or may not parse.
MayBeValid(r) == \/ file[PathOf(r)] = "whole" /\ call[r].upload \notin BadBundles
                 \/ file[PathOf(r)] \in {"empty", "torn"}

MayBeInvalid(r) == \/ file[PathOf(r)] # "whole"
                   \/ call[r].upload \in BadBundles

\* Mutant: the file is removed as soon as it is in memory.
ReadBundle_Removes(r) ==
    /\ run[r] = "read"
    /\ \/ /\ MayBeValid(r)
          /\ RunTo(r, "post")
          /\ file' = [file EXCEPT ![PathOf(r)] = "absent"]
          /\ UNCHANGED attempts
       \/ MayBeInvalid(r) /\ FailAttempt(r) /\ UNCHANGED file
    /\ UNCHANGED <<rows, contended, pc, frame, job>>
    /\ UNCHANGED <<stalls, pending, posted, txKnown, feeWorker, incidents>>

\* readFile, isSignedValidDataItemsInBundle, unpackBundle.
ReadBundle(r) ==
    /\ run[r] = "read"
    /\ \/ MayBeValid(r) /\ RunTo(r, "post") /\ UNCHANGED attempts
       \/ MayBeInvalid(r) /\ FailAttempt(r)
    /\ UNCHANGED <<vars, stalls, pending, posted, txKnown, feeWorker, incidents>>

Sent(r) == posted' = [posted EXCEPT ![call[r].upload] = @ + 1]

\* bundleAndUploadDataItems; the three updates are issued and not awaited.
PostBundle(r) ==
    /\ run[r] = "post"
    /\ Sent(r)
    /\ pending' = [pending EXCEPT ![r] = Updates]
    /\ RunTo(r, "unlink")
    /\ UNCHANGED <<vars, attempts, stalls, txKnown, feeWorker, incidents>>

\* Mutant: the error of the upload is swallowed.
PostThrows_Swallowed(r) ==
    /\ run[r] = "post"
    /\ faults < MaxFaults
    /\ faults' = faults + 1
    /\ pending' = [pending EXCEPT ![r] = Updates]
    /\ RunTo(r, "unlink")
    /\ UNCHANGED <<vars, attempts, stalls, posted, txKnown, feeWorker, crashes>>

\* The upload to Arweave throws, before or after the bundle got through.
PostThrows(r) ==
    /\ run[r] = "post"
    /\ faults < MaxFaults
    /\ faults' = faults + 1
    /\ Sent(r) \/ UNCHANGED posted
    /\ FailAttempt(r)
    /\ UNCHANGED <<vars, stalls, pending, txKnown, feeWorker, crashes>>

\* An update lands, in any order and any time later.
UpdateTxId(r) ==
    /\ "txId" \in pending[r]
    /\ txKnown' = txKnown \union {call[r].upload}
    /\ pending' = [pending EXCEPT ![r] = @ \ {"txId"}]
    /\ UNCHANGED <<vars, run, attempts, stalls, posted, feeWorker, incidents>>

UpdateStatus(r) ==
    /\ "status" \in pending[r]
    /\ upload' = [upload EXCEPT ![call[r].upload].status = "COMPLETED"]
    /\ pending' = [pending EXCEPT ![r] = @ \ {"status"}]
    /\ UNCHANGED <<payment, receipt, disk, pc, frame, job>>
    /\ UNCHANGED <<run, attempts, stalls, posted, txKnown, feeWorker, incidents>>

UpdateReceipt(r) ==
    /\ "receipt" \in pending[r]
    /\ receipt' = [receipt EXCEPT ![call[r].upload] = "COMPLETED"]
    /\ pending' = [pending EXCEPT ![r] = @ \ {"receipt"}]
    /\ UNCHANGED <<upload, payment, disk, pc, frame, job>>
    /\ UNCHANGED <<run, attempts, stalls, posted, txKnown, feeWorker, incidents>>

UnlinkFile(r) ==
    /\ run[r] = "unlink"
    /\ IF file[PathOf(r)] = "absent"
       THEN FailAttempt(r) /\ UNCHANGED file
       ELSE /\ file' = [file EXCEPT ![PathOf(r)] = "absent"]
            /\ RunTo(r, "charge")
            /\ UNCHANGED attempts
    /\ UNCHANGED <<rows, contended, pc, frame, job>>
    /\ UNCHANGED <<stalls, pending, posted, txKnown, feeWorker, incidents>>

\* createFeeTransaction; uploadId is a unique column of FeeTransaction.
ChargeFee(r) ==
    LET u == call[r].upload
    IN  /\ run[r] = "charge"
        /\ IF fee[u] # "NONE"
           THEN FailAttempt(r) /\ UNCHANGED fee
           ELSE /\ fee' = [fee EXCEPT ![u] = "PENDING"]
                /\ RunTo(r, "settle")
                /\ UNCHANGED attempts
        /\ UNCHANGED <<vars, stalls, pending, posted, txKnown>>
        /\ UNCHANGED <<feeRun, feeStalls, debits, incidents>>

\* process returns, the job is moved to completed, and its event handler adds
\* a fee job without awaiting it.
SettleJob(r) ==
    /\ run[r] = "settle"
    /\ RunTo(r, "completed")
    /\ FeeRunTo(call[r].upload, "adding")
    /\ UNCHANGED <<vars, attempts, stalls, pending, posted, txKnown>>
    /\ UNCHANGED <<fee, feeStalls, debits, incidents>>

\* A file or database operation throws and changes nothing.
JobThrows(r) ==
    /\ run[r] \in {"read", "unlink", "charge"}
    /\ faults < MaxFaults
    /\ faults' = faults + 1
    /\ FailAttempt(r)
    /\ UNCHANGED <<vars, stalls, pending, posted, txKnown, feeWorker, crashes>>

-----------------------------------------------------------------------------
(* The fee worker, FeeConsumer.process. Fee jobs are added without options *)
(* and so have one attempt.                                                *)

\* Mutant: fee jobs have attempts, as upload jobs do.
FeeFails_Retried(u) == FeeRunTo(u, "waiting")

FeeFails(u) == FeeRunTo(u, "failed")

FeeJobAdded(u) ==
    /\ feeRun[u] = "adding"
    /\ FeeRunTo(u, "waiting")
    /\ UNCHANGED <<vars, worker, fee, feeStalls, debits, incidents>>

\* One job at a time; the fee row itself is read for its amount and address
\* only, never for its status.
TakeFeeJob(u) ==
    /\ feeRun[u] = "waiting"
    /\ \A v \in Uploads : feeRun[v] \notin FeeActive
    /\ FeeRunTo(u, "debit")
    /\ UNCHANGED <<vars, worker, fee, feeStalls, debits, incidents>>

Debited(u) == debits' = [debits EXCEPT ![u] = @ + 1]

\* Mutant: what became of the transfer is not looked at.
DebitFee_Unchecked(u) ==
    /\ feeRun[u] = "debit"
    /\ Debited(u) \/ UNCHANGED debits
    /\ FeeRunTo(u, "record")
    /\ UNCHANGED <<vars, worker, fee, feeStalls, incidents>>

\* Only two of the chains have a transfer.
DebitFee(u) ==
    /\ feeRun[u] = "debit"
    /\ \/ /\ Chain[u] \in {"evm", "arweave"}
          /\ Debited(u)
          /\ FeeRunTo(u, "record")
       \/ /\ Chain[u] = "solana"
          /\ FeeFails(u)
          /\ UNCHANGED debits
       \/ /\ Chain[u] = "cosmos"
          /\ FeeRunTo(u, "completed")
          /\ UNCHANGED debits
    /\ UNCHANGED <<vars, worker, fee, feeStalls, incidents>>

RecordDebit(u) ==
    /\ feeRun[u] = "record"
    /\ fee' = [fee EXCEPT ![u] = "SUCCEEDED"]
    /\ FeeRunTo(u, "completed")
    /\ UNCHANGED <<vars, worker, feeStalls, debits, incidents>>

\* The transfer, the wait for it or the update of the row throws; the transfer
\* may have gone through before the wait for it does.
FeeThrows(u) ==
    /\ feeRun[u] \in FeeActive
    /\ faults < MaxFaults
    /\ faults' = faults + 1
    /\ \/ UNCHANGED debits
       \/ feeRun[u] = "debit" /\ Chain[u] \in {"evm", "arweave"} /\ Debited(u)
    /\ FeeFails(u)
    /\ UNCHANGED <<vars, worker, fee, feeStalls, crashes>>

-----------------------------------------------------------------------------
(* The process crashes: both workers lose the job they were at, which BullMQ *)
(* finds stalled; updates and jobs on their way are lost. Handlers are      *)
(* stopped by UploadService's Stop.                                        *)

AfterStall(n) == IF n < MaxStalled THEN "waiting" ELSE "failed"

Crash ==
    /\ crashes < MaxCrashes
    /\ crashes' = crashes + 1
    /\ run' = [r \in Requests |->
                 IF run[r] \in Active THEN AfterStall(stalls[r]) ELSE run[r]]
    /\ stalls' = [r \in Requests |->
                    IF run[r] \in Active THEN stalls[r] + 1 ELSE stalls[r]]
    /\ pending' = [r \in Requests |-> {}]
    /\ feeRun' = [u \in Uploads |->
                    CASE feeRun[u] \in FeeActive -> AfterStall(feeStalls[u])
                      [] feeRun[u] = "adding" -> "lost"
                      [] OTHER -> feeRun[u]]
    /\ feeStalls' = [u \in Uploads |->
                       IF feeRun[u] \in FeeActive THEN feeStalls[u] + 1 ELSE feeStalls[u]]
    /\ UNCHANGED <<vars, attempts, posted, txKnown, fee, debits, faults>>

-----------------------------------------------------------------------------

Worker(r) == \/ TakeJob(r) \/ ReadBundle(r) \/ PostBundle(r) \/ UnlinkFile(r)
             \/ ChargeFee(r) \/ SettleJob(r)

Landing(r) == UpdateTxId(r) \/ UpdateStatus(r) \/ UpdateReceipt(r)

FeeWorker(u) == FeeJobAdded(u) \/ TakeFeeJob(u) \/ DebitFee(u) \/ RecordDebit(u)

PipelineNext ==
    \/ Next /\ UNCHANGED <<worker, feeWorker, incidents>>
    \/ \E r \in Requests : Worker(r) \/ Landing(r) \/ PostThrows(r) \/ JobThrows(r)
    \/ \E u \in Uploads : FeeWorker(u) \/ FeeThrows(u)
    \/ Crash

PipelineSpec == PipelineInit /\ [][PipelineNext]_pipelineVars

\* Workers take the jobs that wait and come to the end of each step, and an
\* update that was issued lands. Nothing is assumed of errors and crashes.
PipelineFairness ==
    /\ \A r \in Requests \ FaultyRequests :
         /\ WF_pipelineVars(Handler(r) /\ UNCHANGED <<worker, feeWorker, incidents>>)
         /\ WF_pipelineVars(JobAdded(r) /\ UNCHANGED <<worker, feeWorker, incidents>>)
    /\ \A r \in Requests : WF_pipelineVars(Worker(r)) /\ WF_pipelineVars(Landing(r))
    /\ \A u \in Uploads : WF_pipelineVars(FeeWorker(u))

FairPipelineSpec == PipelineSpec /\ PipelineFairness

-----------------------------------------------------------------------------
(* Safety, for clients that overlap their calls, under errors and crashes. *)

\* What the rows say of an upload is true of Arweave: a receipt is COMPLETED,
\* and an Arweave id is on record, only for a bundle that was sent there,
\* although the updates land any time later and in any order
\* (upload.consumer.ts:45-51).
CompletedIsPosted ==
    \A u \in Uploads :
        receipt[u] = "COMPLETED" \/ u \in txKnown => posted[u] > 0

\* What an upload costs the service is bounded: its bundle is sent to Arweave at most
\* once per attempt and per stall, however many calls and jobs there were for it, and
\* its fee leaves the system wallet once, and once more for each time the fee job was
\* found stalled, because debitFeeFromSystemWallet does not look at the status of the
\* row it is given (upload.consumer.ts:36, upload.service.ts:570-625).
SpendingBounded ==
    \A u \in Uploads : /\ posted[u] <= MaxAttempts + MaxStalled
                       /\ debits[u] <= 1 + feeStalls[u]
                       /\ debits[u] <= 1 + MaxStalled

\* Nothing is spent on an upload that was not paid for: a bundle is sent for an upload
\* with a receipt and a transaction on record that pays for it, a fee is charged for a
\* bundle that was sent, debited for a fee on record, and recorded as SUCCEEDED only
\* when it was debited, also when the call that queued the job was overlapped, the job
\* ran again, or the debit itself threw after it went through
\* (upload.service.ts:167-193, 547-625).
SpendingIsEarned ==
    \A u \in Uploads : /\ posted[u] > 0 => receipt[u] # "NONE" /\ <<payment[u].hash, u>> \in Pays
                       /\ fee[u] # "NONE" => posted[u] > 0
                       /\ debits[u] > 0 => fee[u] # "NONE"
                       /\ fee[u] = "SUCCEEDED" => debits[u] > 0

-----------------------------------------------------------------------------
(* Safety, for a client that makes one call per upload at a time.          *)

\* The client's bundle is kept, whole, until it was sent: whatever fails and
\* crashes in between, an attempt that finds nothing to send means that it
\* was sent before (upload.consumer.ts:36, 45, 53).
BundleKept ==
    \A r \in Requests :
        job[r] # "none" /\ posted[call[r].upload] = 0 => file[PathOf(r)] = "whole"

\* COMPLETED is never taken back, with the worker and the handlers of both
\* endpoints writing the same column (upload.service.ts:537, 712, 720).
StatusKept ==
    [][\A u \in Uploads :
         /\ upload[u].status = "COMPLETED" => upload'[u].status = "COMPLETED"
         /\ receipt[u] = "COMPLETED" => receipt'[u] = "COMPLETED"]_pipelineVars

-----------------------------------------------------------------------------
(* Liveness, under FairPipelineSpec.                                       *)

\* Every queued job comes to an end, and so does the fee job of one that
\* completed, whatever throws or crashes.
JobsSettle ==
    \A r \in Requests :
        job[r] = "queued" ~>
            \/ run[r] = "failed"
            \/ /\ run[r] = "completed"
               /\ feeRun[call[r].upload] \in {"completed", "failed", "lost"}

\* With fewer errors than attempts and a valid bundle, a paid upload gets to
\* Arweave and its receipt says so, unless a call for it may stop or the process
\* crashes meanwhile.
PaidIsCompleted ==
    \A u \in Uploads \ BadBundles :
        (receipt[u] = "PAID" /\ \A r \in FaultyRequests : pc[r] = "idle" \/ call[r].upload # u)
            ~> (receipt[u] = "COMPLETED" \/ crashes > 0)

=============================================================================
