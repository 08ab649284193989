--------------------------- MODULE PipelineProofs ---------------------------
(***************************************************************************)
(* Theorems about UploadPipeline, for any number of uploads and calls, any *)
(* degree of overlap, and any number of errors, crashes and attempts; at   *)
(* the end, for clients that make one call per upload at a time.           *)
(***************************************************************************)
EXTENDS UploadPipeline, UploadServiceProofs

-----------------------------------------------------------------------------
(* The inductive invariant.                                                *)

UploadOf(r) == call[r].upload

\* A job that may run has attempts and stalls left, belongs to a call that is
\* over, and past its upload its bundle was sent.
JobKnows(r) ==
    /\ run[r] \in Active \union {"waiting"} => attempts[r] < MaxAttempts /\ stalls[r] <= MaxStalled
    /\ run[r] # "waiting" \/ pending[r] # {} => job[r] = "queued"
    /\ run[r] \in {"unlink", "charge", "settle"} \/ pending[r] # {} => posted[UploadOf(r)] > 0
    /\ run[r] = "settle" => feeRun[UploadOf(r)] = "none" /\ fee[UploadOf(r)] # "NONE"

\* A fee job that may run has stalls left, and was not debited more often than it
\* stalled until it is debited for the last time.
FeeKnows(u) ==
    /\ feeRun[u] \in FeeActive \union {"none", "adding", "waiting"} => feeStalls[u] <= MaxStalled
    /\ fee[u] = "NONE" => feeRun[u] = "none"
    /\ fee[u] # "NONE" => posted[u] > 0
    /\ feeRun[u] = "none" => debits[u] = 0
    /\ feeRun[u] \in {"none", "adding", "waiting", "debit"} => debits[u] <= feeStalls[u]
    /\ debits[u] <= 1 + feeStalls[u] /\ debits[u] <= 1 + MaxStalled
    /\ feeRun[u] = "record" \/ fee[u] = "SUCCEEDED" => debits[u] > 0

OneActive == \A r, s \in Requests : run[r] \in Active /\ run[s] \in Active => r = s

PipeInv ==
    /\ PipelineTypeOK
    /\ TriesLeft
    /\ JobAfterHandler
    /\ OneActive
    /\ \A r \in Requests : JobKnows(r)
    /\ \A u \in Uploads : FeeKnows(u)
    /\ CompletedIsPosted

LEMMA PipeInit == PipelineInit => PipeInv
<1> SUFFICES ASSUME PipelineInit PROVE PipeInv
  OBVIOUS
<1>1. TypeOK /\ TriesLeft
  BY TypeInvInit DEF PipelineInit, TypeInv
<1>2. JobAfterHandler /\ \A u \in Uploads : receipt[u] = "NONE"
  BY DEF PipelineInit, Init, JobAfterHandler
<1>3. PipelineTypeOK
  BY <1>1, PipelineAssumption DEF PipelineInit, PipelineTypeOK, Active
<1>4. OneActive /\ CompletedIsPosted
  BY <1>2 DEF PipelineInit, OneActive, Active, CompletedIsPosted
<1>5. \A r \in Requests : JobKnows(r)
  BY PipelineAssumption DEF PipelineInit, JobKnows
<1>6. \A u \in Uploads : FeeKnows(u)
  BY PipelineAssumption DEF PipelineInit, FeeKnows
<1>7. QED BY <1>1, <1>2, <1>3, <1>4, <1>5, <1>6 DEF PipeInv

-----------------------------------------------------------------------------
(* Steps of the handlers.                                                  *)

\* A handler leaves the calls of queued jobs and completed receipts alone.
LEMMA HandlerStep ==
    ASSUME TypeOK, JobAfterHandler, Next
    PROVE  /\ JobAfterHandler'
           /\ \A r \in Requests : job[r] = "queued" => job'[r] = "queued"
           /\ \A r \in Requests : job[r] # "none" => call'[r] = call[r]
           /\ \A u \in Uploads : receipt'[u] = "COMPLETED" => receipt[u] = "COMPLETED"
<1> DEFINE P == /\ JobAfterHandler'
                /\ \A r \in Requests : job[r] = "queued" => job'[r] = "queued"
                /\ \A r \in Requests : job[r] # "none" => call'[r] = call[r]
                /\ \A u \in Uploads : receipt'[u] = "COMPLETED" => receipt[u] = "COMPLETED"
<1>1. ASSUME UNCHANGED <<pc, call, job, receipt>> PROVE P
  BY <1>1 DEF JobAfterHandler
<1>2. ASSUME NEW r \in Requests, pc[r] # "done", UNCHANGED <<job, receipt>>,
             NEW s, Goto(r, s), \A t \in Requests : t # r => call'[t] = call[t]
      PROVE  P
  <2>1. job[r] = "none"
    BY <1>2 DEF JobAfterHandler
  <2>2. \A t \in Requests : t # r => pc'[t] = pc[t] /\ call'[t] = call[t]
    BY <1>2 DEF Goto, TypeOK
  <2>3. JobAfterHandler'
    BY <1>2, <2>1, <2>2 DEF JobAfterHandler
  <2>4. UNCHANGED job /\ UNCHANGED receipt
    BY <1>2
  <2>5. \A t \in Requests : job[t] # "none" => t # r
    BY <2>1
  <2>6. \A t \in Requests : job[t] # "none" => job'[t] = job[t] /\ call'[t] = call[t]
    BY <2>2, <2>4, <2>5
  <2>7. QED BY <2>3, <2>4, <2>6
<1>3. ASSUME NEW u \in Uploads, CreatePayment(u) \/ CreateUpload(u) PROVE P
  BY <1>3, <1>1 DEF CreatePayment, CreateUpload, frame
<1>4. ASSUME NEW r \in Requests, NEW u \in Uploads, NEW h \in Hashes,
             BeginSingle(r, u, h) \/ BeginChunk(r, u, h)
      PROVE  P
  <2>1. /\ pc[r] = "idle" /\ UNCHANGED <<job, receipt>>
        /\ \A t \in Requests : t # r => call'[t] = call[t]
        /\ \E s : Goto(r, s)
    BY <1>4 DEF BeginSingle, BeginChunk, Arrives, rows, TypeOK
  <2>2. QED BY <2>1, <1>2
<1>5. ASSUME NEW r \in Requests, Verify(r) PROVE P
  <2>1. pc[r] = "verify" /\ UNCHANGED <<job, receipt, call>>
    BY <1>5 DEF Verify, VerifyConfirms, VerifyDenies, VerifyThrows, rows, frame
  <2>2. UNCHANGED pc \/ \E s : Goto(r, s)
    BY <1>5 DEF Verify, VerifyConfirms, VerifyDenies, VerifyThrows
  <2>3. QED BY <2>1, <2>2, <1>1, <1>2
<1>6. ASSUME NEW r \in Requests, WriteChunk(r) PROVE P
  <2>1. /\ pc[r] \in Waits /\ UNCHANGED <<job, receipt, call>> /\ \E s : Goto(r, s)
    BY <1>6 DEF WriteChunk, ReadUpload, OpenBin, PumpEnds, PumpBreaks, AdvanceChunk, CompleteUpload,
                rows, frame, Waits
  <2>2. QED BY <2>1, <1>2 DEF Waits
<1>7. ASSUME NEW r \in Requests, CreateReceipt(r) PROVE P
  <2>1. /\ pc[r] \in Waits /\ UNCHANGED <<job, call>> /\ \E s : Goto(r, s)
    BY <1>7 DEF CreateReceipt, FindReceipt, RecordPayment, RecordLocation, IssueReceipt,
                rows, frame, Waits
  <2>2. UNCHANGED receipt \/ receipt' = [receipt EXCEPT ![UploadOf(r)] = "PAID"]
    BY <1>7 DEF CreateReceipt, FindReceipt, RecordPayment, RecordLocation, IssueReceipt, rows, UploadOf
  <2>3. \A u \in Uploads : receipt'[u] = "COMPLETED" => receipt[u] = "COMPLETED"
    BY <2>2 DEF TypeOK
  <2>4. JobAfterHandler'
    BY <2>1 DEF JobAfterHandler, Goto, TypeOK, Waits
  <2>5. QED BY <2>1, <2>3, <2>4
<1>8. ASSUME NEW r \in Requests, Enqueue(r) \/ JobAdded(r) \/ JobLost(r) PROVE P
  <2>1. /\ UNCHANGED <<receipt, call>> /\ job[r] # "queued"
        /\ pc'[r] = "done" /\ \A t \in Requests : t # r => pc'[t] = pc[t] /\ job'[t] = job[t]
    BY <1>8 DEF Enqueue, JobAdded, JobLost, Goto, rows, frame, JobAfterHandler, TypeOK
  <2>2. QED BY <2>1 DEF JobAfterHandler
<1>9. ASSUME NEW r \in Requests, Stop(r) PROVE P
  BY <1>9, <1>2 DEF Stop, rows, frame, Waits
<1>10. P
  BY <1>3, <1>4, <1>5, <1>6, <1>7, <1>8, <1>9, FaultyAssumption DEF Next, Handler
<1>11. QED BY <1>10

LEMMA HandlersPreserve ==
    ASSUME PipeInv, Next, UNCHANGED <<worker, feeWorker, incidents>>
    PROVE  PipeInv'
<1> TypeOK /\ JobAfterHandler
  BY DEF PipeInv, PipelineTypeOK
<1>1. TypeOK' /\ TriesLeft'
  BY TypeInvNext DEF PipeInv, PipelineTypeOK, TypeInv
<1>2. PipelineTypeOK' /\ OneActive'
  BY <1>1 DEF PipeInv, PipelineTypeOK, OneActive, worker, feeWorker, incidents
<1>3. \A r \in Requests : JobKnows(r)'
  BY HandlerStep, PipelineAssumption DEF PipeInv, PipelineTypeOK, JobKnows, UploadOf, Active, worker, feeWorker
<1>4. \A u \in Uploads : FeeKnows(u)'
  BY DEF PipeInv, FeeKnows, worker, feeWorker
<1>5. CompletedIsPosted'
  BY HandlerStep DEF PipeInv, CompletedIsPosted, worker
<1>6. QED BY <1>1, <1>2, <1>3, <1>4, <1>5, HandlerStep DEF PipeInv

-----------------------------------------------------------------------------
(* Steps of the upload worker. WorkerFrame says what a step of the job r   *)
(* leaves alone; the rest is about the job and its upload.                 *)

WorkerFrame(r) ==
    /\ UNCHANGED <<payment, contended, pc, frame, job>>
    /\ UNCHANGED <<feeStalls, debits, crashes>>
    /\ \A s \in Requests \ {r} : /\ run'[s] = run[s]
                                 /\ attempts'[s] = attempts[s]
                                 /\ stalls'[s] = stalls[s]
                                 /\ pending'[s] = pending[s]

\* An exception leaves the job outside its worker, with an attempt if it waits.
LEMMA AttemptFails ==
    ASSUME PipeInv, NEW r \in Requests, run[r] \in Active, FailAttempt(r)
    PROVE  /\ run' \in [Requests -> Active \union {"waiting", "completed", "failed"}]
           /\ attempts' \in [Requests -> 0 .. MaxAttempts]
           /\ run'[r] \in {"waiting", "failed"}
           /\ run'[r] = "waiting" => attempts'[r] < MaxAttempts /\ job[r] = "queued"
           /\ \A s \in Requests \ {r} : run'[s] = run[s] /\ attempts'[s] = attempts[s]
<1>1. attempts[r] \in Nat /\ attempts[r] < MaxAttempts /\ job[r] = "queued"
  BY PipelineAssumption DEF PipeInv, PipelineTypeOK, JobKnows, Active
<1>2. run'[r] = IF attempts[r] + 1 < MaxAttempts THEN "waiting" ELSE "failed"
  BY DEF FailAttempt, RunTo, PipeInv, PipelineTypeOK
<1>3. attempts' = [attempts EXCEPT ![r] = attempts[r] + 1] /\ attempts[r] + 1 \in 0 .. MaxAttempts
  BY <1>1, PipelineAssumption DEF FailAttempt
<1>4. QED
  BY <1>1, <1>2, <1>3 DEF FailAttempt, RunTo, PipeInv, PipelineTypeOK

\* A step of the job r keeps the invariant if it keeps the types, what is known of
\* r and of the fees, and what is recorded of bundles that were sent.
LEMMA WorkerPreserves ==
    ASSUME PipeInv, NEW r \in Requests, WorkerFrame(r),
           run'[r] \in Active => run[r] \in Active \/ \A s \in Requests : run[s] \notin Active,
           run[r] \in Active \/ UNCHANGED <<fee, feeRun>>,
           \A u \in Uploads : posted[u] > 0 => posted'[u] > 0,
           PipelineTypeOK', JobKnows(r)', \A u \in Uploads : FeeKnows(u)', CompletedIsPosted'
    PROVE  PipeInv'
<1>1. TriesLeft' /\ JobAfterHandler'
  BY DEF PipeInv, TriesLeft, JobAfterHandler, WorkerFrame, frame
<1>2. OneActive'
  BY DEF PipeInv, OneActive, WorkerFrame
<1>3. \A s \in Requests : JobKnows(s)'
  <2> SUFFICES ASSUME NEW s \in Requests, s # r PROVE JobKnows(s)'
    OBVIOUS
  <2>1. job[s] = "queued" => UploadOf(s) \in Uploads
    BY CallShape DEF PipeInv, PipelineTypeOK, JobAfterHandler, UploadOf
  <2>2. /\ UNCHANGED <<job, call>>
        /\ run'[s] = run[s] /\ attempts'[s] = attempts[s]
        /\ stalls'[s] = stalls[s] /\ pending'[s] = pending[s]
    BY DEF WorkerFrame, frame
  <2>3. run[s] = "settle" => UNCHANGED <<fee, feeRun>>
    BY DEF PipeInv, OneActive, Active
  <2>4. run[s] \in Active \union {"waiting"} => attempts'[s] < MaxAttempts /\ stalls'[s] <= MaxStalled
    BY <2>2 DEF PipeInv, JobKnows
  <2>5. run[s] \in {"unlink", "charge", "settle"} \/ pending[s] # {} => posted'[UploadOf(s)] > 0
    BY <2>1 DEF PipeInv, JobKnows
  <2>6. QED
    BY <2>2, <2>3, <2>4, <2>5 DEF PipeInv, JobKnows, UploadOf
<1>4. QED BY <1>1, <1>2, <1>3 DEF PipeInv

\* While the fee queue stands still, what is known of the fees stays true.
LEMMA FeesKept ==
    ASSUME PipeInv, UNCHANGED feeWorker, \A u \in Uploads : posted[u] > 0 => posted'[u] > 0
    PROVE  \A u \in Uploads : FeeKnows(u)'
BY DEF PipeInv, FeeKnows, feeWorker

\* The upload of a job that was taken exists.
LEMMA JobShape ==
    ASSUME PipeInv, NEW r \in Requests, run[r] # "waiting" \/ pending[r] # {} \/ job[r] = "queued"
    PROVE  job[r] = "queued" /\ UploadOf(r) \in Uploads
<1>1. job[r] = "queued"
  BY DEF PipeInv, JobKnows
<1>2. QED BY <1>1, CallShape DEF PipeInv, PipelineTypeOK, JobAfterHandler, UploadOf

LEMMA TakeJobStep ==
    ASSUME PipeInv, NEW r \in Requests, TakeJob(r) PROVE PipeInv'
<1>1. WorkerFrame(r) /\ UNCHANGED <<feeWorker, posted>>
  BY DEF TakeJob, RunTo, WorkerFrame, vars, rows, disk, feeWorker, incidents, PipeInv, PipelineTypeOK
<1>2. run'[r] = "read"
  BY DEF TakeJob, RunTo, PipeInv, PipelineTypeOK
<1>3. PipelineTypeOK'
  BY TypeInvStutter DEF TakeJob, RunTo, PipeInv, PipelineTypeOK, TypeInv, Active, feeWorker, incidents
<1>4. JobKnows(r)'
  BY <1>2 DEF TakeJob, PipeInv, JobKnows, Active, vars, frame, UploadOf
<1>5. CompletedIsPosted'
  BY DEF TakeJob, PipeInv, CompletedIsPosted, vars, rows
<1>6. QED
  BY <1>1, <1>3, <1>4, <1>5, FeesKept, WorkerPreserves DEF TakeJob, feeWorker

LEMMA ReadBundleStep ==
    ASSUME PipeInv, NEW r \in Requests, ReadBundle(r) PROVE PipeInv'
<1>0. run[r] = "read" /\ run[r] \in Active
  BY DEF ReadBundle, Active
<1>1. /\ run' \in [Requests -> Active \union {"waiting", "completed", "failed"}]
      /\ attempts' \in [Requests -> 0 .. MaxAttempts]
      /\ run'[r] \in {"post", "waiting", "failed"}
      /\ run'[r] # "failed" => attempts'[r] < MaxAttempts
      /\ \A s \in Requests \ {r} : run'[s] = run[s] /\ attempts'[s] = attempts[s]
  <2>1. CASE RunTo(r, "post") /\ UNCHANGED attempts
    BY <2>1, <1>0 DEF RunTo, PipeInv, PipelineTypeOK, JobKnows, Active
  <2>2. CASE FailAttempt(r)
    BY <2>2, <1>0, AttemptFails
  <2>3. QED BY <2>1, <2>2 DEF ReadBundle
<1>2. WorkerFrame(r) /\ UNCHANGED <<feeWorker, posted>>
  BY <1>1 DEF ReadBundle, WorkerFrame, vars, rows, disk, feeWorker, incidents
<1>3. PipelineTypeOK'
  BY <1>1, TypeInvStutter DEF ReadBundle, PipeInv, PipelineTypeOK, TypeInv, feeWorker, incidents
<1>4. JobKnows(r)'
  BY <1>0, <1>1 DEF ReadBundle, PipeInv, JobKnows, vars, frame, UploadOf, Active
<1>5. CompletedIsPosted'
  BY DEF ReadBundle, PipeInv, CompletedIsPosted, vars, rows
<1>6. QED
  BY <1>0, <1>2, <1>3, <1>4, <1>5, FeesKept, WorkerPreserves DEF feeWorker

\* A bundle sent for a job is one bundle more of its upload.
LEMMA SentGrows ==
    ASSUME PipeInv, NEW r \in Requests, UploadOf(r) \in Uploads, Sent(r)
    PROVE  /\ posted' \in [Uploads -> Nat]
           /\ posted'[UploadOf(r)] > 0
           /\ \A u \in Uploads : posted[u] > 0 => posted'[u] > 0
BY DEF PipeInv, PipelineTypeOK, Sent, UploadOf

LEMMA PostBundleStep ==
    ASSUME PipeInv, NEW r \in Requests, PostBundle(r) PROVE PipeInv'
<1>0. run[r] = "post" /\ run[r] \in Active /\ job[r] = "queued" /\ UploadOf(r) \in Uploads
  BY JobShape DEF PostBundle, Active
<1>1. /\ run'[r] = "unlink" /\ pending'[r] = Updates
      /\ \A s \in Requests \ {r} : run'[s] = run[s] /\ pending'[s] = pending[s]
  BY DEF PostBundle, RunTo, PipeInv, PipelineTypeOK
<1>2. WorkerFrame(r) /\ UNCHANGED feeWorker
  BY <1>1 DEF PostBundle, WorkerFrame, vars, rows, disk, feeWorker, incidents
<1>3. /\ posted' \in [Uploads -> Nat] /\ posted'[UploadOf(r)] > 0
      /\ \A u \in Uploads : posted[u] > 0 => posted'[u] > 0
  BY <1>0, SentGrows DEF PostBundle
<1>4. PipelineTypeOK'
  BY <1>3, TypeInvStutter
  DEF PostBundle, RunTo, PipeInv, PipelineTypeOK, TypeInv, feeWorker, incidents, Active
<1>5. JobKnows(r)'
  BY <1>0, <1>1, <1>3 DEF PostBundle, PipeInv, JobKnows, vars, frame, UploadOf, Active
<1>6. CompletedIsPosted'
  BY <1>3 DEF PostBundle, PipeInv, CompletedIsPosted, vars, rows
<1>7. QED
  BY <1>0, <1>2, <1>3, <1>4, <1>5, <1>6, FeesKept, WorkerPreserves

LEMMA PostThrowsStep ==
    ASSUME PipeInv, NEW r \in Requests, PostThrows(r) PROVE PipeInv'
<1>0. run[r] = "post" /\ run[r] \in Active /\ job[r] = "queued" /\ UploadOf(r) \in Uploads
  BY JobShape DEF PostThrows, Active
<1>1. /\ run' \in [Requests -> Active \union {"waiting", "completed", "failed"}]
      /\ attempts' \in [Requests -> 0 .. MaxAttempts]
      /\ run'[r] \in {"waiting", "failed"}
      /\ run'[r] = "waiting" => attempts'[r] < MaxAttempts
      /\ \A s \in Requests \ {r} : run'[s] = run[s] /\ attempts'[s] = attempts[s]
  BY <1>0, AttemptFails DEF PostThrows
<1>2. WorkerFrame(r) /\ UNCHANGED feeWorker
  BY <1>1 DEF PostThrows, WorkerFrame, vars, rows, disk, feeWorker
<1>3. /\ posted' \in [Uploads -> Nat]
      /\ \A u \in Uploads : posted[u] > 0 => posted'[u] > 0
  BY <1>0, SentGrows DEF PostThrows, PipeInv, PipelineTypeOK
<1>4. faults' \in 0 .. MaxFaults
  BY PipelineAssumption DEF PostThrows, PipeInv, PipelineTypeOK
<1>5. PipelineTypeOK'
  BY <1>1, <1>3, <1>4, TypeInvStutter DEF PostThrows, PipeInv, PipelineTypeOK, TypeInv, feeWorker
<1>6. JobKnows(r)'
  BY <1>0, <1>1, <1>3 DEF PostThrows, PipeInv, JobKnows, vars, frame, UploadOf, Active
<1>7. CompletedIsPosted'
  BY <1>3 DEF PostThrows, PipeInv, CompletedIsPosted, vars, rows
<1>8. QED
  BY <1>0, <1>1, <1>2, <1>3, <1>5, <1>6, <1>7, FeesKept, WorkerPreserves DEF Active

\* The updates of the rows, which land any time later.
LEMMA LandingStep ==
    ASSUME PipeInv, NEW r \in Requests, Landing(r) PROVE PipeInv'
<1>0. job[r] = "queued" /\ UploadOf(r) \in Uploads /\ posted[UploadOf(r)] > 0
  BY JobShape DEF Landing, UpdateTxId, UpdateStatus, UpdateReceipt, PipeInv, JobKnows
<1>1. /\ pending' \in [Requests -> SUBSET Updates]
      /\ pending'[r] \subseteq pending[r]
      /\ \A s \in Requests \ {r} : pending'[s] = pending[s]
  BY DEF Landing, UpdateTxId, UpdateStatus, UpdateReceipt, PipeInv, PipelineTypeOK
<1>2. /\ UNCHANGED <<payment, disk, pc, frame, job>>
      /\ UNCHANGED <<run, attempts, stalls, posted, feeWorker, incidents>>
  BY DEF Landing, UpdateTxId, UpdateStatus, UpdateReceipt, vars, rows
<1>3. WorkerFrame(r)
  BY <1>1, <1>2 DEF WorkerFrame, disk, feeWorker, incidents
<1>4. TypeOK'
  <2>1. upload' \in [Uploads -> [status : UploadStatus, currentChunk : -1 .. MaxChunkIndex,
                                 fileLocation : Paths \union {NoPath}]]
    <3>1. CASE UpdateStatus(r)
      <4>1. upload \in [Uploads -> [status : UploadStatus, currentChunk : -1 .. MaxChunkIndex,
                                   fileLocation : Paths \union {NoPath}]]
        BY DEF PipeInv, PipelineTypeOK, TypeOK
      <4>2. upload' = [upload EXCEPT ![UploadOf(r)].status = "COMPLETED"]
        BY <3>1 DEF UpdateStatus, UploadOf
      <4>3. "COMPLETED" \in UploadStatus
        BY DEF UploadStatus
      <4>4. QED BY ONLY <4>1, <4>2, <4>3
    <3>2. CASE UpdateTxId(r) \/ UpdateReceipt(r)
      BY <3>2 DEF UpdateTxId, UpdateReceipt, vars, rows, PipeInv, PipelineTypeOK, TypeOK
    <3>3. QED BY <3>1, <3>2 DEF Landing
  <2>2. receipt' \in [Uploads -> ReceiptStatus]
    BY DEF Landing, UpdateTxId, UpdateStatus, UpdateReceipt, vars, rows,
           PipeInv, PipelineTypeOK, TypeOK, ReceiptStatus
  <2>3. QED
    BY <1>2, <2>1, <2>2 DEF PipeInv, PipelineTypeOK, TypeOK, disk, frame
<1>5. PipelineTypeOK'
  BY <1>0, <1>1, <1>2, <1>4
  DEF Landing, UpdateTxId, UpdateStatus, UpdateReceipt, PipeInv, PipelineTypeOK, UploadOf,
      feeWorker, incidents
<1>6. JobKnows(r)'
  BY <1>0, <1>1, <1>2 DEF PipeInv, JobKnows, frame, feeWorker, UploadOf
<1>7. CompletedIsPosted'
  <2>1. /\ \A u \in Uploads : receipt'[u] = "COMPLETED" => receipt[u] = "COMPLETED" \/ u = UploadOf(r)
        /\ txKnown' \subseteq txKnown \union {UploadOf(r)}
    BY <1>0 DEF Landing, UpdateTxId, UpdateStatus, UpdateReceipt, vars, rows, UploadOf,
                PipeInv, PipelineTypeOK, TypeOK
  <2>2. QED BY <1>0, <1>2, <2>1 DEF PipeInv, CompletedIsPosted
<1>8. QED
  <2>1. run'[r] \in Active => run[r] \in Active
    BY <1>2
  <2>2. UNCHANGED <<fee, feeRun>>
    BY <1>2 DEF feeWorker
  <2>3. QED
    BY <1>2, <1>3, <1>5, <1>6, <1>7, <2>1, <2>2, FeesKept, WorkerPreserves

LEMMA UnlinkFileStep ==
    ASSUME PipeInv, NEW r \in Requests, UnlinkFile(r) PROVE PipeInv'
<1>0. run[r] = "unlink" /\ run[r] \in Active /\ job[r] = "queued"
  BY JobShape DEF UnlinkFile, Active
<1>1. /\ run' \in [Requests -> Active \union {"waiting", "completed", "failed"}]
      /\ attempts' \in [Requests -> 0 .. MaxAttempts]
      /\ run'[r] \in {"charge", "waiting", "failed"}
      /\ run'[r] # "failed" => attempts'[r] < MaxAttempts
      /\ \A s \in Requests \ {r} : run'[s] = run[s] /\ attempts'[s] = attempts[s]
  <2>1. CASE RunTo(r, "charge") /\ UNCHANGED attempts
    BY <2>1, <1>0 DEF RunTo, PipeInv, PipelineTypeOK, JobKnows, Active
  <2>2. CASE FailAttempt(r)
    BY <2>2, <1>0, AttemptFails
  <2>3. QED BY <2>1, <2>2 DEF UnlinkFile
<1>2. WorkerFrame(r) /\ UNCHANGED <<rows, feeWorker, posted, txKnown, pending, stalls>>
  BY <1>1 DEF UnlinkFile, WorkerFrame, rows, feeWorker, incidents
<1>3. TypeOK'
  <2>1. file' \in [Paths -> {"absent", "empty", "torn", "whole"}]
    BY DEF UnlinkFile, PipeInv, PipelineTypeOK, TypeOK
  <2>2. QED
    BY <2>1 DEF UnlinkFile, PipeInv, PipelineTypeOK, TypeOK, rows, frame
<1>4. PipelineTypeOK'
  BY <1>1, <1>2, <1>3 DEF UnlinkFile, PipeInv, PipelineTypeOK, feeWorker, incidents
<1>5. JobKnows(r)'
  BY <1>0, <1>1, <1>2 DEF PipeInv, JobKnows, WorkerFrame, frame, UploadOf, Active
<1>6. CompletedIsPosted'
  BY <1>2 DEF PipeInv, CompletedIsPosted, rows
<1>7. QED
  BY <1>0, <1>2, <1>4, <1>5, <1>6, FeesKept, WorkerPreserves DEF feeWorker

LEMMA JobThrowsStep ==
    ASSUME PipeInv, NEW r \in Requests, JobThrows(r) PROVE PipeInv'
<1>0. run[r] \in Active /\ job[r] = "queued"
  BY JobShape DEF JobThrows, Active
<1>1. /\ run' \in [Requests -> Active \union {"waiting", "completed", "failed"}]
      /\ attempts' \in [Requests -> 0 .. MaxAttempts]
      /\ run'[r] \in {"waiting", "failed"}
      /\ run'[r] = "waiting" => attempts'[r] < MaxAttempts
      /\ \A s \in Requests \ {r} : run'[s] = run[s] /\ attempts'[s] = attempts[s]
  BY <1>0, AttemptFails DEF JobThrows
<1>2. WorkerFrame(r) /\ UNCHANGED <<vars, feeWorker, posted, txKnown, pending, stalls>>
  BY <1>1 DEF JobThrows, WorkerFrame, vars, rows, disk, feeWorker
<1>3. faults' \in 0 .. MaxFaults
  BY PipelineAssumption DEF JobThrows, PipeInv, PipelineTypeOK
<1>4. PipelineTypeOK'
  BY <1>1, <1>2, <1>3, TypeInvStutter DEF JobThrows, PipeInv, PipelineTypeOK, TypeInv, feeWorker
<1>5. JobKnows(r)'
  BY <1>0, <1>1, <1>2 DEF PipeInv, JobKnows, vars, frame, UploadOf, Active
<1>6. CompletedIsPosted'
  BY <1>2 DEF PipeInv, CompletedIsPosted, vars, rows
<1>7. QED
  BY <1>0, <1>2, <1>4, <1>5, <1>6, FeesKept, WorkerPreserves DEF feeWorker

\* The insert succeeds only for an upload without a fee row, so without a fee job.
LEMMA ChargeFeeStep ==
    ASSUME PipeInv, NEW r \in Requests, ChargeFee(r) PROVE PipeInv'
<1> DEFINE u == UploadOf(r)
<1>0. /\ run[r] = "charge" /\ run[r] \in Active /\ job[r] = "queued" /\ u \in Uploads
      /\ posted[u] > 0
  BY JobShape DEF ChargeFee, Active, PipeInv, JobKnows
<1>1. /\ run' \in [Requests -> Active \union {"waiting", "completed", "failed"}]
      /\ attempts' \in [Requests -> 0 .. MaxAttempts]
      /\ run'[r] \in {"settle", "waiting", "failed"}
      /\ run'[r] # "failed" => attempts'[r] < MaxAttempts
      /\ \A s \in Requests \ {r} : run'[s] = run[s] /\ attempts'[s] = attempts[s]
  <2>1. CASE RunTo(r, "settle") /\ UNCHANGED attempts
    BY <2>1, <1>0 DEF RunTo, PipeInv, PipelineTypeOK, JobKnows, Active
  <2>2. CASE FailAttempt(r)
    BY <2>2, <1>0, AttemptFails
  <2>3. QED BY <2>1, <2>2 DEF ChargeFee
<1>2. WorkerFrame(r) /\ UNCHANGED <<vars, posted, txKnown, pending, stalls, feeRun, feeStalls, debits>>
  BY <1>1 DEF ChargeFee, WorkerFrame, vars, rows, disk, incidents
<1>3. \/ UNCHANGED fee /\ run'[r] # "settle"
      \/ fee[u] = "NONE" /\ fee' = [fee EXCEPT ![u] = "PENDING"]
  <2>1. CASE fee[u] = "NONE"
    BY <2>1 DEF ChargeFee, UploadOf
  <2>2. CASE fee[u] # "NONE"
    <3>1. FailAttempt(r) /\ UNCHANGED fee
      BY <2>2 DEF ChargeFee, UploadOf
    <3>2. QED BY <3>1, <1>0, AttemptFails
  <2>3. QED BY <2>1, <2>2
<1>4. PipelineTypeOK'
  BY <1>0, <1>1, <1>2, <1>3, TypeInvStutter DEF ChargeFee, PipeInv, PipelineTypeOK, TypeInv, incidents
<1>5. \A v \in Uploads : FeeKnows(v)'
  BY <1>0, <1>2, <1>3 DEF PipeInv, PipelineTypeOK, FeeKnows
<1>6. JobKnows(r)'
  <2>1. run'[r] = "settle" => feeRun'[u] = "none" /\ fee'[u] # "NONE"
    BY <1>0, <1>2, <1>3 DEF PipeInv, PipelineTypeOK, FeeKnows
  <2>2. QED
    BY <1>0, <1>1, <1>2, <2>1 DEF PipeInv, JobKnows, vars, frame, UploadOf, Active
<1>7. CompletedIsPosted'
  BY <1>2 DEF PipeInv, CompletedIsPosted, vars, rows
<1>8. QED
  BY <1>0, <1>2, <1>4, <1>5, <1>6, <1>7, WorkerPreserves

\* The one job that is settled adds the one fee job of its upload.
LEMMA SettleJobStep ==
    ASSUME PipeInv, NEW r \in Requests, SettleJob(r) PROVE PipeInv'
<1> DEFINE u == UploadOf(r)
<1>0. /\ run[r] = "settle" /\ run[r] \in Active /\ job[r] = "queued" /\ u \in Uploads
      /\ feeRun[u] = "none" /\ fee[u] # "NONE"
  BY JobShape DEF SettleJob, Active, PipeInv, JobKnows
<1>1. /\ run'[r] = "completed"
      /\ \A s \in Requests \ {r} : run'[s] = run[s]
      /\ feeRun' = [feeRun EXCEPT ![u] = "adding"]
  BY DEF SettleJob, RunTo, FeeRunTo, UploadOf, PipeInv, PipelineTypeOK
<1>2. /\ WorkerFrame(r)
      /\ UNCHANGED <<vars, posted, txKnown, pending, stalls, attempts, fee, feeStalls, debits>>
  BY <1>1 DEF SettleJob, WorkerFrame, vars, rows, disk, incidents
<1>3. PipelineTypeOK'
  BY <1>0, <1>1, <1>2, TypeInvStutter
  DEF SettleJob, RunTo, PipeInv, PipelineTypeOK, TypeInv, incidents, Active
<1>4. \A v \in Uploads : FeeKnows(v)'
  BY <1>0, <1>1, <1>2 DEF PipeInv, PipelineTypeOK, FeeKnows, FeeActive
<1>5. JobKnows(r)'
  BY <1>0, <1>1, <1>2 DEF PipeInv, JobKnows, vars, frame, UploadOf, Active
<1>6. CompletedIsPosted'
  BY <1>2 DEF PipeInv, CompletedIsPosted, vars, rows
<1>7. QED
  BY <1>0, <1>2, <1>3, <1>4, <1>5, <1>6, WorkerPreserves

-----------------------------------------------------------------------------
(* Steps of the fee worker, crashes, and the theorems.                     *)

\* A step of the fee job of u keeps the invariant if it keeps the types and what is
\* known of the fee of u, and does not take back a fee row.
LEMMA FeePreserves ==
    ASSUME PipeInv, NEW u \in Uploads, feeRun[u] # "none",
           UNCHANGED <<vars, worker, feeStalls, crashes>>,
           \A v \in Uploads \ {u} : /\ fee'[v] = fee[v]
                                    /\ feeRun'[v] = feeRun[v]
                                    /\ debits'[v] = debits[v],
           PipelineTypeOK', FeeKnows(u)'
    PROVE  PipeInv'
<1>1. TriesLeft' /\ JobAfterHandler' /\ OneActive' /\ CompletedIsPosted'
  BY DEF PipeInv, TriesLeft, JobAfterHandler, OneActive, CompletedIsPosted,
         vars, rows, frame, worker
<1>2. \A v \in Uploads : FeeKnows(v)'
  BY DEF PipeInv, FeeKnows, worker
<1>3. \A r \in Requests : JobKnows(r)'
  <2> SUFFICES ASSUME NEW r \in Requests PROVE JobKnows(r)'
    OBVIOUS
  <2>1. /\ run'[r] = run[r] /\ attempts'[r] = attempts[r] /\ stalls'[r] = stalls[r]
        /\ pending'[r] = pending[r] /\ job'[r] = job[r]
        /\ UNCHANGED <<posted, call>>
    BY DEF worker, vars, frame
  <2>2. run[r] = "settle" => UploadOf(r) \in Uploads \ {u}
    BY JobShape DEF PipeInv, JobKnows
  <2>3. QED
    BY <2>1, <2>2 DEF PipeInv, JobKnows, UploadOf
<1>4. QED BY <1>1, <1>2, <1>3 DEF PipeInv

LEMMA FeeStep ==
    ASSUME PipeInv, NEW u \in Uploads, FeeWorker(u) \/ FeeThrows(u) PROVE PipeInv'
<1>0. feeRun[u] # "none"
  BY DEF FeeWorker, FeeJobAdded, TakeFeeJob, DebitFee, RecordDebit, FeeThrows, FeeActive
<1>1. UNCHANGED <<vars, worker, feeStalls, crashes>>
  BY DEF FeeWorker, FeeJobAdded, TakeFeeJob, DebitFee, RecordDebit, FeeThrows, incidents
<1>2. /\ feeRun' \in [Uploads -> FeeActive \union
                       {"none", "adding", "waiting", "completed", "failed", "lost"}]
      /\ fee' \in [Uploads -> {"NONE", "PENDING", "SUCCEEDED"}]
      /\ debits' \in [Uploads -> Nat]
      /\ faults' \in 0 .. MaxFaults
      /\ \A v \in Uploads \ {u} : /\ fee'[v] = fee[v]
                                  /\ feeRun'[v] = feeRun[v]
                                  /\ debits'[v] = debits[v]
      /\ FeeKnows(u)'
  <2> /\ feeRun \in [Uploads -> FeeActive \union
                       {"none", "adding", "waiting", "completed", "failed", "lost"}]
      /\ fee \in [Uploads -> {"NONE", "PENDING", "SUCCEEDED"}]
      /\ debits \in [Uploads -> Nat] /\ feeStalls \in [Uploads -> 0 .. MaxStalled + 1]
      /\ faults \in 0 .. MaxFaults
      /\ FeeKnows(u) /\ MaxStalled \in Nat
      /\ UNCHANGED <<feeStalls, posted>>
    BY <1>1, PipelineAssumption DEF PipeInv, PipelineTypeOK, worker
  <2>1. CASE FeeJobAdded(u) \/ TakeFeeJob(u)
    BY <2>1 DEF FeeJobAdded, TakeFeeJob, FeeRunTo, FeeKnows, FeeActive, incidents
  <2>2. CASE DebitFee(u)
    BY <2>2 DEF DebitFee, Debited, FeeFails, FeeRunTo, FeeKnows, FeeActive, incidents
  <2>3. CASE RecordDebit(u)
    BY <2>3 DEF RecordDebit, FeeRunTo, FeeKnows, FeeActive, incidents
  <2>4. CASE FeeThrows(u)
    <3>1. faults' \in 0 .. MaxFaults
      BY <2>4, PipelineAssumption DEF FeeThrows
    <3>2. QED
      BY <2>4, <3>1 DEF FeeThrows, Debited, FeeFails, FeeRunTo, FeeKnows, FeeActive
  <2>5. QED BY <2>1, <2>2, <2>3, <2>4 DEF FeeWorker
<1>3. PipelineTypeOK'
  BY <1>1, <1>2, TypeInvStutter DEF PipeInv, PipelineTypeOK, TypeInv, worker
<1>4. QED
  BY <1>0, <1>1, <1>2, <1>3, FeePreserves

\* A job found stalled once too often has failed, and no update survives.
LEMMA CrashStep == ASSUME PipeInv, Crash PROVE PipeInv'
<1>1. UNCHANGED <<vars, attempts, posted, txKnown, fee, debits, faults>>
  BY DEF Crash
<1>2. TriesLeft' /\ JobAfterHandler' /\ CompletedIsPosted'
  BY <1>1 DEF PipeInv, TriesLeft, JobAfterHandler, CompletedIsPosted, vars, rows, frame
<1>3. \A r \in Requests :
        /\ run'[r] = IF run[r] \in Active THEN AfterStall(stalls[r]) ELSE run[r]
        /\ stalls'[r] = IF run[r] \in Active THEN stalls[r] + 1 ELSE stalls[r]
        /\ pending'[r] = {}
  BY DEF Crash
<1>4. \A r \in Requests : JobKnows(r)' /\ run'[r] \notin Active
  <2> SUFFICES ASSUME NEW r \in Requests PROVE JobKnows(r)' /\ run'[r] \notin Active
    OBVIOUS
  <2>1. CASE run[r] \in Active
    <3>1. stalls[r] \in Nat /\ MaxStalled \in Nat
      BY PipelineAssumption DEF PipeInv, PipelineTypeOK
    <3>2. QED
      BY <1>1, <1>3, <2>1, <3>1 DEF AfterStall, PipeInv, JobKnows, UploadOf, Active, vars, frame
  <2>2. CASE run[r] \notin Active
    BY <1>1, <1>3, <2>2 DEF PipeInv, JobKnows, UploadOf, Active, vars, frame
  <2>3. QED BY <2>1, <2>2
<1>5. \A u \in Uploads :
        /\ feeRun[u] \in FeeActive =>
             feeRun'[u] = AfterStall(feeStalls[u]) /\ feeStalls'[u] = feeStalls[u] + 1
        /\ feeRun[u] = "adding" => feeRun'[u] = "lost" /\ feeStalls'[u] = feeStalls[u]
        /\ feeRun[u] \notin FeeActive \union {"adding"} =>
             feeRun'[u] = feeRun[u] /\ feeStalls'[u] = feeStalls[u]
  BY DEF Crash, FeeActive
<1>6. \A u \in Uploads : FeeKnows(u)'
  <2> SUFFICES ASSUME NEW u \in Uploads PROVE FeeKnows(u)'
    OBVIOUS
  <2>1. feeStalls[u] \in Nat /\ MaxStalled \in Nat /\ debits[u] \in Nat
    BY PipelineAssumption DEF PipeInv, PipelineTypeOK
  <2>2. FeeKnows(u) /\ UNCHANGED <<fee, debits, posted>>
    BY <1>1 DEF PipeInv
  <2>3. CASE feeRun[u] \in FeeActive
    BY <1>5, <2>1, <2>2, <2>3 DEF AfterStall, FeeKnows, FeeActive
  <2>4. CASE feeRun[u] \notin FeeActive
    BY <1>5, <2>1, <2>2, <2>4 DEF FeeKnows, FeeActive
  <2>5. QED BY <2>3, <2>4
<1>7. PipelineTypeOK'
  <2>1. TypeOK'
    BY <1>1, TypeInvStutter DEF PipeInv, PipelineTypeOK, TypeInv
  <2>2. /\ run' \in [Requests -> Active \union {"waiting", "completed", "failed"}]
        /\ stalls' \in [Requests -> 0 .. MaxStalled + 1]
        /\ pending' \in [Requests -> SUBSET Updates]
    <3>1. \A r \in Requests : run'[r] \in Active \union {"waiting", "completed", "failed"}
      BY <1>3 DEF AfterStall, PipeInv, PipelineTypeOK
    <3>2. \A r \in Requests : stalls'[r] \in 0 .. MaxStalled + 1
      BY <1>3, PipelineAssumption DEF PipeInv, PipelineTypeOK, JobKnows
    <3>3. QED BY <3>1, <3>2 DEF Crash
  <2>3. /\ feeRun' \in [Uploads -> FeeActive \union
                         {"none", "adding", "waiting", "completed", "failed", "lost"}]
        /\ feeStalls' \in [Uploads -> 0 .. MaxStalled + 1]
    <3>1. \A u \in Uploads : feeRun'[u] \in FeeActive \union
                              {"none", "adding", "waiting", "completed", "failed", "lost"}
      BY <1>5 DEF AfterStall, PipeInv, PipelineTypeOK
    <3>2. \A u \in Uploads : feeStalls'[u] \in 0 .. MaxStalled + 1
      BY <1>5, PipelineAssumption DEF PipeInv, PipelineTypeOK, FeeKnows
    <3>3. QED BY <3>1, <3>2 DEF Crash
  <2>4. crashes' \in 0 .. MaxCrashes
    BY PipelineAssumption DEF Crash, PipeInv, PipelineTypeOK
  <2>5. QED
    BY <1>1, <2>1, <2>2, <2>3, <2>4 DEF PipeInv, PipelineTypeOK
<1>8. QED BY <1>2, <1>4, <1>6, <1>7 DEF PipeInv, OneActive

LEMMA PipeNext == PipeInv /\ PipelineNext => PipeInv'
<1>1. ASSUME PipeInv, NEW r \in Requests, Worker(r) PROVE PipeInv'
  BY <1>1, TakeJobStep, ReadBundleStep, PostBundleStep, UnlinkFileStep, ChargeFeeStep, SettleJobStep
  DEF Worker
<1>2. QED
  BY <1>1, HandlersPreserve, LandingStep, PostThrowsStep, JobThrowsStep, FeeStep, CrashStep
  DEF PipelineNext

\* A stuttering step is the handlers' stuttering step.
LEMMA PipeStutter == PipeInv /\ UNCHANGED pipelineVars => PipeInv'
<1> SUFFICES ASSUME PipeInv, UNCHANGED pipelineVars PROVE PipeInv'
  OBVIOUS
<1>1. UNCHANGED <<vars, worker, feeWorker, incidents>>
  BY DEF pipelineVars
<1>2. TypeOK' /\ TriesLeft'
  BY <1>1, TypeInvStutter DEF PipeInv, PipelineTypeOK, TypeInv
<1>3. PipelineTypeOK'
  BY <1>1, <1>2 DEF PipeInv, PipelineTypeOK, worker, feeWorker, incidents
<1>4. QED
  BY <1>1, <1>2, <1>3 DEF PipeInv, JobAfterHandler, OneActive, JobKnows, FeeKnows, CompletedIsPosted,
     UploadOf, vars, rows, frame, worker, feeWorker

\* Whatever overlaps, throws, stops or crashes, the invariant holds.
THEOREM PipeInvHolds == PipelineSpec => []PipeInv
<1>1. PipeInv /\ [PipelineNext]_pipelineVars => PipeInv'
  BY PipeNext, PipeStutter
<1>2. QED BY PipeInit, <1>1, PTL DEF PipelineSpec

\* Types, attempts and stalls stay in their ranges.
THEOREM PipelineTypesHold == PipelineSpec => []PipelineTypeOK
<1>1. PipeInv => PipelineTypeOK
  BY DEF PipeInv
<1>2. QED BY <1>1, PipeInvHolds, PTL

\* Rows say COMPLETED, or name an Arweave id, only of bundles that were sent.
THEOREM CompletedIsPostedHolds == PipelineSpec => []CompletedIsPosted
<1>1. PipeInv => CompletedIsPosted
  BY DEF PipeInv
<1>2. QED BY <1>1, PipeInvHolds, PTL

-----------------------------------------------------------------------------
(* The payment ledger under the composition. The workers write the rows of *)
(* the handlers, but only those of uploads whose receipt was given, and    *)
(* they change neither a payment nor which uploads have a receipt.         *)

\* What the ledger is made of stays as it is.
RowsStand ==
    /\ UNCHANGED <<payment, pc, call, job>>
    /\ \A u \in Uploads : (receipt'[u] = "NONE") = (receipt[u] = "NONE")

LEMMA OffHandlers ==
    ASSUME PipeInv, LedgerInv, [PipelineNext]_pipelineVars
    PROVE  \/ Next /\ UNCHANGED <<worker, feeWorker, incidents>>
           \/ RowsStand
<1>1. ASSUME UNCHANGED <<payment, pc, call, job, receipt>> PROVE RowsStand
  BY <1>1 DEF RowsStand
<1>2. ASSUME NEW r \in Requests, Landing(r) PROVE RowsStand
  <2>1. CASE UpdateReceipt(r)
    <3>1. receipt[UploadOf(r)] # "NONE" /\ receipt' = [receipt EXCEPT ![UploadOf(r)] = "COMPLETED"]
      BY <2>1, JobShape DEF UpdateReceipt, LedgerInv, HolderHasReceipt, Holds, UploadOf
    <3>2. \A u \in Uploads : (receipt'[u] = "NONE") = (receipt[u] = "NONE")
      BY <3>1 DEF PipeInv, PipelineTypeOK, TypeOK
    <3>3. QED BY <2>1, <3>2 DEF UpdateReceipt, RowsStand, frame
  <2>2. CASE UpdateTxId(r) \/ UpdateStatus(r)
    BY <1>1, <2>2 DEF UpdateTxId, UpdateStatus, vars, rows, frame
  <2>3. QED BY <1>2, <2>1, <2>2 DEF Landing
<1>3. ASSUME NEW r \in Requests, Worker(r) \/ PostThrows(r) \/ JobThrows(r) PROVE RowsStand
  BY <1>1, <1>3 DEF Worker, TakeJob, ReadBundle, PostBundle, UnlinkFile, ChargeFee, SettleJob,
     PostThrows, JobThrows, vars, rows, frame
<1>4. ASSUME NEW u \in Uploads, FeeWorker(u) \/ FeeThrows(u) PROVE RowsStand
  BY <1>1, <1>4 DEF FeeWorker, FeeJobAdded, TakeFeeJob, DebitFee, RecordDebit, FeeThrows, vars, rows, frame
<1>5. CASE Crash \/ UNCHANGED pipelineVars
  BY <1>1, <1>5 DEF Crash, pipelineVars, vars, rows, frame
<1>6. QED
  BY <1>2, <1>3, <1>4, <1>5 DEF PipelineNext

LEMMA LedgerStands ==
    ASSUME PipeInv, LedgerInv, RowsStand
    PROVE  LedgerInv' /\ UNCHANGED <<Paid, Receipted, Jobs>>
<1>1. VerifiedCalls' /\ RecordedPays' /\ HashInOneRow' /\ PaidBeforeReceipt' /\ OneHolder'
      /\ JobAfterHandler'
  BY DEF RowsStand, LedgerInv, VerifiedCalls, RecordedPays, HashInOneRow,
     PaidBeforeReceipt, OneHolder, JobAfterHandler, Holds
<1>2. ReceiptNeedsPayment'
  BY DEF RowsStand, LedgerInv, ReceiptNeedsPayment
<1>3. HolderHasReceipt'
  <2>1. \A r \in Requests : pc[r] # "idle" => call[r].upload \in Uploads
    BY CallShape DEF PipeInv, PipelineTypeOK
  <2>2. QED BY <2>1 DEF RowsStand, LedgerInv, HolderHasReceipt, Holds
<1>4. UNCHANGED <<Paid, Receipted, Jobs>>
  BY DEF RowsStand, Paid, Receipted, Jobs
<1>5. QED BY <1>1, <1>2, <1>3, <1>4 DEF LedgerInv

LEMMA PipeTypeInv == PipeInv => TypeInv
BY DEF PipeInv, PipelineTypeOK, TypeInv

LEMMA PipeLedger == PipelineSpec => [](PipeInv /\ LedgerInv)
<1>1. PipelineInit => LedgerInv
  BY LedgerInvInit DEF PipelineInit
<1>2. PipeInv /\ LedgerInv /\ [PipelineNext]_pipelineVars => LedgerInv'
  BY OffHandlers, LedgerStands, PipeTypeInv, LedgerInvNext
<1>3. QED BY <1>1, <1>2, PipeInvHolds, PTL DEF PipelineSpec

\* At most one job is ever queued for an upload, with the workers running too.
THEOREM OneJobInPipeline == PipelineSpec => []OneJobPerUpload
<1>1. LedgerInv => OneJobPerUpload
  BY DEF LedgerInv, OneHolder, Holds, OneJobPerUpload
<1>2. QED BY <1>1, PipeLedger, PTL

\* Every receipt, PAID or COMPLETED, is for an upload with a recorded transfer that pays
\* for it, whatever the workers write into the rows.
THEOREM ReceiptIsPaidInPipeline == PipelineSpec => []ReceiptIsPaid
<1>1. LedgerInv => ReceiptIsPaid
  BY DEF LedgerInv, ReceiptNeedsPayment, RecordedPays, ReceiptIsPaid
<1>2. QED BY <1>1, PipeLedger, PTL

\* Handlers and workers together implement the payment ledger: a step of a worker, an
\* update that lands late, an error and a crash are all steps the ledger does not see.
THEOREM PipelineImplementsLedger == PipelineSpec => ImplementsLedger
<1>1. PipelineInit => Ledger!Init
  BY DEF PipelineInit, Init, Ledger!Init
<1>2. PipeInv /\ LedgerInv /\ [PipelineNext]_pipelineVars => [Ledger!Next]_(Ledger!vars)
  <2>1. Amending => Ledger!Next
    BY DEF Amending, Ledger!Next
  <2>2. QED
    BY <2>1, OffHandlers, LedgerStands, PipeTypeInv, LedgerStep
    DEF Ledger!Next, Ledger!vars, Paid, Receipted, Jobs
<1>3. QED
  BY <1>1, <1>2, PipeLedger, PTL DEF PipelineSpec, ImplementsLedger, Ledger!Spec

-----------------------------------------------------------------------------
(* What is spent on an upload. It has one job at most, so what is sent for *)
(* it is counted by the attempts and stalls of that job.                   *)

\* A job sends its bundle once for each time it failed or stalled, and once more while
\* it is past its upload.
Spends(r) ==
    job[r] = "queued" =>
        LET sent == posted[UploadOf(r)]
            spent == attempts[r] + stalls[r]
        IN  /\ run[r] \in {"waiting", "read", "post"} => sent <= spent
            /\ sent <= 1 + spent
            /\ sent <= MaxAttempts + MaxStalled

\* What was sent was sent for a job in the queue.
SentHasJob ==
    \A u \in Uploads : posted[u] > 0 => \E r \in Requests : job[r] = "queued" /\ UploadOf(r) = u

SpendInv == LedgerInv /\ (\A r \in Requests : Spends(r)) /\ SentHasJob

LEMMA SpendInit == PipelineInit => SpendInv
BY LedgerInvInit DEF PipelineInit, Init, SpendInv, Spends, SentHasJob

\* The numbers of a job, and the range they are in while it may run.
LEMMA JobNumbers ==
    ASSUME PipeInv, NEW r \in Requests, job[r] = "queued"
    PROVE  /\ posted[UploadOf(r)] \in Nat /\ attempts[r] \in Nat /\ stalls[r] \in Nat
           /\ MaxAttempts \in Nat /\ MaxStalled \in Nat
           /\ run[r] \in Active \union {"waiting"}
                => attempts[r] + 1 <= MaxAttempts /\ stalls[r] <= MaxStalled
BY JobShape, PipelineAssumption DEF PipeInv, PipelineTypeOK, JobKnows

\* A step of the job r leaves the other jobs alone, which are jobs of other uploads.
LEMMA SpendPreserves ==
    ASSUME PipeInv, SpendInv, RowsStand, NEW r \in Requests, job[r] = "queued",
           \A s \in Requests \ {r} : /\ run'[s] = run[s]
                                     /\ attempts'[s] = attempts[s]
                                     /\ stalls'[s] = stalls[s],
           \A u \in Uploads \ {UploadOf(r)} : posted'[u] = posted[u],
           Spends(r)'
    PROVE  SpendInv'
<1>1. LedgerInv'
  BY LedgerStands DEF SpendInv
<1>2. ASSUME NEW s \in Requests PROVE Spends(s)'
  <2>1. CASE s # r /\ job[s] = "queued"
    <3>1. UploadOf(s) \in Uploads \ {UploadOf(r)}
      BY <2>1, JobShape DEF SpendInv, LedgerInv, OneHolder, Holds, UploadOf
    <3>2. QED
      BY <2>1, <3>1 DEF SpendInv, Spends, RowsStand, UploadOf
  <2>2. CASE job[s] # "queued"
    BY <2>2 DEF Spends, RowsStand
  <2>3. QED BY <2>1, <2>2
<1>3. SentHasJob'
  BY DEF SpendInv, SentHasJob, RowsStand, UploadOf
<1>4. QED BY <1>1, <1>2, <1>3 DEF SpendInv

\* A failed attempt pays for what was sent in it.
LEMMA SpendFails ==
    ASSUME PipeInv, SpendInv, RowsStand, NEW r \in Requests, job[r] = "queued", run[r] \in Active,
           FailAttempt(r), UNCHANGED stalls,
           \/ UNCHANGED posted
           \/ run[r] = "post" /\ Sent(r)
    PROVE  SpendInv'
<1>1. /\ attempts'[r] = attempts[r] + 1 /\ run'[r] \in {"waiting", "failed"}
      /\ \A s \in Requests \ {r} : run'[s] = run[s] /\ attempts'[s] = attempts[s]
  BY DEF FailAttempt, RunTo, PipeInv, PipelineTypeOK
<1>2. /\ posted'[UploadOf(r)] <= 1 + attempts[r] + stalls[r] /\ posted'[UploadOf(r)] \in Nat
      /\ \A u \in Uploads \ {UploadOf(r)} : posted'[u] = posted[u]
  BY JobNumbers, JobShape DEF SpendInv, Spends, Sent, UploadOf, PipeInv, PipelineTypeOK
<1>3. Spends(r)'
  BY <1>1, <1>2, JobNumbers DEF Spends, RowsStand, UploadOf
<1>4. QED BY <1>1, <1>2, <1>3, SpendPreserves

\* A step that is not the last of an attempt sends at most once.
LEMMA SpendMoves ==
    ASSUME PipeInv, SpendInv, RowsStand, NEW r \in Requests, job[r] = "queued",
           run[r] \in Active \union {"waiting"}, NEW s, RunTo(r, s), UNCHANGED <<attempts, stalls>>,
           \/ run[r] \in {"waiting", "read"} /\ UNCHANGED posted
           \/ run[r] = "post" /\ Sent(r) /\ s \notin {"waiting", "read", "post"}
           \/ run[r] \in {"unlink", "charge", "settle"} /\ UNCHANGED posted
              /\ s \notin {"waiting", "read", "post"}
    PROVE  SpendInv'
<1>1. run'[r] = s /\ \A q \in Requests \ {r} : run'[q] = run[q]
  BY DEF RunTo, PipeInv, PipelineTypeOK
<1>2. \A u \in Uploads \ {UploadOf(r)} : posted'[u] = posted[u]
  BY DEF Sent, UploadOf, PipeInv, PipelineTypeOK
<1>3. Spends(r)'
  <2>1. CASE UNCHANGED posted
    BY <1>1, <2>1, JobNumbers DEF SpendInv, Spends, RowsStand, UploadOf
  <2>2. CASE run[r] = "post" /\ Sent(r)
    <3>1. posted'[UploadOf(r)] = posted[UploadOf(r)] + 1
      BY <2>2, JobShape DEF Sent, UploadOf, PipeInv, PipelineTypeOK
    <3>2. QED
      BY <1>1, <2>2, <3>1, JobNumbers DEF SpendInv, Spends, RowsStand, UploadOf
  <2>3. QED BY <2>1, <2>2
<1>4. QED BY <1>1, <1>2, <1>3, SpendPreserves

LEMMA SpendJob ==
    ASSUME PipeInv, SpendInv, RowsStand, NEW r \in Requests,
           Worker(r) \/ PostThrows(r) \/ JobThrows(r)
    PROVE  SpendInv'
<1>1. CASE TakeJob(r)
  BY <1>1, SpendMoves DEF TakeJob
<1>2. CASE ReadBundle(r)
  BY <1>2, JobShape, SpendMoves, SpendFails DEF ReadBundle, Active
<1>3. CASE PostBundle(r)
  BY <1>3, JobShape, SpendMoves DEF PostBundle, Active
<1>4. CASE UnlinkFile(r)
  BY <1>4, JobShape, SpendMoves, SpendFails DEF UnlinkFile, Active
<1>5. CASE ChargeFee(r)
  BY <1>5, JobShape, SpendMoves, SpendFails DEF ChargeFee, Active
<1>6. CASE SettleJob(r)
  BY <1>6, JobShape, SpendMoves DEF SettleJob, Active
<1>7. CASE PostThrows(r)
  BY <1>7, JobShape, SpendFails DEF PostThrows, Active
<1>8. CASE JobThrows(r)
  BY <1>8, JobShape, SpendFails DEF JobThrows, Active
<1>9. QED
  BY <1>1, <1>2, <1>3, <1>4, <1>5, <1>6, <1>7, <1>8 DEF Worker

\* A job that stalls pays for what was sent with the stall.
LEMMA SpendCrash == ASSUME PipeInv, SpendInv, RowsStand, Crash PROVE SpendInv'
<1>1. ASSUME NEW r \in Requests, job[r] = "queued" PROVE Spends(r)'
  <2>1. UNCHANGED <<attempts, posted, call>>
    BY DEF Crash, RowsStand
  <2>2. CASE run[r] \in Active
    <3>1. stalls'[r] = stalls[r] + 1
      BY <2>2 DEF Crash
    <3>2. QED
      BY <1>1, <2>1, <2>2, <3>1, JobNumbers DEF SpendInv, Spends, UploadOf
  <2>3. CASE run[r] \notin Active
    <3>1. stalls'[r] = stalls[r] /\ run'[r] = run[r]
      BY <2>3 DEF Crash
    <3>2. QED BY <1>1, <2>1, <3>1 DEF SpendInv, Spends, UploadOf
  <2>4. QED BY <2>2, <2>3
<1>2. SentHasJob'
  BY DEF SpendInv, SentHasJob, RowsStand, Crash, UploadOf
<1>3. LedgerInv'
  BY LedgerStands DEF SpendInv
<1>4. QED BY <1>1, <1>2, <1>3 DEF SpendInv, Spends, RowsStand

\* A job that enters the queue is the first one of its upload, so nothing was sent yet.
LEMMA SpendHandlers ==
    ASSUME PipeInv, SpendInv, Next, UNCHANGED <<worker, feeWorker, incidents>>
    PROVE  SpendInv'
<1>0. TypeOK /\ JobAfterHandler /\ UNCHANGED <<run, attempts, stalls, posted>>
  BY DEF PipeInv, PipelineTypeOK, worker
<1>1. LedgerInv'
  BY PipeTypeInv, LedgerInvNext DEF SpendInv
<1>2. \A r \in Requests : job'[r] = "queued" => job[r] \in {"adding", "queued"}
  BY <1>0, FaultyAssumption
  DEF TypeOK, Next, Handler, CreatePayment, CreateUpload, BeginSingle, BeginChunk, Verify,
      VerifyConfirms, VerifyDenies, VerifyThrows, WriteChunk, ReadUpload, OpenBin, PumpEnds,
      PumpBreaks, AdvanceChunk, CompleteUpload, CreateReceipt, FindReceipt, RecordPayment,
      RecordLocation, IssueReceipt, Enqueue, JobAdded, Stop, JobLost
<1>3. ASSUME NEW r \in Requests, job'[r] = "queued" PROVE Spends(r)'
  <2>1. job[r] # "none" /\ call'[r] = call[r]
    BY <1>0, <1>2, <1>3, HandlerStep
  <2>2. CASE job[r] = "queued"
    BY <1>0, <2>1, <2>2 DEF SpendInv, Spends, UploadOf
  <2>3. CASE job[r] = "adding"
    <3>1. UploadOf(r) \in Uploads
      BY <1>0, <2>1, CallShape DEF JobAfterHandler, UploadOf
    <3>2. ~(posted[UploadOf(r)] > 0)
      BY <2>3, <3>1 DEF SpendInv, SentHasJob, LedgerInv, OneHolder, Holds, UploadOf
    <3>3. posted[UploadOf(r)] = 0 /\ attempts[r] \in Nat /\ stalls[r] \in Nat
      BY <3>1, <3>2, PipelineAssumption DEF PipeInv, PipelineTypeOK
    <3>4. QED
      BY <1>0, <2>1, <3>3, PipelineAssumption DEF Spends, UploadOf
  <2>4. QED BY <1>2, <1>3, <2>2, <2>3
<1>4. SentHasJob'
  BY <1>0, HandlerStep DEF SpendInv, SentHasJob, UploadOf
<1>5. QED BY <1>1, <1>3, <1>4 DEF SpendInv, Spends

LEMMA SpendInvHolds == PipelineSpec => [](PipeInv /\ SpendInv)
<1>1. PipeInv /\ SpendInv /\ [PipelineNext]_pipelineVars => SpendInv'
  <2> SUFFICES ASSUME PipeInv, SpendInv, [PipelineNext]_pipelineVars PROVE SpendInv'
    OBVIOUS
  <2>1. CASE Next /\ UNCHANGED <<worker, feeWorker, incidents>>
    BY <2>1, SpendHandlers
  <2>2. CASE RowsStand /\ UNCHANGED <<run, attempts, stalls, posted>>
    BY <2>2, LedgerStands DEF SpendInv, Spends, SentHasJob, RowsStand, UploadOf
  <2>3. CASE RowsStand
    <3>1. ASSUME NEW r \in Requests, Landing(r) PROVE SpendInv'
      BY <2>2, <2>3, <3>1 DEF Landing, UpdateTxId, UpdateStatus, UpdateReceipt
    <3>2. ASSUME NEW u \in Uploads, FeeWorker(u) \/ FeeThrows(u) PROVE SpendInv'
      BY <2>2, <2>3, <3>2 DEF FeeWorker, FeeJobAdded, TakeFeeJob, DebitFee, RecordDebit, FeeThrows, worker
    <3>3. CASE UNCHANGED pipelineVars
      BY <2>2, <2>3, <3>3 DEF pipelineVars, worker
    <3>4. QED
      BY <2>1, <2>3, <3>1, <3>2, <3>3, SpendJob, SpendCrash DEF PipelineNext
  <2>4. QED BY <2>1, <2>3, OffHandlers DEF SpendInv
<1>2. QED BY SpendInit, <1>1, PipeInvHolds, PTL DEF PipelineSpec

\* Whatever overlaps, fails, stalls and crashes, a bundle is sent to Arweave at most once
\* per attempt and stall of one job, and its fee is debited at most once more than its
\* fee job may stall.
THEOREM SpendingBoundedHolds == PipelineSpec => []SpendingBounded
<1>1. PipeInv /\ SpendInv => SpendingBounded
  <2> SUFFICES ASSUME PipeInv, SpendInv, NEW u \in Uploads
      PROVE  posted[u] <= MaxAttempts + MaxStalled
    BY DEF SpendingBounded, PipeInv, FeeKnows
  <2>1. CASE posted[u] > 0
    BY <2>1 DEF SpendInv, SentHasJob, Spends
  <2>2. CASE ~(posted[u] > 0)
    BY <2>2, PipelineAssumption DEF PipeInv, PipelineTypeOK
  <2>3. QED BY <2>1, <2>2
<1>2. QED BY <1>1, SpendInvHolds, PTL

\* Nothing is sent to Arweave, and no fee is charged or debited, for an upload without a
\* receipt and a recorded transfer that pays for it.
THEOREM SpendingIsEarnedHolds == PipelineSpec => []SpendingIsEarned
<1>1. PipeInv /\ SpendInv => SpendingIsEarned
  <2> SUFFICES ASSUME PipeInv, SpendInv, NEW u \in Uploads
      PROVE  /\ posted[u] > 0 => receipt[u] # "NONE" /\ <<payment[u].hash, u>> \in Pays
             /\ fee[u] # "NONE" => posted[u] > 0
             /\ debits[u] > 0 => fee[u] # "NONE"
             /\ fee[u] = "SUCCEEDED" => debits[u] > 0
    BY DEF SpendingIsEarned
  <2>1. posted[u] > 0 => receipt[u] # "NONE"
    BY DEF SpendInv, SentHasJob, LedgerInv, HolderHasReceipt, Holds, UploadOf
  <2>2. receipt[u] # "NONE" => <<payment[u].hash, u>> \in Pays
    BY DEF SpendInv, LedgerInv, ReceiptNeedsPayment, RecordedPays
  <2>3. debits[u] \in Nat
    BY DEF PipeInv, PipelineTypeOK
  <2>4. QED BY <2>1, <2>2, <2>3 DEF PipeInv, FeeKnows
<1>2. QED BY <1>1, SpendInvHolds, PTL

-----------------------------------------------------------------------------
(* Jobs come to an end. Each attempt is a few steps; an error costs an     *)
(* attempt and a crash a stall, and both run out.                          *)

StagesLeft(s) ==
    CASE s = "waiting" -> 6 [] s = "read" -> 5 [] s = "post" -> 4 [] s = "unlink" -> 3
      [] s = "charge" -> 2 [] s = "settle" -> 1 [] OTHER -> 0

JobStepsLeft(r) ==
    7 * (MaxAttempts - attempts[r] + MaxStalled + 1 - stalls[r]) + StagesLeft(run[r])

FeeStagesLeft(s) ==
    CASE s = "none" -> 5 [] s = "adding" -> 4 [] s = "waiting" -> 3 [] s = "debit" -> 2
      [] s = "record" -> 1 [] OTHER -> 0

FeeStepsLeft(u) == 4 * (MaxStalled + 1 - feeStalls[u]) + FeeStagesLeft(feeRun[u])

\* What a step does to a job brings it nearer to its end.
JobsRunOut ==
    /\ \A r \in Requests : \/ UNCHANGED <<run[r], attempts[r], stalls[r]>>
                           \/ JobStepsLeft(r)' < JobStepsLeft(r)
    /\ \A u \in Uploads : \/ UNCHANGED <<feeRun[u], feeStalls[u]>>
                          \/ FeeStepsLeft(u)' < FeeStepsLeft(u)

\* There is an end to come nearer to.
StepsAreCounted ==
    /\ \A r \in Requests : JobStepsLeft(r) \in Nat
    /\ \A u \in Uploads : FeeStepsLeft(u) \in Nat

LEMMA CountsAreNatural == PipeInv => StepsAreCounted
<1> SUFFICES ASSUME PipeInv PROVE StepsAreCounted
  OBVIOUS
<1>1. ASSUME NEW r \in Requests PROVE JobStepsLeft(r) \in Nat
  <2>1. MaxAttempts - attempts[r] \in Nat /\ MaxStalled + 1 - stalls[r] \in Nat
    BY PipelineAssumption DEF PipeInv, PipelineTypeOK
  <2>2. StagesLeft(run[r]) \in Nat
    BY DEF StagesLeft
  <2>3. QED BY <2>1, <2>2, PipelineAssumption DEF JobStepsLeft, PipeInv, PipelineTypeOK
<1>2. ASSUME NEW u \in Uploads PROVE FeeStepsLeft(u) \in Nat
  <2>1. MaxStalled + 1 - feeStalls[u] \in Nat
    BY PipelineAssumption DEF PipeInv, PipelineTypeOK
  <2>2. FeeStagesLeft(feeRun[u]) \in Nat
    BY DEF FeeStagesLeft
  <2>3. QED BY <2>1, <2>2 DEF FeeStepsLeft
<1>3. QED BY <1>1, <1>2 DEF StepsAreCounted

\* A job moves on within its attempt, or fails it.
LEMMA JobMoves ==
    ASSUME PipeInv, NEW r \in Requests, run[r] \in Active \union {"waiting"},
           UNCHANGED <<stalls, feeRun, feeStalls>>,
           \/ FailAttempt(r) /\ run[r] # "waiting"
           \/ UNCHANGED attempts /\ \E s : RunTo(r, s) /\ StagesLeft(s) < StagesLeft(run[r])
    PROVE  JobsRunOut
<1>1. attempts[r] \in Nat /\ stalls[r] \in Nat /\ MaxAttempts \in Nat /\ MaxStalled \in Nat
  BY PipelineAssumption DEF PipeInv, PipelineTypeOK
<1>2. CASE FailAttempt(r) /\ run[r] # "waiting"
  <2>1. /\ attempts'[r] = attempts[r] + 1 /\ run'[r] \in {"waiting", "failed"}
        /\ \A s \in Requests \ {r} : run'[s] = run[s] /\ attempts'[s] = attempts[s]
    BY <1>1, <1>2 DEF FailAttempt, RunTo, PipeInv, PipelineTypeOK
  <2>2. /\ StagesLeft(run'[r]) <= 6 /\ StagesLeft(run[r]) >= 1
        /\ StagesLeft(run'[r]) \in Nat /\ StagesLeft(run[r]) \in Nat
    BY <1>2, <2>1 DEF StagesLeft, Active
  <2>3. JobStepsLeft(r)' < JobStepsLeft(r)
    BY <1>1, <2>1, <2>2 DEF JobStepsLeft
  <2>4. QED BY <2>1, <2>3 DEF JobsRunOut
<1>3. ASSUME UNCHANGED attempts, NEW s, RunTo(r, s), StagesLeft(s) < StagesLeft(run[r])
      PROVE  JobsRunOut
  <2>1. run'[r] = s /\ \A q \in Requests \ {r} : run'[q] = run[q]
    BY <1>3 DEF RunTo, PipeInv, PipelineTypeOK
  <2>2. StagesLeft(s) \in Nat /\ StagesLeft(run[r]) \in Nat
    BY DEF StagesLeft
  <2>3. JobStepsLeft(r)' < JobStepsLeft(r)
    BY <1>1, <1>3, <2>1, <2>2 DEF JobStepsLeft
  <2>4. QED BY <1>3, <2>1, <2>3 DEF JobsRunOut
<1>4. QED BY <1>2, <1>3

\* The same of a fee job, which an error ends at once.
LEMMA FeeMoves ==
    ASSUME PipeInv, NEW u \in Uploads, UNCHANGED <<attempts, stalls, feeStalls>>,
           UNCHANGED run \/ \E r \in Requests : \E s : RunTo(r, s) /\ StagesLeft(s) < StagesLeft(run[r]),
           NEW t, FeeRunTo(u, t), FeeStagesLeft(t) < FeeStagesLeft(feeRun[u])
    PROVE  JobsRunOut
<1>1. \A r \in Requests : /\ attempts[r] \in Nat /\ stalls[r] \in Nat
                          /\ StagesLeft(run[r]) \in Nat /\ StagesLeft(run'[r]) \in Nat
  BY PipelineAssumption DEF PipeInv, PipelineTypeOK, StagesLeft
<1>2. MaxAttempts \in Nat /\ MaxStalled \in Nat
  BY PipelineAssumption
<1>3. ASSUME NEW r \in Requests, ~UNCHANGED run[r] PROVE JobStepsLeft(r)' < JobStepsLeft(r)
  <2>1. StagesLeft(run'[r]) < StagesLeft(run[r])
    BY <1>3 DEF RunTo, PipeInv, PipelineTypeOK
  <2>2. QED BY <1>1, <1>2, <2>1 DEF JobStepsLeft
<1>4. feeRun'[u] = t /\ \A v \in Uploads \ {u} : feeRun'[v] = feeRun[v]
  BY DEF FeeRunTo, PipeInv, PipelineTypeOK
<1>5. feeStalls[u] \in Nat /\ FeeStagesLeft(t) \in Nat /\ FeeStagesLeft(feeRun[u]) \in Nat
  BY DEF PipeInv, PipelineTypeOK, FeeStagesLeft
<1>6. FeeStepsLeft(u)' < FeeStepsLeft(u)
  BY <1>2, <1>4, <1>5 DEF FeeStepsLeft
<1>7. QED BY <1>3, <1>4, <1>6 DEF JobsRunOut

LEMMA CrashRunsOut == ASSUME PipeInv, Crash PROVE JobsRunOut
<1>1. ASSUME NEW r \in Requests, run[r] \in Active PROVE JobStepsLeft(r)' < JobStepsLeft(r)
  <2>1. stalls'[r] = stalls[r] + 1 /\ attempts'[r] = attempts[r] /\ run'[r] \in {"waiting", "failed"}
    BY <1>1 DEF Crash, AfterStall
  <2>2. /\ StagesLeft(run'[r]) <= 6 /\ StagesLeft(run[r]) >= 1
        /\ StagesLeft(run'[r]) \in Nat /\ StagesLeft(run[r]) \in Nat
    BY <1>1, <2>1 DEF StagesLeft, Active
  <2>3. attempts[r] \in Nat /\ stalls[r] \in Nat /\ MaxAttempts \in Nat /\ MaxStalled \in Nat
    BY PipelineAssumption DEF PipeInv, PipelineTypeOK
  <2>4. QED BY <2>1, <2>2, <2>3 DEF JobStepsLeft
<1>2. ASSUME NEW r \in Requests, run[r] \notin Active PROVE UNCHANGED <<run[r], attempts[r], stalls[r]>>
  BY <1>2 DEF Crash
<1>3. ASSUME NEW u \in Uploads
      PROVE  UNCHANGED <<feeRun[u], feeStalls[u]>> \/ FeeStepsLeft(u)' < FeeStepsLeft(u)
  <2>1. feeStalls[u] \in Nat /\ MaxStalled \in Nat
    BY PipelineAssumption DEF PipeInv, PipelineTypeOK
  <2>2. CASE feeRun[u] \in FeeActive
    <3>1. /\ feeStalls'[u] = feeStalls[u] + 1
          /\ feeRun'[u] = "waiting" \/ feeRun'[u] = "failed"
          /\ feeRun[u] = "debit" \/ feeRun[u] = "record"
      BY <2>2 DEF Crash, AfterStall, FeeActive
    <3>2. /\ FeeStagesLeft(feeRun'[u]) <= 3 /\ FeeStagesLeft(feeRun[u]) >= 1
          /\ FeeStagesLeft(feeRun'[u]) \in Nat /\ FeeStagesLeft(feeRun[u]) \in Nat
      BY <3>1 DEF FeeStagesLeft
    <3>3. QED BY <2>1, <3>1, <3>2 DEF FeeStepsLeft
  <2>3. CASE feeRun[u] = "adding"
    <3>1. feeStalls'[u] = feeStalls[u] /\ feeRun'[u] = "lost"
      BY <2>3 DEF Crash, FeeActive
    <3>2. QED BY <2>1, <2>3, <3>1 DEF FeeStepsLeft, FeeStagesLeft
  <2>4. CASE feeRun[u] \notin FeeActive \union {"adding"}
    BY <2>4 DEF Crash
  <2>5. QED BY <2>2, <2>3, <2>4
<1>4. QED BY <1>1, <1>2, <1>3 DEF JobsRunOut

\* Every step of a job, and of the fee job it leaves behind, brings it nearer to its end,
\* whatever throws or crashes: a job is tried, resumed and moved on a bounded number of
\* times.
THEOREM JobStepsRunOut == PipelineSpec => []StepsAreCounted /\ [][JobsRunOut]_pipelineVars
<1>1. ASSUME PipeInv, PipelineNext PROVE JobsRunOut
  <2>1. CASE UNCHANGED <<run, attempts, stalls, feeRun, feeStalls>>
    BY <2>1 DEF JobsRunOut
  <2>2. ASSUME NEW r \in Requests, Worker(r) PROVE JobsRunOut
    <3>1. CASE TakeJob(r)
      BY <1>1, <3>1, JobMoves DEF TakeJob, StagesLeft, feeWorker
    <3>2. CASE ReadBundle(r)
      BY <1>1, <3>2, JobMoves DEF ReadBundle, StagesLeft, feeWorker, Active
    <3>3. CASE PostBundle(r)
      BY <1>1, <3>3, JobMoves DEF PostBundle, StagesLeft, feeWorker, Active
    <3>4. CASE UnlinkFile(r)
      BY <1>1, <3>4, JobMoves DEF UnlinkFile, StagesLeft, feeWorker, Active
    <3>5. CASE ChargeFee(r)
      BY <1>1, <3>5, JobMoves DEF ChargeFee, StagesLeft, Active
    <3>6. CASE SettleJob(r)
      <4>1. feeRun[UploadOf(r)] = "none" /\ UploadOf(r) \in Uploads
        BY <1>1, <3>6, JobShape DEF SettleJob, PipeInv, JobKnows
      <4>2. QED
        BY <1>1, <3>6, <4>1, FeeMoves DEF SettleJob, StagesLeft, FeeStagesLeft, UploadOf
    <3>7. QED BY <2>2, <3>1, <3>2, <3>3, <3>4, <3>5, <3>6 DEF Worker
  <2>3. ASSUME NEW r \in Requests, PostThrows(r) \/ JobThrows(r) PROVE JobsRunOut
    BY <1>1, <2>3, JobMoves DEF PostThrows, JobThrows, feeWorker, Active
  <2>4. ASSUME NEW r \in Requests, Landing(r) PROVE JobsRunOut
    BY <2>1, <2>4 DEF Landing, UpdateTxId, UpdateStatus, UpdateReceipt, feeWorker
  <2>5. ASSUME NEW u \in Uploads, FeeWorker(u) \/ FeeThrows(u) PROVE JobsRunOut
    <3>1. UNCHANGED <<run, attempts, stalls, feeStalls>>
      BY <2>5 DEF FeeWorker, FeeJobAdded, TakeFeeJob, DebitFee, RecordDebit, FeeThrows, worker
    <3>2. \E t : FeeRunTo(u, t) /\ FeeStagesLeft(t) < FeeStagesLeft(feeRun[u])
      BY <2>5 DEF FeeWorker, FeeJobAdded, TakeFeeJob, DebitFee, RecordDebit, FeeThrows, FeeFails,
         FeeActive, FeeStagesLeft
    <3>3. QED BY <1>1, <3>1, <3>2, FeeMoves
  <2>6. QED
    BY <1>1, <2>1, <2>2, <2>3, <2>4, <2>5, CrashRunsOut DEF PipelineNext, worker, feeWorker
<1>2. PipeInv /\ [PipelineNext]_pipelineVars => [JobsRunOut]_pipelineVars
  BY <1>1
<1>3. QED BY <1>2, CountsAreNatural, PipeInvHolds, PTL DEF PipelineSpec

-----------------------------------------------------------------------------
(* One call per upload at a time. What the calls know is true in the       *)
(* composition too: a worker acts on an upload only once its receipt was   *)
(* given, and it removes a bundle only once it was sent.                   *)

TidyInv == LedgerInv /\ SequentialInv /\ CallsKnow /\ BundleKept

LEMMA TidyInit == PipelineInit => TidyInv
<1> SUFFICES ASSUME PipelineInit PROVE TidyInv
  OBVIOUS
<1>1. Init
  BY DEF PipelineInit
<1>2. BundleKept
  BY <1>1 DEF Init, BundleKept
<1>3. QED
  BY <1>1, <1>2, LedgerInvInit, SequentialInit, FilesInit DEF TidyInv, FilesInv

LEMMA TidyHandlers ==
    ASSUME MaxInFlight = 1, PipeInv, TidyInv, Next, UNCHANGED posted
    PROVE  TidyInv'
<1>1. TypeInv /\ TypeOK /\ JobAfterHandler
  BY DEF PipeInv, PipelineTypeOK, TypeInv
<1>2. LedgerInv' /\ SequentialInv'
  BY <1>1, LedgerInvNext, SequentialNext DEF TidyInv
<1>3. FilesKept
  BY <1>1, FilesNext DEF TidyInv
<1>4. BundleKept'
  <2> SUFFICES ASSUME NEW r \in Requests, job'[r] # "none", posted'[call'[r].upload] = 0
      PROVE  file'[PathOf(r)'] = "whole"
    BY DEF BundleKept
  <2>1. BundleSafe(r)
    <3>1. CASE job[r] = "none"
      BY <3>1 DEF BundleSafe
    <3>2. CASE job[r] # "none"
      <4>1. call'[r] = call[r]
        BY <1>1, <3>2, HandlerStep
      <4>2. QED
        BY <3>2, <4>1 DEF TidyInv, BundleKept, BundleSafe
    <3>3. QED BY <3>1, <3>2
  <2>2. QED
    BY <1>3, <2>1 DEF FilesKept, BundleSafe
<1>5. QED
  BY <1>2, <1>3, <1>4 DEF TidyInv, FilesKept

\* A step that leaves the rows, the files and the calls alone.
LEMMA TidyQuiet ==
    ASSUME PipeInv, TidyInv, UNCHANGED vars, posted' \in [Uploads -> Nat],
           \A u \in Uploads : posted[u] > 0 => posted'[u] > 0
    PROVE  TidyInv'
<1>1. LedgerInv' /\ SequentialInv'
  BY LedgerInvStutter, SequentialStutter DEF TidyInv
<1>2. CallsKnow'
  BY DEF TidyInv, CallsKnow, CallKnows, vars, rows, disk, frame
<1>3. BundleKept'
  <2> SUFFICES ASSUME NEW r \in Requests, job[r] # "none", posted'[call[r].upload] = 0
      PROVE  file[PathOf(r)] = "whole"
    BY DEF BundleKept, PathOf, vars, rows, disk, frame
  <2>1. call[r].upload \in Uploads
    BY CallShape DEF PipeInv, PipelineTypeOK, JobAfterHandler
  <2>2. posted[call[r].upload] = 0
    BY <2>1 DEF PipeInv, PipelineTypeOK
  <2>3. QED
    BY <2>2 DEF TidyInv, BundleKept
<1>4. QED
  BY <1>1, <1>2, <1>3 DEF TidyInv

\* The upload of a job in the queue has its receipt, and no call that is still to
\* write a chunk or a receipt for it.
LEMMA JobAlone ==
    ASSUME PipeInv, TidyInv, NEW r \in Requests, job[r] = "queued"
    PROVE  /\ UploadOf(r) \in Uploads
           /\ receipt[UploadOf(r)] # "NONE"
           /\ \A q \in Requests : pc[q] \in Waits /\ call[q].kind = "chunk" => UploadOf(q) # UploadOf(r)
<1>1. UploadOf(r) \in Uploads
  BY JobShape
<1>2. receipt[UploadOf(r)] # "NONE"
  BY DEF TidyInv, LedgerInv, HolderHasReceipt, Holds, UploadOf
<1>3. ASSUME NEW q \in Requests, pc[q] \in Waits, call[q].kind = "chunk", UploadOf(q) = UploadOf(r)
      PROVE  FALSE
  <2>1. pc[q] = "enqueue"
    BY <1>2, <1>3 DEF TidyInv, CallsKnow, CallKnows, UploadOf
  <2>2. q = r
    BY <1>3, <2>1 DEF TidyInv, LedgerInv, OneHolder, Holds, UploadOf
  <2>3. pc[q] = "done"
    BY <2>2 DEF PipeInv, JobAfterHandler
  <2>4. QED BY <2>1, <2>3
<1>4. QED BY <1>1, <1>2, <1>3

LEMMA TidyUnlink ==
    ASSUME PipeInv, TidyInv, NEW r \in Requests, UnlinkFile(r) PROVE TidyInv'
<1>1. run[r] = "unlink" /\ job[r] = "queued" /\ UNCHANGED <<rows, contended, pc, frame, job, posted>>
  BY JobShape DEF UnlinkFile
<1>2. posted[UploadOf(r)] > 0 /\ PathOf(r) \in Paths
  BY <1>1, CallShape DEF PipeInv, PipelineTypeOK, JobAfterHandler, JobKnows
<1>3. \A p \in Paths : p # PathOf(r) => file'[p] = file[p]
  BY DEF UnlinkFile, PipeInv, PipelineTypeOK, TypeOK
<1>4. LedgerInv' /\ SequentialInv'
  BY <1>1, LedgerStands DEF TidyInv, RowsStand, SequentialInv, OneAtATime, NoReceiptYet,
     OwnPayment, OwnLocation, PathOf, rows, frame
<1>5. ASSUME NEW q \in Requests PROVE CallKnows(q)'
  <2>1. CallKnows(q)
    BY DEF TidyInv, CallsKnow
  <2>2. job[q] = "none" => file'[StagedPath(q)] = file[StagedPath(q)]
    BY <1>1, <1>3, JobAlone, PathFacts DEF PathOf, UploadOf
  <2>3. pc[q] \in Waits /\ call[q].kind = "chunk"
          => file'[BinPath(UploadOf(q))] = file[BinPath(UploadOf(q))]
    <3>1. ASSUME pc[q] \in Waits, call[q].kind = "chunk"
          PROVE  file'[BinPath(UploadOf(q))] = file[BinPath(UploadOf(q))]
      <4>1. UploadOf(q) \in Uploads /\ UploadOf(q) # UploadOf(r) /\ UploadOf(r) \in Uploads
        BY <1>1, <3>1, JobAlone, CallShape DEF PipeInv, PipelineTypeOK, UploadOf, Waits
      <4>2. QED
        BY <1>3, <4>1, PathFacts DEF PathOf, UploadOf
    <3>2. QED BY <3>1
  <2>4. QED
    BY <1>1, <2>1, <2>2, <2>3 DEF CallKnows, UploadOf, Waits, ChunkWaits, rows, frame
<1>6. BundleKept'
  <2> SUFFICES ASSUME NEW q \in Requests, job[q] # "none", posted[call[q].upload] = 0
      PROVE  file'[PathOf(q)] = "whole"
    BY <1>1 DEF BundleKept, PathOf, frame
  <2>1. call[q].upload \in Uploads /\ PathOf(q) \in Paths /\ UploadOf(r) \in Uploads
    BY <1>1, CallShape, JobShape DEF PipeInv, PipelineTypeOK, JobAfterHandler
  <2>2. PathOf(q) # PathOf(r)
    BY <1>2, <2>1, PathFacts DEF PathOf, UploadOf
  <2>3. QED
    BY <1>3, <2>1, <2>2 DEF TidyInv, BundleKept
<1>7. QED
  BY <1>4, <1>5, <1>6 DEF TidyInv, CallsKnow

LEMMA TidyLanding ==
    ASSUME PipeInv, TidyInv, NEW r \in Requests, Landing(r) PROVE TidyInv'
<1>1. CASE UpdateTxId(r)
  BY <1>1, TidyQuiet DEF UpdateTxId, PipeInv, PipelineTypeOK
<1>2. CASE UpdateStatus(r) \/ UpdateReceipt(r)
  <2>1. /\ job[r] = "queued" /\ UploadOf(r) \in Uploads /\ receipt[UploadOf(r)] # "NONE"
        /\ UNCHANGED <<payment, disk, pc, frame, job, posted>>
    BY <1>2, JobShape, JobAlone DEF UpdateStatus, UpdateReceipt
  <2>2. /\ \A u \in Uploads : /\ upload'[u].fileLocation = upload[u].fileLocation
                             /\ upload'[u].currentChunk = upload[u].currentChunk
                             /\ (receipt'[u] = "NONE") = (receipt[u] = "NONE")
        /\ \A u \in Uploads \ {UploadOf(r)} : upload'[u] = upload[u]
    <3>1. CASE UpdateStatus(r)
      BY <2>1, <3>1 DEF UpdateStatus, UploadOf, PipeInv, PipelineTypeOK, TypeOK
    <3>2. CASE UpdateReceipt(r)
      BY <2>1, <3>2 DEF UpdateReceipt, UploadOf, PipeInv, PipelineTypeOK, TypeOK
    <3>3. QED BY <1>2, <3>1, <3>2
  <2>3. \A q \in Requests : pc[q] # "idle" => UploadOf(q) \in Uploads
    BY CallShape DEF PipeInv, PipelineTypeOK, UploadOf
  <2>4. LedgerInv'
    BY <2>1, <2>2, LedgerStands DEF TidyInv, RowsStand, frame
  <2>5. SequentialInv'
    <3>1. OneAtATime' /\ OwnPayment'
      BY <2>1 DEF TidyInv, SequentialInv, OneAtATime, OwnPayment, frame
    <3>2. NoReceiptYet'
      BY <2>1, <2>2, <2>3 DEF TidyInv, SequentialInv, NoReceiptYet, frame, UploadOf
    <3>3. OwnLocation'
      <4>1. ASSUME NEW q \in Requests, pc[q] \in {"issue", "enqueue"} \/ job[q] # "none"
            PROVE  upload'[call[q].upload].fileLocation = PathOf(q)
        <5>1. UploadOf(q) \in Uploads
          BY <2>3, <4>1 DEF PipeInv, JobAfterHandler
        <5>2. QED
          BY <2>2, <4>1, <5>1 DEF TidyInv, SequentialInv, OwnLocation, UploadOf
      <4>2. QED
        BY <2>1, <4>1 DEF OwnLocation, PathOf, frame
    <3>4. QED BY <3>1, <3>2, <3>3 DEF SequentialInv
  <2>6. ASSUME NEW q \in Requests PROVE CallKnows(q)'
    <3>1. CallKnows(q)
      BY DEF TidyInv, CallsKnow
    <3>2. pc[q] \in Waits /\ call[q].kind = "chunk"
            => upload'[UploadOf(q)] = upload[UploadOf(q)]
      BY <2>1, <2>2, <2>3, JobAlone DEF Waits
    <3>3. pc[q] \in Waits => (receipt'[UploadOf(q)] = "NONE") = (receipt[UploadOf(q)] = "NONE")
      BY <2>2, <2>3 DEF Waits
    <3>4. QED
      BY <2>1, <3>1, <3>2, <3>3 DEF CallKnows, UploadOf, Waits, ChunkWaits, disk, frame
  <2>7. BundleKept'
    BY <2>1 DEF TidyInv, BundleKept, PathOf, disk, frame
  <2>8. QED
    BY <2>4, <2>5, <2>6, <2>7 DEF TidyInv, CallsKnow
<1>3. QED BY <1>1, <1>2 DEF Landing

LEMMA TidyNext ==
    ASSUME MaxInFlight = 1, PipeInv, TidyInv, PipelineNext PROVE TidyInv'
<1>1. posted \in [Uploads -> Nat]
  BY DEF PipeInv, PipelineTypeOK
<1>2. ASSUME NEW r \in Requests, Worker(r) PROVE TidyInv'
  <2>1. CASE PostBundle(r)
    BY <2>1, JobShape, SentGrows, TidyQuiet DEF PostBundle
  <2>2. CASE UnlinkFile(r)
    BY <2>2, TidyUnlink
  <2>3. QED
    BY <1>1, <1>2, <2>1, <2>2, TidyQuiet DEF Worker, TakeJob, ReadBundle, ChargeFee, SettleJob
<1>3. ASSUME NEW r \in Requests, PostThrows(r) PROVE TidyInv'
  BY <1>1, <1>3, JobShape, SentGrows, TidyQuiet DEF PostThrows
<1>4. ASSUME NEW r \in Requests, JobThrows(r) PROVE TidyInv'
  BY <1>1, <1>4, TidyQuiet DEF JobThrows
<1>5. ASSUME NEW u \in Uploads, FeeWorker(u) \/ FeeThrows(u) PROVE TidyInv'
  BY <1>1, <1>5, TidyQuiet DEF FeeWorker, FeeJobAdded, TakeFeeJob, DebitFee, RecordDebit, FeeThrows, worker
<1>6. CASE Crash
  BY <1>1, <1>6, TidyQuiet DEF Crash
<1>7. CASE Next /\ UNCHANGED <<worker, feeWorker, incidents>>
  BY <1>7, TidyHandlers DEF worker
<1>8. QED
  BY <1>2, <1>3, <1>4, <1>5, <1>6, <1>7, TidyLanding DEF PipelineNext

LEMMA TidyInvHolds == ASSUME MaxInFlight = 1 PROVE PipelineSpec => [](PipeInv /\ TidyInv)
<1>1. PipeInv /\ TidyInv /\ UNCHANGED pipelineVars => TidyInv'
  BY TidyQuiet DEF pipelineVars, worker, PipeInv, PipelineTypeOK
<1>2. PipeInv /\ TidyInv /\ [PipelineNext]_pipelineVars => TidyInv'
  BY <1>1, TidyNext
<1>3. QED BY TidyInit, <1>2, PipeInvHolds, PTL DEF PipelineSpec

\* With one call per upload at a time, a client's bundle stays on disk, whole, until
\* it was sent, whatever throws or crashes in between.
THEOREM BundleKeptHolds == ASSUME MaxInFlight = 1 PROVE PipelineSpec => []BundleKept
<1>1. TidyInv => BundleKept
  BY DEF TidyInv
<1>2. QED BY <1>1, TidyInvHolds, PTL

\* With one call per upload at a time, the rows of an upload agree with its job as long
\* as the job is there: what the worker sends is what the rows say was paid for.
THEOREM JobMatchesRowsInPipeline == ASSUME MaxInFlight = 1 PROVE PipelineSpec => []JobMatchesRows
<1>1. TidyInv => JobMatchesRows
  BY DEF TidyInv, SequentialInv, OwnPayment, OwnLocation, JobMatchesRows
<1>2. QED BY <1>1, TidyInvHolds, PTL

\* With one call per upload at a time, a transaction the chain knows by one text buys one
\* job, and so is sent to Arweave for one upload only.
THEOREM TransactionBuysOneJobInPipeline ==
    ASSUME MaxInFlight = 1 PROVE PipelineSpec => []TransactionBuysOneJob
<1>1. PipeInv /\ TidyInv => TransactionBuysOneJob
  BY PipeTypeInv, OneJobEach DEF TidyInv
<1>2. QED BY <1>1, TidyInvHolds, PTL

\* With one call per upload at a time, handlers and workers together implement the ledger
\* that never replaces the transfer behind a receipt.
THEOREM PipelineImplementsStrictLedger ==
    ASSUME MaxInFlight = 1 PROVE PipelineSpec => ImplementsStrictLedger
<1>1. PipelineInit => Ledger!Init
  BY DEF PipelineInit, Init, Ledger!Init
<1>2. PipeInv /\ TidyInv /\ [PipelineNext]_pipelineVars => [Ledger!StrictNext]_(Ledger!vars)
  <2>1. TidyInv => ~Amending
    BY DEF TidyInv, SequentialInv, NoReceiptYet, Amending, Receipted
  <2>2. QED
    BY <2>1, OffHandlers, LedgerStands, PipeTypeInv, LedgerStep
    DEF TidyInv, Ledger!vars, Paid, Receipted, Jobs
<1>3. QED
  BY <1>1, <1>2, TidyInvHolds, PTL DEF PipelineSpec, ImplementsStrictLedger, Ledger!StrictSpec

\* With one call per upload at a time, COMPLETED is taken back neither in an upload nor
\* in a receipt.
THEOREM StatusKeptHolds == ASSUME MaxInFlight = 1 PROVE PipelineSpec => StatusKept
<1> DEFINE Kept == \A u \in Uploads :
                     /\ upload[u].status = "COMPLETED" => upload'[u].status = "COMPLETED"
                     /\ receipt[u] = "COMPLETED" => receipt'[u] = "COMPLETED"
<1>1. ASSUME PipeInv, TidyInv, PipelineNext PROVE Kept
  <2>1. TypeInv
    BY <1>1 DEF PipeInv, PipelineTypeOK, TypeInv
  <2>2. CASE UNCHANGED <<upload, receipt>>
    BY <2>2
  <2>3. CASE Next
    <3>1. Progress
      BY <1>1, <2>1, <2>3, ProgressStep DEF TidyInv
    <3>2. ASSUME NEW r \in Requests, IssueReceipt(r)
          PROVE  \A u \in Uploads : receipt[u] = "COMPLETED" => receipt'[u] = "COMPLETED"
      BY <2>1, <3>2 DEF IssueReceipt, ReceiptTaken, TypeInv, TypeOK
    <3>3. UNCHANGED receipt \/ \E r \in Requests : IssueReceipt(r)
      BY <2>3, FaultyAssumption
         DEF Next, Handler, CreatePayment, CreateUpload, BeginSingle, BeginChunk, Verify,
             VerifyConfirms, VerifyDenies, VerifyThrows, WriteChunk, ReadUpload, OpenBin, PumpEnds,
             PumpBreaks, AdvanceChunk, CompleteUpload, CreateReceipt, FindReceipt, RecordPayment,
             RecordLocation, Enqueue, JobAdded, Stop, JobLost, rows
    <3>4. QED BY <3>1, <3>2, <3>3 DEF Progress
  <2>4. ASSUME NEW r \in Requests, Landing(r) PROVE Kept
    BY <1>1, <2>1, <2>4 DEF Landing, UpdateTxId, UpdateStatus, UpdateReceipt, TypeInv, TypeOK, vars, rows
  <2>5. ASSUME NEW r \in Requests, Worker(r) \/ PostThrows(r) \/ JobThrows(r) PROVE Kept
    BY <2>2, <2>5 DEF Worker, TakeJob, ReadBundle, PostBundle, UnlinkFile, ChargeFee, SettleJob,
       PostThrows, JobThrows, vars, rows
  <2>6. ASSUME NEW u \in Uploads, FeeWorker(u) \/ FeeThrows(u) PROVE Kept
    BY <2>2, <2>6 DEF FeeWorker, FeeJobAdded, TakeFeeJob, DebitFee, RecordDebit, FeeThrows, vars, rows
  <2>7. CASE Crash
    BY <2>2, <2>7 DEF Crash, vars, rows
  <2>8. QED
    BY <1>1, <2>3, <2>4, <2>5, <2>6, <2>7 DEF PipelineNext
<1>2. PipeInv /\ TidyInv /\ [PipelineNext]_pipelineVars => [Kept]_pipelineVars
  BY <1>1
<1>3. QED BY <1>2, TidyInvHolds, PTL DEF PipelineSpec, StatusKept

-----------------------------------------------------------------------------
(* When a paid bundle is given up. What liveness promises with few errors  *)
(* rests on this: the attempts and stalls of a job whose bundle was not    *)
(* sent are paid for by errors and crashes, since every attempt found the  *)
(* bundle.                                                                 *)

\* The bundle of r is valid and was not sent.
Unsent(r) == call[r].upload \notin BadBundles /\ posted[call[r].upload] = 0

Causes(r) ==
    /\ stalls[r] <= crashes
    /\ job[r] # "queued" => attempts[r] = 0
    /\ job[r] = "queued" /\ Unsent(r) =>
           /\ attempts[r] <= faults
           /\ run[r] # "completed"
           /\ run[r] = "failed" => attempts[r] >= MaxAttempts \/ stalls[r] > MaxStalled

CauseInv == \A r \in Requests : Causes(r)

LEMMA CauseInit == PipelineInit => CauseInv
BY DEF PipelineInit, Init, CauseInv, Causes

\* The numbers that are compared.
LEMMA CauseNumbers ==
    ASSUME PipeInv, NEW r \in Requests
    PROVE  /\ attempts[r] \in Nat /\ stalls[r] \in Nat /\ faults \in Nat /\ crashes \in Nat
           /\ MaxAttempts \in Nat \ {0} /\ MaxStalled \in Nat
BY PipelineAssumption DEF PipeInv, PipelineTypeOK

\* A job that no step was about keeps its causes.
LEMMA CauseStands ==
    ASSUME PipeInv, CauseInv, NEW r \in Requests, RowsStand,
           run'[r] = run[r], attempts'[r] = attempts[r], stalls'[r] = stalls[r],
           faults' \in Nat, faults' >= faults, crashes' = crashes,
           job[r] = "queued" /\ posted[UploadOf(r)] > 0 => posted'[UploadOf(r)] > 0
    PROVE  Causes(r)'
<1>1. /\ Causes(r) /\ UNCHANGED <<job, call>>
      /\ job[r] = "queued" => posted[UploadOf(r)] \in Nat
  BY JobShape DEF CauseInv, RowsStand, PipeInv, PipelineTypeOK, UploadOf
<1>2. QED BY <1>1, CauseNumbers DEF Causes, Unsent, UploadOf

\* An attempt at a valid bundle fails only for an error, unless the bundle was sent.
LEMMA CauseFails ==
    ASSUME PipeInv, CauseInv, RowsStand, NEW r \in Requests, job[r] = "queued",
           run[r] \in Active, FailAttempt(r), UNCHANGED <<stalls, crashes>>,
           \/ faults' = faults + 1
           \/ UNCHANGED faults /\ ~Unsent(r)',
           \A s \in Requests : job[s] = "queued" /\ posted[UploadOf(s)] > 0 => posted'[UploadOf(s)] > 0
    PROVE  CauseInv'
<1>1. /\ attempts'[r] = attempts[r] + 1
      /\ run'[r] = IF attempts[r] + 1 < MaxAttempts THEN "waiting" ELSE "failed"
      /\ \A s \in Requests \ {r} : run'[s] = run[s] /\ attempts'[s] = attempts[s]
  BY DEF FailAttempt, RunTo, PipeInv, PipelineTypeOK
<1>2. faults' \in Nat /\ faults' >= faults
  BY CauseNumbers
<1>3. Causes(r)'
  <2>1. Causes(r) /\ UNCHANGED <<job, call>> /\ posted[UploadOf(r)] \in Nat
    BY JobShape DEF CauseInv, RowsStand, PipeInv, PipelineTypeOK, UploadOf
  <2>2. Unsent(r)' => Unsent(r) /\ faults' = faults + 1
    BY <2>1 DEF Unsent, UploadOf
  <2>3. QED BY <1>1, <2>1, <2>2, CauseNumbers DEF Causes
<1>4. QED BY <1>1, <1>2, <1>3, CauseStands DEF CauseInv

\* A step of a job that is no failure ends the job only when its bundle was sent.
LEMMA CauseMoves ==
    ASSUME PipeInv, CauseInv, RowsStand, NEW r \in Requests, job[r] = "queued", NEW s,
           RunTo(r, s), s # "failed", UNCHANGED <<attempts, stalls, faults, crashes>>,
           s = "completed" => posted'[UploadOf(r)] > 0,
           \A q \in Requests : job[q] = "queued" /\ posted[UploadOf(q)] > 0 => posted'[UploadOf(q)] > 0
    PROVE  CauseInv'
<1>1. run'[r] = s /\ \A q \in Requests \ {r} : run'[q] = run[q]
  BY DEF RunTo, PipeInv, PipelineTypeOK
<1>2. Causes(r)'
  <2>1. Causes(r) /\ UNCHANGED <<job, call>> /\ posted[UploadOf(r)] \in Nat
    BY JobShape DEF CauseInv, RowsStand, PipeInv, PipelineTypeOK, UploadOf
  <2>2. QED BY <1>1, <2>1 DEF Causes, Unsent, UploadOf
<1>3. QED BY <1>1, <1>2, CauseStands, CauseNumbers DEF CauseInv

\* While its bundle was not sent, a job finds it.
LEMMA BundleFound ==
    ASSUME PipeInv, TidyInv, NEW r \in Requests, job[r] = "queued", Unsent(r)
    PROVE  ~MayBeInvalid(r) /\ run[r] \notin {"unlink", "charge", "settle"}
BY JobShape DEF TidyInv, BundleKept, Unsent, MayBeInvalid, PipeInv, JobKnows, UploadOf

LEMMA CauseJob ==
    ASSUME PipeInv, TidyInv, CauseInv, RowsStand, NEW r \in Requests,
           Worker(r) \/ PostThrows(r) \/ JobThrows(r)
    PROVE  CauseInv'
<1>0. ASSUME UNCHANGED posted \/ Sent(r), job[r] = "queued"
      PROVE  \A q \in Requests : job[q] = "queued" /\ posted[UploadOf(q)] > 0 => posted'[UploadOf(q)] > 0
  BY <1>0, JobShape, SentGrows
<1>1. CASE TakeJob(r)
  BY <1>0, <1>1, CauseMoves DEF TakeJob, incidents
<1>2. CASE ReadBundle(r)
  <2>1. CASE RunTo(r, "post") /\ UNCHANGED attempts
    BY <1>0, <1>2, <2>1, JobShape, CauseMoves DEF ReadBundle, incidents
  <2>2. CASE MayBeInvalid(r) /\ FailAttempt(r)
    <3>1. ~Unsent(r)'
      BY <1>2, <2>2, JobShape, BundleFound DEF ReadBundle, Unsent, RowsStand
    <3>2. QED BY <1>0, <1>2, <2>2, <3>1, JobShape, CauseFails DEF ReadBundle, incidents, Active
  <2>3. QED BY <1>2, <2>1, <2>2 DEF ReadBundle
<1>3. CASE PostBundle(r)
  BY <1>0, <1>3, JobShape, CauseMoves DEF PostBundle, incidents
<1>4. CASE run[r] \in {"unlink", "charge"} /\ (UnlinkFile(r) \/ ChargeFee(r))
  <2>1. job[r] = "queued" /\ UNCHANGED <<posted, stalls, faults, crashes>>
    BY <1>4, JobShape DEF UnlinkFile, ChargeFee, incidents
  <2>2. ~Unsent(r)'
    BY <1>4, <2>1, BundleFound DEF Unsent, RowsStand
  <2>3. CASE FailAttempt(r)
    BY <1>0, <1>4, <2>1, <2>2, <2>3, CauseFails DEF Active
  <2>4. ASSUME NEW s \in {"charge", "settle"}, RunTo(r, s), UNCHANGED attempts PROVE CauseInv'
    BY <1>0, <2>1, <2>4, CauseMoves
  <2>5. QED BY <1>4, <2>3, <2>4 DEF UnlinkFile, ChargeFee
<1>5. CASE SettleJob(r)
  <2>1. job[r] = "queued" /\ posted'[UploadOf(r)] > 0
    BY <1>5, JobShape DEF SettleJob, PipeInv, JobKnows
  <2>2. QED BY <1>0, <1>5, <2>1, CauseMoves DEF SettleJob, incidents
<1>6. CASE PostThrows(r) \/ JobThrows(r)
  BY <1>0, <1>6, JobShape, CauseFails DEF PostThrows, JobThrows, Active
<1>7. QED
  BY <1>1, <1>2, <1>3, <1>4, <1>5, <1>6 DEF Worker, UnlinkFile, ChargeFee

\* A stall is paid for by its crash.
LEMMA CauseCrash == ASSUME PipeInv, CauseInv, RowsStand, Crash PROVE CauseInv'
<1> SUFFICES ASSUME NEW r \in Requests PROVE Causes(r)'
  BY DEF CauseInv
<1>1. /\ Causes(r) /\ UNCHANGED <<job, call, attempts, posted, faults>>
      /\ crashes' = crashes + 1
  BY DEF CauseInv, RowsStand, Crash
<1>2. CASE run[r] \in Active
  <2>1. run'[r] = AfterStall(stalls[r]) /\ stalls'[r] = stalls[r] + 1
    BY <1>2 DEF Crash
  <2>2. QED BY <1>1, <2>1, CauseNumbers DEF Causes, Unsent, AfterStall
<1>3. CASE run[r] \notin Active
  <2>1. run'[r] = run[r] /\ stalls'[r] = stalls[r]
    BY <1>3 DEF Crash
  <2>2. QED BY <1>1, <2>1, CauseNumbers DEF Causes, Unsent
<1>4. QED BY <1>2, <1>3

\* A job that enters the queue was not tried.
LEMMA CauseHandlers ==
    ASSUME PipeInv, CauseInv, Next, UNCHANGED <<worker, feeWorker, incidents>>
    PROVE  CauseInv'
<1> SUFFICES ASSUME NEW r \in Requests PROVE Causes(r)'
  BY DEF CauseInv
<1>1. /\ Causes(r) /\ TypeOK /\ JobAfterHandler
      /\ UNCHANGED <<run, attempts, stalls, posted, faults, crashes>>
  BY DEF CauseInv, PipeInv, PipelineTypeOK, worker, incidents
<1>2. job[r] = "queued" => job'[r] = "queued" /\ call'[r] = call[r]
  BY <1>1, HandlerStep
<1>3. CASE job[r] = "queued"
  BY <1>1, <1>2, <1>3 DEF Causes, Unsent
<1>4. CASE job[r] # "queued"
  <2>1. run[r] = "waiting"
    BY <1>4 DEF PipeInv, JobKnows
  <2>2. QED BY <1>1, <1>4, <2>1, CauseNumbers DEF Causes
<1>5. QED BY <1>3, <1>4

\* A worker that is done with a valid bundle has sent it, or met as many errors as a job
\* has attempts, or more crashes than it may stall (upload.producer.ts:13).
GivenUpForCause ==
    \A r \in Requests :
        /\ job[r] = "queued" /\ run[r] \in {"completed", "failed"}
        /\ call[r].upload \notin BadBundles
        => posted[call[r].upload] > 0 \/ faults >= MaxAttempts \/ crashes > MaxStalled

\* With one call per upload at a time, a job with a valid bundle ends without having
\* sent it only after as many errors as it has attempts, or more crashes than it may
\* stall: no attempt is lost to a bundle that is missing or cut short, to the order
\* the updates land in, or to another job.
THEOREM GivenUpForCauseHolds == ASSUME MaxInFlight = 1 PROVE PipelineSpec => []GivenUpForCause
<1>1. PipeInv /\ TidyInv /\ CauseInv /\ [PipelineNext]_pipelineVars => CauseInv'
  <2> SUFFICES ASSUME PipeInv, TidyInv, CauseInv, [PipelineNext]_pipelineVars PROVE CauseInv'
    OBVIOUS
  <2>1. CASE Next /\ UNCHANGED <<worker, feeWorker, incidents>>
    BY <2>1, CauseHandlers
  <2>2. ASSUME RowsStand, UNCHANGED <<run, attempts, stalls, posted, crashes>>,
               faults' \in {faults, faults + 1}
        PROVE  CauseInv'
    BY <2>2, CauseStands, CauseNumbers DEF CauseInv
  <2>3. CASE RowsStand
    <3>1. ASSUME NEW r \in Requests, Landing(r) PROVE CauseInv'
      BY <2>2, <2>3, <3>1 DEF Landing, UpdateTxId, UpdateStatus, UpdateReceipt, incidents
    <3>2. ASSUME NEW u \in Uploads, FeeWorker(u) \/ FeeThrows(u) PROVE CauseInv'
      BY <2>2, <2>3, <3>2 DEF FeeWorker, FeeJobAdded, TakeFeeJob, DebitFee, RecordDebit, FeeThrows,
         worker, incidents
    <3>3. CASE UNCHANGED pipelineVars
      BY <2>2, <2>3, <3>3 DEF pipelineVars, worker, incidents
    <3>4. QED
      BY <2>1, <2>3, <3>1, <3>2, <3>3, CauseJob, CauseCrash DEF PipelineNext
  <2>4. QED BY <2>1, <2>3, OffHandlers DEF TidyInv
<1>2. PipeInv /\ CauseInv => GivenUpForCause
  <2> SUFFICES ASSUME PipeInv, CauseInv, NEW r \in Requests, job[r] = "queued",
                      run[r] \in {"completed", "failed"}, call[r].upload \notin BadBundles,
                      ~(posted[call[r].upload] > 0)
               PROVE  faults >= MaxAttempts \/ crashes > MaxStalled
    BY DEF GivenUpForCause
  <2>1. Unsent(r)
    BY JobShape DEF Unsent, PipeInv, PipelineTypeOK, UploadOf
  <2>2. QED BY <2>1, CauseNumbers DEF CauseInv, Causes
<1>3. QED BY CauseInit, <1>1, <1>2, TidyInvHolds, PTL DEF PipelineSpec

=============================================================================
