------------------------ MODULE UploadServiceProofs ------------------------
(***************************************************************************)
(* Theorems about UploadService, for any number of uploads, transactions   *)
(* and calls. In the first half the calls overlap in any way. In the       *)
(* second half a client makes one call per upload at a time, with any      *)
(* stops: nothing recorded for a receipted upload is replaced, its rows    *)
(* agree with the job that was queued for it, and the file they name is    *)
(* the client's bundle.                                                    *)
(***************************************************************************)
EXTENDS UploadService, FiniteSetTheorems, TLAPS

-----------------------------------------------------------------------------
(* Types. tries stays a natural number because a call is only verified     *)
(* while it has tries left.                                                *)

TriesLeft == \A r \in Requests : pc[r] = "verify" => tries[r] >= 1

TypeInv == TypeOK /\ TriesLeft

\* A call in one of its awaits has the shape of a call.
LEMMA CallShape ==
    ASSUME TypeOK, NEW r \in Requests, pc[r] # "idle"
    PROVE  /\ call[r] \in Call
           /\ call[r].upload \in Uploads
           /\ call[r].hash \in Hashes
           /\ call[r].kind \in Kinds
           /\ PathOf(r) \in Paths
           /\ BinPath(call[r].upload) \in Paths
BY DEF TypeOK, Call, PathOf, Paths, StagedPath, BinPath

LEMMA TypeInvInit == Init => TypeInv
BY BoundsAssumption DEF Init, TypeInv, TypeOK, TriesLeft, UploadStatus, PaymentStatus,
   ReceiptStatus, Waits, Ended, NoPath

\* Only rows, disk, pc, frame and job appear in TypeInv.
LEMMA TypeInvStutter == TypeInv /\ UNCHANGED vars => TypeInv'
BY DEF TypeInv, TypeOK, TriesLeft, vars, rows, disk, frame

LEMMA TypeInvNext == TypeInv /\ Next => TypeInv'
<1> SUFFICES ASSUME TypeInv, Next PROVE TypeInv'
  OBVIOUS
<1> USE DEF TypeInv, rows, disk, frame
<1>1. ASSUME NEW u \in Uploads, CreatePayment(u) \/ CreateUpload(u)
      PROVE  TypeInv'
  <2>1. CASE CreatePayment(u)
    BY <2>1 DEF CreatePayment, TypeOK, TriesLeft, PaymentStatus
  <2>2. CASE CreateUpload(u)
    BY <2>2 DEF CreateUpload, TypeOK, TriesLeft, UploadStatus
  <2>3. QED BY <1>1, <2>1, <2>2
<1>2. ASSUME NEW r \in Requests, NEW u \in Uploads, NEW h \in Hashes,
             BeginSingle(r, u, h)
      PROVE  TypeInv'
  <2>1. call' \in [Requests -> Call \union {NoCall}] /\ call'[r] \in Call
    BY <1>2 DEF BeginSingle, Arrives, TypeOK, Call
  <2>2. file' \in [Paths -> {"absent", "empty", "torn", "whole"}]
    BY <1>2 DEF BeginSingle, TypeOK
  <2>3. tries' \in [Requests -> 0 .. MaxTries] /\ tries'[r] = 1
    BY <1>2, BoundsAssumption DEF BeginSingle, TypeOK
  <2>4. pc' \in [Requests -> {"idle"} \union Waits \union Ended]
    BY <1>2 DEF BeginSingle, Goto, TypeOK, Waits, Ended
  <2>5. \A s \in Requests \ {r} : /\ pc'[s] = pc[s]
                                /\ call'[s] = call[s]
                                /\ tries'[s] = tries[s]
    BY <1>2 DEF BeginSingle, Arrives, Goto, TypeOK
  <2>6. QED
    BY <1>2, <2>1, <2>2, <2>3, <2>4, <2>5 DEF BeginSingle, TypeOK, TriesLeft
<1>3. ASSUME NEW r \in Requests, NEW u \in Uploads, NEW h \in Hashes,
             BeginChunk(r, u, h)
      PROVE  TypeInv'
  BY <1>3, BoundsAssumption DEF BeginChunk, Arrives, Goto, TypeOK, TriesLeft, Call, Waits, Ended
<1>4. ASSUME NEW r \in Requests, Verify(r) PROVE TypeInv'
  <2>1. CASE VerifyConfirms(r)
    BY <2>1 DEF VerifyConfirms, AfterVerify, Goto, TypeOK, TriesLeft, Waits, Ended
  <2>2. CASE VerifyDenies(r)
    BY <2>2, BoundsAssumption DEF VerifyDenies, Goto, TypeOK, TriesLeft, Waits, Ended
  <2>3. CASE VerifyThrows(r)
    BY <2>3 DEF VerifyThrows, Goto, TypeOK, TriesLeft, Waits, Ended
  <2>4. QED BY <1>4, <2>1, <2>2, <2>3 DEF Verify
<1>5. ASSUME NEW r \in Requests, WriteChunk(r) PROVE TypeInv'
  <2>1. CASE ReadUpload(r)
    BY <2>1, BoundsAssumption DEF ReadUpload, Goto, TypeOK, TriesLeft, Waits, Ended
  <2>2. CASE OpenBin(r)
    BY <2>2, CallShape DEF OpenBin, Opened, Goto, TypeOK, TriesLeft, Waits, Ended
  <2>3. CASE PumpEnds(r)
    BY <2>3, CallShape DEF PumpEnds, Written, Goto, TypeOK, TriesLeft, Waits, Ended
  <2>4. CASE PumpBreaks(r)
    BY <2>4, CallShape DEF PumpBreaks, Goto, TypeOK, TriesLeft, Waits, Ended
  <2>5. CASE AdvanceChunk(r)
    BY <2>5, CallShape DEF AdvanceChunk, Goto, TypeOK, TriesLeft, Waits, Ended, UploadStatus
  <2>6. CASE CompleteUpload(r)
    BY <2>6, CallShape DEF CompleteUpload, Goto, TypeOK, TriesLeft, Waits, Ended, UploadStatus
  <2>7. QED BY <1>5, <2>1, <2>2, <2>3, <2>4, <2>5, <2>6 DEF WriteChunk
<1>6. ASSUME NEW r \in Requests, CreateReceipt(r) PROVE TypeInv'
  <2>1. CASE FindReceipt(r)
    BY <2>1 DEF FindReceipt, Goto, TypeOK, TriesLeft, Waits, Ended
  <2>2. CASE RecordPayment(r)
    <3>1. payment' \in [Uploads -> [status : PaymentStatus, hash : Hashes \union {NoHash}]]
      BY <2>2, CallShape DEF RecordPayment, TypeOK, PaymentStatus, Waits
    <3>2. /\ pc' \in [Requests -> {"idle"} \union Waits \union Ended]
          /\ \A s \in Requests : pc'[s] # pc[s] => s = r /\ pc'[s] # "verify"
      BY <2>2 DEF RecordPayment, Goto, TypeOK, Waits, Ended
    <3>3. QED
      BY <2>2, <3>1, <3>2 DEF RecordPayment, TypeOK, TriesLeft
  <2>3. CASE RecordLocation(r)
    BY <2>3, CallShape DEF RecordLocation, Goto, TypeOK, TriesLeft, Waits, Ended
  <2>4. CASE IssueReceipt(r)
    BY <2>4, CallShape DEF IssueReceipt, Goto, TypeOK, TriesLeft, Waits, Ended, ReceiptStatus
  <2>5. QED BY <1>6, <2>1, <2>2, <2>3, <2>4 DEF CreateReceipt
<1>7. ASSUME NEW r \in Requests, Enqueue(r) \/ JobAdded(r) \/ Stop(r) \/ JobLost(r)
      PROVE  TypeInv'
  BY <1>7 DEF Enqueue, JobAdded, Stop, JobLost, Goto, TypeOK, TriesLeft, Waits, Ended
<1>8. QED
  BY <1>1, <1>2, <1>3, <1>4, <1>5, <1>6, <1>7, FaultyAssumption DEF Next, Handler

\* TypeOK is an invariant of UploadService.
THEOREM TypeCorrect == Spec => []TypeOK
<1>1. Init => TypeInv
  BY TypeInvInit
<1>2. TypeInv /\ [Next]_vars => TypeInv'
  BY TypeInvNext, TypeInvStutter
<1>3. TypeInv => TypeOK
  BY DEF TypeInv
<1>4. QED
  BY <1>1, <1>2, <1>3, PTL DEF Spec

-----------------------------------------------------------------------------
(* The invariant behind the safety properties. A receipt and its job are   *)
(* tied to a recorded payment by the place where the handlers are: a       *)
(* handler past verification presents a transfer that pays for its upload, *)
(* one past the payment update leaves a recorded payment behind, and the   *)
(* one whose insert created the receipt is the only one that holds, or     *)
(* ever held, a job for the upload.                                        *)

\* The awaits a call reaches with its payment recorded.
PaidWaits == {"locate", "issue", "enqueue"}

\* The call created the receipt of its upload: it is about to queue a job, or
\* has done so.
Holds(r) == pc[r] = "enqueue" \/ job[r] # "none"

VerifiedCalls == \A r \in Requests :
                   pc[r] \in Waits \ {"verify"} => <<call[r].hash, call[r].upload>> \in Pays

RecordedPays == \A u \in Uploads :
                  payment[u].hash # NoHash => /\ payment[u].status = "SUCCEEDED"
                                              /\ <<payment[u].hash, u>> \in Pays

\* A text stands in one payment row.
HashInOneRow == \A u, v \in Uploads :
                  payment[u].hash = payment[v].hash /\ payment[u].hash # NoHash => u = v

PaidBeforeReceipt == \A r \in Requests :
                       pc[r] \in PaidWaits => payment[call[r].upload].hash # NoHash

ReceiptNeedsPayment == \A u \in Uploads :
                         receipt[u] # "NONE" => payment[u].hash # NoHash

HolderHasReceipt == \A r \in Requests :
                      Holds(r) => pc[r] # "idle" /\ receipt[call[r].upload] # "NONE"

OneHolder == \A r, s \in Requests :
               Holds(r) /\ Holds(s) /\ call[r].upload = call[s].upload => r = s

JobAfterHandler == \A r \in Requests : job[r] # "none" => pc[r] = "done"

LedgerInv == /\ VerifiedCalls
             /\ RecordedPays
             /\ HashInOneRow
             /\ PaidBeforeReceipt
             /\ ReceiptNeedsPayment
             /\ HolderHasReceipt
             /\ OneHolder
             /\ JobAfterHandler

LEMMA LedgerInvInit == Init => LedgerInv
BY DEF Init, LedgerInv, VerifiedCalls, RecordedPays, HashInOneRow, PaidBeforeReceipt,
   ReceiptNeedsPayment, HolderHasReceipt, OneHolder, JobAfterHandler, Holds, PaidWaits, Waits

\* A handler goes from one await to another without touching payment, receipt
\* or job, or ends. It may enter the paid part only from there, and leave
\* verification only with a transfer that pays.
LEMMA QuietStep ==
    ASSUME TypeInv, LedgerInv, NEW r \in Requests, NEW s,
           UNCHANGED <<payment, receipt, call, job>>,
           pc[r] \in Waits,
           Goto(r, s),
           s # "enqueue",
           s \in PaidWaits => pc[r] \in PaidWaits,
           s \in Waits \ {"verify"} => <<call[r].hash, call[r].upload>> \in Pays
    PROVE  LedgerInv'
<1> USE DEF LedgerInv
<1>1. /\ pc'[r] = s
      /\ \A q \in Requests \ {r} : pc'[q] = pc[q]
  BY DEF Goto, TypeInv, TypeOK
<1>2. job[r] = "none"
  BY DEF JobAfterHandler, Waits
<1>3. VerifiedCalls'
  BY <1>1 DEF VerifiedCalls
<1>4. RecordedPays' /\ HashInOneRow' /\ ReceiptNeedsPayment'
  BY DEF RecordedPays, HashInOneRow, ReceiptNeedsPayment
<1>5. PaidBeforeReceipt'
  BY <1>1 DEF PaidBeforeReceipt
<1>6. HolderHasReceipt' /\ OneHolder' /\ JobAfterHandler'
  BY <1>1, <1>2 DEF HolderHasReceipt, OneHolder, JobAfterHandler, Holds
<1>7. QED
  BY <1>3, <1>4, <1>5, <1>6

\* The creation of rows gives no payment row a hash.
LEMMA LedgerInvCreate ==
    ASSUME TypeInv, LedgerInv, NEW u \in Uploads, CreatePayment(u) \/ CreateUpload(u)
    PROVE  LedgerInv'
<1> USE DEF LedgerInv, frame, disk
<1>1. /\ UNCHANGED <<receipt, pc, call, job>>
      /\ \A v \in Uploads : /\ payment'[v].hash = payment[v].hash
                            /\ payment[v].hash # NoHash => payment'[v] = payment[v]
  <2>1. CASE CreatePayment(u)
    BY <2>1 DEF CreatePayment, TypeInv, TypeOK, RecordedPays
  <2>2. CASE CreateUpload(u)
    BY <2>2 DEF CreateUpload
  <2>3. QED BY <2>1, <2>2
<1>2. RecordedPays' /\ HashInOneRow' /\ ReceiptNeedsPayment'
  BY <1>1 DEF RecordedPays, HashInOneRow, ReceiptNeedsPayment
<1>3. VerifiedCalls' /\ JobAfterHandler'
  BY <1>1 DEF VerifiedCalls, JobAfterHandler
<1>4. PaidBeforeReceipt'
  <2>1. ASSUME NEW r \in Requests, pc[r] \in PaidWaits
        PROVE  payment'[call[r].upload].hash # NoHash
    BY <1>1, <2>1, CallShape DEF PaidBeforeReceipt, PaidWaits, TypeInv
  <2>2. QED BY <1>1, <2>1 DEF PaidBeforeReceipt
<1>5. HolderHasReceipt' /\ OneHolder'
  BY <1>1 DEF HolderHasReceipt, OneHolder, Holds
<1>6. QED
  BY <1>2, <1>3, <1>4, <1>5

\* A call that arrives presents its transfer unverified and holds nothing.
LEMMA LedgerInvBegin ==
    ASSUME TypeInv, LedgerInv, NEW r \in Requests, NEW u \in Uploads, NEW h \in Hashes,
           BeginSingle(r, u, h) \/ BeginChunk(r, u, h)
    PROVE  LedgerInv'
<1> USE DEF LedgerInv, rows
<1>1. /\ UNCHANGED <<payment, receipt, job>>
      /\ pc[r] = "idle" /\ pc'[r] \in {"verify", "failed"}
      /\ \A q \in Requests \ {r} : pc'[q] = pc[q] /\ call'[q] = call[q]
  BY DEF BeginSingle, BeginChunk, Arrives, Goto, TypeInv, TypeOK
<1>2. job[r] = "none"
  BY <1>1 DEF JobAfterHandler
<1>3. RecordedPays' /\ HashInOneRow' /\ ReceiptNeedsPayment'
  BY <1>1 DEF RecordedPays, HashInOneRow, ReceiptNeedsPayment
<1>4. VerifiedCalls' /\ PaidBeforeReceipt' /\ JobAfterHandler'
  BY <1>1, <1>2 DEF VerifiedCalls, PaidBeforeReceipt, JobAfterHandler, Waits, PaidWaits
<1>5. HolderHasReceipt' /\ OneHolder'
  BY <1>1, <1>2 DEF HolderHasReceipt, OneHolder, Holds
<1>6. QED
  BY <1>3, <1>4, <1>5

\* The payment update keeps what was recorded for the other uploads, and the
\* unique column keeps the new hash from all of them.
LEMMA LedgerInvRecord ==
    ASSUME TypeInv, LedgerInv, NEW r \in Requests, RecordPayment(r)
    PROVE  LedgerInv'
<1> USE DEF LedgerInv, disk, frame
<1> DEFINE u == call[r].upload
           h == call[r].hash
<1>1. CASE HashTaken(h, u)
  BY <1>1, QuietStep DEF RecordPayment, Waits, PaidWaits
<1>2. CASE ~HashTaken(h, u)
  <2>1. /\ pc[r] = "pay" /\ pc'[r] = "locate" /\ u \in Uploads /\ h \in Hashes
        /\ \A q \in Requests \ {r} : pc'[q] = pc[q]
        /\ UNCHANGED <<receipt, call, job>>
    BY <1>2, CallShape DEF RecordPayment, Goto, TypeInv, TypeOK
  <2>2. /\ payment'[u].hash = h
        /\ payment'[u].status = "SUCCEEDED"
        /\ \A v \in Uploads \ {u} : payment'[v] = payment[v]
    BY <1>2, <2>1 DEF RecordPayment, TypeInv, TypeOK
  <2>3. h # NoHash /\ <<h, u>> \in Pays
    BY <2>1, NoHashAssumption DEF VerifiedCalls, Waits
  <2>4. RecordedPays' /\ ReceiptNeedsPayment'
    BY <2>1, <2>2, <2>3 DEF RecordedPays, ReceiptNeedsPayment
  <2>5. HashInOneRow'
    BY <1>2, <2>1, <2>2 DEF HashInOneRow, HashTaken
  <2>6. \A q \in Requests : pc[q] \in PaidWaits => call[q].upload \in Uploads
    BY CallShape DEF TypeInv, PaidWaits
  <2>7. PaidBeforeReceipt'
    BY <2>1, <2>2, <2>3, <2>6 DEF PaidBeforeReceipt
  <2>8. VerifiedCalls' /\ JobAfterHandler'
    BY <2>1 DEF VerifiedCalls, JobAfterHandler, Waits
  <2>9. HolderHasReceipt' /\ OneHolder'
    BY <2>1 DEF HolderHasReceipt, OneHolder, Holds
  <2>10. QED
    BY <2>4, <2>5, <2>7, <2>8, <2>9
<1>3. QED
  BY <1>1, <1>2

\* The insert of the receipt succeeds for one call per upload, so its caller
\* is the only one to hold a job.
LEMMA LedgerInvIssue ==
    ASSUME TypeInv, LedgerInv, NEW r \in Requests, IssueReceipt(r)
    PROVE  LedgerInv'
<1> USE DEF LedgerInv, disk, frame
<1> DEFINE u == call[r].upload
<1>1. CASE ReceiptTaken(u)
  BY <1>1, QuietStep DEF IssueReceipt, Waits, PaidWaits
<1>2. CASE ~ReceiptTaken(u)
  <2>1. /\ pc[r] = "issue" /\ pc'[r] = "enqueue" /\ u \in Uploads
        /\ \A q \in Requests \ {r} : pc'[q] = pc[q]
        /\ UNCHANGED <<payment, call, job>>
    BY <1>2, CallShape DEF IssueReceipt, Goto, TypeInv, TypeOK
  <2>2. /\ receipt[u] = "NONE"
        /\ receipt'[u] = "PAID"
        /\ \A v \in Uploads \ {u} : receipt'[v] = receipt[v]
    BY <1>2, <2>1 DEF IssueReceipt, ReceiptTaken, TypeInv, TypeOK
  <2>3. payment[u].hash # NoHash
    BY <2>1 DEF PaidBeforeReceipt, PaidWaits
  <2>4. RecordedPays' /\ HashInOneRow' /\ ReceiptNeedsPayment'
    BY <2>1, <2>2, <2>3 DEF RecordedPays, HashInOneRow, ReceiptNeedsPayment
  <2>5. VerifiedCalls' /\ PaidBeforeReceipt' /\ JobAfterHandler'
    BY <2>1 DEF VerifiedCalls, PaidBeforeReceipt, JobAfterHandler, Waits, PaidWaits
  <2>6. \A q \in Requests : Holds(q) => call[q].upload \in Uploads /\ call[q].upload # u
    BY <2>2, CallShape DEF HolderHasReceipt, TypeInv
  <2>7. \A q \in Requests : Holds(q)' => Holds(q) \/ q = r
    BY <2>1 DEF Holds
  <2>8. HolderHasReceipt'
    BY <2>1, <2>2, <2>6, <2>7 DEF HolderHasReceipt
  <2>9. OneHolder'
    BY <2>1, <2>6, <2>7 DEF OneHolder
  <2>10. QED
    BY <2>4, <2>5, <2>8, <2>9
<1>3. QED
  BY <1>1, <1>2

\* Handing the job to the queue, and what becomes of it there, leaves the
\* holders as they are.
LEMMA LedgerInvJob ==
    ASSUME TypeInv, LedgerInv, NEW r \in Requests, Enqueue(r) \/ JobAdded(r) \/ JobLost(r)
    PROVE  LedgerInv'
<1> USE DEF LedgerInv, rows, disk, frame
<1>1. /\ UNCHANGED <<payment, receipt, call>>
      /\ \A q \in Requests : Holds(q)' = Holds(q)
      /\ \A q \in Requests : pc'[q] = pc[q] \/ pc'[q] = "done"
  BY DEF Enqueue, JobAdded, JobLost, Goto, Holds, TypeInv, TypeOK
<1>2. RecordedPays' /\ HashInOneRow' /\ ReceiptNeedsPayment'
  BY <1>1 DEF RecordedPays, HashInOneRow, ReceiptNeedsPayment
<1>3. VerifiedCalls' /\ PaidBeforeReceipt'
  BY <1>1 DEF VerifiedCalls, PaidBeforeReceipt, Waits, PaidWaits
<1>4. HolderHasReceipt' /\ OneHolder'
  BY <1>1 DEF HolderHasReceipt, OneHolder
<1>5. JobAfterHandler'
  BY DEF Enqueue, JobAdded, JobLost, Goto, JobAfterHandler, TypeInv, TypeOK
<1>6. QED
  BY <1>2, <1>3, <1>4, <1>5

LEMMA LedgerInvNext == TypeInv /\ LedgerInv /\ Next => LedgerInv'
<1> SUFFICES ASSUME TypeInv, LedgerInv, Next PROVE LedgerInv'
  OBVIOUS
<1>1. ASSUME NEW r \in Requests, Verify(r) PROVE LedgerInv'
  <2>1. CASE VerifyConfirms(r)
    <3>1. AfterVerify(call[r].kind) \in {"find", "read"}
      BY DEF AfterVerify
    <3>2. QED
      BY <2>1, <3>1, QuietStep
         DEF VerifyConfirms, ConfirmedByChain, rows, frame, Waits, PaidWaits
  <2>2. CASE VerifyDenies(r)
    <3>1. CASE tries[r] > 1
      <4>1. UNCHANGED <<payment, receipt, pc, call, job>>
        BY <2>2, <3>1 DEF VerifyDenies, rows
      <4>2. QED
        BY <4>1 DEF LedgerInv, VerifiedCalls, RecordedPays, HashInOneRow,
           PaidBeforeReceipt, ReceiptNeedsPayment, HolderHasReceipt, OneHolder,
           JobAfterHandler, Holds
    <3>2. CASE ~(tries[r] > 1)
      BY <2>2, <3>2, QuietStep DEF VerifyDenies, rows, Waits, PaidWaits
    <3>3. QED BY <3>1, <3>2
  <2>3. CASE VerifyThrows(r)
    BY <2>3, QuietStep DEF VerifyThrows, rows, frame, Waits, PaidWaits
  <2>4. QED BY <1>1, <2>1, <2>2, <2>3 DEF Verify
<1>2. ASSUME NEW r \in Requests, WriteChunk(r) PROVE LedgerInv'
  <2> SUFFICES ASSUME pc[r] \in Waits \ {"verify"} PROVE LedgerInv'
    BY <1>2 DEF WriteChunk, ReadUpload, OpenBin, PumpEnds, PumpBreaks, AdvanceChunk,
       CompleteUpload, Waits
  <2>1. <<call[r].hash, call[r].upload>> \in Pays
    BY DEF LedgerInv, VerifiedCalls
  <2>2. PICK s : Goto(r, s) /\ s \notin PaidWaits /\ s # "enqueue"
    BY <1>2 DEF WriteChunk, ReadUpload, OpenBin, PumpEnds, PumpBreaks, AdvanceChunk,
       CompleteUpload, PaidWaits
  <2>3. UNCHANGED <<payment, receipt, call, job>>
    BY <1>2 DEF WriteChunk, ReadUpload, OpenBin, PumpEnds, PumpBreaks, AdvanceChunk,
       CompleteUpload, rows, frame
  <2>4. QED
    BY <2>1, <2>2, <2>3, QuietStep
<1>3. ASSUME NEW r \in Requests, CreateReceipt(r) PROVE LedgerInv'
  <2>1. CASE FindReceipt(r)
    <3>1. <<call[r].hash, call[r].upload>> \in Pays
      BY <2>1 DEF FindReceipt, LedgerInv, VerifiedCalls, Waits
    <3>2. QED
      BY <2>1, <3>1, QuietStep DEF FindReceipt, rows, frame, Waits, PaidWaits
  <2>2. CASE RecordPayment(r)
    BY <2>2, LedgerInvRecord
  <2>3. CASE RecordLocation(r)
    <3>1. <<call[r].hash, call[r].upload>> \in Pays
      BY <2>3 DEF RecordLocation, LedgerInv, VerifiedCalls, Waits
    <3>2. QED
      BY <2>3, <3>1, QuietStep DEF RecordLocation, frame, Waits, PaidWaits
  <2>4. CASE IssueReceipt(r)
    BY <2>4, LedgerInvIssue
  <2>5. QED BY <1>3, <2>1, <2>2, <2>3, <2>4 DEF CreateReceipt
<1>4. ASSUME NEW r \in Requests, Stop(r) PROVE LedgerInv'
  BY <1>4, QuietStep DEF Stop, rows, frame, Waits, PaidWaits
<1>5. QED
  BY <1>1, <1>2, <1>3, <1>4, LedgerInvCreate, LedgerInvBegin, LedgerInvJob, FaultyAssumption
     DEF Next, Handler

LEMMA LedgerInvStutter == LedgerInv /\ UNCHANGED vars => LedgerInv'
BY DEF LedgerInv, VerifiedCalls, RecordedPays, HashInOneRow, PaidBeforeReceipt,
   ReceiptNeedsPayment, HolderHasReceipt, OneHolder, JobAfterHandler, Holds,
   vars, rows, frame

\* The invariant of every behaviour; the theorems below read off it.
LEMMA Invariance == Spec => [](TypeInv /\ LedgerInv)
<1>1. Init => TypeInv /\ LedgerInv
  BY TypeInvInit, LedgerInvInit
<1>2. TypeInv /\ LedgerInv /\ [Next]_vars => (TypeInv /\ LedgerInv)'
  BY TypeInvNext, TypeInvStutter, LedgerInvNext, LedgerInvStutter
<1>3. QED
  BY <1>1, <1>2, PTL DEF Spec

\* At most one call per upload ever hands a job to the queue, however many
\* calls for it are in createReceipt at once.
THEOREM OneJobPerUploadHolds == Spec => []OneJobPerUpload
<1>1. LedgerInv => OneJobPerUpload
  BY DEF LedgerInv, OneHolder, Holds, OneJobPerUpload
<1>2. QED
  BY <1>1, Invariance, PTL

\* Every receipt is for an upload with a recorded transfer that pays for it.
THEOREM ReceiptIsPaidHolds == Spec => []ReceiptIsPaid
<1>1. LedgerInv => ReceiptIsPaid
  BY DEF LedgerInv, ReceiptNeedsPayment, RecordedPays, ReceiptIsPaid
<1>2. QED
  BY <1>1, Invariance, PTL

-----------------------------------------------------------------------------
(* The handlers implement the ledger. A step changes the ledger only where *)
(* it records a payment, creates a receipt or lands a job; the invariant   *)
(* gives the ledger's guards.                                              *)

Paid == [u \in Uploads |-> payment[u].hash]
Receipted == {u \in Uploads : receipt[u] # "NONE"}
Jobs == {p \in Uploads \X Requests : job[p[2]] = "queued" /\ call[p[2]].upload = p[1]}

\* A call still replaces the payment of an upload with a receipt.
Amending == \E r \in Requests, u \in Uploads, h \in Hashes :
              /\ pc[r] = "pay"
              /\ call[r].upload = u
              /\ u \in Receipted
              /\ Ledger!Amend(u, h)

LEMMA StrictNextIf ==
    /\ \A u \in Uploads, h \in Hashes : Ledger!Record(u, h) => Ledger!StrictNext
    /\ \A u \in Uploads : Ledger!Issue(u) => Ledger!StrictNext
    /\ \A u \in Uploads, r \in Requests : Ledger!Dispatch(u, r) => Ledger!StrictNext
BY DEF Ledger!StrictNext

LEMMA LedgerStep ==
    ASSUME TypeInv, LedgerInv, [Next]_vars
    PROVE  Ledger!StrictNext \/ Amending \/ UNCHANGED <<Paid, Receipted, Jobs>>
<1>1. ASSUME UNCHANGED <<payment, receipt, job, call>>
      PROVE  UNCHANGED <<Paid, Receipted, Jobs>>
  BY <1>1 DEF Paid, Receipted, Jobs
<1>2. ASSUME NEW u \in Uploads, CreatePayment(u) \/ CreateUpload(u)
      PROVE  UNCHANGED <<Paid, Receipted, Jobs>>
  <2>1. Paid' = Paid
    <3>1. CASE CreatePayment(u)
      BY <3>1 DEF CreatePayment, Paid, TypeInv, TypeOK
    <3>2. CASE CreateUpload(u)
      BY <3>2 DEF CreateUpload, Paid
    <3>3. QED BY <1>2, <3>1, <3>2
  <2>2. Receipted' = Receipted /\ Jobs' = Jobs
    BY <1>2 DEF CreatePayment, CreateUpload, Receipted, Jobs, frame
  <2>3. QED BY <2>1, <2>2
<1>3. ASSUME NEW r \in Requests, NEW u \in Uploads, NEW h \in Hashes,
             BeginSingle(r, u, h) \/ BeginChunk(r, u, h)
      PROVE  UNCHANGED <<Paid, Receipted, Jobs>>
  <2>1. /\ UNCHANGED <<payment, receipt, job>>
        /\ job[r] = "none"
        /\ \A q \in Requests \ {r} : call'[q] = call[q]
    BY <1>3 DEF BeginSingle, BeginChunk, Arrives, rows, TypeInv, TypeOK, LedgerInv,
       JobAfterHandler
  <2>2. Jobs' = Jobs
    BY <2>1 DEF Jobs
  <2>3. QED BY <2>1, <2>2 DEF Paid, Receipted
<1>4. ASSUME NEW r \in Requests, RecordPayment(r)
      PROVE  Ledger!StrictNext \/ Amending \/ UNCHANGED <<Paid, Receipted, Jobs>>
  <2>1. PICK u \in Uploads, h \in Hashes :
          u = call[r].upload /\ h = call[r].hash /\ <<h, u>> \in Pays
    BY <1>4, CallShape DEF RecordPayment, TypeInv, LedgerInv, VerifiedCalls, Waits
  <2>2. CASE HashTaken(h, u)
    BY <1>1, <1>4, <2>1, <2>2 DEF RecordPayment, frame
  <2>3. CASE ~HashTaken(h, u)
    <3>1. /\ payment' = [payment EXCEPT ![u] = [status |-> "SUCCEEDED", hash |-> h]]
          /\ UNCHANGED <<receipt, call, job>>
      BY <1>4, <2>1, <2>3 DEF RecordPayment, frame
    <3>2. Paid' = [Paid EXCEPT ![u] = h]
      BY <2>1, <3>1 DEF Paid, TypeInv, TypeOK
    <3>3. Receipted' = Receipted /\ Jobs' = Jobs
      BY <3>1 DEF Receipted, Jobs
    <3>4. Ledger!Spendable(h, u)
      BY <2>1, <2>3 DEF Ledger!Spendable, HashTaken
    <3>5. CASE u \in Receipted
      <4>1. Ledger!Amend(u, h)
        BY <3>2, <3>3, <3>4, <3>5 DEF Ledger!Amend, Paid, Receipted, Jobs
      <4>2. QED BY <1>4, <2>1, <3>5, <4>1 DEF Amending, RecordPayment
    <3>6. CASE u \notin Receipted
      <4>1. Ledger!Record(u, h)
        BY <3>2, <3>3, <3>4, <3>6 DEF Ledger!Record, Paid, Receipted, Jobs
      <4>2. QED BY <4>1, StrictNextIf
    <3>7. QED BY <3>5, <3>6
  <2>4. QED BY <2>2, <2>3
<1>5. ASSUME NEW r \in Requests, IssueReceipt(r)
      PROVE  Ledger!StrictNext \/ UNCHANGED <<Paid, Receipted, Jobs>>
  <2>1. PICK u \in Uploads : u = call[r].upload /\ payment[u].hash # NoHash
    BY <1>5, CallShape DEF IssueReceipt, TypeInv, LedgerInv, PaidBeforeReceipt, PaidWaits
  <2>2. CASE ReceiptTaken(u)
    BY <1>1, <1>5, <2>1, <2>2 DEF IssueReceipt, frame
  <2>3. CASE ~ReceiptTaken(u)
    <3>1. /\ receipt' = [receipt EXCEPT ![u] = "PAID"]
          /\ UNCHANGED <<payment, call, job>>
      BY <1>5, <2>1, <2>3 DEF IssueReceipt, frame
    <3>2. u \notin Receipted /\ Receipted' = Receipted \union {u}
      BY <2>1, <2>3, <3>1 DEF Receipted, ReceiptTaken, TypeInv, TypeOK
    <3>3. Paid' = Paid /\ Jobs' = Jobs
      BY <3>1 DEF Paid, Jobs
    <3>4. Paid[u] # NoHash
      BY <2>1 DEF Paid
    <3>5. Ledger!Issue(u)
      BY <3>2, <3>3, <3>4 DEF Ledger!Issue, Paid, Receipted, Jobs
    <3>6. QED BY <3>5, StrictNextIf
  <2>4. QED BY <2>2, <2>3
<1>6. ASSUME NEW r \in Requests, JobAdded(r)
      PROVE  Ledger!StrictNext
  <2> DEFINE u == call[r].upload
  <2>1. /\ job[r] = "adding"
        /\ job' = [job EXCEPT ![r] = "queued"]
        /\ UNCHANGED <<payment, receipt, call>>
    BY <1>6 DEF JobAdded, rows, frame
  <2>2. u \in Receipted
    BY <2>1, CallShape DEF Receipted, TypeInv, LedgerInv, HolderHasReceipt, Holds
  <2>3. \A k \in Requests : <<u, k>> \notin Jobs
    BY <2>1 DEF Jobs, LedgerInv, OneHolder, Holds
  <2>4. Jobs' = Jobs \union {<<u, r>>}
    BY <2>1, <2>2 DEF Jobs, Receipted, TypeInv, TypeOK
  <2>5. Paid' = Paid /\ Receipted' = Receipted
    BY <2>1 DEF Paid, Receipted
  <2>6. Ledger!Dispatch(u, r)
    BY <2>2, <2>3, <2>4, <2>5 DEF Ledger!Dispatch, Paid, Receipted, Jobs
  <2>7. QED BY <2>2, <2>6, StrictNextIf DEF Receipted
<1>7. ASSUME NEW r \in Requests, Enqueue(r) \/ JobLost(r)
      PROVE  UNCHANGED <<Paid, Receipted, Jobs>>
  <2>1. /\ UNCHANGED <<payment, receipt, call>>
        /\ job[r] # "queued" /\ job'[r] # "queued"
        /\ \A q \in Requests \ {r} : job'[q] = job[q]
    BY <1>7 DEF Enqueue, JobLost, rows, frame, TypeInv, TypeOK, LedgerInv, JobAfterHandler
  <2>2. Jobs' = Jobs
    BY <2>1 DEF Jobs
  <2>3. QED BY <2>1, <2>2 DEF Paid, Receipted
<1>8. ASSUME NEW r \in Requests,
             Verify(r) \/ WriteChunk(r) \/ FindReceipt(r) \/ RecordLocation(r) \/ Stop(r)
      PROVE  UNCHANGED <<Paid, Receipted, Jobs>>
  <2>1. UNCHANGED <<payment, receipt, job, call>>
    BY <1>8 DEF Verify, VerifyConfirms, VerifyDenies, VerifyThrows, WriteChunk, ReadUpload,
       OpenBin, PumpEnds, PumpBreaks, AdvanceChunk, CompleteUpload, FindReceipt,
       RecordLocation, Stop, rows, frame
  <2>2. QED BY <1>1, <2>1
<1>9. CASE UNCHANGED vars
  BY <1>1, <1>9 DEF vars, rows, frame
<1>10. QED
  BY <1>2, <1>3, <1>4, <1>5, <1>6, <1>7, <1>8, <1>9, FaultyAssumption
     DEF Next, Handler, CreateReceipt

\* The handlers implement the payment ledger: whatever the calls and their
\* faults, a client sees payments recorded once, receipts given for recorded
\* payments only, and one job per receipt.
THEOREM LedgerImplemented == Spec => ImplementsLedger
<1>1. Init => Ledger!Init
  BY DEF Init, Ledger!Init
<1>2. TypeInv /\ LedgerInv /\ [Next]_vars => [Ledger!Next]_(Ledger!vars)
  <2>1. Amending => Ledger!Next
    BY DEF Amending, Ledger!Next
  <2>2. QED
    BY <2>1, LedgerStep DEF Ledger!Next, Ledger!vars, Paid, Receipted, Jobs
<1>3. QED
  BY <1>1, <1>2, Invariance, PTL DEF Spec, ImplementsLedger, Ledger!Spec

-----------------------------------------------------------------------------
(* Steps of one call. Handlers share rows and files, but a call moves only *)
(* by its own steps.                                                       *)

Begins(r) == \E u \in Uploads, h \in Hashes : BeginSingle(r, u, h) \/ BeginChunk(r, u, h)

LEMMA OneCallMoves ==
    ASSUME TypeOK, [Next]_vars, NEW r \in Requests
    PROVE  \/ Begins(r) \/ Handler(r) \/ Stop(r)
           \/ pc'[r] = pc[r] /\ call'[r] = call[r] /\ tries'[r] = tries[r]
<1> DEFINE Still == pc'[r] = pc[r] /\ call'[r] = call[r] /\ tries'[r] = tries[r]
<1>1. ASSUME NEW q \in Requests, q # r, Begins(q) PROVE Still
  BY <1>1 DEF Begins, BeginSingle, BeginChunk, Arrives, Goto, TypeOK
<1>2. ASSUME NEW q \in Requests, q # r, Verify(q) PROVE Still
  BY <1>2 DEF Verify, VerifyConfirms, VerifyDenies, VerifyThrows, Goto, frame, TypeOK
<1>3. ASSUME NEW q \in Requests, q # r, WriteChunk(q) PROVE Still
  BY <1>3 DEF WriteChunk, ReadUpload, OpenBin, PumpEnds, PumpBreaks, AdvanceChunk,
     CompleteUpload, Goto, frame, TypeOK
<1>4. ASSUME NEW q \in Requests, q # r, CreateReceipt(q) PROVE Still
  BY <1>4 DEF CreateReceipt, FindReceipt, RecordPayment, RecordLocation, IssueReceipt, Goto,
     frame, TypeOK
<1>5. ASSUME NEW q \in Requests, q # r, Enqueue(q) \/ Stop(q) PROVE Still
  BY <1>5 DEF Enqueue, Stop, Goto, frame, TypeOK
<1>6. ASSUME UNCHANGED <<pc, frame>> PROVE Still
  BY <1>6 DEF frame
<1>7. ASSUME NEW q \in Requests, JobAdded(q) \/ JobLost(q) PROVE Still
  BY <1>6, <1>7 DEF JobAdded, JobLost
<1>8. ASSUME NEW u \in Uploads, CreatePayment(u) \/ CreateUpload(u) PROVE Still
  BY <1>6, <1>8 DEF CreatePayment, CreateUpload
<1>9. QED
  BY <1>1, <1>2, <1>3, <1>4, <1>5, <1>6, <1>7, <1>8, FaultyAssumption DEF Next, Handler, Begins, vars

\* How far a call is from its end: the denials it may still take, and the awaits left.
AwaitsLeft(s) ==
    CASE s = "idle" -> 12 [] s = "verify" -> 11 [] s = "read" -> 10 [] s = "open" -> 9
      [] s = "pump" -> 8 [] s = "advance" -> 7 [] s = "complete" -> 6 [] s = "find" -> 5
      [] s = "pay" -> 4 [] s = "locate" -> 3 [] s = "issue" -> 2 [] s = "enqueue" -> 1
      [] OTHER -> 0

StepsLeft(r) == tries[r] + AwaitsLeft(pc[r])

LEMMA StepsRunOut ==
    ASSUME TypeInv, NEW r \in Requests, Handler(r) \/ Stop(r)
    PROVE  StepsLeft(r)' < StepsLeft(r)
<1> USE DEF TypeInv, TypeOK, StepsLeft, AwaitsLeft, Goto
<1>1. tries[r] \in Nat
  BY BoundsAssumption
<1>2. CASE Verify(r)
  <2>1. CASE VerifyConfirms(r)
    BY <1>1, <2>1 DEF VerifyConfirms, AfterVerify, frame
  <2>2. CASE VerifyDenies(r)
    BY <1>1, <2>2 DEF VerifyDenies
  <2>3. CASE VerifyThrows(r)
    BY <1>1, <2>3 DEF VerifyThrows, frame
  <2>4. QED BY <1>2, <2>1, <2>2, <2>3 DEF Verify
<1>3. CASE WriteChunk(r)
  <2>1. CASE ReadUpload(r)
    BY <1>1, <2>1 DEF ReadUpload
  <2>2. CASE OpenBin(r) \/ PumpEnds(r) \/ PumpBreaks(r)
    BY <1>1, <2>2 DEF OpenBin, PumpEnds, PumpBreaks, frame
  <2>3. CASE AdvanceChunk(r) \/ CompleteUpload(r)
    BY <1>1, <2>3 DEF AdvanceChunk, CompleteUpload, frame
  <2>4. QED BY <1>3, <2>1, <2>2, <2>3 DEF WriteChunk
<1>4. CASE CreateReceipt(r)
  BY <1>1, <1>4 DEF CreateReceipt, FindReceipt, RecordPayment, RecordLocation, IssueReceipt, frame
<1>5. CASE Enqueue(r)
  BY <1>1, <1>5 DEF Enqueue, frame
<1>6. CASE Stop(r)
  BY <1>1, <1>6 DEF Stop, Waits, frame
<1>7. QED BY <1>2, <1>3, <1>4, <1>5, <1>6 DEF Handler

\* A step of a call that was made brings it nearer to its end.
RunsOut ==
    \A r \in Requests : \/ pc[r] = "idle"
                        \/ UNCHANGED <<pc[r], tries[r]>>
                        \/ StepsLeft(r)' < StepsLeft(r)

\* Once a call was made, every step it takes brings it nearer to its end, whatever other
\* calls do meanwhile, so it has at most MaxTries + 11 of them: the retry loop gives up.
THEOREM CallsRunOut ==
    Spec => /\ [](\A r \in Requests : StepsLeft(r) \in 0 .. MaxTries + 12)
            /\ [][RunsOut]_vars
<1>1. ASSUME TypeInv, [Next]_vars PROVE RunsOut
  <2> SUFFICES ASSUME NEW r \in Requests, pc[r] # "idle"
               PROVE  UNCHANGED <<pc[r], tries[r]>> \/ StepsLeft(r)' < StepsLeft(r)
    BY DEF RunsOut
  <2>1. ~Begins(r)
    BY DEF Begins, BeginSingle, BeginChunk, Arrives
  <2>2. QED BY <1>1, <2>1, OneCallMoves, StepsRunOut DEF TypeInv
<1>2. TypeInv /\ [Next]_vars => [RunsOut]_vars
  BY <1>1
<1>3. ASSUME TypeInv, NEW r \in Requests PROVE StepsLeft(r) \in 0 .. MaxTries + 12
  <2>1. MaxTries \in Nat /\ tries[r] \in 0 .. MaxTries
    BY <1>3, BoundsAssumption DEF TypeInv, TypeOK
  <2>2. AwaitsLeft(pc[r]) \in 0 .. 12
    BY DEF AwaitsLeft
  <2>3. QED BY <2>1, <2>2 DEF StepsLeft
<1>4. TypeInv => \A r \in Requests : StepsLeft(r) \in 0 .. MaxTries + 12
  BY <1>3
<1>5. QED BY <1>2, <1>4, Invariance, PTL DEF Spec

-----------------------------------------------------------------------------
(* Verification. What a call does while it verifies is what PaymentOracle  *)
(* allows, no less and no more, and the oracle is what PaymentVerification *)
(* implements for every chain.                                             *)

\* What the call knows of its transfer: nothing yet, or why it went on or failed.
AnswerOf(r) == IF pc[r] = "verify" THEN "none"
               ELSE IF pc[r] # "failed" THEN "confirmed"
               ELSE IF tries[r] = 0 THEN "denied" ELSE "thrown"

Oracle(r) == INSTANCE PaymentOracle WITH
    paid <- <<call[r].hash, call[r].upload>> \in Pays,
    left <- tries[r],
    answer <- AnswerOf(r)

\* Nothing but the call of r moves, and that to where verification may lead.
OnlyVerifies(r) ==
    /\ UNCHANGED <<rows, disk, call, chunk, job>>
    /\ \E s \in {"verify", "failed", AfterVerify(call[r].kind)} : Goto(r, s)
    /\ \E n \in Nat : tries' = [tries EXCEPT ![r] = n]

\* An answer of the oracle is a step of verification, and the other way round.
LEMMA VerifyIsOracle ==
    ASSUME TypeInv, NEW r \in Requests, pc[r] = "verify"
    PROVE  Verify(r) <=> OnlyVerifies(r) /\ Oracle(r)!Next
<1> DEFINE after == AfterVerify(call[r].kind)
<1>1. /\ tries[r] \in Nat /\ tries[r] >= 1 /\ AnswerOf(r) = "none"
      /\ after \notin {"verify", "failed"}
      /\ tries \in [Requests -> Nat] /\ pc \in [Requests -> {"idle"} \union Waits \union Ended]
  BY BoundsAssumption DEF TypeInv, TypeOK, TriesLeft, AnswerOf, AfterVerify
<1>2. ASSUME Verify(r) PROVE OnlyVerifies(r) /\ Oracle(r)!Next
  <2>1. CASE VerifyConfirms(r)
    <3>1. pc'[r] = after /\ tries' = [tries EXCEPT ![r] = tries[r]]
      BY <1>1, <2>1 DEF VerifyConfirms, Goto, frame
    <3>2. OnlyVerifies(r)
      BY <1>1, <2>1, <3>1 DEF VerifyConfirms, OnlyVerifies, frame
    <3>3. Oracle(r)!Confirm
      BY <1>1, <2>1, <3>1 DEF VerifyConfirms, ConfirmedByChain, Oracle!Confirm, AnswerOf, frame
    <3>4. QED BY <3>2, <3>3 DEF Oracle!Next
  <2>2. CASE VerifyDenies(r)
    <3>1. tries[r] - 1 \in Nat /\ tries' = [tries EXCEPT ![r] = tries[r] - 1]
      BY <1>1, <2>2 DEF VerifyDenies
    <3>2. pc' = [pc EXCEPT ![r] = IF tries[r] > 1 THEN "verify" ELSE "failed"]
      BY <1>1, <2>2 DEF VerifyDenies, Goto
    <3>3. OnlyVerifies(r)
      BY <2>2, <3>1, <3>2 DEF VerifyDenies, OnlyVerifies, Goto
    <3>4. Oracle(r)!Deny
      BY <1>1, <2>2, <3>1, <3>2 DEF VerifyDenies, Oracle!Deny, AnswerOf
    <3>5. QED BY <3>3, <3>4 DEF Oracle!Next
  <2>3. CASE VerifyThrows(r)
    <3>1. pc'[r] = "failed" /\ tries' = [tries EXCEPT ![r] = tries[r]]
      BY <1>1, <2>3 DEF VerifyThrows, Goto, frame
    <3>2. OnlyVerifies(r)
      BY <1>1, <2>3, <3>1 DEF VerifyThrows, OnlyVerifies, frame
    <3>3. Oracle(r)!Throw
      BY <1>1, <2>3, <3>1 DEF VerifyThrows, Oracle!Throw, AnswerOf, frame
    <3>4. QED BY <3>2, <3>3 DEF Oracle!Next
  <2>4. QED BY <1>2, <2>1, <2>2, <2>3 DEF Verify
<1>3. ASSUME OnlyVerifies(r), Oracle(r)!Next PROVE Verify(r)
  <2>1. PICK s \in {"verify", "failed", after}, n \in Nat :
          pc' = [pc EXCEPT ![r] = s] /\ tries' = [tries EXCEPT ![r] = n]
    BY <1>3 DEF OnlyVerifies, Goto
  <2>2. pc'[r] = s /\ tries'[r] = n /\ UNCHANGED <<rows, disk, call, chunk, job>>
    BY <1>1, <1>3, <2>1 DEF OnlyVerifies
  <2>3. CASE Oracle(r)!Confirm
    <3>1. s = after /\ n = tries[r] /\ <<call[r].hash, call[r].upload>> \in Pays
      BY <1>1, <2>1, <2>2, <2>3 DEF Oracle!Confirm, AnswerOf
    <3>2. tries' = tries
      BY <1>1, <2>1, <3>1
    <3>3. QED
      BY <2>1, <2>2, <3>1, <3>2 DEF Verify, VerifyConfirms, ConfirmedByChain, Goto, frame
  <2>4. CASE Oracle(r)!Deny
    <3>1. n = tries[r] - 1 /\ s = IF tries[r] > 1 THEN "verify" ELSE "failed"
      BY <1>1, <2>1, <2>2, <2>4 DEF Oracle!Deny, AnswerOf
    <3>2. s = "verify" => pc' = pc
      BY <1>1, <2>1
    <3>3. QED
      BY <2>1, <2>2, <3>1, <3>2 DEF Verify, VerifyDenies, Goto
  <2>5. CASE Oracle(r)!Throw
    <3>1. s = "failed" /\ n = tries[r]
      BY <1>1, <2>1, <2>2, <2>5 DEF Oracle!Throw, AnswerOf
    <3>2. tries' = tries
      BY <1>1, <2>1, <3>1
    <3>3. QED
      BY <2>1, <2>2, <3>1, <3>2 DEF Verify, VerifyThrows, Goto, frame
  <2>6. QED BY <1>3, <2>3, <2>4, <2>5 DEF Oracle!Next
<1>4. QED BY <1>2, <1>3

\* A call that verifies goes on with a transfer that pays for its upload only, after no
\* more denials than it has tries, whatever other calls do meanwhile.
THEOREM VerifiesAsOracle ==
    Spec => [][\A r \in Requests :
                 pc[r] = "verify" => [Oracle(r)!Next]_(Oracle(r)!vars)]_vars
<1> DEFINE AsOracle == \A r \in Requests :
                         pc[r] = "verify" => [Oracle(r)!Next]_(Oracle(r)!vars)
<1>1. ASSUME TypeInv, [Next]_vars PROVE AsOracle
  <2> SUFFICES ASSUME NEW r \in Requests, pc[r] = "verify"
               PROVE  [Oracle(r)!Next]_(Oracle(r)!vars)
    OBVIOUS
  <2>1. CASE pc'[r] = pc[r] /\ call'[r] = call[r] /\ tries'[r] = tries[r]
    BY <2>1 DEF Oracle!vars, AnswerOf
  <2>2. CASE Handler(r)
    <3>1. Verify(r)
      BY <2>2 DEF Handler, WriteChunk, ReadUpload, OpenBin, PumpEnds, PumpBreaks, AdvanceChunk,
         CompleteUpload, CreateReceipt, FindReceipt, RecordPayment, RecordLocation, IssueReceipt,
         Enqueue
    <3>2. QED BY <1>1, <3>1, VerifyIsOracle
  <2>3. CASE Stop(r)
    <3>1. Oracle(r)!Throw
      BY <1>1, <2>3, BoundsAssumption
      DEF Stop, Goto, Oracle!Throw, AnswerOf, frame, TypeInv, TypeOK, TriesLeft
    <3>2. QED BY <3>1 DEF Oracle!Next
  <2>4. ~Begins(r)
    BY DEF Begins, BeginSingle, BeginChunk, Arrives
  <2>5. QED BY <1>1, <2>1, <2>2, <2>3, <2>4, OneCallMoves DEF TypeInv
<1>2. TypeInv /\ [Next]_vars => [AsOracle]_vars
  BY <1>1
<1>3. QED BY <1>2, Invariance, PTL DEF Spec

-----------------------------------------------------------------------------
(* One call per upload at a time.                                          *)

\* The calls for one upload do not overlap.
OneAtATime == \A r, s \in Requests :
                pc[r] \in Waits /\ pc[s] \in Waits /\ call[r].upload = call[s].upload => r = s

\* What the receipt lookup found still holds when the call acts on it.
NoReceiptYet == \A r \in Requests :
                  pc[r] \in {"pay", "locate", "issue"} => receipt[call[r].upload] = "NONE"

\* A call past the payment update, or whose job is on its way, finds its own
\* transfer on record, and past the next update its own file.
OwnPayment == \A r \in Requests :
                pc[r] \in PaidWaits \/ job[r] # "none"
                  => payment[call[r].upload].hash = call[r].hash

OwnLocation == \A r \in Requests :
                 pc[r] \in {"issue", "enqueue"} \/ job[r] # "none"
                   => upload[call[r].upload].fileLocation = PathOf(r)

SequentialInv == OneAtATime /\ NoReceiptYet /\ OwnPayment /\ OwnLocation

LEMMA SequentialInit == Init => SequentialInv
BY DEF Init, SequentialInv, OneAtATime, NoReceiptYet, OwnPayment, OwnLocation, Waits, PaidWaits

LEMMA SequentialStutter == SequentialInv /\ UNCHANGED vars => SequentialInv'
BY DEF SequentialInv, OneAtATime, NoReceiptYet, OwnPayment, OwnLocation, PathOf,
   vars, rows, frame

SameLocations == \A u \in Uploads : upload'[u].fileLocation = upload[u].fileLocation

\* A handler moves, or ends, without touching payment, receipt, location or
\* job; it may go on to record a payment only if there is no receipt.
LEMMA SequentialQuiet ==
    ASSUME TypeInv, LedgerInv, SequentialInv, NEW r \in Requests, NEW s,
           UNCHANGED <<payment, receipt, call, job>>,
           SameLocations,
           pc[r] \in Waits,
           Goto(r, s),
           s \notin PaidWaits,
           s = "pay" => receipt[call[r].upload] = "NONE"
    PROVE  SequentialInv'
<1> USE DEF SequentialInv
<1>1. /\ pc'[r] = s
      /\ \A q \in Requests \ {r} : pc'[q] = pc[q]
  BY DEF Goto, TypeInv, TypeOK
<1>2. job[r] = "none"
  BY DEF LedgerInv, JobAfterHandler, Waits
<1>3. OneAtATime'
  BY <1>1 DEF OneAtATime
<1>4. NoReceiptYet'
  BY <1>1 DEF NoReceiptYet, PaidWaits
<1>5. OwnPayment'
  BY <1>1, <1>2 DEF OwnPayment
<1>6. OwnLocation'
  <2>1. ASSUME NEW q \in Requests, pc'[q] \in {"issue", "enqueue"} \/ job'[q] # "none"
        PROVE  upload'[call'[q].upload].fileLocation = PathOf(q)'
    <3>1. (pc[q] \in {"issue", "enqueue"} \/ job[q] # "none") /\ pc[q] # "idle"
      BY <1>1, <1>2, <2>1 DEF PaidWaits, LedgerInv, JobAfterHandler
    <3>2. call[q].upload \in Uploads
      BY <3>1, CallShape DEF TypeInv
    <3>3. QED
      BY <3>1, <3>2 DEF OwnLocation, SameLocations, PathOf
  <2>2. QED BY <2>1 DEF OwnLocation
<1>7. QED
  BY <1>3, <1>4, <1>5, <1>6

\* A call arrives only when no other call for its upload is open.
LEMMA SequentialBegin ==
    ASSUME TypeInv, LedgerInv, SequentialInv, MaxInFlight = 1,
           NEW r \in Requests, NEW u \in Uploads, NEW h \in Hashes,
           BeginSingle(r, u, h) \/ BeginChunk(r, u, h)
    PROVE  SequentialInv'
<1> USE DEF SequentialInv, rows
<1>1. /\ UNCHANGED <<upload, payment, receipt, job>>
      /\ pc[r] = "idle" /\ pc'[r] \in {"verify", "failed"}
      /\ call'[r].upload = u
      /\ \A q \in Requests \ {r} : pc'[q] = pc[q] /\ call'[q] = call[q]
  BY DEF BeginSingle, BeginChunk, Arrives, Goto, TypeInv, TypeOK
<1>2. job[r] = "none"
  BY <1>1 DEF LedgerInv, JobAfterHandler
<1>3. InFlight(u) = {}
  <2>1. IsFiniteSet(InFlight(u))
    BY RequestsAssumption, FS_Subset DEF InFlight
  <2>2. Cardinality(InFlight(u)) < 1
    BY DEF BeginSingle, BeginChunk, Arrives
  <2>3. Cardinality(InFlight(u)) \in Nat
    BY <2>1, FS_CardinalityType
  <2>4. QED
    BY <2>1, <2>2, <2>3, FS_EmptySet
<1>4. \A q \in Requests : pc[q] \in Waits => call[q].upload # u
  BY <1>3 DEF InFlight, Uses
<1>5. OneAtATime'
  BY <1>1, <1>4 DEF OneAtATime, Waits
<1>6. NoReceiptYet' /\ OwnPayment'
  BY <1>1, <1>2 DEF NoReceiptYet, OwnPayment, PaidWaits
<1>7. OwnLocation'
  BY <1>1, <1>2 DEF OwnLocation, PathOf
<1>8. QED
  BY <1>5, <1>6, <1>7

\* While a call acts on an upload without a receipt, no other call acts on it
\* and none holds a job for it.
LEMMA SequentialAlone ==
    ASSUME LedgerInv, SequentialInv, NEW r \in Requests, NEW q \in Requests \ {r},
           pc[r] \in {"pay", "locate", "issue"},
           pc[q] \in Waits \/ job[q] # "none"
    PROVE  call[q].upload # call[r].upload
BY DEF LedgerInv, SequentialInv, OneAtATime, NoReceiptYet, HolderHasReceipt, Holds, Waits

LEMMA SequentialRecord ==
    ASSUME TypeInv, LedgerInv, SequentialInv, NEW r \in Requests, RecordPayment(r)
    PROVE  SequentialInv'
<1> USE DEF SequentialInv, disk, frame
<1> DEFINE u == call[r].upload
<1>1. CASE HashTaken(call[r].hash, u)
  BY <1>1, SequentialQuiet DEF RecordPayment, SameLocations, Waits, PaidWaits
<1>2. CASE ~HashTaken(call[r].hash, u)
  <2>1. /\ pc[r] = "pay" /\ pc'[r] = "locate" /\ u \in Uploads
        /\ \A q \in Requests \ {r} : pc'[q] = pc[q]
        /\ UNCHANGED <<upload, receipt, call, job>>
    BY <1>2, CallShape DEF RecordPayment, Goto, TypeInv, TypeOK
  <2>2. /\ payment'[u].hash = call[r].hash
        /\ \A v \in Uploads \ {u} : payment'[v] = payment[v]
    BY <1>2, <2>1 DEF RecordPayment, TypeInv, TypeOK
  <2>3. job[r] = "none"
    BY <2>1 DEF LedgerInv, JobAfterHandler
  <2>4. OneAtATime' /\ NoReceiptYet'
    BY <2>1 DEF OneAtATime, NoReceiptYet, Waits
  <2>5. OwnPayment'
    <3>1. ASSUME NEW q \in Requests \ {r}, pc[q] \in PaidWaits \/ job[q] # "none"
          PROVE  call[q].upload \in Uploads \ {u}
      <4>1. pc[q] # "idle"
        BY <3>1 DEF LedgerInv, JobAfterHandler, PaidWaits
      <4>2. QED
        BY <2>1, <3>1, <4>1, CallShape, SequentialAlone DEF TypeInv, PaidWaits, Waits
    <3>2. QED
      BY <2>1, <2>2, <2>3, <3>1 DEF OwnPayment
  <2>6. OwnLocation'
    BY <2>1, <2>3 DEF OwnLocation, PathOf
  <2>7. QED
    BY <2>4, <2>5, <2>6
<1>3. QED
  BY <1>1, <1>2

LEMMA SequentialLocate ==
    ASSUME TypeInv, LedgerInv, SequentialInv, NEW r \in Requests, RecordLocation(r)
    PROVE  SequentialInv'
<1> USE DEF SequentialInv, disk, frame
<1> DEFINE u == call[r].upload
<1>1. /\ pc[r] = "locate" /\ pc'[r] = "issue" /\ u \in Uploads
      /\ \A q \in Requests \ {r} : pc'[q] = pc[q]
      /\ UNCHANGED <<payment, receipt, call, job>>
  BY CallShape DEF RecordLocation, Goto, TypeInv, TypeOK
<1>2. /\ upload'[u].fileLocation = PathOf(r)
      /\ \A v \in Uploads \ {u} : upload'[v] = upload[v]
  BY <1>1 DEF RecordLocation, TypeInv, TypeOK
<1>3. job[r] = "none"
  BY <1>1 DEF LedgerInv, JobAfterHandler
<1>4. OneAtATime' /\ NoReceiptYet' /\ OwnPayment'
  BY <1>1 DEF OneAtATime, NoReceiptYet, OwnPayment, Waits, PaidWaits
<1>5. OwnLocation'
  <2>1. ASSUME NEW q \in Requests \ {r}, pc[q] \in {"issue", "enqueue"} \/ job[q] # "none"
        PROVE  call[q].upload \in Uploads \ {u}
    <3>1. pc[q] # "idle"
      BY <2>1 DEF LedgerInv, JobAfterHandler
    <3>2. QED
      BY <1>1, <2>1, <3>1, CallShape, SequentialAlone DEF TypeInv, Waits
  <2>2. QED
    BY <1>1, <1>2, <1>3, <2>1 DEF OwnLocation, PathOf
<1>6. QED
  BY <1>4, <1>5

LEMMA SequentialIssue ==
    ASSUME TypeInv, LedgerInv, SequentialInv, NEW r \in Requests, IssueReceipt(r)
    PROVE  SequentialInv'
<1> USE DEF SequentialInv, disk, frame
<1> DEFINE u == call[r].upload
<1>1. CASE ReceiptTaken(u)
  BY <1>1, SequentialQuiet DEF IssueReceipt, SameLocations, Waits, PaidWaits
<1>2. CASE ~ReceiptTaken(u)
  <2>1. /\ pc[r] = "issue" /\ pc'[r] = "enqueue" /\ u \in Uploads
        /\ \A q \in Requests \ {r} : pc'[q] = pc[q]
        /\ UNCHANGED <<upload, payment, call, job>>
        /\ \A v \in Uploads \ {u} : receipt'[v] = receipt[v]
    BY <1>2, CallShape DEF IssueReceipt, Goto, TypeInv, TypeOK
  <2>2. OneAtATime' /\ OwnPayment'
    BY <2>1 DEF OneAtATime, OwnPayment, Waits, PaidWaits
  <2>3. OwnLocation'
    BY <2>1 DEF OwnLocation, PathOf
  <2>4. NoReceiptYet'
    <3>1. ASSUME NEW q \in Requests \ {r}, pc[q] \in {"pay", "locate", "issue"}
          PROVE  call[q].upload \in Uploads \ {u}
      BY <2>1, <3>1, CallShape, SequentialAlone DEF TypeInv, Waits
    <3>2. QED
      BY <2>1, <3>1 DEF NoReceiptYet
  <2>5. QED
    BY <2>2, <2>3, <2>4
<1>3. QED
  BY <1>1, <1>2

\* Handing over the job, and what becomes of it, changes no row.
LEMMA SequentialJob ==
    ASSUME TypeInv, LedgerInv, SequentialInv, NEW r \in Requests,
           Enqueue(r) \/ JobAdded(r) \/ JobLost(r)
    PROVE  SequentialInv'
<1> USE DEF SequentialInv, rows, disk, frame
<1>1. /\ UNCHANGED <<upload, payment, receipt, call>>
      /\ \A q \in Requests : pc'[q] = pc[q] \/ pc'[q] = "done"
      /\ \A q \in Requests : job'[q] # "none" => pc[q] = "enqueue" \/ job[q] # "none"
  BY DEF Enqueue, JobAdded, JobLost, Goto, TypeInv, TypeOK
<1>2. OneAtATime' /\ NoReceiptYet'
  BY <1>1 DEF OneAtATime, NoReceiptYet, Waits
<1>3. OwnPayment'
  BY <1>1 DEF OwnPayment, PaidWaits
<1>4. OwnLocation'
  BY <1>1 DEF OwnLocation, PathOf
<1>5. QED
  BY <1>2, <1>3, <1>4

\* The creation of rows records no transfer and no location.
LEMMA SequentialCreate ==
    ASSUME TypeInv, LedgerInv, SequentialInv,
           NEW u \in Uploads, CreatePayment(u) \/ CreateUpload(u)
    PROVE  SequentialInv'
<1> USE DEF SequentialInv, frame, disk
<1>1. /\ UNCHANGED <<receipt, pc, call, job>>
      /\ \A v \in Uploads : /\ payment'[v].hash = payment[v].hash
                            /\ upload'[v].fileLocation = upload[v].fileLocation
  <2>1. CASE CreatePayment(u)
    BY <2>1 DEF CreatePayment, TypeInv, TypeOK
  <2>2. CASE CreateUpload(u)
    BY <2>2 DEF CreateUpload, TypeInv, TypeOK
  <2>3. QED
    BY <2>1, <2>2
<1>2. OneAtATime' /\ NoReceiptYet'
  BY <1>1 DEF OneAtATime, NoReceiptYet
<1>3. ASSUME NEW q \in Requests, pc[q] \in PaidWaits \/ job[q] # "none"
      PROVE  call[q].upload \in Uploads
  <2>1. pc[q] # "idle"
    BY <1>3 DEF LedgerInv, JobAfterHandler, PaidWaits
  <2>2. QED
    BY <2>1, CallShape DEF TypeInv
<1>4. OwnPayment'
  BY <1>1, <1>3 DEF OwnPayment
<1>5. OwnLocation'
  BY <1>1, <1>3 DEF OwnLocation, PathOf, PaidWaits
<1>6. QED
  BY <1>2, <1>4, <1>5

LEMMA SequentialNext ==
    MaxInFlight = 1 /\ TypeInv /\ LedgerInv /\ SequentialInv /\ Next => SequentialInv'
<1> SUFFICES ASSUME MaxInFlight = 1, TypeInv, LedgerInv, SequentialInv, Next
             PROVE  SequentialInv'
  OBVIOUS
<1>1. ASSUME NEW r \in Requests, Verify(r) PROVE SequentialInv'
  <2>1. CASE VerifyConfirms(r)
    <3>1. AfterVerify(call[r].kind) \in {"find", "read"}
      BY DEF AfterVerify
    <3>2. QED
      BY <2>1, <3>1, SequentialQuiet
         DEF VerifyConfirms, SameLocations, rows, frame, Waits, PaidWaits
  <2>2. CASE VerifyDenies(r)
    <3>1. CASE tries[r] > 1
      <4>1. UNCHANGED <<rows, pc, call, job>>
        BY <2>2, <3>1 DEF VerifyDenies
      <4>2. QED
        BY <4>1 DEF SequentialInv, OneAtATime, NoReceiptYet, OwnPayment, OwnLocation,
           PathOf, rows
    <3>2. CASE ~(tries[r] > 1)
      BY <2>2, <3>2, SequentialQuiet DEF VerifyDenies, SameLocations, rows, Waits, PaidWaits
    <3>3. QED BY <3>1, <3>2
  <2>3. CASE VerifyThrows(r)
    BY <2>3, SequentialQuiet DEF VerifyThrows, SameLocations, rows, frame, Waits, PaidWaits
  <2>4. QED BY <1>1, <2>1, <2>2, <2>3 DEF Verify
<1>2. ASSUME NEW r \in Requests, WriteChunk(r) PROVE SequentialInv'
  <2>1. pc[r] \in Waits
    BY <1>2 DEF WriteChunk, ReadUpload, OpenBin, PumpEnds, PumpBreaks, AdvanceChunk,
       CompleteUpload, Waits
  <2>2. PICK s : Goto(r, s) /\ s \notin PaidWaits /\ s # "pay"
    BY <1>2 DEF WriteChunk, ReadUpload, OpenBin, PumpEnds, PumpBreaks, AdvanceChunk,
       CompleteUpload, PaidWaits
  <2>3. UNCHANGED <<payment, receipt, call, job>>
    BY <1>2 DEF WriteChunk, ReadUpload, OpenBin, PumpEnds, PumpBreaks, AdvanceChunk,
       CompleteUpload, rows, frame
  <2>4. SameLocations
    <3>1. CASE AdvanceChunk(r)
      BY <3>1 DEF AdvanceChunk, SameLocations, TypeInv, TypeOK
    <3>2. CASE CompleteUpload(r)
      BY <3>2 DEF CompleteUpload, SameLocations, TypeInv, TypeOK
    <3>3. CASE UNCHANGED upload
      BY <3>3 DEF SameLocations
    <3>4. QED
      BY <1>2, <3>1, <3>2, <3>3 DEF WriteChunk, ReadUpload, OpenBin, PumpEnds, PumpBreaks, rows
  <2>5. QED
    BY <2>1, <2>2, <2>3, <2>4, SequentialQuiet
<1>3. ASSUME NEW r \in Requests, CreateReceipt(r) PROVE SequentialInv'
  <2>1. CASE FindReceipt(r)
    BY <2>1, SequentialQuiet DEF FindReceipt, SameLocations, rows, frame, Waits, PaidWaits
  <2>2. QED
    BY <1>3, <2>1, SequentialRecord, SequentialLocate, SequentialIssue DEF CreateReceipt
<1>4. ASSUME NEW r \in Requests, Stop(r) PROVE SequentialInv'
  BY <1>4, SequentialQuiet DEF Stop, SameLocations, rows, frame, Waits, PaidWaits
<1>5. QED
  BY <1>1, <1>2, <1>3, <1>4, SequentialCreate, SequentialBegin, SequentialJob,
     FaultyAssumption DEF Next, Handler

LEMMA SequentialInvariance == ASSUME MaxInFlight = 1 PROVE Spec => []SequentialInv
<1>1. TypeInv /\ LedgerInv /\ SequentialInv /\ [Next]_vars => SequentialInv'
  BY SequentialNext, SequentialStutter
<1>2. QED
  BY <1>1, SequentialInit, Invariance, PTL DEF Spec

-----------------------------------------------------------------------------

\* JobMatchesRows is an invariant of UploadService when the calls for one
\* upload do not overlap.
THEOREM JobMatchesRowsHolds == ASSUME MaxInFlight = 1 PROVE Spec => []JobMatchesRows
<1>1. SequentialInv => JobMatchesRows
  BY DEF SequentialInv, OwnPayment, OwnLocation, JobMatchesRows
<1>2. QED
  BY <1>1, SequentialInvariance, PTL

\* Of the jobs that were bought with one text there is one: a call with a job
\* has its own text on record, which no other row holds, and is the only one of
\* its upload.
LEMMA JobsOfOneHash ==
    ASSUME TypeInv, LedgerInv, SequentialInv,
           NEW r \in Requests, NEW s \in Requests,
           job[r] # "none", job[s] # "none", call[r].hash = call[s].hash
    PROVE  r = s
<1>1. call[r].upload \in Uploads /\ call[s].upload \in Uploads /\ call[r].hash # NoHash
  BY CallShape, NoHashAssumption DEF LedgerInv, JobAfterHandler, TypeInv
<1>2. /\ payment[call[r].upload].hash = call[r].hash
      /\ payment[call[s].upload].hash = call[s].hash
  BY DEF SequentialInv, OwnPayment
<1>3. call[r].upload = call[s].upload
  BY <1>1, <1>2 DEF LedgerInv, HashInOneRow
<1>4. QED BY <1>3 DEF LedgerInv, OneHolder, Holds

LEMMA OneJobEach == TypeInv /\ LedgerInv /\ SequentialInv => TransactionBuysOneJob
<1> SUFFICES ASSUME TypeInv, LedgerInv, SequentialInv,
                    NEW r \in Requests, NEW s \in Requests,
                    job[r] # "none", job[s] # "none",
                    TransactionOf[call[r].hash] = TransactionOf[call[s].hash],
                    OneSpelling(TransactionOf[call[r].hash])
             PROVE  r = s
  BY DEF TransactionBuysOneJob
<1>1. call[r].hash \in Hashes /\ call[s].hash \in Hashes
  BY CallShape DEF LedgerInv, JobAfterHandler, TypeInv
<1>2. call[r].hash = call[s].hash
  BY <1>1 DEF OneSpelling
<1>3. QED BY <1>2, JobsOfOneHash

\* A transaction the chain knows by one text buys one job, whatever calls stop
\* half-way, when the calls for one upload do not overlap.
THEOREM TransactionBuysOneJobHolds == ASSUME MaxInFlight = 1 PROVE Spec => []TransactionBuysOneJob
BY OneJobEach, Invariance, SequentialInvariance, PTL

\* The hash on record is never replaced once the receipt was given, when
\* the calls for one upload do not overlap: the handlers implement the ledger
\* without Amend.
THEOREM StrictLedgerImplemented == ASSUME MaxInFlight = 1 PROVE Spec => ImplementsStrictLedger
<1>1. Init => Ledger!Init
  BY DEF Init, Ledger!Init
<1>2. SequentialInv => ~Amending
  BY DEF SequentialInv, NoReceiptYet, Amending, Receipted
<1>3. TypeInv /\ LedgerInv /\ SequentialInv /\ [Next]_vars => [Ledger!StrictNext]_(Ledger!vars)
  BY <1>2, LedgerStep DEF Ledger!vars, Paid, Receipted, Jobs
<1>4. QED
  BY <1>1, <1>3, Invariance, SequentialInvariance, PTL
     DEF Spec, ImplementsStrictLedger, Ledger!StrictSpec

-----------------------------------------------------------------------------
(* Files and progress. A call knows what the row and the files of its      *)
(* upload hold, because no other call for the upload runs.                 *)

ChunkWaits == {"read", "open", "pump", "advance", "complete"}
StagedPaths == {"staged"} \X Requests

\* A body is stored before its handler begins and stays at least until the call
\* hands it over; a chunk call finds no receipt, the number it was accepted with
\* still follows the last one, and its body ends up alone in the file.
CallKnows(r) ==
    LET u == call[r].upload
    IN  /\ pc[r] # "idle" /\ job[r] = "none" /\ call[r].kind = "single"
             => file[StagedPath(r)] = "whole"
        /\ pc[r] \in ChunkWaits => call[r].kind = "chunk"
        /\ pc[r] \in Waits \ {"enqueue"} /\ call[r].kind = "chunk" => receipt[u] = "NONE"
        /\ pc[r] \in {"open", "pump", "advance"} => /\ upload[u].status # "COMPLETED"
                                                    /\ chunk[r] = upload[u].currentChunk + 1
        /\ pc[r] = "pump" /\ chunk[r] = 0 => file[BinPath(u)] = "empty" /\ u \notin contended
        /\ pc[r] = "advance" /\ chunk[r] = 0 => file[BinPath(u)] = "whole"
        /\ pc[r] = "complete" => upload[u].currentChunk = 0 /\ file[BinPath(u)] = "whole"
        /\ pc[r] \in {"find", "pay", "locate", "issue", "enqueue"} /\ call[r].kind = "chunk"
             => file[BinPath(u)] = "whole"

UploadKnows(u) ==
    /\ upload[u].status = "COMPLETED" => upload[u].currentChunk = 0 /\ file[BinPath(u)] = "whole"
    /\ receipt[u] # "NONE" => /\ upload[u].fileLocation \in Paths
                              /\ file[upload[u].fileLocation] = "whole"
    /\ upload[u].fileLocation \in StagedPaths \union {NoPath, BinPath(u)}

CallsKnow == \A r \in Requests : CallKnows(r)

FilesInv == CallsKnow /\ \A u \in Uploads : UploadKnows(u)

\* The bundle of a call is there for its job.
BundleSafe(r) == job[r] # "none" => file[PathOf(r)] = "whole"

\* What a step of the handlers does for the files: calls still know, and it destroys
\* nothing that a row or a job names. (That it was there is not assumed, because a
\* worker removes the files it has sent.)
FilesKept == /\ CallsKnow'
             /\ \A u \in Uploads : UploadKnows(u) => UploadKnows(u)'
             /\ \A r \in Requests : BundleSafe(r) => BundleSafe(r)'

LEMMA FilesInit == Init => FilesInv
BY DEF Init, FilesInv, CallsKnow, CallKnows, UploadKnows, Waits, ChunkWaits

LEMMA FilesStutter == FilesInv /\ UNCHANGED vars => FilesInv'
BY DEF FilesInv, CallsKnow, CallKnows, UploadKnows, vars, rows, disk, frame

\* No two paths are the same.
LEMMA PathFacts ==
    /\ \A u \in Uploads : BinPath(u) \in Paths /\ BinPath(u) \notin StagedPaths
    /\ \A u, v \in Uploads : BinPath(u) = BinPath(v) => u = v
    /\ \A r \in Requests : StagedPath(r) \in StagedPaths /\ StagedPath(r) \in Paths
    /\ \A r, q \in Requests : StagedPath(r) = StagedPath(q) => r = q
    /\ \A u \in Uploads : BinPath(u) # NoPath
    /\ NoPath \notin StagedPaths
    /\ StagedPaths \subseteq Paths
BY DEF BinPath, StagedPath, Paths, StagedPaths, NoPath

\* A step of one call changes the row, the receipt and the .bin file of its own
\* upload only, and that file only while there is no receipt, so what the other calls
\* and uploads know stays true.
LEMMA FilesStep ==
    ASSUME TypeInv, LedgerInv, SequentialInv, CallsKnow,
           NEW r \in Requests, pc[r] \in Waits,
           UNCHANGED <<call, job>>,
           \A q \in Requests \ {r} : pc'[q] = pc[q] /\ chunk'[q] = chunk[q],
           \A q \in Requests : file'[StagedPath(q)] = file[StagedPath(q)],
           \A v \in Uploads \ {call[r].upload} :
               /\ upload'[v] = upload[v] /\ receipt'[v] = receipt[v]
               /\ file'[BinPath(v)] = file[BinPath(v)]
               /\ v \in contended' => v \in contended,
           LET u == call[r].upload
           IN  receipt[u] # "NONE" => file'[BinPath(u)] = file[BinPath(u)],
           CallKnows(r)', UploadKnows(call[r].upload) => UploadKnows(call[r].upload)'
    PROVE  FilesKept
<1> DEFINE u == call[r].upload
<1>1. ASSUME NEW q \in Requests \ {r} PROVE CallKnows(q)'
  <2>1. CASE pc[q] \in Waits
    <3>1. call[q].upload \in Uploads \ {u}
      BY <2>1, CallShape DEF SequentialInv, OneAtATime, TypeInv, Waits
    <3>2. QED
      BY <3>1, CallShape DEF CallsKnow, CallKnows
  <2>2. CASE pc[q] \notin Waits
    BY <2>2 DEF CallsKnow, CallKnows, Waits, ChunkWaits
  <2>3. QED BY <2>1, <2>2
<1>2. ASSUME NEW v \in Uploads \ {u}, UploadKnows(v) PROVE UploadKnows(v)'
  <2>1. upload[v].fileLocation \in Paths =>
          file'[upload[v].fileLocation] = file[upload[v].fileLocation]
    <3>1. CASE upload[v].fileLocation = BinPath(v)
      BY <3>1
    <3>2. CASE upload[v].fileLocation \in StagedPaths
      BY <3>2 DEF StagedPaths, StagedPath
    <3>3. CASE upload[v].fileLocation = NoPath
      BY <3>3 DEF NoPath, Paths
    <3>4. QED BY <1>2, <3>1, <3>2, <3>3 DEF UploadKnows
  <2>2. QED
    BY <1>2, <2>1 DEF UploadKnows
<1>3. ASSUME NEW q \in Requests, BundleSafe(q), job'[q] # "none"
      PROVE  file'[PathOf(q)'] = "whole"
  <2>1. PathOf(q)' = PathOf(q) /\ job[q] # "none" /\ file[PathOf(q)] = "whole"
    BY <1>3 DEF BundleSafe, PathOf
  <2>2. call[q].upload \in Uploads /\ receipt[call[q].upload] # "NONE"
    BY <2>1, CallShape DEF LedgerInv, JobAfterHandler, HolderHasReceipt, Holds, TypeInv
  <2>3. file'[BinPath(call[q].upload)] = file[BinPath(call[q].upload)]
    BY <2>2
  <2>4. file'[PathOf(q)] = file[PathOf(q)]
    BY <2>3 DEF PathOf
  <2>5. QED BY <2>1, <2>4
<1>4. QED
  BY <1>1, <1>2, <1>3 DEF FilesKept, CallsKnow, BundleSafe

\* A handler that moves without touching rows or files: it must know what the await
\* it goes to requires.
LEMMA FilesMove ==
    ASSUME TypeInv, LedgerInv, SequentialInv, CallsKnow,
           NEW r \in Requests, pc[r] \in Waits, NEW s, Goto(r, s),
           UNCHANGED <<upload, receipt, disk, call, chunk, job>>,
           \/ s \in Ended
           \/ s = "read" /\ call[r].kind = "chunk" /\ pc[r] = "verify"
           \/ s = "find" /\ call[r].kind = "single" /\ pc[r] = "verify"
           \/ s = "pay" /\ pc[r] = "find"
           \/ s = "locate" /\ pc[r] = "pay"
    PROVE  FilesKept
<1>1. pc'[r] = s /\ \A q \in Requests \ {r} : pc'[q] = pc[q]
  BY DEF Goto, TypeInv, TypeOK
<1>2. CallKnows(r)'
  BY <1>1 DEF CallsKnow, CallKnows, disk, Ended, Waits, ChunkWaits
<1>3. UploadKnows(call[r].upload) => UploadKnows(call[r].upload)'
  BY DEF UploadKnows, disk
<1>4. QED
  BY <1>1, <1>2, <1>3, FilesStep DEF disk

LEMMA FilesBegin ==
    ASSUME TypeInv, LedgerInv, CallsKnow, NEW r \in Requests, NEW u \in Uploads, NEW h \in Hashes,
           BeginSingle(r, u, h) \/ BeginChunk(r, u, h)
    PROVE  FilesKept
<1>1. /\ UNCHANGED <<upload, receipt, contended, chunk, job>>
      /\ pc[r] = "idle" /\ pc'[r] \in {"verify", "failed"}
      /\ call'[r].upload = u
      /\ \A q \in Requests \ {r} : pc'[q] = pc[q] /\ call'[q] = call[q]
  BY DEF BeginSingle, BeginChunk, Arrives, Goto, rows, disk, TypeInv, TypeOK
<1>2. \A p \in Paths : file'[p] = file[p] \/ (p = StagedPath(r) /\ file'[p] = "whole")
  <2>1. CASE BeginSingle(r, u, h)
    BY <2>1 DEF BeginSingle, TypeInv, TypeOK
  <2>2. CASE BeginChunk(r, u, h)
    BY <2>2 DEF BeginChunk, disk
  <2>3. QED BY <2>1, <2>2
<1>3. ASSUME NEW q \in Requests \ {r} PROVE CallKnows(q)'
  <2>1. CallKnows(q) /\ file'[StagedPath(q)] = file[StagedPath(q)]
    BY <1>2, PathFacts DEF CallsKnow
  <2>2. CASE pc[q] = "idle"
    BY <1>1, <2>2 DEF CallKnows, Waits, ChunkWaits
  <2>3. CASE pc[q] # "idle"
    <3>1. call[q].upload \in Uploads
      BY <2>3, CallShape DEF TypeInv
    <3>2. file'[BinPath(call[q].upload)] = file[BinPath(call[q].upload)]
      BY <1>2, <3>1, PathFacts
    <3>3. QED
      BY <1>1, <2>1, <3>2 DEF CallKnows
  <2>4. QED BY <2>2, <2>3
<1>4. CallKnows(r)'
  <2>1. call'[r].kind = "single" => file'[StagedPath(r)] = "whole"
    BY PathFacts DEF BeginSingle, BeginChunk, Arrives, TypeInv, TypeOK
  <2>2. call'[r].kind = "chunk" /\ pc'[r] = "verify" => receipt[u] = "NONE"
    BY DEF BeginSingle, BeginChunk, Arrives, ChunkRefused, Goto, TypeInv, TypeOK
  <2>3. QED
    BY <1>1, <2>1, <2>2 DEF CallKnows, Waits, ChunkWaits
<1>5. ASSUME NEW v \in Uploads, UploadKnows(v) PROVE UploadKnows(v)'
  BY <1>1, <1>2, <1>5, PathFacts DEF UploadKnows
<1>6. ASSUME NEW q \in Requests, BundleSafe(q), job'[q] # "none"
      PROVE  file'[PathOf(q)'] = "whole"
  <2>1. q # r /\ pc[q] # "idle"
    BY <1>1, <1>6 DEF LedgerInv, JobAfterHandler
  <2>2. PathOf(q) \in Paths /\ PathOf(q)' = PathOf(q)
    BY <1>1, <2>1, CallShape DEF TypeInv, PathOf
  <2>3. file[PathOf(q)] = "whole"
    BY <1>1, <1>6 DEF BundleSafe
  <2>4. QED BY <1>2, <2>2, <2>3
<1>7. QED
  BY <1>3, <1>4, <1>5, <1>6 DEF FilesKept, CallsKnow, BundleSafe

LEMMA FilesCreate ==
    ASSUME TypeInv, LedgerInv, CallsKnow, NEW u \in Uploads, CreatePayment(u) \/ CreateUpload(u)
    PROVE  FilesKept
<1>1. /\ UNCHANGED <<receipt, disk, pc, frame, job>>
      /\ \A v \in Uploads : /\ upload'[v].currentChunk = upload[v].currentChunk
                            /\ upload'[v].fileLocation = upload[v].fileLocation
                            /\ (upload'[v].status = "COMPLETED") = (upload[v].status = "COMPLETED")
  <2>1. CASE CreatePayment(u)
    BY <2>1 DEF CreatePayment
  <2>2. CASE CreateUpload(u)
    BY <2>2 DEF CreateUpload, TypeInv, TypeOK
  <2>3. QED BY <2>1, <2>2
<1>2. ASSUME NEW q \in Requests PROVE CallKnows(q)'
  <2>1. CallKnows(q)
    BY DEF CallsKnow
  <2>2. CASE pc[q] = "idle"
    BY <1>1, <2>2 DEF CallKnows, Waits, ChunkWaits
  <2>3. CASE pc[q] # "idle"
    <3>1. call[q].upload \in Uploads
      BY <2>3, CallShape DEF TypeInv
    <3>2. QED
      BY <1>1, <2>1, <3>1 DEF CallKnows, disk, frame
  <2>4. QED BY <2>2, <2>3
<1>3. ASSUME NEW v \in Uploads, UploadKnows(v) PROVE UploadKnows(v)'
  BY <1>1, <1>3 DEF UploadKnows, disk
<1>4. QED BY <1>1, <1>2, <1>3 DEF FilesKept, CallsKnow, BundleSafe, PathOf, disk, frame

\* The steps of uploadChunk.
LEMMA FilesWrite ==
    ASSUME TypeInv, LedgerInv, SequentialInv, CallsKnow, NEW r \in Requests, WriteChunk(r)
    PROVE  FilesKept
<1> DEFINE u == call[r].upload
<1>1. /\ pc[r] \in ChunkWaits /\ pc[r] \in Waits \ {"enqueue"}
      /\ UNCHANGED <<receipt, call, job>>
  BY DEF WriteChunk, ReadUpload, OpenBin, PumpEnds, PumpBreaks, AdvanceChunk, CompleteUpload,
         rows, frame, Waits, ChunkWaits
<1>2. u \in Uploads /\ call[r].kind = "chunk" /\ receipt[u] = "NONE"
  <2>1. call[r].kind = "chunk"
    BY <1>1 DEF CallsKnow, CallKnows
  <2>2. receipt[u] = "NONE"
    BY <1>1, <2>1 DEF CallsKnow, CallKnows
  <2>3. u \in Uploads
    BY <1>1, CallShape DEF TypeInv, Waits
  <2>4. QED BY <2>1, <2>2, <2>3
<1>3. CallKnows(r)
  BY DEF CallsKnow
<1>4. ASSUME \A p \in Paths : p # BinPath(u) => file'[p] = file[p]
      PROVE  /\ \A q \in Requests : file'[StagedPath(q)] = file[StagedPath(q)]
             /\ \A v \in Uploads \ {u} : file'[BinPath(v)] = file[BinPath(v)]
  <2>1. ASSUME NEW q \in Requests PROVE file'[StagedPath(q)] = file[StagedPath(q)]
    BY <1>2, <1>4, PathFacts
  <2>2. ASSUME NEW v \in Uploads \ {u} PROVE file'[BinPath(v)] = file[BinPath(v)]
    BY <1>2, <1>4, PathFacts
  <2>3. QED BY <2>1, <2>2
<1>5. CASE ReadUpload(r)
  <2>1. PICK c \in 0 .. MaxChunkIndex, n \in {TotalChunks, TotalChunks + 1} :
          /\ chunk' = [chunk EXCEPT ![r] = c]
          /\ Goto(r, IF Accepts(u, c, n) THEN "open" ELSE "failed")
    BY <1>5 DEF ReadUpload
  <2>2. UNCHANGED <<upload, receipt, disk>>
    BY <1>5 DEF ReadUpload, rows
  <2>3. /\ chunk'[r] = c /\ \A q \in Requests \ {r} : pc'[q] = pc[q] /\ chunk'[q] = chunk[q]
        /\ (pc'[r] = "open" /\ Accepts(u, c, n)) \/ pc'[r] = "failed"
    BY <2>1 DEF Goto, TypeInv, TypeOK
  <2>4. CallKnows(r)'
    BY <1>1, <1>2, <1>3, <2>2, <2>3 DEF CallKnows, Accepts, Waits, ChunkWaits
  <2>5. UploadKnows(u) => UploadKnows(u)'
    BY <1>1, <1>3, <2>2 DEF UploadKnows, disk
  <2>6. QED
    BY <1>1, <1>2, <2>2, <2>3, <2>4, <2>5, FilesStep DEF disk
<1>6. CASE OpenBin(r)
  <2>1. Writers(u) = {}
    <3>1. ASSUME NEW q \in Writers(u) PROVE FALSE
      BY <1>6, <3>1 DEF OpenBin, Writers, InFlight, Uses, SequentialInv, OneAtATime, Waits
    <3>2. QED BY <3>1
  <2>2. /\ pc'[r] = "pump" /\ \A q \in Requests \ {r} : pc'[q] = pc[q]
        /\ UNCHANGED <<upload, chunk>>
        /\ contended' = contended \ {u}
    BY <1>6, <2>1 DEF OpenBin, Goto, rows, frame, TypeInv, TypeOK
  <2>3. file' = [file EXCEPT ![BinPath(u)] = Opened(chunk[r], file[BinPath(u)])]
    BY <1>6 DEF OpenBin
  <2>4. /\ chunk[r] = 0 => file'[BinPath(u)] = "empty"
        /\ \A p \in Paths : p # BinPath(u) => file'[p] = file[p]
    BY <1>2, <2>3, PathFacts DEF Opened, TypeInv, TypeOK
  <2>5. CallKnows(r)'
    BY <1>1, <1>2, <1>3, <1>6, <2>2, <2>4 DEF OpenBin, CallKnows, Waits, ChunkWaits
  <2>6. UploadKnows(u) => UploadKnows(u)'
    BY <1>1, <1>2, <1>3, <1>6, <2>2 DEF OpenBin, CallKnows, UploadKnows
  <2>7. QED
    BY <1>1, <1>2, <1>4, <2>2, <2>4, <2>5, <2>6, FilesStep
<1>7. CASE PumpEnds(r)
  <2>1. /\ pc'[r] = "advance" /\ \A q \in Requests \ {r} : pc'[q] = pc[q]
        /\ UNCHANGED <<upload, contended, chunk>>
    BY <1>7 DEF PumpEnds, Goto, rows, frame, TypeInv, TypeOK
  <2>2. PICK w \in Written(u) : file' = [file EXCEPT ![BinPath(u)] = w]
    BY <1>7 DEF PumpEnds
  <2>3. /\ file'[BinPath(u)] = w
        /\ \A p \in Paths : p # BinPath(u) => file'[p] = file[p]
    BY <1>2, <2>2, PathFacts DEF TypeInv, TypeOK
  <2>4. chunk[r] = 0 => w = "whole"
    BY <1>3, <1>7 DEF PumpEnds, CallKnows, Written
  <2>5. CallKnows(r)'
    BY <1>1, <1>2, <1>3, <1>7, <2>1, <2>3, <2>4 DEF PumpEnds, CallKnows, Waits, ChunkWaits
  <2>6. UploadKnows(u) => UploadKnows(u)'
    BY <1>1, <1>2, <1>3, <1>7, <2>1 DEF PumpEnds, CallKnows, UploadKnows
  <2>7. QED
    BY <1>1, <1>2, <1>4, <2>1, <2>3, <2>5, <2>6, FilesStep
<1>8. CASE PumpBreaks(r)
  <2>1. /\ pc'[r] = "failed" /\ \A q \in Requests \ {r} : pc'[q] = pc[q]
        /\ UNCHANGED <<upload, contended, chunk>>
    BY <1>8 DEF PumpBreaks, Goto, rows, frame, TypeInv, TypeOK
  <2>2. \A p \in Paths : p # BinPath(u) => file'[p] = file[p]
    BY <1>8 DEF PumpBreaks, TypeInv, TypeOK
  <2>3. CallKnows(r)'
    BY <1>2, <2>1, <1>1 DEF CallKnows, Waits, ChunkWaits
  <2>4. UploadKnows(u) => UploadKnows(u)'
    BY <1>1, <1>2, <1>3, <1>8, <2>1 DEF PumpBreaks, CallKnows, UploadKnows
  <2>5. QED
    BY <1>1, <1>2, <1>4, <2>1, <2>2, <2>3, <2>4, FilesStep
<1>9. CASE AdvanceChunk(r)
  <2>1. /\ pc'[r] = IF LastChunk(chunk[r]) THEN "complete" ELSE "done"
        /\ \A q \in Requests \ {r} : pc'[q] = pc[q]
        /\ UNCHANGED <<disk, chunk>>
    BY <1>9 DEF AdvanceChunk, Goto, frame, TypeInv, TypeOK
  <2>2. /\ upload'[u].currentChunk = chunk[r] /\ upload'[u].status = "IN_PROGRESS"
        /\ upload'[u].fileLocation = upload[u].fileLocation
        /\ \A v \in Uploads \ {u} : upload'[v] = upload[v]
    BY <1>2, <1>9 DEF AdvanceChunk, TypeInv, TypeOK
  <2>3. CallKnows(r)'
    BY <1>1, <1>2, <1>3, <1>9, <2>1, <2>2
    DEF AdvanceChunk, CallKnows, LastChunk, TotalChunks, disk, Waits, ChunkWaits
  <2>4. UploadKnows(u) => UploadKnows(u)'
    BY <1>1, <1>2, <1>3, <2>2 DEF UploadKnows
  <2>5. QED
    BY <1>1, <1>2, <2>1, <2>2, <2>3, <2>4, FilesStep DEF disk
<1>10. CASE CompleteUpload(r)
  <2>1. /\ pc'[r] = "find" /\ \A q \in Requests \ {r} : pc'[q] = pc[q]
        /\ UNCHANGED <<disk, chunk>>
    BY <1>10 DEF CompleteUpload, Goto, frame, TypeInv, TypeOK
  <2>2. /\ upload'[u].currentChunk = upload[u].currentChunk /\ upload'[u].status = "COMPLETED"
        /\ upload'[u].fileLocation = upload[u].fileLocation
        /\ \A v \in Uploads \ {u} : upload'[v] = upload[v]
    BY <1>2, <1>10 DEF CompleteUpload, TypeInv, TypeOK
  <2>3. CallKnows(r)'
    BY <1>1, <1>2, <1>3, <1>10, <2>1, <2>2 DEF CompleteUpload, CallKnows, disk, Waits, ChunkWaits
  <2>4. UploadKnows(u) => UploadKnows(u)'
    BY <1>1, <1>2, <1>3, <1>10, <2>1, <2>2 DEF CompleteUpload, CallKnows, UploadKnows, disk
  <2>5. QED
    BY <1>1, <1>2, <2>1, <2>2, <2>3, <2>4, FilesStep DEF disk
<1>11. QED
  BY <1>5, <1>6, <1>7, <1>8, <1>9, <1>10 DEF WriteChunk

\* The steps of createReceipt: the location recorded is that of the call's own
\* file, which is whole, and no receipt points anywhere yet.
LEMMA FilesReceipt ==
    ASSUME TypeInv, LedgerInv, SequentialInv, CallsKnow, NEW r \in Requests, CreateReceipt(r)
    PROVE  FilesKept
<1> DEFINE u == call[r].upload
<1>1. pc[r] \in {"find", "pay", "locate", "issue"} /\ pc[r] \in Waits /\ UNCHANGED <<disk, frame, job>>
  BY DEF CreateReceipt, FindReceipt, RecordPayment, RecordLocation, IssueReceipt, Waits
<1>2. u \in Uploads /\ call[r].kind \in {"single", "chunk"} /\ PathOf(r) \in Paths
  BY <1>1, CallShape, KindsAssumption DEF TypeInv, Waits
<1>3. CallKnows(r)
  BY DEF CallsKnow
<1>4. file[PathOf(r)] = "whole"
  <2>1. CASE call[r].kind = "single"
    BY <1>1, <1>3, <2>1 DEF CallKnows, PathOf, LedgerInv, JobAfterHandler
  <2>2. CASE call[r].kind = "chunk"
    BY <1>1, <1>3, <2>2 DEF CallKnows, PathOf
  <2>3. QED BY <1>2, <2>1, <2>2
<1>5. CASE FindReceipt(r)
  <2>1. CASE receipt[u] = "NONE"
    BY <1>1, <1>5, <2>1, FilesMove DEF FindReceipt, rows, frame
  <2>2. CASE receipt[u] # "NONE"
    BY <1>1, <1>5, <2>2, FilesMove DEF FindReceipt, rows, frame, Ended
  <2>3. QED BY <2>1, <2>2
<1>6. CASE RecordPayment(r)
  <2>1. CASE HashTaken(call[r].hash, u)
    BY <1>1, <1>6, <2>1, FilesMove DEF RecordPayment, frame, Ended
  <2>2. CASE ~HashTaken(call[r].hash, u)
    BY <1>1, <1>6, <2>2, FilesMove DEF RecordPayment, frame
  <2>3. QED BY <2>1, <2>2
<1>7. CASE RecordLocation(r)
  <2>1. /\ pc[r] = "locate" /\ pc'[r] = "issue"
        /\ \A q \in Requests \ {r} : pc'[q] = pc[q]
        /\ UNCHANGED <<receipt, disk, call, chunk>>
    BY <1>7 DEF RecordLocation, Goto, frame, TypeInv, TypeOK
  <2>2. /\ upload'[u].fileLocation = PathOf(r)
        /\ upload'[u].status = upload[u].status
        /\ upload'[u].currentChunk = upload[u].currentChunk
        /\ \A v \in Uploads \ {u} : upload'[v] = upload[v]
    BY <1>2, <1>7 DEF RecordLocation, TypeInv, TypeOK
  <2>3. CallKnows(r)'
    BY <1>1, <1>2, <1>3, <2>1, <2>2 DEF CallKnows, disk, Waits, ChunkWaits
  <2>4. PathOf(r) \in StagedPaths \union {NoPath, BinPath(u)}
    BY PathFacts DEF PathOf
  <2>5. UploadKnows(u) => UploadKnows(u)'
    BY <1>2, <1>3, <1>4, <2>1, <2>2, <2>4 DEF UploadKnows, disk
  <2>6. QED
    BY <1>1, <1>2, <2>1, <2>2, <2>3, <2>5, FilesStep DEF disk
<1>8. CASE IssueReceipt(r)
  <2>1. CASE ReceiptTaken(u)
    BY <1>1, <1>8, <2>1, FilesMove DEF IssueReceipt, frame, Ended
  <2>2. CASE ~ReceiptTaken(u)
    <3>1. /\ pc[r] = "issue" /\ pc'[r] = "enqueue"
          /\ \A q \in Requests \ {r} : pc'[q] = pc[q]
          /\ UNCHANGED <<upload, disk, call, chunk>>
          /\ \A v \in Uploads \ {u} : receipt'[v] = receipt[v]
      BY <1>2, <1>8, <2>2 DEF IssueReceipt, Goto, frame, TypeInv, TypeOK
    <3>2. upload[u].fileLocation = PathOf(r)
      BY <3>1 DEF SequentialInv, OwnLocation
    <3>3. CallKnows(r)'
      BY <1>1, <1>3, <3>1 DEF CallKnows, disk, Waits, ChunkWaits
    <3>4. UploadKnows(u) => UploadKnows(u)'
      BY <1>2, <1>3, <1>4, <3>1, <3>2 DEF UploadKnows, disk
    <3>5. /\ UNCHANGED <<upload, file, contended, chunk, call, job>> /\ pc[r] \in Waits
          /\ \A v \in Uploads \ {u} : receipt'[v] = receipt[v]
      BY <1>1, <3>1 DEF disk
    <3>6. QED
      BY <3>1, <3>3, <3>4, <3>5, FilesStep
  <2>3. QED BY <2>1, <2>2
<1>9. QED
  BY <1>5, <1>6, <1>7, <1>8 DEF CreateReceipt

\* A step that leaves the rows, the files and the awaits alone.
LEMMA FilesQuiet ==
    ASSUME CallsKnow, UNCHANGED <<rows, disk, pc, call, chunk>>,
           \A r \in Requests : (job'[r] # "none") = (job[r] # "none")
    PROVE  FilesKept
BY DEF FilesKept, CallsKnow, CallKnows, UploadKnows, BundleSafe, PathOf, rows, disk

\* The call whose job is handed over has its bundle in its file.
LEMMA FilesEnqueue ==
    ASSUME TypeInv, LedgerInv, CallsKnow, NEW r \in Requests, Enqueue(r)
    PROVE  FilesKept
<1>1. /\ pc[r] = "enqueue" /\ pc'[r] = "done" /\ job[r] = "none"
      /\ \A q \in Requests \ {r} : pc'[q] = pc[q] /\ job'[q] = job[q]
      /\ job'[r] = "adding"
      /\ UNCHANGED <<rows, disk, frame>>
  BY DEF Enqueue, Goto, LedgerInv, JobAfterHandler, TypeInv, TypeOK
<1>2. CallsKnow'
  BY <1>1 DEF CallsKnow, CallKnows, Waits, ChunkWaits, rows, disk, frame
<1>3. \A u \in Uploads : UploadKnows(u) => UploadKnows(u)'
  BY <1>1 DEF UploadKnows, rows, disk
<1>4. file[PathOf(r)] = "whole"
  <2>1. call[r].kind \in {"single", "chunk"}
    BY <1>1, CallShape, KindsAssumption DEF TypeInv
  <2>2. QED
    BY <1>1, <2>1 DEF CallsKnow, CallKnows, PathOf
<1>5. ASSUME NEW q \in Requests, BundleSafe(q) PROVE BundleSafe(q)'
  BY <1>1, <1>4, <1>5 DEF BundleSafe, PathOf, disk, frame
<1>6. QED BY <1>2, <1>3, <1>5 DEF FilesKept

LEMMA FilesNext == TypeInv /\ LedgerInv /\ SequentialInv /\ CallsKnow /\ Next => FilesKept
<1> SUFFICES ASSUME TypeInv, LedgerInv, SequentialInv, CallsKnow, Next PROVE FilesKept
  OBVIOUS
<1>1. ASSUME NEW r \in Requests, Verify(r) PROVE FilesKept
  <2> DEFINE k == call[r].kind
  <2>1. pc[r] = "verify" /\ pc[r] \in Waits
    BY <1>1 DEF Verify, VerifyConfirms, VerifyDenies, VerifyThrows, Waits
  <2>2. CASE VerifyConfirms(r)
    <3>1. k \in {"single", "chunk"}
      BY <2>1, CallShape, KindsAssumption DEF TypeInv
    <3>2. CASE k = "single"
      BY <2>1, <2>2, <3>2, FilesMove DEF VerifyConfirms, AfterVerify, rows, frame
    <3>3. CASE k = "chunk"
      BY <2>1, <2>2, <3>3, FilesMove DEF VerifyConfirms, AfterVerify, rows, frame
    <3>4. QED BY <3>1, <3>2, <3>3
  <2>3. CASE VerifyDenies(r)
    <3>1. CASE tries[r] > 1
      BY <2>3, <3>1, FilesQuiet DEF VerifyDenies
    <3>2. CASE ~(tries[r] > 1)
      BY <2>1, <2>3, <3>2, FilesMove DEF VerifyDenies, rows, Ended
    <3>3. QED BY <3>1, <3>2
  <2>4. CASE VerifyThrows(r)
    BY <2>1, <2>4, FilesMove DEF VerifyThrows, rows, frame, Ended
  <2>5. QED BY <1>1, <2>2, <2>3, <2>4 DEF Verify
<1>2. ASSUME NEW r \in Requests, Enqueue(r) PROVE FilesKept
  BY <1>2, FilesEnqueue
<1>3. ASSUME NEW r \in Requests, JobAdded(r) \/ JobLost(r) PROVE FilesKept
  <2>1. \A q \in Requests : (job'[q] # "none") = (job[q] # "none")
    BY <1>3 DEF JobAdded, JobLost, TypeInv, TypeOK
  <2>2. QED
    BY <1>3, <2>1, FilesQuiet DEF JobAdded, JobLost, frame
<1>4. ASSUME NEW r \in Requests, Stop(r) PROVE FilesKept
  BY <1>4, FilesMove DEF Stop, rows, frame, Ended
<1>5. QED
  BY <1>1, <1>2, <1>3, <1>4, FilesCreate, FilesBegin, FilesWrite, FilesReceipt,
     FaultyAssumption DEF Next, Handler

LEMMA FilesInvariance == ASSUME MaxInFlight = 1 PROVE Spec => []FilesInv
<1>1. TypeInv /\ LedgerInv /\ SequentialInv /\ FilesInv /\ [Next]_vars => FilesInv'
  BY FilesNext, FilesStutter DEF FilesInv, FilesKept
<1>2. QED
  BY <1>1, FilesInit, Invariance, SequentialInvariance, PTL DEF Spec

\* ReceiptFileWhole is an invariant of UploadService when the calls for one
\* upload do not overlap: the file of a receipted upload is the client's bundle.
THEOREM ReceiptFileWholeHolds == ASSUME MaxInFlight = 1 PROVE Spec => []ReceiptFileWhole
<1>1. FilesInv => ReceiptFileWhole
  BY DEF FilesInv, UploadKnows, ReceiptFileWhole
<1>2. QED
  BY <1>1, FilesInvariance, PTL

\* CompletedMeansWhole is an invariant of UploadService when the calls for one
\* upload do not overlap.
THEOREM CompletedMeansWholeHolds == ASSUME MaxInFlight = 1 PROVE Spec => []CompletedMeansWhole
<1>1. FilesInv => CompletedMeansWhole
  BY DEF FilesInv, UploadKnows, CompletedMeansWhole, TotalChunks
<1>2. QED
  BY <1>1, FilesInvariance, PTL

\* No handler takes back a chunk number or COMPLETED.
Progress == \A u \in Uploads :
              /\ upload'[u].currentChunk >= upload[u].currentChunk
              /\ upload[u].status = "COMPLETED" => upload'[u].status = "COMPLETED"

LEMMA ProgressStep == TypeInv /\ CallsKnow /\ Next => Progress
<1> SUFFICES ASSUME TypeInv, CallsKnow, Next PROVE Progress
  OBVIOUS
<1> USE DEF Progress
<1>1. \A u \in Uploads : upload[u].currentChunk \in Int
  BY BoundsAssumption DEF TypeInv, TypeOK
<1>2. CASE UNCHANGED upload
  BY <1>1, <1>2
<1>3. ASSUME NEW u \in Uploads, CreateUpload(u) PROVE Progress
  BY <1>1, <1>3 DEF CreateUpload, TypeInv, TypeOK
<1>4. ASSUME NEW r \in Requests, AdvanceChunk(r) PROVE Progress
  <2>1. call[r].upload \in Uploads /\ chunk[r] = upload[call[r].upload].currentChunk + 1
        /\ upload[call[r].upload].status # "COMPLETED"
    BY <1>4, CallShape DEF AdvanceChunk, CallsKnow, CallKnows, TypeInv
  <2>2. QED
    BY <1>1, <1>4, <2>1 DEF AdvanceChunk, TypeInv, TypeOK
<1>5. ASSUME NEW r \in Requests, CompleteUpload(r) PROVE Progress
  BY <1>1, <1>5 DEF CompleteUpload, TypeInv, TypeOK
<1>6. ASSUME NEW r \in Requests, RecordLocation(r) PROVE Progress
  BY <1>1, <1>6 DEF RecordLocation, TypeInv, TypeOK
<1>7. ASSUME NEW r \in Requests, Handler(r) PROVE Progress
  BY <1>2, <1>4, <1>5, <1>6, <1>7
     DEF Handler, Verify, VerifyConfirms, VerifyDenies, VerifyThrows, WriteChunk, ReadUpload,
         OpenBin, PumpEnds, PumpBreaks, CreateReceipt, FindReceipt, RecordPayment,
         IssueReceipt, Enqueue, rows
<1>8. QED
  BY <1>2, <1>3, <1>7
     DEF Next, CreatePayment, BeginSingle, BeginChunk, JobAdded, Stop, JobLost, rows

\* The chunk number of a row never goes back and COMPLETED is final, when the calls
\* for one upload do not overlap.
THEOREM ProgressKeptHolds == ASSUME MaxInFlight = 1 PROVE Spec => ProgressKept
<1>1. TypeInv /\ FilesInv /\ [Next]_vars => [Progress]_vars
  BY ProgressStep DEF FilesInv
<1>2. QED
  BY <1>1, Invariance, FilesInvariance, PTL DEF Spec, ProgressKept, Progress

=============================================================================
