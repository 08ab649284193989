---------------------------- MODULE LogPipeline ----------------------------
(***************************************************************************)
(* How an event becomes a Log row (src/src/core/middleware/                *)
(* logger.middleware.ts, src/src/core/logger/logger.service.ts,            *)
(* src/src/core/queue/): LoggerService hands each entry to the system-log  *)
(* queue without awaiting it, and LogConsumer inserts the row. An add that *)
(* is refused is an unhandled rejection, which takes the process down.     *)
(*                                                                         *)
(* The events are the responses the middleware sees and the failed upload  *)
(* and fee jobs BaseConsumer reports. The queue is BullMQ's: one attempt   *)
(* per job, and a job whose worker disappears is taken again at most       *)
(* MaxStalled times.                                                       *)
(***************************************************************************)
EXTENDS Naturals

CONSTANTS
    Events,      \* things that may happen, each at most once
    MaxStalled,
    MaxCrashes   \* bound on crashes of the process

ASSUME LogBounds == {MaxStalled, MaxCrashes} \subseteq Nat

VARIABLES
    kind,     \* what each event is
    stage,    \* how far its entry has come
    entry,    \* the level it was logged at
    rows,     \* Log rows it left
    stalls,   \* times its job was found stalled
    up,       \* is the process running
    crashes

vars == <<kind, stage, entry, rows, stalls, up, crashes>>

\* A response by its status code, a response of the queue board, a failed job.
Kinds == {"2xx", "4xx", "5xx", "board", "job"}
Levels == {"INFO", "WARN", "ERROR"}

LogTypeOK ==
    /\ kind \in [Events -> Kinds]
    /\ stage \in [Events -> {"none", "adding", "waiting", "active", "inserted", "stalled",
                             "stored", "failed", "lost", "skipped"}]
    /\ entry \in [Events -> Levels \union {"none"}]
    /\ rows \in [Events -> Nat]
    /\ stalls \in [Events -> 0 .. MaxStalled + 1]
    /\ up \in BOOLEAN
    /\ crashes \in 0 .. MaxCrashes

Init ==
    /\ kind \in [Events -> Kinds]
    /\ stage = [e \in Events |-> "none"]
    /\ entry = [e \in Events |-> "none"]
    /\ rows = [e \in Events |-> 0]
    /\ stalls = [e \in Events |-> 0]
    /\ up = TRUE
    /\ crashes = 0

Move(e, s) == stage' = [stage EXCEPT ![e] = s]

\* The middleware logs a response by its status; BaseConsumer logs an error.
Level(k) == CASE k \in {"5xx", "job"} -> "ERROR"
              [] k = "4xx"            -> "WARN"
              [] OTHER                -> "INFO"

\* Requests of the queue board are written to the console only.
Filtered(k) == k = "board"

\* log, warn or error of LoggerService, as the last thing a request or a failed
\* job does.
Log(e) ==
    /\ up /\ stage[e] = "none"
    /\ entry' = [entry EXCEPT ![e] = Level(kind[e])]
    /\ Move(e, IF Filtered(kind[e]) THEN "skipped" ELSE "adding")
    /\ UNCHANGED <<kind, rows, stalls, up, crashes>>

Added(e) ==
    /\ up /\ stage[e] = "adding"
    /\ Move(e, "waiting")
    /\ UNCHANGED <<kind, entry, rows, stalls, up, crashes>>

\* Entries on their way to the queue go with the process; the job its worker
\* holds is found stalled later on.
AfterCrash(s) == CASE s = "adding"               -> "lost"
                   [] s \in {"active", "inserted"} -> "stalled"
                   [] OTHER                      -> s

GoesDown ==
    /\ crashes < MaxCrashes
    /\ crashes' = crashes + 1
    /\ up' = FALSE
    /\ stage' = [e \in Events |-> AfterCrash(stage[e])]
    /\ UNCHANGED <<kind, entry, rows, stalls>>

\* Redis refuses the add: nobody awaits it and nobody catches the error.
AddRefused(e) == up /\ stage[e] = "adding" /\ GoesDown

Crash == up /\ GoesDown

\* The worker takes one job at a time.
Take(e) ==
    /\ up /\ stage[e] = "waiting"
    /\ \A d \in Events : stage[d] \notin {"active", "inserted"}
    /\ Move(e, "active")
    /\ UNCHANGED <<kind, entry, rows, stalls, up, crashes>>

\* Mutant: the insert is not awaited, and the job ends before it.
Insert_NotAwaited(e) ==
    /\ up /\ stage[e] = "active"
    /\ Move(e, "stored")
    /\ UNCHANGED <<kind, entry, rows, stalls, up, crashes>>

\* The row is in the database before the job is marked completed.
Insert(e) ==
    /\ up /\ stage[e] = "active"
    /\ rows' = [rows EXCEPT ![e] = @ + 1]
    /\ Move(e, "inserted")
    /\ UNCHANGED <<kind, entry, stalls, up, crashes>>

Complete(e) ==
    /\ up /\ stage[e] = "inserted"
    /\ Move(e, "stored")
    /\ UNCHANGED <<kind, entry, rows, stalls, up, crashes>>

\* Mutant: LogConsumer extends BaseConsumer, which logs its failed jobs.
InsertFails_Logged(e) ==
    /\ up /\ stage[e] = "active"
    /\ Move(e, "adding")
    /\ UNCHANGED <<kind, entry, rows, stalls, up, crashes>>

\* The insert ends with an error: the database refused the row, or wrote it and the
\* answer was lost. A log job has one attempt, and LogConsumer does not extend
\* BaseConsumer: the failure is not logged.
InsertFails(e) ==
    /\ up /\ stage[e] = "active"
    /\ \E written \in {0, 1} : rows' = [rows EXCEPT ![e] = @ + written]
    /\ Move(e, "failed")
    /\ UNCHANGED <<kind, entry, stalls, up, crashes>>

Restart ==
    /\ ~up
    /\ up' = TRUE
    /\ UNCHANGED <<kind, stage, entry, rows, stalls, crashes>>

Retaken(e) == stalls[e] < MaxStalled

\* The lock of a job whose worker went down has expired.
Stalled(e) ==
    /\ up /\ stage[e] = "stalled"
    /\ stalls' = [stalls EXCEPT ![e] = @ + 1]
    /\ Move(e, IF Retaken(e) THEN "waiting" ELSE "failed")
    /\ UNCHANGED <<kind, entry, rows, up, crashes>>

Work(e) == Added(e) \/ Take(e) \/ Insert(e) \/ Complete(e) \/ Stalled(e)

Next ==
    \/ \E e \in Events : Log(e) \/ AddRefused(e) \/ InsertFails(e) \/ Work(e)
    \/ Crash \/ Restart

Spec == Init /\ [][Next]_vars

\* Redis and the database answer or refuse, and the process is started again.
FairSpec == Spec /\ WF_vars(Restart) /\ \A e \in Events : WF_vars(Work(e) \/ InsertFails(e))

-----------------------------------------------------------------------------
(* Properties.                                                             *)

Settled == {"stored", "failed", "lost", "skipped"}

\* An event that was stored has a row. It has more than one only for as many crashes
\* between the insert and the end of its job, and one that was not stored has the
\* rows of such crashes and of an insert that was written before it failed
\* (log.consumer.ts:17-25).
RowsMatchStage ==
    \A e \in Events :
        /\ stage[e] = "stored" => rows[e] >= 1
        /\ rows[e] <= stalls[e] + (IF stage[e] \in {"inserted", "stored", "stalled", "failed"} THEN 1 ELSE 0)
        /\ rows[e] <= MaxStalled + 1

\* The entries come to rest, also while the database refuses every row: a log
\* job that fails does not make an entry of its own (log.consumer.ts:9-15,
\* base.consumer.ts:10-18).
LogsSettle ==
    \A e \in Events : (stage[e] # "none") ~> (stage[e] \in Settled)

=============================================================================
