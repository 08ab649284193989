------------------------- MODULE LogPipelineProofs -------------------------
(***************************************************************************)
(* Theorems about LogPipeline, for any number of events, crashes and times *)
(* a stalled job is taken again.                                           *)
(***************************************************************************)
EXTENDS LogPipeline, TLAPS

\* A job that may still run was not found stalled too often, and what was inserted
\* left a row.
JobsCount ==
    \A e \in Events : /\ stage[e] # "failed" => stalls[e] <= MaxStalled
                      /\ stage[e] \in {"inserted", "stored"} => rows[e] >= 1

LogInv == LogTypeOK /\ RowsMatchStage /\ JobsCount

LEMMA LogInit == Init => LogInv
BY LogBounds DEF Init, LogInv, LogTypeOK, RowsMatchStage, JobsCount

\* What the invariant says of one event.
EventOK(e) ==
    /\ stage[e] \in {"none", "adding", "waiting", "active", "inserted", "stalled",
                     "stored", "failed", "lost", "skipped"}
    /\ rows[e] \in Nat /\ stalls[e] \in 0 .. MaxStalled + 1
    /\ stage[e] # "failed" => stalls[e] <= MaxStalled
    /\ stage[e] \in {"inserted", "stored"} => rows[e] >= 1
    /\ rows[e] <= stalls[e] + (IF stage[e] \in {"inserted", "stored", "stalled", "failed"} THEN 1 ELSE 0)
    /\ rows[e] <= MaxStalled + 1

LEMMA EventsOK == LogInv => \A e \in Events : EventOK(e)
BY DEF LogInv, LogTypeOK, RowsMatchStage, JobsCount, EventOK

\* The shape of a step of one event: the functions keep their domains, the other
\* events stand still, and what is known of this one holds after it.
LEMMA EventStep ==
    ASSUME LogInv, NEW e \in Events, NEW s, NEW n, NEW m,
           stage' = [stage EXCEPT ![e] = s], rows' = [rows EXCEPT ![e] = n],
           stalls' = [stalls EXCEPT ![e] = m],
           entry' \in [Events -> Levels \union {"none"}],
           UNCHANGED <<kind, crashes>>, up' \in BOOLEAN,
           EventOK(e)'
    PROVE  LogInv'
<1>1. \A d \in Events : EventOK(d)'
  <2> SUFFICES ASSUME NEW d \in Events, d # e PROVE EventOK(d)'
    OBVIOUS
  <2>1. stage'[d] = stage[d] /\ rows'[d] = rows[d] /\ stalls'[d] = stalls[d]
    BY DEF LogInv, LogTypeOK
  <2>2. QED BY <2>1, EventsOK DEF EventOK
<1>2. LogTypeOK'
  BY <1>1 DEF LogInv, LogTypeOK, EventOK
<1>3. RowsMatchStage'
  BY <1>1 DEF RowsMatchStage, EventOK
<1>4. QED BY <1>1, <1>2, <1>3 DEF LogInv, JobsCount, EventOK

\* The jobs that a crash stops, and the entries it loses, left the rows they left.
LEMMA DownStep == ASSUME LogInv, GoesDown PROVE LogInv'
<1>1. \A e \in Events : EventOK(e)'
  <2> SUFFICES ASSUME NEW e \in Events PROVE EventOK(e)'
    OBVIOUS
  <2>1. stage'[e] = AfterCrash(stage[e]) /\ rows'[e] = rows[e] /\ stalls'[e] = stalls[e]
    BY DEF GoesDown
  <2>2. QED BY <2>1, EventsOK DEF EventOK, AfterCrash
<1>2. LogTypeOK'
  <2>1. stage' = [e \in Events |-> stage'[e]]
    BY DEF GoesDown
  <2>2. crashes' \in 0 .. MaxCrashes
    BY LogBounds DEF GoesDown, LogInv, LogTypeOK
  <2>3. QED BY <1>1, <2>1, <2>2 DEF GoesDown, LogInv, LogTypeOK, EventOK
<1>3. RowsMatchStage'
  BY <1>1 DEF RowsMatchStage, EventOK
<1>4. QED BY <1>1, <1>2, <1>3 DEF LogInv, JobsCount, EventOK

LEMMA LogNext == LogInv /\ [Next]_vars => LogInv'
<1> SUFFICES ASSUME LogInv, [Next]_vars PROVE LogInv'
  OBVIOUS
<1>1. ASSUME NEW e \in Events, Log(e) PROVE LogInv'
  <2>1. entry' \in [Events -> Levels \union {"none"}]
    BY <1>1 DEF Log, Level, Levels, LogInv, LogTypeOK
  <2>2. PICK s \in {"skipped", "adding"} : stage' = [stage EXCEPT ![e] = s]
    BY <1>1 DEF Log, Move
  <2>3. /\ rows' = [rows EXCEPT ![e] = rows[e]] /\ stalls' = [stalls EXCEPT ![e] = stalls[e]]
        /\ UNCHANGED <<kind, crashes>> /\ up' \in BOOLEAN
    BY <1>1 DEF Log, LogInv, LogTypeOK
  <2>4. EventOK(e)'
    BY <1>1, <2>2, <2>3, EventsOK DEF Log, EventOK, LogInv, LogTypeOK
  <2>5. QED BY <2>1, <2>2, <2>3, <2>4, EventStep
<1>2. ASSUME NEW e \in Events, NEW from \in {"adding", "waiting", "inserted"}, NEW s,
             stage[e] = from, Move(e, s), UNCHANGED <<kind, entry, rows, stalls, up, crashes>>,
             s \in {"waiting", "active", "stored"},
             s = "stored" <=> from = "inserted"
      PROVE  LogInv'
  <2>1. /\ stage' = [stage EXCEPT ![e] = s] /\ rows' = [rows EXCEPT ![e] = rows[e]]
        /\ stalls' = [stalls EXCEPT ![e] = stalls[e]]
        /\ entry' \in [Events -> Levels \union {"none"}] /\ up' \in BOOLEAN
    BY <1>2 DEF Move, LogInv, LogTypeOK
  <2>2. EventOK(e)'
    BY <1>2, <2>1, EventsOK DEF EventOK, LogInv, LogTypeOK
  <2>3. QED BY <1>2, <2>1, <2>2, EventStep
<1>3. ASSUME NEW e \in Events, Insert(e) PROVE LogInv'
  <2>1. /\ stage' = [stage EXCEPT ![e] = "inserted"] /\ rows' = [rows EXCEPT ![e] = rows[e] + 1]
        /\ stalls' = [stalls EXCEPT ![e] = stalls[e]]
        /\ entry' \in [Events -> Levels \union {"none"}] /\ up' \in BOOLEAN
        /\ UNCHANGED <<kind, crashes>>
    BY <1>3 DEF Insert, Move, LogInv, LogTypeOK
  <2>2. EventOK(e)'
    BY <1>3, <2>1, EventsOK, LogBounds DEF Insert, EventOK, LogInv, LogTypeOK
  <2>3. QED BY <2>1, <2>2, EventStep
<1>4. ASSUME NEW e \in Events, Stalled(e) PROVE LogInv'
  <2>1. PICK s : /\ s = IF Retaken(e) THEN "waiting" ELSE "failed"
                 /\ stage' = [stage EXCEPT ![e] = s]
    BY <1>4 DEF Stalled, Move
  <2>2. /\ rows' = [rows EXCEPT ![e] = rows[e]] /\ stalls' = [stalls EXCEPT ![e] = stalls[e] + 1]
        /\ entry' \in [Events -> Levels \union {"none"}] /\ up' \in BOOLEAN
        /\ UNCHANGED <<kind, crashes>>
    BY <1>4 DEF Stalled, LogInv, LogTypeOK
  <2>3. EventOK(e)'
    BY <1>4, <2>1, <2>2, EventsOK, LogBounds DEF Stalled, Retaken, EventOK, LogInv, LogTypeOK
  <2>4. QED BY <2>1, <2>2, <2>3, EventStep
<1>5. ASSUME NEW e \in Events, Added(e) \/ Take(e) \/ Complete(e) PROVE LogInv'
  BY <1>5, <1>2 DEF Added, Take, Complete
<1>6. ASSUME NEW e \in Events, InsertFails(e) PROVE LogInv'
  <2>1. PICK written \in {0, 1} : rows' = [rows EXCEPT ![e] = rows[e] + written]
    BY <1>6 DEF InsertFails
  <2>2. /\ stage' = [stage EXCEPT ![e] = "failed"]
        /\ stalls' = [stalls EXCEPT ![e] = stalls[e]]
        /\ entry' \in [Events -> Levels \union {"none"}] /\ up' \in BOOLEAN
        /\ UNCHANGED <<kind, crashes>>
    BY <1>6 DEF InsertFails, Move, LogInv, LogTypeOK
  <2>3. EventOK(e)'
    BY <1>6, <2>1, <2>2, EventsOK, LogBounds DEF InsertFails, EventOK, LogInv, LogTypeOK
  <2>4. QED BY <2>1, <2>2, <2>3, EventStep
<1>7. ASSUME Restart PROVE LogInv'
  BY <1>7 DEF Restart, LogInv, LogTypeOK, RowsMatchStage, JobsCount
<1>8. CASE UNCHANGED vars
  BY <1>8 DEF vars, LogInv, LogTypeOK, RowsMatchStage, JobsCount
<1>9. QED
  BY <1>1, <1>3, <1>4, <1>5, <1>6, <1>7, <1>8, DownStep DEF Next, Work, AddRefused, Crash

\* A stored event has a row, and more than one only for crashes between the insert
\* and the end of its job; one that was not stored has the rows of such crashes and of
\* an insert that was written before it failed.
THEOREM RowsMatchStageHolds == Spec => [](LogTypeOK /\ RowsMatchStage)
<1>1. LogInv => LogTypeOK /\ RowsMatchStage
  BY DEF LogInv
<1>2. QED BY LogInit, LogNext, <1>1, PTL DEF Spec

-----------------------------------------------------------------------------
(* Entries come to an end.                                                 *)

\* How far an entry is from its end: the stalls it may still take, each of which
\* starts its job over, and the steps of the job.
StepsLeft(e) ==
    5 * (MaxStalled + 1 - stalls[e]) +
        CASE stage[e] = "none" -> 6 [] stage[e] = "adding" -> 5 [] stage[e] = "waiting" -> 4
          [] stage[e] = "active" -> 3 [] stage[e] = "inserted" -> 2 [] stage[e] = "stalled" -> 1
          [] OTHER -> 0

\* An entry stands still or comes nearer to its end.
EntryRunsOut(e) == UNCHANGED <<stage[e], stalls[e]>> \/ StepsLeft(e)' < StepsLeft(e)

EntriesRunOut == \A e \in Events : EntryRunsOut(e)

StepsAreCounted == \A e \in Events : StepsLeft(e) \in 0 .. 5 * MaxStalled + 11

LEMMA CountsAreNatural == LogInv => StepsAreCounted
<1> SUFFICES ASSUME LogInv, NEW e \in Events PROVE StepsLeft(e) \in 0 .. 5 * MaxStalled + 11
  BY DEF StepsAreCounted
<1>1. EventOK(e) /\ MaxStalled \in Nat
  BY EventsOK, LogBounds
<1>2. QED BY <1>1 DEF EventOK, StepsLeft

\* A step of d moves the entry of d towards its end and leaves the others alone.
LEMMA EntryMoves ==
    ASSUME LogInv, NEW d \in Events, Log(d) \/ InsertFails(d) \/ Work(d)
    PROVE  EntriesRunOut
<1> SUFFICES ASSUME NEW e \in Events PROVE EntryRunsOut(e)
  BY DEF EntriesRunOut
<1>1. LogTypeOK /\ EventOK(e) /\ MaxStalled \in Nat
  BY EventsOK, LogBounds DEF LogInv
<1>2. ASSUME e # d PROVE UNCHANGED <<stage[e], stalls[e]>>
  BY <1>1, <1>2 DEF LogTypeOK, Log, InsertFails, Work, Added, Take, Insert, Complete, Stalled, Move
<1>3. ASSUME e = d, Log(e) \/ InsertFails(e) \/ Added(e) \/ Take(e) \/ Insert(e) \/ Complete(e)
      PROVE  StepsLeft(e)' < StepsLeft(e)
  BY <1>1, <1>3 DEF LogTypeOK, EventOK, StepsLeft, Log, InsertFails, Added, Take, Insert, Complete, Move
<1>4. ASSUME e = d, Stalled(e) PROVE StepsLeft(e)' < StepsLeft(e)
  <2>1. /\ stage[e] = "stalled" /\ stage'[e] \in {"waiting", "failed"}
        /\ stalls'[e] = stalls[e] + 1
    BY <1>1, <1>4 DEF LogTypeOK, Stalled, Move
  <2>2. QED BY <1>1, <2>1 DEF EventOK, StepsLeft
<1>5. QED BY <1>2, <1>3, <1>4 DEF Work, EntryRunsOut

\* So does a crash for every entry it meets.
LEMMA CrashRunsOut == ASSUME LogInv, GoesDown PROVE EntriesRunOut
<1> SUFFICES ASSUME NEW e \in Events PROVE EntryRunsOut(e)
  BY DEF EntriesRunOut
<1>1. EventOK(e) /\ MaxStalled \in Nat
  BY EventsOK, LogBounds
<1>2. stage'[e] = AfterCrash(stage[e]) /\ stalls'[e] = stalls[e]
  BY DEF GoesDown
<1>3. QED BY <1>1, <1>2 DEF EntryRunsOut, EventOK, StepsLeft, AfterCrash

\* Every step an entry takes, or a crash takes for it, brings it nearer to its end:
\* no failure of a log job starts another entry, however many jobs fail.
THEOREM LogStepsRunOut == Spec => []StepsAreCounted /\ [][EntriesRunOut]_vars
<1>1. LogInv /\ [Next]_vars => [EntriesRunOut]_vars
  <2>1. ASSUME Restart PROVE EntriesRunOut
    BY <2>1 DEF Restart, EntriesRunOut, EntryRunsOut
  <2>2. QED BY <2>1, EntryMoves, CrashRunsOut DEF Next, AddRefused, Crash
<1>2. QED BY LogInit, LogNext, CountsAreNatural, <1>1, PTL DEF Spec

=============================================================================
