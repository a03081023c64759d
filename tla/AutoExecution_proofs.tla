------------------------ MODULE AutoExecution_proofs ------------------------
(***************************************************************************)
(* Theorems about AutoExecution for any number of releases, HTTP threads,  *)
(* candles, operator actions and process deaths, checked by TLAPS.         *)
(***************************************************************************)
EXTENDS AutoExecution, TLAPS

\* A batch has a candle: Demo the one of its event, Live the one of the clock.
Keyed ==
    /\ ~Demo => candle # 0
    /\ pc \in BeatPcs => IF Demo THEN key = event ELSE key # 0
    /\ pc \in {"batch", "inbatch", "save"} => key # 0
    /\ proc = deaths + 1

Typed == TypeOK /\ Keyed

LEMMA TypedInit == Init => Typed
<1> SUFFICES ASSUME Init PROVE Typed
  OBVIOUS
<1>1. /\ proc \in 1..(MaxDeaths + 1) /\ armed \in 0..(MaxDeaths + 1)
      /\ armedIn \in 0..(MaxDeaths + 1)
  BY BoundAssumption DEF Init
<1>2. candle \in 0..MaxCandle /\ deaths \in 0..MaxDeaths /\ actions \in 0..MaxActions
      /\ event \in 0..MaxCandle /\ key \in 0..MaxCandle
  BY BoundAssumption DEF Init
<1>3. ckpt \in [Releases -> 0..MaxCandle]
  BY BoundAssumption DEF Init
<1>4. queue \in Seq(Candles) /\ drained \in Seq(Candles)
  BY DEF Init
<1>5. evals \in [Releases -> SUBSET Candles] /\ torn \in [Releases -> SUBSET Candles]
  BY DEF Init
<1>6. /\ desired \in BOOLEAN /\ wake \in BOOLEAN /\ early \in BOOLEAN
      /\ straddle \in BOOLEAN /\ failed \in BOOLEAN /\ disordered \in BOOLEAN
  BY Zenon DEF Init
<1>7. TypeOK
  BY <1>1, <1>2, <1>3, <1>4, <1>5, <1>6
  DEF Init, TypeOK, Statuses, Pcs, EndPcs, Ops
<1>8. Keyed
  BY DEF Init, Keyed, BeatPcs
<1> QED
  BY <1>7, <1>8 DEF Typed

LEMMA TypedRunner == Typed /\ Runner => Typed'
<1> SUFFICES ASSUME Typed, Runner PROVE Typed'
  OBVIOUS
<1> USE BooleanAssumption, BoundAssumption
    DEF Typed, TypeOK, Keyed, Goto, Moves, Pcs, BeatPcs, EndPcs,
        row, durable, beat, closes, others, counters, history
<1>1. CASE RunnerStarts
  <2>1. early' \in BOOLEAN
    BY <1>1, Zenon DEF RunnerStarts
  <2>2. /\ pc' = "read" /\ wake' = FALSE
        /\ UNCHANGED <<durable, queue, accepted, disordered, beat, others, candle, history>>
    BY <1>1 DEF RunnerStarts
  <2> QED
    BY <2>1, <2>2
<1>2. CASE WaitEnds
  BY <1>2 DEF WaitEnds
<1>3. CASE ClearsWake
  BY <1>3 DEF ClearsWake
<1>4. CASE Drains
  <2>1. early' \in BOOLEAN
    BY <1>4, Zenon DEF Drains
  <2>2. /\ drained' = queue /\ queue' = <<>> /\ pc' = "next"
        /\ UNCHANGED <<durable, wake, accepted, disordered, event, key, due, others, candle,
                       history>>
    BY <1>4 DEF Drains
  <2>3. queue' \in Seq(Candles)
    BY <2>2
  <2> QED
    BY <2>1, <2>2, <2>3
<1>5. CASE NextHeartbeat
  <2>1. CASE drained = <<>>
    BY <1>5, <2>1 DEF NextHeartbeat
  <2>2. CASE drained # <<>>
    <3>1. Head(drained) \in Candles /\ Tail(drained) \in Seq(Candles)
      BY <2>2
    <3>2. event' = Head(drained) /\ drained' = Tail(drained)
      BY <1>5, <2>2 DEF NextHeartbeat
    <3> QED
      BY <1>5, <3>1, <3>2 DEF NextHeartbeat, Candles
  <2> QED
    BY <2>1, <2>2
<1>6. CASE ReadsRuntime
  BY <1>6 DEF ReadsRuntime
<1>7. CASE Reports
  <2>1. pc \in Statuses /\ pc' \in {"wait", "next"} /\ event' = 0 /\ key' = 0
    BY <1>7 DEF Reports, Returns, Statuses
  <2>2. /\ status' = pc /\ due' = {} /\ straddle' = FALSE
        /\ UNCHANGED <<desired, armed, ckpt, entries, wake, queue, closes, drained,
                       wakers, op, candle, proc, armedIn, failed, evals, torn, deaths,
                       actions>>
    BY <1>7 DEF Reports, Returns
  <2>3. straddle' \in BOOLEAN
    BY <2>2, Zenon
  <2>4. pc' \in Pcs /\ pc' \notin BeatPcs
    BY <2>1
  <2> QED
    BY <2>1, <2>2, <2>3, <2>4
<1>8. CASE PreflightPasses
  BY <1>8 DEF PreflightPasses
<1>9. CASE Reconciles
  BY <1>9 DEF Reconciles
<1>10. CASE NothingDue
  BY <1>10 DEF NothingDue
<1>11. CASE Schedules
  BY <1>11 DEF Schedules, Due
<1>12. CASE BatchBegins
  BY <1>12 DEF BatchBegins
<1>13. CASE BatchCompletes
  <2>1. key \in Candles
    BY <1>13 DEF BatchCompletes, Candles
  <2>2. evals' \in [Releases -> SUBSET Candles]
    BY <1>13, <2>1 DEF BatchCompletes
  <2> QED
    BY <1>13, <2>2 DEF BatchCompletes
<1>14. CASE SavesCheckpoint
  BY <1>14 DEF SavesCheckpoint
<1>15. CASE Saved
  BY <1>15 DEF Saved
<1>16. CASE Degrades
  BY <1>16 DEF Degrades
<1>17. CASE Fails
  BY <1>17 DEF Fails
<1>18. CASE PausesEntries
  BY <1>18 DEF PausesEntries
<1> QED
  BY <1>1, <1>2, <1>3, <1>4, <1>5, <1>6, <1>7, <1>8, <1>9, <1>10, <1>11, <1>12, <1>13,
     <1>14, <1>15, <1>16, <1>17, <1>18 DEF Runner

LEMMA TypedMarket == Typed /\ Market => Typed'
<1> SUFFICES ASSUME Typed, Market PROVE Typed'
  OBVIOUS
<1> USE BoundAssumption
    DEF Typed, TypeOK, Keyed, BeatPcs, row, durable, beat, closes, runner, others, counters, history
<1>1. CASE CandleCloses
  BY <1>1 DEF CandleCloses
<1>2. CASE AcceptsClose
  <2>1. PICK k \in 1..candle :
           /\ accepted' = accepted \union {k} /\ queue' = Append(queue, k)
           /\ disordered' = (disordered \/ (\E j \in accepted : k < j)
                             \/ (\E r \in Releases : k < ckpt[r]))
    BY <1>2 DEF AcceptsClose
  <2>2. k \in Candles
    BY DEF Candles
  <2>3. queue' \in Seq(Candles) /\ accepted' \subseteq Candles
    BY <2>1, <2>2
  <2>4. disordered' \in BOOLEAN
    BY <2>1, Zenon
  <2>5. early' \in BOOLEAN
    BY <1>2, Zenon DEF AcceptsClose
  <2>6. /\ wakers' = wakers + 1
        /\ UNCHANGED <<durable, pc, wake, beat, op, candle, history>>
    BY <1>2 DEF AcceptsClose
  <2> QED
    BY <2>3, <2>4, <2>5, <2>6
<1>3. CASE SetsWake
  BY <1>3 DEF SetsWake
<1> QED
  BY <1>1, <1>2, <1>3 DEF Market

LEMMA TypedAction == ASSUME NEW t \in Threads PROVE Typed /\ Action(t) => Typed'
<1> SUFFICES ASSUME Typed, Action(t) PROVE Typed'
  OBVIOUS
<1> USE BooleanAssumption, BoundAssumption
    DEF Typed, TypeOK, Keyed, BeatPcs, Does, Ops, Statuses,
        row, durable, beat, closes, runner, others, counters, history
<1>1. CASE Requests(t)
  BY <1>1 DEF Requests
<1>2. CASE StartResumes(t)
  <2>1. failed' \in BOOLEAN
    BY <1>2, Zenon DEF StartResumes, Resumes
  <2>2. entries' \in {"open", "paused", "killed"} /\ op' \in [Threads -> Ops]
    BY <1>2 DEF StartResumes, Resumes
  <2>3. UNCHANGED <<row, ckpt, runner, wakers, candle, proc, armedIn, straddle, evals, torn,
                    counters>>
    BY <1>2 DEF StartResumes
  <2> QED
    BY <2>1, <2>2, <2>3
<1>3. CASE StartEnables(t)
  BY <1>3 DEF StartEnables
<1>4. CASE ArmClears(t)
  <2>1. failed' \in BOOLEAN
    BY <1>4, Zenon DEF ArmClears, Resumes
  <2>2. entries' \in {"open", "paused", "killed"} /\ op' \in [Threads -> Ops]
    BY <1>4 DEF ArmClears, Resumes
  <2>3. UNCHANGED <<row, ckpt, runner, wakers, candle, proc, armedIn, straddle, evals, torn,
                    counters>>
    BY <1>4 DEF ArmClears
  <2> QED
    BY <2>1, <2>2, <2>3
<1>5. CASE ArmRecords(t)
  BY <1>5 DEF ArmRecords, Pid
<1>6. CASE PauseEntries(t)
  BY <1>6 DEF PauseEntries
<1>7. CASE PauseReports(t)
  BY <1>7 DEF PauseReports
<1>8. CASE Disarms(t)
  <2>1. straddle' \in BOOLEAN
    BY <1>8, Zenon DEF Disarms, Withdraws
  <2>2. /\ armed' = 0 /\ armedIn' = 0 /\ status' = "disarmed"
        /\ op' = [op EXCEPT ![t] = "disable"]
        /\ UNCHANGED <<desired, ckpt, entries, runner, wakers, candle, proc, failed, evals,
                       torn, counters>>
    BY <1>8 DEF Disarms
  <2> QED
    BY <2>1, <2>2
<1>9. CASE Disables(t)
  <2>1. straddle' \in BOOLEAN
    BY <1>9, Zenon DEF Disables, Withdraws
  <2>2. /\ desired' = FALSE /\ status' = "disabled"
        /\ op' = [op EXCEPT ![t] = "wake"]
        /\ UNCHANGED <<armed, ckpt, entries, runner, wakers, candle, proc, armedIn, failed,
                       evals, torn, counters>>
    BY <1>9 DEF Disables
  <2> QED
    BY <2>1, <2>2
<1>10. CASE Kills(t)
  <2>1. entries' \in {"open", "paused", "killed"} /\ op' \in [Threads -> Ops]
    BY <1>10 DEF Kills
  <2>2. UNCHANGED <<row, ckpt, runner, wakers, candle, history>>
    BY <1>10 DEF Kills
  <2> QED
    BY <2>1, <2>2
<1>11. CASE ActionWakes(t)
  BY <1>11 DEF ActionWakes
<1> QED
  BY <1>1, <1>2, <1>3, <1>4, <1>5, <1>6, <1>7, <1>8, <1>9, <1>10, <1>11 DEF Action

LEMMA TypedDies == Typed /\ Dies => Typed'
<1> SUFFICES ASSUME Typed, Dies PROVE Typed'
  OBVIOUS
<1> USE DEF Typed, TypeOK, Keyed, row, durable
<1>1. torn' \in [Releases -> SUBSET Candles]
  BY DEF Dies, Candles
<1>2. proc' \in 1..(MaxDeaths + 1) /\ deaths' \in 0..MaxDeaths
      /\ proc' = proc + 1 /\ deaths' = deaths + 1
  BY BoundAssumption DEF Dies
<1>3. /\ op' \in [Threads -> Ops] /\ pc' \in Pcs \ BeatPcs
      /\ queue' \in Seq(Candles) /\ drained' \in Seq(Candles) /\ accepted' \subseteq Candles
      /\ key' \in 0..MaxCandle /\ event' \in 0..MaxCandle /\ due' \subseteq Releases
  BY BoundAssumption DEF Dies, Goto, Pcs, BeatPcs, EndPcs, Ops
<1>4. /\ wake' \in BOOLEAN /\ early' \in BOOLEAN /\ straddle' \in BOOLEAN
      /\ failed' \in BOOLEAN /\ wakers' = 0
  BY Zenon DEF Dies
<1>5. pc' \notin {"batch", "inbatch", "save"}
  BY DEF Dies, Goto
<1>6. UNCHANGED <<durable, candle, armedIn, disordered, evals, actions>>
  BY DEF Dies
<1> QED
  BY <1>1, <1>2, <1>3, <1>4, <1>5, <1>6

LEMMA TypedNext == Typed /\ [Next]_vars => Typed'
<1> SUFFICES ASSUME Typed, [Next]_vars PROVE Typed'
  OBVIOUS
<1>1. CASE UNCHANGED vars
  BY <1>1 DEF Typed, TypeOK, Keyed, vars, durable, row, runner, beat, closes, others, history, counters
<1>2. CASE Next
  BY <1>2, TypedRunner, TypedMarket, TypedAction, TypedDies DEF Next
<1> QED
  BY <1>1, <1>2

\* Every variable of the runner, the controller and its store keeps its type.
THEOREM AutoTypeCorrect == Spec => []TypeOK
<1>1. Typed => TypeOK
  BY DEF Typed
<1> QED
  BY <1>1, TypedInit, TypedNext, PTL DEF Spec

-----------------------------------------------------------------------------
(* What the steps of the heartbeat can be.                                 *)

\* A batch begins in BatchBegins and is completed in BatchCompletes.
LEMMA BatchSteps ==
  ASSUME [Next]_vars
  PROVE  /\ pc = "batch" /\ pc' = "inbatch" => BatchBegins
         /\ pc = "inbatch" /\ pc' = "save" => BatchCompletes
<1> USE DEF Goto, Moves, durable, row, runner, beat, closes, others, history, counters
<1>1. CASE UNCHANGED vars
  BY <1>1 DEF vars
<1>2. CASE Runner
  BY <1>2
  DEF Runner, RunnerStarts, WaitEnds, ClearsWake, Drains, NextHeartbeat, ReadsRuntime, Reports,
      PreflightPasses, Reconciles, NothingDue, Schedules, SavesCheckpoint, Saved, Degrades,
      Fails, PausesEntries, BatchBegins, BatchCompletes
<1>3. CASE Market
  BY <1>3 DEF Market, CandleCloses, AcceptsClose, SetsWake
<1>4. ASSUME NEW t \in Threads, Action(t) PROVE pc' = pc
  BY <1>4
  DEF Action, Requests, StartResumes, StartEnables, ArmClears, ArmRecords, PauseEntries,
      PauseReports, Disarms, Disables, Kills, ActionWakes
<1>5. CASE Dies
  BY <1>5 DEF Dies
<1> QED
  BY <1>1, <1>2, <1>3, <1>4, <1>5 DEF Next

-----------------------------------------------------------------------------
(* The wake-up.                                                            *)

\* Once the thread runs, whatever is queued is about to be drained, or the wake-up
\* for it is set or on its way, or the start has cleared it.
Awake ==
    pc # "off" /\ queue # <<>> => wake \/ wakers > 0 \/ early \/ pc = "drain"

LEMMA AwakeNext == Typed /\ Awake /\ [Next]_vars => Awake'
<1> SUFFICES ASSUME Typed, Awake, [Next]_vars PROVE Awake'
  OBVIOUS
<1> USE DEF Awake, Goto, Moves, durable, row, runner, beat, closes, others, history, counters
<1>1. CASE UNCHANGED vars
  BY <1>1 DEF vars
<1>2. CASE ClearsWake \/ Drains \/ WaitEnds \/ NextHeartbeat
  BY <1>2 DEF ClearsWake, Drains, WaitEnds, NextHeartbeat
<1>3. CASE Runner /\ ~(RunnerStarts \/ ClearsWake \/ Drains \/ WaitEnds \/ NextHeartbeat)
  <2>1. UNCHANGED <<wake, queue, wakers, early>> /\ pc # "drain" /\ pc # "off"
    BY <1>3
    DEF Runner, ReadsRuntime, Reports, Returns, PreflightPasses, Reconciles, NothingDue,
        Schedules, SavesCheckpoint, Saved, Degrades, Fails, PausesEntries, BatchBegins,
        BatchCompletes
  <2> QED
    BY <2>1
<1>4. CASE Market
  <2>1. CASE AcceptsClose
    <3>1. wakers' > 0
      BY <2>1 DEF AcceptsClose, Typed, TypeOK
    <3> QED
      BY <3>1
  <2>2. CASE SetsWake
    BY <2>2 DEF SetsWake
  <2>3. CASE CandleCloses
    BY <2>3 DEF CandleCloses
  <2> QED
    BY <1>4, <2>1, <2>2, <2>3 DEF Market
<1>5. ASSUME NEW t \in Threads, Action(t)
      PROVE  UNCHANGED <<pc, queue, wakers, early>> /\ (wake => wake')
  BY <1>5
  DEF Action, Requests, StartResumes, StartEnables, ArmClears, ArmRecords, PauseEntries,
      PauseReports, Disarms, Disables, Kills, ActionWakes
<1>6. CASE Dies
  BY <1>6 DEF Dies
<1>7. CASE RunnerStarts
  <2>1. queue # <<>> /\ wakers = 0 => early'
    BY <1>7 DEF RunnerStarts
  <2>2. UNCHANGED <<queue, wakers>> /\ wakers \in Nat
    BY <1>7 DEF RunnerStarts, Typed, TypeOK
  <2> QED
    BY <2>1, <2>2
<1> QED
  BY <1>1, <1>2, <1>3, <1>4, <1>5, <1>6, <1>7 DEF Next, Runner

\* A queued close is never left to the next interval, but for what was queued
\* when the thread started.
THEOREM WakesUp == Spec => []NoLostWakeup
<1>1. Init => Awake
  BY DEF Init, Awake
<1>2. Awake => NoLostWakeup
  BY DEF Awake, NoLostWakeup
<1> QED
  BY <1>1, <1>2, AwakeNext, TypedInit, TypedNext, PTL DEF Spec

-----------------------------------------------------------------------------
(* Authority.                                                              *)

\* The ARM of the row was recorded by the process it names; a heartbeat that
\* has passed its reading still has it, unless it was withdrawn meanwhile.
Authority ==
    /\ armed # 0 => armedIn = armed
    /\ pc \in {"preflight", "reconcile", "schedule", "batch"} =>
          (desired /\ Armed) \/ straddle

LEMMA AuthorityNext ==
  ASSUME ~PidReuse PROVE Typed /\ Authority /\ [Next]_vars => Authority'
<1> SUFFICES ASSUME Typed, Authority, [Next]_vars PROVE Authority'
  OBVIOUS
<1> USE DEF Authority, Armed, Pid, Goto, Moves, durable, row, runner, beat, closes, others, history,
            counters
<1>1. CASE UNCHANGED vars
  BY <1>1 DEF vars
<1>2. CASE ReadsRuntime
  BY <1>2 DEF ReadsRuntime
<1>3. CASE Reports
  BY <1>3 DEF Reports, Returns
<1>4. CASE Runner /\ ~ReadsRuntime /\ ~Reports
  <2>1. /\ UNCHANGED <<armed, armedIn, desired, proc, straddle>>
        /\ pc' \in {"preflight", "reconcile", "schedule", "batch"} =>
              pc \in {"preflight", "reconcile", "schedule", "batch"}
    BY <1>4
    DEF Runner, RunnerStarts, WaitEnds, ClearsWake, Drains, NextHeartbeat, PreflightPasses,
        Reconciles, NothingDue, Schedules, SavesCheckpoint, Saved, Degrades, Fails,
        PausesEntries, BatchBegins, BatchCompletes
  <2> QED
    BY <2>1
<1>5. CASE Market
  BY <1>5 DEF Market, CandleCloses, AcceptsClose, SetsWake
<1>6. ASSUME NEW t \in Threads, ArmRecords(t) PROVE Authority'
  BY <1>6 DEF ArmRecords
<1>7. ASSUME NEW t \in Threads, StartEnables(t) PROVE Authority'
  BY <1>7 DEF StartEnables
<1>8. ASSUME NEW t \in Threads, Disarms(t) \/ Disables(t) PROVE Authority'
  BY <1>8 DEF Disarms, Disables, Withdraws, BeatPcs
<1>9. ASSUME NEW t \in Threads, Action(t),
             ~ArmRecords(t), ~StartEnables(t), ~Disarms(t), ~Disables(t)
      PROVE  UNCHANGED <<pc, armed, armedIn, desired, proc, straddle>>
  BY <1>9
  DEF Action, Requests, StartResumes, ArmClears, PauseEntries, PauseReports, Kills,
      ActionWakes
<1>10. CASE Dies
  BY <1>10 DEF Dies
<1> QED
  BY <1>1, <1>2, <1>3, <1>4, <1>5, <1>6, <1>7, <1>8, <1>9, <1>10 DEF Next

\* Every batch that begins is armed in this process and enabled, or of the one
\* heartbeat that had read the row before: for any number of threads, actions
\* and deaths, if the process id of a dead process does not come back.
THEOREM StopBounded == ASSUME ~PidReuse PROVE Spec => StopInFlight
<1>1. Init => Authority
  BY DEF Init, Authority
<1>2. ASSUME Typed, Authority, [Next]_vars
      PROVE  [pc = "batch" /\ pc' = "inbatch" =>
                (desired /\ Armed /\ armedIn = proc) \/ straddle]_vars
  <2>1. proc # 0
    BY <1>2, BoundAssumption DEF Typed, TypeOK
  <2> QED
    BY <1>2, <2>1 DEF Authority, Armed, Pid
<1>3. Typed /\ Authority /\ [Next]_vars => Authority'
  BY AuthorityNext
<1> QED
  BY <1>1, <1>2, <1>3, TypedInit, TypedNext, PTL DEF Spec, StopInFlight

-----------------------------------------------------------------------------
(* A failure.                                                              *)

\* After a failure the order path is closed, or the thread is about to close it.
Blocked == failed => entries # "open" \/ pc = "fail"

LEMMA BlockedNext == Blocked /\ [Next]_vars => Blocked'
<1> SUFFICES ASSUME Blocked, [Next]_vars PROVE Blocked'
  OBVIOUS
<1> USE DEF Blocked, Goto, Moves, durable, row, runner, beat, closes, others, history, counters
<1>1. CASE UNCHANGED vars
  BY <1>1 DEF vars
<1>2. CASE Fails \/ PausesEntries
  BY <1>2 DEF Fails, PausesEntries
<1>3. CASE Runner /\ ~Fails /\ ~PausesEntries
  <2>1. UNCHANGED <<failed, entries>> /\ pc # "fail"
    BY <1>3
    DEF Runner, RunnerStarts, WaitEnds, ClearsWake, Drains, NextHeartbeat, ReadsRuntime, Reports,
        Returns, PreflightPasses, Reconciles, NothingDue, Schedules, SavesCheckpoint, Saved,
        Degrades, BatchBegins, BatchCompletes
  <2> QED
    BY <2>1
<1>4. CASE Market
  BY <1>4 DEF Market, CandleCloses, AcceptsClose, SetsWake
<1>5. ASSUME NEW t \in Threads, StartResumes(t) \/ ArmClears(t) PROVE Blocked'
  BY <1>5 DEF StartResumes, ArmClears, Resumes
<1>6. ASSUME NEW t \in Threads, Action(t), ~StartResumes(t), ~ArmClears(t)
      PROVE  UNCHANGED <<pc, failed>> /\ (entries' = "open" => entries = "open")
  BY <1>6
  DEF Action, Requests, StartEnables, ArmRecords, PauseEntries, PauseReports, Disarms,
      Disables, Kills, ActionWakes
<1>7. CASE Dies
  BY <1>7 DEF Dies
<1> QED
  BY <1>1, <1>2, <1>3, <1>4, <1>5, <1>6, <1>7 DEF Next

\* A failure that is not transient stops entries until the operator resumes
\* them.
THEOREM FailureIsStop == Spec => FailureStops
<1>1. Init => Blocked
  BY DEF Init, Blocked
<1>2. ASSUME Blocked, [Next]_vars
      PROVE  [pc = "batch" /\ pc' = "inbatch" => ~failed]_vars
  BY <1>2, BatchSteps DEF Blocked, BatchBegins
<1> QED
  BY <1>1, <1>2, BlockedNext, PTL DEF Spec, FailureStops
-----------------------------------------------------------------------------
(* The order of the candles.                                               *)

\* What is still to be run, in the order it is run: later candles, each of
\* them no earlier than any checkpoint.
Line ==
    /\ \A i, j \in 1..Len(queue) : i < j => queue[i] < queue[j]
    /\ \A i, j \in 1..Len(drained) : i < j => drained[i] < drained[j]
    /\ \A i \in 1..Len(drained), j \in 1..Len(queue) : drained[i] < queue[j]
    /\ \A j \in 1..Len(queue) : queue[j] \in accepted
    /\ \A i \in 1..Len(drained) : drained[i] \in accepted

Current ==
    /\ \A k \in accepted : k <= candle
    /\ event # 0 =>
          /\ event \in accepted
          /\ \A j \in 1..Len(queue) : event < queue[j]
          /\ \A i \in 1..Len(drained) : event < drained[i]
    /\ pc \in BeatPcs => key <= candle

Behind ==
    \A r \in Releases :
        /\ ckpt[r] <= candle
        /\ \A j \in 1..Len(queue) : ckpt[r] <= queue[j]
        /\ \A i \in 1..Len(drained) : ckpt[r] <= drained[i]
        /\ event # 0 => ckpt[r] <= event
        /\ pc \in BeatPcs /\ key # 0 => ckpt[r] <= key

\* A candle of which a batch was completed has its checkpoint, is about to
\* have it, or was torn.
Once ==
    /\ \A r \in Releases : \A k \in evals[r] :
          \/ k <= ckpt[r]
          \/ k \in torn[r]
          \/ pc = "save" /\ r \in due /\ k = key
    /\ pc \in {"batch", "inbatch"} => \A r \in due : ckpt[r] # key

\* Live has no events.
Clocked == ~Demo => queue = <<>> /\ drained = <<>> /\ event = 0

Ordered   == Line /\ Current /\ Behind /\ Once
Sequenced == Clocked /\ (disordered \/ Ordered)

LEMMA SequencedInit == Init => Sequenced
  BY BoundAssumption
  DEF Init, Sequenced, Clocked, Ordered, Line, Current, Behind, Once, BeatPcs

\* What leaves candles and checkpoints alone keeps their order.
LEMMA OrderedFrame ==
  ASSUME Typed, Ordered,
         UNCHANGED <<ckpt, queue, accepted, drained, event, key, due, candle, evals, torn>>,
         pc' \in BeatPcs => pc \in BeatPcs,
         pc' \in {"batch", "inbatch"} => pc \in {"batch", "inbatch"},
         pc = "save" => pc' = "save" \/ due = {}
  PROVE  Ordered'
  BY DEF Ordered, Line, Current, Behind, Once

LEMMA OrderedRunner == Typed /\ Clocked /\ Ordered /\ Runner => Ordered'
<1> SUFFICES ASSUME Typed, Clocked, Ordered, Runner PROVE Ordered'
  OBVIOUS
<1> USE DEF Goto, Moves, durable, row, beat, closes, others, history, counters
<1>1. CASE RunnerStarts \/ WaitEnds \/ ClearsWake \/ PreflightPasses \/ Reconciles
           \/ NothingDue \/ BatchBegins \/ Saved \/ Degrades \/ Fails \/ PausesEntries
  <2>1. /\ UNCHANGED <<ckpt, queue, accepted, drained, event, key, due, candle, evals, torn>>
        /\ pc' \in BeatPcs => pc \in BeatPcs
        /\ pc' \in {"batch", "inbatch"} => pc \in {"batch", "inbatch"}
        /\ pc = "save" => pc' = "save" \/ due = {}
    BY <1>1
    DEF RunnerStarts, WaitEnds, ClearsWake, PreflightPasses, Reconciles, NothingDue, BatchBegins,
        Saved, Degrades, Fails, PausesEntries, BeatPcs
  <2> QED
    BY <2>1, OrderedFrame
<1>2. CASE Drains
  <2>1. /\ drained' = queue /\ queue' = <<>> /\ pc' = "next" /\ pc = "drain"
        /\ UNCHANGED <<ckpt, accepted, event, key, due, candle, evals, torn>>
    BY <1>2 DEF Drains
  <2>2. Line'
    BY <2>1 DEF Ordered, Line
  <2>3. Current'
    BY <2>1 DEF Ordered, Current, BeatPcs
  <2>4. Behind'
    BY <2>1 DEF Ordered, Behind, BeatPcs
  <2>5. Once'
    BY <2>1 DEF Ordered, Once
  <2> QED
    BY <2>2, <2>3, <2>4, <2>5 DEF Ordered
<1>3. CASE NextHeartbeat
  <2>1. /\ pc = "next" /\ pc' = "read"
        /\ UNCHANGED <<ckpt, queue, accepted, key, due, candle, evals, torn>>
    BY <1>3 DEF NextHeartbeat
  <2>2. CASE drained = <<>>
    <3>1. event' = 0 /\ drained' = drained
      BY <1>3, <2>2 DEF NextHeartbeat
    <3> QED
      BY <2>1, <3>1 DEF Ordered, Line, Current, Behind, Once, BeatPcs
  <2>3. CASE drained # <<>>
    <3>1. event' = drained[1] /\ drained' = Tail(drained)
      BY <1>3, <2>3 DEF NextHeartbeat, Typed, TypeOK
    <3>2. /\ Len(drained) \in Nat /\ Len(drained) # 0
          /\ Len(drained') = Len(drained) - 1
          /\ \A i \in 1..Len(drained') : drained'[i] = drained[i + 1]
      BY <2>3, <3>1 DEF Typed, TypeOK
    <3>3. /\ \A i \in 1..Len(drained') : i + 1 \in 1..Len(drained)
          /\ 1 \in 1..Len(drained)
      BY <3>2
    <3>4. Line'
      BY <2>1, <3>1, <3>2, <3>3 DEF Ordered, Line
    <3>5. Current'
      BY <2>1, <2>3, <3>1, <3>2, <3>3 DEF Ordered, Line, Current, BeatPcs
    <3>6. Behind'
      BY <2>1, <3>1, <3>2, <3>3 DEF Ordered, Behind, BeatPcs
    <3>7. Once'
      BY <2>1 DEF Ordered, Once
    <3> QED
      BY <3>4, <3>5, <3>6, <3>7 DEF Ordered
  <2> QED
    BY <2>2, <2>3
<1>4. CASE ReadsRuntime
  <2>1. /\ pc = "read" /\ key' = IF Demo THEN event ELSE candle
        /\ pc' \in {"disabled", "disarmed", "preflight"}
        /\ UNCHANGED <<ckpt, queue, accepted, drained, event, due, candle, evals, torn>>
    BY <1>4 DEF ReadsRuntime
  <2>2. Current'
    <3>1. key' <= candle
      BY <2>1, BooleanAssumption DEF Ordered, Current, Typed, TypeOK
    <3> QED
      BY <2>1, <3>1 DEF Ordered, Current
  <2>3. Line' /\ Behind' /\ Once'
    BY <2>1 DEF Ordered, Line, Behind, Once
  <2> QED
    BY <2>2, <2>3 DEF Ordered
<1>5. CASE Reports
  <2>1. /\ event' = 0 /\ pc' \in {"wait", "next"} /\ pc # "save"
        /\ UNCHANGED <<ckpt, queue, accepted, drained, candle, evals, torn>>
    BY <1>5 DEF Reports, Returns
  <2> QED
    BY <2>1 DEF Ordered, Line, Current, Behind, Once, BeatPcs
<1>6. CASE Schedules
  <2>1. /\ pc = "schedule" /\ pc' = "batch" /\ due' = Due
        /\ UNCHANGED <<ckpt, queue, accepted, drained, event, key, candle, evals, torn>>
    BY <1>6 DEF Schedules
  <2> QED
    BY <2>1 DEF Ordered, Line, Current, Behind, Once, BeatPcs, Due
<1>7. CASE BatchCompletes
  <2>1. /\ pc = "inbatch" /\ pc' = "save"
        /\ \A r \in Releases :
              evals'[r] = IF r \in due THEN evals[r] \union {key} ELSE evals[r]
        /\ UNCHANGED <<ckpt, queue, accepted, drained, event, key, due, candle, torn>>
    BY <1>7 DEF BatchCompletes
  <2>2. Once'
    BY <2>1 DEF Ordered, Once
  <2> QED
    BY <2>1, <2>2 DEF Ordered, Line, Current, Behind, BeatPcs
<1>8. CASE SavesCheckpoint
  <2>1. PICK r \in due : ckpt' = [ckpt EXCEPT ![r] = key] /\ due' = due \ {r}
    BY <1>8 DEF SavesCheckpoint
  <2>2. /\ pc = "save" /\ key # 0
        /\ UNCHANGED <<pc, queue, accepted, drained, event, key, candle, evals, torn>>
    BY <1>8 DEF SavesCheckpoint, Typed, Keyed
  <2>3. /\ r \in Releases /\ ckpt'[r] = key /\ key <= candle
        /\ \A s \in Releases \ {r} : ckpt'[s] = ckpt[s]
        /\ ckpt[r] <= key
    BY <2>1, <2>2 DEF Typed, TypeOK, Ordered, Current, Behind, BeatPcs
  <2>4. /\ event # 0 => key = event
        /\ \A j \in 1..Len(queue) : key <= queue[j]
        /\ \A i \in 1..Len(drained) : key <= drained[i]
    <3>1. /\ \A j \in 1..Len(queue) : queue[j] \in Candles
          /\ \A i \in 1..Len(drained) : drained[i] \in Candles
      BY DEF Typed, TypeOK
    <3>2. CASE Demo
      <4>1. key = event
        BY <2>2, <3>2 DEF Typed, Keyed, BeatPcs
      <4> QED
        BY <2>2, <3>1, <4>1 DEF Typed, TypeOK, Ordered, Current, Candles
    <3>3. CASE ~Demo
      <4>1. queue = <<>> /\ drained = <<>> /\ event = 0
        BY <3>3 DEF Clocked
      <4> QED
        BY <4>1
    <3> QED
      BY <3>2, <3>3
  <2>5. Behind'
    <3> SUFFICES ASSUME NEW s \in Releases
                 PROVE  /\ ckpt'[s] <= candle
                        /\ \A j \in 1..Len(queue) : ckpt'[s] <= queue[j]
                        /\ \A i \in 1..Len(drained) : ckpt'[s] <= drained[i]
                        /\ event # 0 => ckpt'[s] <= event
                        /\ key # 0 => ckpt'[s] <= key
      BY <2>2 DEF Behind
    <3>1. key <= key
      BY DEF Typed, TypeOK
    <3>2. CASE s = r
      BY <2>3, <2>4, <3>1, <3>2
    <3>3. CASE s # r
      BY <2>2, <2>3, <3>3 DEF Ordered, Behind, BeatPcs
    <3> QED
      BY <3>2, <3>3
  <2>6. Once'
    <3> SUFFICES ASSUME NEW s \in Releases, NEW k \in evals[s]
                 PROVE  k <= ckpt'[s] \/ k \in torn[s] \/ (s \in due' /\ k = key)
      BY <2>2 DEF Once
    <3>1. k <= ckpt[s] \/ k \in torn[s] \/ (s \in due /\ k = key)
      BY <2>2 DEF Ordered, Once
    <3>2. k \in Nat /\ key \in Nat /\ ckpt[s] \in Nat
      BY DEF Typed, TypeOK, Candles
    <3> QED
      BY <2>1, <2>3, <3>1, <3>2
  <2> QED
    BY <2>2, <2>5, <2>6 DEF Ordered, Line, Current
<1> QED
  BY <1>1, <1>2, <1>3, <1>4, <1>5, <1>6, <1>7, <1>8 DEF Runner
LEMMA OrderedMarket == Typed /\ Ordered /\ Market => disordered' \/ Ordered'
<1> SUFFICES ASSUME Typed, Ordered, Market, ~disordered' PROVE Ordered'
  OBVIOUS
<1> USE DEF durable, row, runner, beat, closes, others, history, counters
<1>1. CASE CandleCloses
  <2>1. /\ candle' = candle + 1
        /\ UNCHANGED <<pc, ckpt, queue, accepted, drained, event, key, due, evals, torn>>
    BY <1>1 DEF CandleCloses
  <2>2. Current'
    BY <2>1 DEF Ordered, Current, Typed, TypeOK, Candles
  <2>3. Behind'
    BY <2>1 DEF Ordered, Behind, Typed, TypeOK
  <2>4. Line' /\ Once'
    BY <2>1 DEF Ordered, Line, Once
  <2> QED
    BY <2>2, <2>3, <2>4 DEF Ordered
<1>2. CASE AcceptsClose
  <2>1. PICK k \in 1..candle :
           /\ k \notin accepted
           /\ accepted' = accepted \union {k} /\ queue' = Append(queue, k)
           /\ ~(\E j \in accepted : k < j) /\ ~(\E r \in Releases : k < ckpt[r])
    BY <1>2 DEF AcceptsClose
  <2>2. /\ Demo /\ k \in Candles /\ k <= candle
        /\ UNCHANGED <<pc, ckpt, candle, drained, event, key, due, evals, torn>>
    BY <1>2, BoundAssumption DEF AcceptsClose, Typed, TypeOK, Candles
  <2>3. /\ Len(queue') = Len(queue) + 1 /\ Len(queue) \in Nat
        /\ \A j \in 1..Len(queue) : queue'[j] = queue[j]
        /\ queue'[Len(queue) + 1] = k
        /\ \A j \in 1..Len(queue') : j \in 1..Len(queue) \/ j = Len(queue) + 1
    BY <2>1, <2>2 DEF Typed, TypeOK
  <2>4. /\ \A j \in accepted : j < k
        /\ \A r \in Releases : ckpt[r] <= k
    BY <2>1, <2>2 DEF Typed, TypeOK, Candles
  <2>5. Line'
    BY <2>1, <2>2, <2>3, <2>4 DEF Ordered, Line
  <2>6. Current'
    BY <2>1, <2>2, <2>3, <2>4 DEF Ordered, Current, Candles
  <2>7. Behind'
    BY <2>1, <2>2, <2>3, <2>4 DEF Ordered, Behind
  <2>8. Once'
    BY <2>2 DEF Ordered, Once
  <2> QED
    BY <2>5, <2>6, <2>7, <2>8 DEF Ordered
<1>3. CASE SetsWake
  <2>1. UNCHANGED <<pc, ckpt, queue, accepted, drained, event, key, due, candle, evals, torn>>
    BY <1>3 DEF SetsWake
  <2> QED
    BY <2>1, OrderedFrame DEF Ordered, Line, Current, Behind, Once
<1> QED
  BY <1>1, <1>2, <1>3 DEF Market

LEMMA OrderedDies == Typed /\ Ordered /\ Dies => Ordered'
<1> SUFFICES ASSUME Typed, Ordered, Dies PROVE Ordered'
  OBVIOUS
<1>1. /\ queue' = <<>> /\ drained' = <<>> /\ accepted' = {} /\ event' = 0 /\ pc' = "off"
      /\ UNCHANGED <<ckpt, candle, evals>>
      /\ \A r \in Releases : torn'[r] = IF pc = "save" /\ r \in due
                                        THEN torn[r] \union {key} ELSE torn[r]
  BY DEF Dies, Goto, durable
<1>2. Line' /\ Current' /\ Behind'
  BY <1>1 DEF Ordered, Line, Current, Behind, BeatPcs
<1>3. Once'
  BY <1>1 DEF Ordered, Once
<1> QED
  BY <1>2, <1>3 DEF Ordered

LEMMA OrderedNext == Typed /\ Clocked /\ Ordered /\ [Next]_vars => disordered' \/ Ordered'
<1> SUFFICES ASSUME Typed, Clocked, Ordered, [Next]_vars, ~disordered' PROVE Ordered'
  OBVIOUS
<1>1. CASE UNCHANGED vars
  <2>1. UNCHANGED <<pc, ckpt, queue, accepted, drained, event, key, due, candle, evals, torn>>
    BY <1>1 DEF vars, durable, row, runner, beat, closes, others, history, counters
  <2> QED
    BY <2>1 DEF Ordered, Line, Current, Behind, Once
<1>2. ASSUME NEW t \in Threads, Action(t) PROVE Ordered'
  <2>1. UNCHANGED <<pc, ckpt, queue, accepted, drained, event, key, due, candle, evals, torn>>
    BY <1>2
    DEF Action, Requests, StartResumes, StartEnables, ArmClears, ArmRecords, PauseEntries,
        PauseReports, Disarms, Disables, Kills, ActionWakes,
        durable, row, runner, beat, closes, others, history, counters
  <2> QED
    BY <2>1 DEF Ordered, Line, Current, Behind, Once
<1> QED
  BY <1>1, <1>2, OrderedRunner, OrderedMarket, OrderedDies DEF Next

\* Disorder is never forgotten.
LEMMA DisorderStays == disordered /\ [Next]_vars => disordered'
<1> SUFFICES ASSUME [Next]_vars, ~AcceptsClose PROVE UNCHANGED disordered
  BY DEF AcceptsClose
<1> USE DEF Goto, Moves, row, durable, runner, beat, closes, others, history, counters
<1>1. CASE UNCHANGED vars
  BY <1>1 DEF vars
<1>2. CASE Runner
  BY <1>2
  DEF Runner, RunnerStarts, WaitEnds, ClearsWake, Drains, NextHeartbeat, ReadsRuntime, Reports,
      Returns, PreflightPasses, Reconciles, NothingDue, Schedules, BatchBegins, BatchCompletes,
      SavesCheckpoint, Saved, Degrades, Fails, PausesEntries
<1>3. CASE Market \/ Dies
  BY <1>3 DEF Market, CandleCloses, SetsWake, Dies
<1>4. ASSUME NEW t \in Threads, Action(t) PROVE UNCHANGED disordered
  BY <1>4
  DEF Action, Requests, StartResumes, StartEnables, ArmClears, ArmRecords, PauseEntries,
      PauseReports, Disarms, Disables, Kills, ActionWakes
<1> QED
  BY <1>1, <1>2, <1>3, <1>4 DEF Next

LEMMA ClockedNext == Clocked /\ [Next]_vars => Clocked'
<1> SUFFICES ASSUME Clocked, ~Demo, [Next]_vars
             PROVE  queue' = <<>> /\ drained' = <<>> /\ event' = 0
  BY DEF Clocked
<1> USE DEF Clocked, Goto, Moves, row, durable, runner, beat, closes, others, history, counters
<1>1. CASE UNCHANGED vars
  BY <1>1 DEF vars
<1>2. CASE Runner
  BY <1>2
  DEF Runner, RunnerStarts, WaitEnds, ClearsWake, Drains, NextHeartbeat, ReadsRuntime, Reports,
      Returns, PreflightPasses, Reconciles, NothingDue, Schedules, BatchBegins, BatchCompletes,
      SavesCheckpoint, Saved, Degrades, Fails, PausesEntries
<1>3. CASE Market \/ Dies
  BY <1>3 DEF Market, CandleCloses, AcceptsClose, SetsWake, Dies
<1>4. ASSUME NEW t \in Threads, Action(t) PROVE UNCHANGED <<queue, drained, event>>
  BY <1>4
  DEF Action, Requests, StartResumes, StartEnables, ArmClears, ArmRecords, PauseEntries,
      PauseReports, Disarms, Disables, Kills, ActionWakes
<1> QED
  BY <1>1, <1>2, <1>3, <1>4 DEF Next

LEMMA SequencedNext == Typed /\ Sequenced /\ [Next]_vars => Sequenced'
  BY OrderedNext, DisorderStays, ClockedNext DEF Sequenced

\* What a step does to the checkpoints: nothing, or one moves to the candle.
LEMMA CheckpointStep ==
  ASSUME Typed, Ordered, [Next]_vars, NEW r \in Releases
  PROVE  ckpt'[r] >= ckpt[r]
<1> USE DEF durable, row, runner, beat, closes, others, history, counters, Goto, Moves
<1>1. CASE SavesCheckpoint
  <2>1. PICK s \in due : ckpt' = [ckpt EXCEPT ![s] = key]
    BY <1>1 DEF SavesCheckpoint
  <2>2. pc = "save" /\ key # 0
    BY <1>1 DEF SavesCheckpoint, Typed, Keyed
  <2>3. ckpt[r] <= key /\ ckpt[r] \in Nat /\ key \in Nat
    BY <2>2 DEF Typed, TypeOK, Ordered, Behind, BeatPcs
  <2> QED
    BY <2>1, <2>3 DEF Typed, TypeOK
<1>2. CASE ckpt' = ckpt
  BY <1>2 DEF Typed, TypeOK
<1>3. CASE Runner /\ ~SavesCheckpoint
  <2>1. ckpt' = ckpt
    BY <1>3
    DEF Runner, RunnerStarts, WaitEnds, ClearsWake, Drains, NextHeartbeat, ReadsRuntime, Reports,
        PreflightPasses, Reconciles, NothingDue, Schedules, BatchBegins, BatchCompletes, Saved,
        Degrades, Fails, PausesEntries
  <2> QED
    BY <1>2, <2>1
<1>4. CASE Market
  BY <1>2, <1>4 DEF Market, CandleCloses, AcceptsClose, SetsWake
<1>5. ASSUME NEW t \in Threads, Action(t) PROVE ckpt' = ckpt
  BY <1>5
  DEF Action, Requests, StartResumes, StartEnables, ArmClears, ArmRecords, PauseEntries,
      PauseReports, Disarms, Disables, Kills, ActionWakes
<1>6. CASE Dies
  BY <1>2, <1>6 DEF Dies
<1> QED
  BY <1>1, <1>2, <1>3, <1>4, <1>5, <1>6 DEF Next, vars

\* No checkpoint ever goes back to an earlier candle, unless a close was accepted
\* after a later one.
THEOREM CheckpointsInOrder == Spec => CheckpointsAdvance
<1>1. ASSUME Typed, Sequenced, [Next]_vars
      PROVE  [disordered \/ \A r \in Releases : ckpt'[r] >= ckpt[r]]_vars
  BY <1>1, CheckpointStep DEF Sequenced
<1> QED
  BY <1>1, TypedInit, TypedNext, SequencedInit, SequencedNext, PTL
  DEF Spec, CheckpointsAdvance

\* A batch is completed twice for a candle only if the process died between
\* the batch and its checkpoint, or closes were accepted out of order.
THEOREM EvaluatedOnce == Spec => OnceUnlessTorn
<1>1. ASSUME Typed, Sequenced, [Next]_vars
      PROVE  [pc = "inbatch" /\ pc' = "save" =>
                disordered \/ \A r \in due : key \in evals[r] => key \in torn[r]]_vars
  <2> SUFFICES ASSUME pc = "inbatch", Ordered, NEW r \in due, key \in evals[r]
               PROVE  key \in torn[r]
    BY <1>1 DEF Sequenced
  <2>1. r \in Releases /\ key \in Nat /\ ckpt[r] \in Nat
    BY <1>1 DEF Typed, TypeOK
  <2>2. key # 0 /\ ckpt[r] # key /\ ckpt[r] <= key
    BY <1>1, <2>1 DEF Typed, Keyed, Ordered, Once, Behind, BeatPcs
  <2> QED
    BY <1>1, <2>1, <2>2 DEF Ordered, Once
<1> QED
  BY <1>1, TypedInit, TypedNext, SequencedInit, SequencedNext, PTL DEF Spec, OnceUnlessTorn

-----------------------------------------------------------------------------
(* The accepted closes.                                                    *)

\* Between the rounds no event is at hand, and a round's own heartbeat comes
\* after its last event.
Round ==
    /\ pc \in {"off", "wait", "clear", "drain", "next"} => event = 0
    /\ pc # "next" /\ event = 0 => drained = <<>>

\* A release that is no longer due has its checkpoint at the candle.
Saving ==
    /\ pc \in {"batch", "inbatch", "save"} => \A r \in Releases \ due : ckpt[r] = key
    /\ pc = "running" => (Demo => key = event) /\ \A r \in Releases : ckpt[r] = key

\* Nothing but the runner and a death touches what a heartbeat works on, and
\* a market thread only adds to what is queued.
LEMMA OthersStep ==
  ASSUME Market \/ \E t \in Threads : Action(t)
  PROVE  /\ UNCHANGED <<pc, drained, event, key, due, ckpt>>
         /\ queue' = queue \/ AcceptsClose
<1> USE DEF durable, row, runner, beat, closes, others, history, counters
<1>1. CASE Market
  BY <1>1 DEF Market, CandleCloses, AcceptsClose, SetsWake
<1>2. ASSUME NEW t \in Threads, Action(t)
      PROVE  UNCHANGED <<pc, drained, event, key, due, ckpt, queue>>
  BY <1>2
  DEF Action, Requests, StartResumes, StartEnables, ArmClears, ArmRecords, PauseEntries,
      PauseReports, Disarms, Disables, Kills, ActionWakes
<1> QED
  BY <1>1, <1>2

LEMMA RoundNext == Typed /\ Round /\ [Next]_vars => Round'
<1> SUFFICES ASSUME Typed, Round, [Next]_vars PROVE Round'
  OBVIOUS
<1> USE DEF Round, Goto, Moves, durable, row, runner, beat, closes, others, history, counters
<1>1. CASE UNCHANGED vars
  BY <1>1 DEF vars
<1>2. CASE Drains \/ NextHeartbeat
  <2>1. CASE drained # <<>>
    <3>1. Head(drained) # 0
      <4>1. drained \in Seq(Candles)
        BY DEF Typed, TypeOK
      <4>2. Head(drained) \in Candles
        BY <2>1, <4>1
      <4> QED
        BY <4>2 DEF Candles
    <3> QED
      BY <1>2, <2>1, <3>1 DEF Drains, NextHeartbeat
  <2>2. CASE drained = <<>>
    BY <1>2, <2>2 DEF Drains, NextHeartbeat
  <2> QED
    BY <2>1, <2>2
<1>3. CASE Reports
  BY <1>3 DEF Reports, Returns
<1>4. CASE Runner /\ ~Drains /\ ~NextHeartbeat /\ ~Reports
  <2>1. /\ UNCHANGED <<drained, event>> /\ pc # "next"
        /\ pc' \in {"off", "wait", "clear", "drain", "next"} =>
              pc \in {"off", "wait", "clear", "drain"}
    BY <1>4
    DEF Runner, RunnerStarts, WaitEnds, ClearsWake, ReadsRuntime, PreflightPasses, Reconciles,
        NothingDue, Schedules, BatchBegins, BatchCompletes, SavesCheckpoint, Saved, Degrades,
        Fails, PausesEntries
  <2> QED
    BY <2>1
<1>5. CASE Market \/ \E t \in Threads : Action(t)
  BY <1>5, OthersStep
<1>6. CASE Dies
  BY <1>6 DEF Dies
<1> QED
  BY <1>1, <1>2, <1>3, <1>4, <1>5, <1>6 DEF Next

LEMMA SavingNext == Typed /\ Saving /\ [Next]_vars => Saving'
<1> SUFFICES ASSUME Typed, Saving, [Next]_vars PROVE Saving'
  OBVIOUS
<1> USE DEF Saving, Goto, Moves, durable, row, runner, beat, closes, others, history, counters
<1>1. CASE UNCHANGED vars
  BY <1>1 DEF vars
<1>2. CASE Schedules
  BY <1>2 DEF Schedules, Due
<1>3. CASE SavesCheckpoint
  <2>1. PICK r \in due : ckpt' = [ckpt EXCEPT ![r] = key] /\ due' = due \ {r}
    BY <1>3 DEF SavesCheckpoint
  <2>2. pc = "save" /\ UNCHANGED <<pc, key, event>>
    BY <1>3 DEF SavesCheckpoint
  <2>3. \A s \in Releases : ckpt'[s] = IF s = r THEN key ELSE ckpt[s]
    BY <2>1 DEF Typed, TypeOK
  <2> QED
    BY <2>1, <2>2, <2>3
<1>4. CASE Saved
  BY <1>4 DEF Saved, Typed, Keyed, BeatPcs
<1>5. CASE Runner /\ ~Schedules /\ ~SavesCheckpoint /\ ~Saved
  <2>1. /\ pc' # "running"
        /\ pc' \in {"batch", "inbatch", "save"} =>
              pc \in {"batch", "inbatch", "save"} /\ UNCHANGED <<ckpt, key, due>>
    BY <1>5
    DEF Runner, RunnerStarts, WaitEnds, ClearsWake, Drains, NextHeartbeat, ReadsRuntime, Reports,
        Returns, PreflightPasses, Reconciles, NothingDue, BatchBegins, BatchCompletes, Degrades,
        Fails, PausesEntries
  <2> QED
    BY <2>1
<1>6. CASE Market \/ \E t \in Threads : Action(t)
  BY <1>6, OthersStep
<1>7. CASE Dies
  BY <1>7 DEF Dies
<1> QED
  BY <1>1, <1>2, <1>3, <1>4, <1>5, <1>6, <1>7 DEF Next

\* One step leaves a close owed, ends its heartbeat, or is a death.
LEMMA OwedStep ==
  ASSUME Typed, Clocked, Round, Saving, [Next]_vars, NEW k \in Candles, Owed(k)
  PROVE  Owed(k)' \/ EndsFor(k) \/ k \notin accepted'
<1> USE DEF Goto, Moves, durable, row, runner, beat, closes, others, history, counters
<1>1. CASE UNCHANGED <<queue, drained, event>>
  BY <1>1 DEF Owed
<1>2. CASE Drains
  <2>1. drained = <<>> /\ event = 0 /\ k # 0
    BY <1>2 DEF Drains, Round, Candles
  <2>2. drained' = queue
    BY <1>2 DEF Drains
  <2> QED
    BY <2>1, <2>2 DEF Owed
<1>3. CASE NextHeartbeat
  <2>1. event = 0 /\ k # 0 /\ UNCHANGED queue
    BY <1>3 DEF NextHeartbeat, Round, Candles
  <2>2. CASE \E i \in DOMAIN queue : queue[i] = k
    BY <2>1, <2>2 DEF Owed
  <2>3. CASE \E i \in DOMAIN drained : drained[i] = k
    <3>1. PICK i \in 1..Len(drained) : drained[i] = k
      BY <2>3 DEF Typed, TypeOK
    <3>2. /\ drained # <<>> /\ Len(drained) \in Nat
          /\ event' = drained[1] /\ drained' = Tail(drained)
      BY <1>3, <3>1 DEF NextHeartbeat, Typed, TypeOK
    <3>3. /\ Len(drained') = Len(drained) - 1
          /\ DOMAIN drained' = 1..(Len(drained) - 1)
          /\ \A j \in 1..(Len(drained) - 1) : drained'[j] = drained[j + 1]
      BY <3>2 DEF Typed, TypeOK
    <3>4. CASE i = 1
      BY <3>1, <3>2, <3>4 DEF Owed
    <3>5. CASE i # 1
      <4>1. i - 1 \in 1..(Len(drained) - 1) /\ (i - 1) + 1 = i
        BY <3>2, <3>5
      <4> QED
        BY <3>1, <3>3, <4>1 DEF Owed
    <3> QED
      BY <3>4, <3>5
  <2> QED
    BY <2>1, <2>2, <2>3 DEF Owed
<1>4. CASE Reports
  <2>1. UNCHANGED <<queue, drained>> /\ pc \in EndPcs \ {"fail"}
    BY <1>4 DEF Reports, Returns, EndPcs
  <2>2. CASE event = k
    <3>1. k # 0
      BY DEF Candles
    <3>2. Demo
      BY <2>2, <3>1 DEF Clocked
    <3>3. EndsFor(k)
      BY <2>1, <2>2, <3>2 DEF EndsFor, Saving
    <3> QED
      BY <3>3
  <2>3. CASE event # k
    BY <2>1, <2>3 DEF Owed
  <2> QED
    BY <2>2, <2>3
<1>5. CASE Runner /\ ~Drains /\ ~NextHeartbeat /\ ~Reports
  <2>1. UNCHANGED <<queue, drained, event>>
    BY <1>5
    DEF Runner, RunnerStarts, WaitEnds, ClearsWake, ReadsRuntime, PreflightPasses, Reconciles,
        NothingDue, Schedules, BatchBegins, BatchCompletes, SavesCheckpoint, Saved, Degrades,
        Fails, PausesEntries
  <2> QED
    BY <1>1, <2>1
<1>6. CASE Market \/ \E t \in Threads : Action(t)
  <2>1. CASE queue' = queue
    BY <1>1, <1>6, <2>1, OthersStep
  <2>2. CASE AcceptsClose
    <3>1. PICK j \in Candles : queue' = Append(queue, j) /\ UNCHANGED <<drained, event>>
      BY <2>2, BoundAssumption DEF AcceptsClose, Typed, TypeOK, Candles
    <3>2. /\ \A i \in DOMAIN queue : i \in DOMAIN queue' /\ queue'[i] = queue[i]
      BY <3>1 DEF Typed, TypeOK
    <3> QED
      BY <3>1, <3>2 DEF Owed
  <2> QED
    BY <1>6, <2>1, <2>2, OthersStep
<1>7. CASE Dies
  BY <1>7 DEF Dies
<1> QED
  BY <1>1, <1>2, <1>3, <1>4, <1>5, <1>6, <1>7 DEF Next, vars

\* No step of any thread loses an accepted close: it stays owed until its own
\* heartbeat has ended, and one that says running leaves every release with
\* the checkpoint of the candle.
THEOREM AcceptedIsKept == Spec => ClosesAreKept
<1>1. Init => Clocked /\ Round /\ Saving
  BY DEF Init, Clocked, Round, Saving
<1>2. ASSUME Typed, Clocked, Round, Saving, [Next]_vars
      PROVE  [\A k \in Candles :
                 Owed(k) => Owed(k)' \/ EndsFor(k) \/ k \notin accepted']_vars
  BY <1>2, OwedStep
<1> QED
  BY <1>1, <1>2, TypedInit, TypedNext, ClockedNext, RoundNext, SavingNext, PTL
  DEF Spec, ClosesAreKept
=============================================================================
