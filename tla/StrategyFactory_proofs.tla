----------------------- MODULE StrategyFactory_proofs -----------------------
(***************************************************************************)
(* Theorems about StrategyFactory for any number of runs, HTTP threads,    *)
(* requests, launches and faults, checked by TLAPS.                        *)
(***************************************************************************)
EXTENDS StrategyFactory, TLAPS

-----------------------------------------------------------------------------
(* Type correctness.                                                       *)

\* Control states in which a thread handles a run, or holds a receipt.
RunPcs  == {"start", "note", "reread", "import", "project"} \union LaunchPcs
HeldPcs == {"reread", "import"}

\* The threads.
LocalOK ==
    /\ pc \in [Threads -> Pcs]
    /\ run \in [Threads -> Runs \union {None}]
    /\ held \in [Threads -> Receipts \union {None}]
    /\ read \in [Threads -> {"none", "queued", "running"}]
    /\ \A t \in Threads : pc[t] \in RunPcs => run[t] \in Runs
    /\ \A t \in Threads : pc[t] \in HeldPcs => held[t] \in Receipts

\* The runner.
RunnerOK ==
    /\ enabled \in BOOLEAN
    /\ current \in Runs \union {None}
    /\ todo \subseteq Runs
    /\ ret \in {"current", "existing"}
    /\ since \subseteq Runs

\* The table, the files and the workers: whoever left a receipt had been
\* started, and is about to go or gone.
RecordsOK ==
    /\ status \in [Runs -> Statuses]
    /\ pid \subseteq Runs
    /\ recorded \in [Runs -> Receipts \union {None}]
    /\ pauseFile \subseteq Runs
    /\ exitFile \subseteq Runs
    /\ receipt \in [Runs -> Receipts \union {None}]
    /\ worker \in [Runs -> [Launches -> {"none", "gone"} \union Busy]]
    /\ raced \subseteq Runs
    /\ torn \subseteq Runs
    /\ \A r \in Runs : receipt[r] # None =>
        /\ worker[r][receipt[r].by] \in {"paused", "gone"}
        /\ receipt[r].status \in Final => worker[r][receipt[r].by] = "gone"

BoundsOK == requests \in 0..MaxRequests /\ faults \in 0..MaxFaults

Typed == LocalOK /\ RunnerOK /\ RecordsOK /\ BoundsOK

LEMMA TypedInit == Init => Typed
  BY BoundAssumption
  DEF Init, Typed, LocalOK, RunnerOK, RecordsOK, BoundsOK, Pcs, Statuses, RunPcs, HeldPcs,
      LaunchPcs

\* Taking up a run, or none.
LEMMA TakesTypes ==
    ASSUME LocalOK, NEW t \in Threads, NEW r \in Runs \union {None}, NEW p \in Pcs \ HeldPcs,
           p \in RunPcs => r \in Runs, Takes(t, r, p)
    PROVE  LocalOK'
  BY DEF LocalOK, Takes, Goto

LEMMA MovesTypes ==
    ASSUME LocalOK, NEW t \in Threads, NEW p \in Pcs, pc[t] \in RunPcs,
           p \in HeldPcs => pc[t] \in HeldPcs, Goto(t, p), UNCHANGED handler
    PROVE  LocalOK'
  BY DEF LocalOK, Goto, handler

LEMMA EndsTypes ==
    ASSUME LocalOK, RunnerOK
    PROVE  /\ \A t \in Threads : Answers(t) => LocalOK' /\ RunnerOK'
           /\ \A r \in Runs \union {None} : EndsRound(r) => LocalOK' /\ RunnerOK'
           /\ \A t \in Threads : Raises(t) => LocalOK' /\ RunnerOK'
<1> USE DEF Pcs, HeldPcs, RunPcs, LaunchPcs
<1>1. \A t \in Threads : Answers(t) => LocalOK' /\ RunnerOK'
  BY TakesTypes DEF Answers, state, RunnerOK
<1>2. \A r \in Runs \union {None} : EndsRound(r) => LocalOK' /\ RunnerOK'
  BY TakesTypes DEF EndsRound, RunnerOK, Threads
<1> QED
  BY <1>1, <1>2 DEF Raises

LEMMA ReturnsTypes ==
    ASSUME LocalOK, RunnerOK, NEW t \in Threads, NEW r \in Runs, NEW st, Returns(t, r, st)
    PROVE  LocalOK' /\ RunnerOK'
<1> USE DEF Pcs, HeldPcs, RunPcs, LaunchPcs
<1>1. ASSUME ListsInto(ActiveRuns) PROVE LocalOK' /\ RunnerOK'
  BY <1>1, TakesTypes DEF ListsInto, ActiveRuns, RunnerOK, Threads, state
<1>2. ASSUME ListedHas(r, st) PROVE LocalOK' /\ RunnerOK'
  <2>1. CASE EndsRound(None)
    BY <2>1, EndsTypes
  <2>2. CASE Takes(Runner, None, "scan") /\ todo' = todo \ {r} /\ UNCHANGED <<ret, since, state>>
    BY <2>2, TakesTypes DEF RunnerOK, Threads, state
  <2> QED
    BY <1>2, <2>1, <2>2 DEF ListedHas
<1>3. CurrentHas(r, st) => LocalOK' /\ RunnerOK'
  BY <1>1, EndsTypes DEF CurrentHas
<1> QED
  BY <1>2, <1>3, EndsTypes DEF Returns

LEMMA RefreshesTypes ==
    ASSUME Typed, NEW t \in Threads, NEW r \in Runs, RefreshesRun(t, r)
    PROVE  LocalOK' /\ RunnerOK' /\ RecordsOK'
<1>1. RecordsOK'
  BY DEF RefreshesRun, Refreshes, table, files, Typed, RecordsOK
<1>2. CASE Importable(r) /\ Goto(t, "reread") /\ run' = [run EXCEPT ![t] = r]
           /\ held' = [held EXCEPT ![t] = receipt[r]]
           /\ UNCHANGED <<read, todo, ret, since, state>>
  BY <1>1, <1>2
  DEF Typed, LocalOK, RunnerOK, RecordsOK, Importable, Goto, state, Pcs, RunPcs, HeldPcs
<1>3. CASE Returns(t, r, status[r])
  BY <1>1, <1>3, ReturnsTypes DEF Typed
<1> QED
  BY <1>1, <1>2, <1>3 DEF RefreshesRun, Refreshes

LEMMA RecordsStay ==
    ASSUME RecordsOK, UNCHANGED <<table, files, worker, raced, torn>>
    PROVE  RecordsOK'
  BY DEF RecordsOK, table, files

LEMMA CreatesTypes ==
    ASSUME Typed, NEW t \in Threads, Creates(t)
    PROVE  LocalOK' /\ RunnerOK' /\ RecordsOK' /\ faults' = faults
<1>1. PICK r \in Runs : status[r] = "none" /\ status' = [status EXCEPT ![r] = "queued"]
                        /\ Takes(t, r, "start")
  BY DEF Creates
<1>2. LocalOK'
  BY <1>1, TakesTypes DEF Typed, Pcs, HeldPcs
<1> QED
  BY <1>1, <1>2
  DEF Creates, Typed, RunnerOK, RecordsOK, Statuses, Active, files, state, history, Final

LEMMA BeginsTypes ==
    ASSUME Typed, NEW t \in Threads, NEW r \in Runs, NEW p \in {"count", "launch"},
           BeginsLaunch(t, r, p)
    PROVE  LocalOK' /\ RunnerOK' /\ RecordsOK' /\ faults' = faults
<1>1. LocalOK'
  BY TakesTypes DEF BeginsLaunch, Typed, Pcs, HeldPcs, LaunchPcs
<1> QED
  BY <1>1 DEF BeginsLaunch, Typed, RunnerOK, RecordsOK, table, files, state

LEMMA FailsTypes ==
    ASSUME Typed, NEW t \in Threads, Fails(t)
    PROVE  Typed'
  BY EndsTypes, RecordsStay DEF Fails, Typed, BoundsOK, bounds

LEMMA HandlesTypes ==
    ASSUME Typed, NEW t \in Threads, Handles(t)
    PROVE  Typed'
<1> USE DEF Pcs, HeldPcs, RunPcs, LaunchPcs
<1>1. ASSUME StartChecks(t) PROVE Typed'
  BY <1>1, BeginsTypes DEF StartChecks, Typed, LocalOK, BoundsOK
<1>2. ASSUME StartRefused(t) \/ CountRefuses(t) \/ ImportRaises(t) PROVE Typed'
  BY <1>2, FailsTypes DEF StartRefused, CountRefuses, ImportRaises
<1>3. ASSUME Spawns(t) PROVE Typed'
  <2>1. run[t] \in Runs /\ pc[t] \in {"count", "launch"}
    BY <1>3 DEF Spawns, MayLaunch, Typed, LocalOK
  <2>2. LocalOK'
    BY <1>3, <2>1, MovesTypes DEF Spawns, Typed
  <2>3. RunnerOK' /\ BoundsOK'
    BY <1>3, <2>1 DEF Spawns, Typed, RunnerOK, BoundsOK, bounds, state
  <2>4. PICK k \in Launches : worker[run[t]][k] = "none"
                              /\ worker' = [worker EXCEPT ![run[t]][k] = "works"]
    BY <1>3 DEF Spawns
  <2>5. worker' \in [Runs -> [Launches -> {"none", "gone"} \union Busy]]
    BY <2>1, <2>4 DEF Typed, RecordsOK, Busy
  <2>6. \A r \in Runs, j \in Launches : worker[r][j] # "none" => worker'[r][j] = worker[r][j]
    BY <2>1, <2>4 DEF Typed, RecordsOK
  <2>7. UNCHANGED <<table, receipt, raced, torn>> /\ pauseFile' \subseteq pauseFile
        /\ exitFile' \subseteq exitFile
    BY <1>3 DEF Spawns
  <2>8. RecordsOK'
    BY <2>5, <2>6, <2>7 DEF Typed, RecordsOK, table, Receipts
  <2> QED
    BY <2>2, <2>3, <2>8 DEF Typed
<1>4. ASSUME SpawnFails(t) PROVE Typed'
  BY <1>4, EndsTypes DEF SpawnFails, Typed, RecordsOK, BoundsOK, bounds, table
<1>5. ASSUME RecordsLaunch(t) PROVE Typed'
  <2>1. run[t] \in Runs
    BY <1>5 DEF RecordsLaunch, Typed, LocalOK
  <2>2. LocalOK' /\ RunnerOK'
    BY <1>5, <2>1, EndsTypes DEF RecordsLaunch, Typed
  <2> QED
    BY <1>5, <2>1, <2>2
    DEF RecordsLaunch, Typed, RecordsOK, BoundsOK, bounds, files, Statuses, Active
<1>6. ASSUME Rereads(t) PROVE Typed'
  <2>1. run[t] \in Runs /\ held[t] \in Receipts
    BY <1>6 DEF Rereads, Typed, LocalOK
  <2>2. LocalOK' /\ RunnerOK'
    <3>1. CASE Returns(t, run[t], status[run[t]])
      BY <2>1, <3>1, ReturnsTypes DEF Typed
    <3>2. CASE Goto(t, "import") /\ UNCHANGED <<handler, todo, ret, since, state>>
      BY <1>6, <3>2, MovesTypes DEF Rereads, Typed, RunnerOK, state
    <3> QED
      BY <1>6, <3>1, <3>2 DEF Rereads
  <2> QED
    BY <1>6, <2>1, <2>2 DEF Rereads, Typed, RecordsOK, BoundsOK, bounds, table, files
<1>7. ASSUME Imports(t) PROVE Typed'
  <2>1. run[t] \in Runs /\ held[t] \in Receipts
    BY <1>7 DEF Imports, Typed, LocalOK
  <2>2. LocalOK' /\ RunnerOK'
    <3>1. CASE Takes(t, run[t], "project") /\ UNCHANGED <<todo, ret, since, state>>
      BY <2>1, <3>1, TakesTypes DEF Typed, RunnerOK, state
    <3> QED
      BY <1>7, <3>1, EndsTypes DEF Imports, Typed
  <2> QED
    BY <1>7, <2>1, <2>2
    DEF Imports, Typed, RecordsOK, BoundsOK, bounds, files, Statuses, Active, Receipts, Final,
        Terminal
<1> QED
  BY <1>1, <1>2, <1>3, <1>4, <1>5, <1>6, <1>7 DEF Handles

LEMMA RequestTypes ==
    ASSUME Typed, NEW t \in Http, Request(t)
    PROVE  Typed'
<1> USE DEF Pcs, HeldPcs, RunPcs, LaunchPcs
<1>t. t \in Threads
  BY DEF Threads
<1>0. ASSUME IsAsked, faults' = faults PROVE BoundsOK'
  BY <1>0, BoundAssumption DEF IsAsked, Typed, BoundsOK
<1>1. ASSUME HttpCreates(t) PROVE Typed'
  BY <1>t, <1>1, <1>0, CreatesTypes DEF HttpCreates, Asks, Typed
<1>2. ASSUME LeavesQueued(t) PROVE Typed'
  BY <1>t, <1>2, EndsTypes, RecordsStay DEF LeavesQueued, Typed, BoundsOK, bounds
<1>3. ASSUME NEW r \in Runs, HttpStarts(t, r) \/ HttpResumes(t, r) PROVE Typed'
  BY <1>t, <1>3, <1>0, BeginsTypes DEF HttpStarts, HttpResumes, Asks, Typed
<1>4. ASSUME NEW r \in Runs, HttpPauses(t, r) PROVE Typed'
  <2>1. LocalOK'
    BY <1>t, <1>4 DEF HttpPauses, Typed, LocalOK, Goto, Pausable
  <2> QED
    BY <1>0, <1>4, <2>1
    DEF HttpPauses, Asks, Typed, RunnerOK, RecordsOK, table, state, history
<1>5. ASSUME NEW r \in Runs, HttpRefreshes(t, r) PROVE Typed'
  BY <1>t, <1>0, <1>5, RefreshesTypes DEF HttpRefreshes, Asks, RefreshesRun, Refreshes, Typed
<1>6. ASSUME NotesPause(t) PROVE Typed'
  <2>1. run[t] \in Runs
    BY <1>t, <1>6 DEF NotesPause, Typed, LocalOK
  <2>2. LocalOK' /\ RunnerOK'
    BY <1>t, <1>6, EndsTypes DEF NotesPause, Typed
  <2> QED
    BY <1>6, <2>1, <2>2
    DEF NotesPause, Typed, RecordsOK, BoundsOK, bounds, files, Statuses, Active
<1> QED
  BY <1>1, <1>2, <1>3, <1>4, <1>5, <1>6 DEF Request

LEMMA RunnerTypes ==
    ASSUME Typed, RunOnce \/ Enables \/ Disables
    PROVE  Typed'
<1>r. Runner \in Threads
  BY DEF Threads
<1>1. ASSUME NEW r \in Runs, RefreshesRun(Runner, r), requests' = requests PROVE Typed'
  BY <1>r, <1>1, RefreshesTypes DEF RefreshesRun, Refreshes, Typed, BoundsOK
<1>2. CASE RefreshesCurrent
  BY <1>1, <1>2 DEF RefreshesCurrent, Typed, RunnerOK
<1>3. CASE RefreshesListed
  BY <1>1, <1>3 DEF RefreshesListed, Typed, RunnerOK
<1>4. CASE Lists
  <2>1. LocalOK' /\ RunnerOK'
    BY <1>r, <1>4, TakesTypes
    DEF Lists, ListsInto, ActiveRuns, Typed, RunnerOK, state, Pcs, HeldPcs, RunPcs, LaunchPcs
  <2> QED
    BY <1>4, <2>1, RecordsStay DEF Lists, Typed, BoundsOK, bounds
<1>5. CASE RunnerCreates
  BY <1>r, <1>5, CreatesTypes DEF RunnerCreates, Typed, BoundsOK
<1>6. CASE CreateRaises
  BY <1>r, <1>6, FailsTypes DEF CreateRaises
<1>7. CASE Projects
  <2>1. run[Runner] \in Runs
    BY <1>r, <1>7 DEF Projects, Typed, LocalOK, RunPcs
  <2>2. LocalOK' /\ RunnerOK'
    BY <1>r, <1>7, <2>1, ReturnsTypes DEF Projects, Typed
  <2> QED
    BY <1>7, <2>2, RecordsStay DEF Projects, Typed, BoundsOK, bounds
<1>8. CASE Enables \/ Disables
  <2>1. LocalOK' /\ RunnerOK' /\ RecordsOK'
    BY <1>8
    DEF Enables, Disables, Typed, LocalOK, RunnerOK, RecordsOK, table, files, local, handler,
        history
  <2> QED
    BY <1>8, <2>1, BoundAssumption DEF Enables, Disables, IsAsked, Typed, BoundsOK
<1> QED
  BY <1>2, <1>3, <1>4, <1>5, <1>6, <1>7, <1>8 DEF RunOnce

\* What a step of a worker does.
LEMMA WorkSteps ==
    ASSUME Typed, NEW r \in Runs, NEW k \in Launches, Work(r, k)
    PROVE  /\ UNCHANGED <<table, pauseFile, state, local, history, requests>>
           /\ worker[r][k] \in Busy
           /\ \/ /\ WorkerPauses(r, k)
                 /\ receipt' = [receipt EXCEPT ![r] = [status |-> "paused", by |-> k]]
                 /\ exitFile' = exitFile
                 /\ worker[r][k] = "works"
                 /\ worker' = [worker EXCEPT ![r][k] = "paused"]
              \/ /\ \E st \in Final :
                        receipt' = [receipt EXCEPT ![r] = [status |-> st, by |-> k]]
                 /\ exitFile' = exitFile \union {r}
                 /\ worker[r][k] = "works"
                 /\ worker' = [worker EXCEPT ![r][k] = "gone"]
              \/ /\ receipt' = receipt
                 /\ exitFile' \in {exitFile, exitFile \union {r}}
                 /\ worker' = [worker EXCEPT ![r][k] = "gone"]
  BY DEF Work, WorkerPauses, WorkerEnds, WorkerExits, WorkerDies, WritesReceipt, Busy, files,
         table, state, local, history, bounds

LEMMA WorkTypes ==
    ASSUME Typed, NEW r \in Runs, NEW k \in Launches, Work(r, k)
    PROVE  Typed'
<1>1. UNCHANGED <<table, pauseFile, state, local, history, requests>>
  BY WorkSteps
<1>2. LocalOK' /\ RunnerOK'
  BY <1>1 DEF Typed, LocalOK, RunnerOK, local, handler, history, state
<1>3. BoundsOK'
  <2>1. faults' = faults \/ Fault
    BY DEF Work, WorkerPauses, WorkerEnds, WorkerExits, WorkerDies, WritesReceipt, bounds
  <2> QED
    BY <1>1, <2>1, BoundAssumption DEF Fault, Typed, BoundsOK
<1>4. worker' \in [Runs -> [Launches -> {"none", "gone"} \union Busy]]
  <2>1. PICK w \in {"paused", "gone"} : worker' = [worker EXCEPT ![r][k] = w]
    BY WorkSteps
  <2> QED
    BY <2>1 DEF Typed, RecordsOK, Busy
<1>5. receipt' \in [Runs -> Receipts \union {None}] /\ exitFile' \subseteq Runs
  <2>1. \/ receipt' = receipt
        \/ \E st \in {"paused"} \union Final :
                receipt' = [receipt EXCEPT ![r] = [status |-> st, by |-> k]]
    BY WorkSteps
  <2>2. exitFile' \in {exitFile, exitFile \union {r}}
    BY WorkSteps
  <2>3. \A st \in {"paused"} \union Final : [status |-> st, by |-> k] \in Receipts
    BY DEF Receipts
  <2> QED
    BY <2>1, <2>2, <2>3 DEF Typed, RecordsOK
<1>6. \A x \in Runs, j \in Launches : worker'[x][j] = worker[x][j] \/ (x = r /\ j = k)
  BY WorkSteps DEF Typed, RecordsOK
<1>7. worker'[r][k] \in {"paused", "gone"}
  BY WorkSteps DEF Typed, RecordsOK
<1>8. ASSUME NEW x \in Runs, receipt'[x] # None
      PROVE  /\ worker'[x][receipt'[x].by] \in {"paused", "gone"}
             /\ receipt'[x].status \in Final => worker'[x][receipt'[x].by] = "gone"
  <2>1. CASE receipt'[x] = receipt[x]
    <3>1. receipt[x].by \in Launches
      BY <1>8, <2>1 DEF Typed, RecordsOK, Receipts
    <3>2. worker'[x][receipt[x].by] = "gone" \/ worker'[x][receipt[x].by] = worker[x][receipt[x].by]
          \/ (x = r /\ receipt[x].by = k /\ worker[r][k] = "works")
      BY <3>1, WorkSteps DEF Typed, RecordsOK
    <3> QED
      BY <1>8, <2>1, <3>1, <3>2 DEF Typed, RecordsOK
  <2>2. CASE x = r /\ receipt'[r].by = k
             /\ (receipt'[r].status \in Final => worker'[r][k] = "gone")
    BY <1>7, <2>2
  <2> QED
    BY <2>1, <2>2, WorkSteps DEF Typed, RecordsOK, Final
<1> QED
  BY <1>1, <1>2, <1>3, <1>4, <1>5, <1>8 DEF Typed, RecordsOK, table, history

LEMMA DeathTypes == Typed /\ ConsoleDies => Typed'
<1> SUFFICES ASSUME Typed, ConsoleDies PROVE Typed'
  OBVIOUS
<1>1. torn' \subseteq Runs
  BY DEF ConsoleDies, Typed, LocalOK, RecordsOK, RunPcs, LaunchPcs
<1>2. LocalOK' /\ RunnerOK'
  BY DEF ConsoleDies, Typed, LocalOK, RunnerOK, Pcs, RunPcs, HeldPcs, LaunchPcs, state
<1> QED
  BY <1>1, <1>2, BoundAssumption
  DEF ConsoleDies, Typed, RecordsOK, BoundsOK, Fault, table, files

LEMMA TypedNext == Typed /\ [Next]_vars => Typed'
<1> SUFFICES ASSUME Typed, [Next]_vars PROVE Typed'
  OBVIOUS
<1>1. CASE UNCHANGED vars
  BY <1>1
  DEF vars, Typed, LocalOK, RunnerOK, RecordsOK, BoundsOK, table, files, state, local,
      handler, history, bounds
<1> QED
  BY <1>1, HandlesTypes, RequestTypes, RunnerTypes, WorkTypes, DeathTypes DEF Next

\* Every variable keeps its type.
THEOREM FactoryTypeCorrect == Spec => []FactoryTypeOK
<1>1. Typed => FactoryTypeOK
  BY DEF Typed, LocalOK, RunnerOK, RecordsOK, BoundsOK, FactoryTypeOK
<1> QED
  BY <1>1, TypedInit, TypedNext, PTL DEF Spec
-----------------------------------------------------------------------------
(* One worker at a time.                                                   *)

NoBusy(r)       == \A k \in Launches : worker[r][k] \notin Busy
Recording(r)    == \E t \in Threads : pc[t] = "record" /\ run[t] = r
Unwritten(r, k) == receipt[r] = None \/ receipt[r].by # k
Under(r)        == status[r] \in {"running", "pause_requested"}

\* What OneWorkerPerRun is about.
Clean == Runs \ (raced \union torn)

\* At most one handler launches the run, and at most one worker is busy.
OneLauncher(r) ==
    \A x, y \in Threads : Launching(x, r) /\ Launching(y, r) => x = y
OneBusy(r) ==
    \A j, k \in Launches : worker[r][j] \in Busy /\ worker[r][k] \in Busy => j = k

\* The marker says that the worker has gone.
Marked(r) == r \in exitFile => NoBusy(r)

\* So does the row, unless a launch is about to be recorded; and what it says
\* of the last worker is imported.
Settled(r) == ~Under(r) /\ ~Recording(r) => NoBusy(r) /\ recorded[r] = receipt[r]

\* Both hold until the worker of a launch is started ...
Ready(r) ==
    \A t \in Threads : pc[t] \in {"count", "launch"} /\ run[t] = r =>
        NoBusy(r) /\ recorded[r] = receipt[r]

\* ... and the second until it leaves its receipt.
Unread(r) ==
    \A k \in Launches : worker[r][k] \in Busy /\ Unwritten(r, k) => recorded[r] = receipt[r]

\* A receipt that is looked at is that of a worker that has gone.
Carried(r) ==
    \A t \in Threads : pc[t] \in HeldPcs /\ run[t] = r => worker[r][held[t].by] = "gone"

\* It is imported before the next launch, or before that launch is recorded.
Importing(r) ==
    \A t \in Threads : pc[t] = "import" /\ run[t] = r =>
        \/ held[t] = receipt[r] /\ NoBusy(r)
        \/ /\ Recording(r)
           /\ \/ held[t] = receipt[r]
              \/ \A k \in Launches : worker[r][k] \in Busy => ~Unwritten(r, k)

Sound(r) ==
    /\ OneLauncher(r)
    /\ OneBusy(r)
    /\ Marked(r)
    /\ Settled(r)
    /\ Ready(r)
    /\ Unread(r)
    /\ Carried(r)
    /\ Importing(r)

Sane == \A r \in Clean : Sound(r)

LEMMA SaneInit == Init => Sane
  BY DEF Init, Sane, Clean, Sound, OneLauncher, Launching, OneBusy, Marked, Settled, Ready,
         Unread, Carried, Importing, NoBusy, LaunchPcs, HeldPcs, Busy

\* A step that is of no account for the run.
Untouched(r) ==
    /\ recorded'[r] = recorded[r]
    /\ receipt'[r] = receipt[r]
    /\ worker'[r] = worker[r]
    /\ r \in exitFile' => r \in exitFile
    /\ Under(r) => Under(r)'
    /\ Recording(r) => Recording(r)'
    /\ \A t \in Threads : pc'[t] \in LaunchPcs \union HeldPcs /\ run'[t] = r =>
        pc'[t] = pc[t] /\ run[t] = r /\ held'[t] = held[t]

LEMMA UntouchedSound ==
    ASSUME NEW r \in Runs, Sound(r), Untouched(r)
    PROVE  Sound(r)'
<1> USE DEF Untouched, LaunchPcs, HeldPcs
<1>n. NoBusy(r) => NoBusy(r)'
  BY DEF NoBusy
<1>u. \A k \in Launches : Unwritten(r, k)' <=> Unwritten(r, k)
  BY DEF Unwritten
<1>1. OneLauncher(r)' /\ OneBusy(r)'
  BY DEF Sound, OneLauncher, OneBusy, Launching
<1>2. Marked(r)' /\ Settled(r)' /\ Ready(r)'
  BY <1>n DEF Sound, Marked, Settled, Ready
<1>3. Unread(r)' /\ Carried(r)' /\ Importing(r)'
  BY <1>n, <1>u DEF Sound, Unread, Carried, Importing
<1> QED
  BY <1>1, <1>2, <1>3 DEF Sound

\* A step of one thread.
Alone(t) ==
    \A x \in Threads \ {t} : pc'[x] = pc[x] /\ run'[x] = run[x] /\ held'[x] = held[x]

\* A handler ends, or goes where nothing is launched or imported.
Rests(t) == Alone(t) /\ pc'[t] \notin LaunchPcs \union HeldPcs

LEMMA TakesRests ==
    ASSUME Typed, NEW t \in Threads, NEW r, NEW p, Takes(t, r, p)
    PROVE  Alone(t) /\ pc'[t] = p /\ run'[t] = r
  BY DEF Takes, Goto, Alone, Typed, LocalOK

LEMMA EndsRests ==
    ASSUME Typed, NEW t \in Threads
    PROVE  /\ Answers(t) \/ Raises(t) => Rests(t)
           /\ \A r : EndsRound(r) => Rests(Runner)
<1> USE DEF LaunchPcs, HeldPcs
<1>1. Answers(t) => Rests(t)
  BY TakesRests DEF Answers, Rests
<1>2. \A r : EndsRound(r) => Rests(Runner)
  BY TakesRests DEF EndsRound, Rests, Threads
<1> QED
  BY <1>1, <1>2 DEF Raises

LEMMA ReturnsRests ==
    ASSUME Typed, NEW t \in Threads, NEW r, NEW st, Returns(t, r, st)
    PROVE  Rests(t)
<1> USE DEF LaunchPcs, HeldPcs
<1>1. Takes(Runner, None, "scan") => Rests(Runner)
  BY TakesRests DEF Rests, Threads
<1> QED
  BY <1>1, EndsRests DEF Returns, CurrentHas, ListedHas, ListsInto

\* The rest of the step of a thread that rests.
Quiet(t) ==
    /\ Rests(t)
    /\ pc[t] # "record"
    /\ UNCHANGED <<recorded, receipt, worker>>
    /\ exitFile' \subseteq exitFile
    /\ \A r \in Runs : r \in raced' \union torn' \/ (Under(r) => Under(r)')
    /\ raced \subseteq raced' /\ torn \subseteq torn'

LEMMA QuietSane ==
    ASSUME Typed, Sane, NEW t \in Threads, Quiet(t)
    PROVE  Sane'
<1> SUFFICES ASSUME NEW r \in Clean' PROVE Sound(r)'
  BY DEF Sane
<1>1. r \in Runs /\ r \in Clean /\ r \notin raced' \union torn'
  BY DEF Clean, Quiet
<1>2. Untouched(r)
  BY <1>1 DEF Untouched, Quiet, Rests, Alone, Recording
<1> QED
  BY <1>1, <1>2, UntouchedSound DEF Sane

\* The same for a run that the step is not about.
LEMMA OthersSane ==
    ASSUME Typed, Sane, NEW t \in Threads, NEW r \in Runs, Alone(t),
           run[t] # r, pc'[t] \in LaunchPcs \union HeldPcs => run'[t] # r,
           r \in Clean', raced \subseteq raced', torn \subseteq torn',
           recorded'[r] = recorded[r], receipt'[r] = receipt[r], worker'[r] = worker[r],
           r \in exitFile' => r \in exitFile, Under(r) => Under(r)'
    PROVE  Sound(r)'
<1>1. r \in Clean
  BY DEF Clean
<1>2. Untouched(r)
  BY DEF Untouched, Alone, Recording
<1> QED
  BY <1>1, <1>2, UntouchedSound DEF Sane
\* The checks of a launch: nobody else launches the run, and it is settled.
LEMMA BeginsSane ==
    ASSUME Typed, Sane, NEW t \in Threads, NEW r \in Runs, NEW p \in {"count", "launch"},
           status[r] \in {"queued", "paused"}, pc[t] # "record", BeginsLaunch(t, r, p)
    PROVE  Sane'
<1> USE DEF LaunchPcs, HeldPcs
<1>1. /\ Alone(t) /\ pc'[t] = p /\ run'[t] = r
      /\ UNCHANGED <<status, recorded, receipt, exitFile, worker, torn>>
      /\ raced \subseteq raced'
  BY TakesRests DEF BeginsLaunch, table, files
<1>2. ASSUME NEW x \in Clean', x # r PROVE Sound(x)'
  <2>1. x \in Clean
    BY <1>1, <1>2 DEF Clean
  <2>2. Untouched(x)
    BY <1>1, <1>2 DEF Untouched, Alone, Recording, Under
  <2> QED
    BY <2>1, <2>2, UntouchedSound DEF Sane, Clean
<1>3. ASSUME r \in Clean' PROVE Sound(r)'
  <2>1. Sound(r) /\ \A x \in Threads \ {t} : ~Launching(x, r)
    BY <1>1, <1>3 DEF Clean, Sane, BeginsLaunch
  <2>2. ~Recording(r)
    BY <2>1 DEF Recording, Launching
  <2>3. NoBusy(r) /\ recorded[r] = receipt[r]
    BY <2>1, <2>2 DEF Sound, Settled, Under
  <2>4. NoBusy(r)' /\ recorded'[r] = receipt'[r]
    BY <1>1, <2>3 DEF NoBusy
  <2>5. OneLauncher(r)'
    BY <1>1, <2>1 DEF OneLauncher, Launching, Alone
  <2>6. OneBusy(r)' /\ Marked(r)' /\ Settled(r)' /\ Ready(r)' /\ Unread(r)'
    BY <2>4 DEF OneBusy, Marked, Settled, Ready, Unread, NoBusy
  <2>7. Carried(r)' /\ Importing(r)'
    BY <1>1, <2>1, <2>2, <2>4 DEF Carried, Importing, Alone, Sound
  <2> QED
    BY <2>5, <2>6, <2>7 DEF Sound
<1> QED
  BY <1>2, <1>3 DEF Sane

\* A worker is started where none is busy.
LEMMA SpawnsAlone ==
    ASSUME Typed, Sane, NEW t \in Threads, NEW r \in Clean, run[t] = r, Spawns(t)
    PROVE  NoBusy(r) /\ recorded[r] = receipt[r]
  BY DEF Spawns, MayLaunch, Sane, Sound, Ready

LEMMA SpawnsSane ==
    ASSUME Typed, Sane, NEW t \in Threads, NEW r \in Runs, run[t] = r, Spawns(t)
    PROVE  Sane'
<1> USE DEF LaunchPcs, HeldPcs
<1>1. r \in Runs /\ pc[t] \in {"count", "launch"}
  BY DEF Spawns, MayLaunch, Typed, LocalOK, RunPcs
<1>2. /\ Alone(t) /\ pc'[t] = "record" /\ run'[t] = r
      /\ UNCHANGED <<status, recorded, receipt, held, raced, torn>>
      /\ exitFile' = exitFile \ {r}
  BY DEF Spawns, Goto, Alone, handler, table, Typed, LocalOK
<1>3. PICK k \in Launches : worker[r][k] = "none" /\ worker' = [worker EXCEPT ![r][k] = "works"]
  BY DEF Spawns
<1>4. /\ worker'[r][k] = "works"
      /\ \A j \in Launches \ {k} : worker'[r][j] = worker[r][j]
      /\ \A x \in Runs \ {r} : worker'[x] = worker[x]
  BY <1>1, <1>3 DEF Typed, RecordsOK
<1>5. ASSUME NEW x \in Clean', x # r PROVE Sound(x)'
  <2>1. x \in Clean /\ x \in Runs
    BY <1>2, <1>5 DEF Clean
  <2>2. Untouched(x)
    BY <1>2, <1>4, <1>5, <2>1 DEF Untouched, Alone, Recording, Under
  <2> QED
    BY <2>1, <2>2, UntouchedSound DEF Sane
<1>6. ASSUME r \in Clean' PROVE Sound(r)'
  <2>1. r \in Clean /\ Sound(r)
    BY <1>2, <1>6 DEF Clean, Sane
  <2>2. NoBusy(r) /\ recorded[r] = receipt[r]
    BY <2>1, SpawnsAlone
  <2>3. Recording(r)' /\ recorded'[r] = receipt'[r]
    BY <1>2, <2>2 DEF Recording
  <2>4. \A j \in Launches : worker'[r][j] \in Busy => j = k
    BY <1>4, <2>2 DEF NoBusy
  <2>5. OneLauncher(r)'
    BY <1>1, <1>2, <2>1 DEF OneLauncher, Launching, Alone, Sound
  <2>6. OneBusy(r)' /\ Marked(r)' /\ Settled(r)' /\ Unread(r)'
    BY <1>2, <2>3, <2>4 DEF OneBusy, Marked, Settled, Unread
  <2>7. Ready(r)'
    BY <2>5, <1>2 DEF Ready, OneLauncher, Launching
  <2>8. Carried(r)'
    <3> SUFFICES ASSUME NEW x \in Threads, pc'[x] \in HeldPcs, run'[x] = r
                 PROVE  worker'[r][held'[x].by] = "gone"
      BY DEF Carried
    <3>1. x # t /\ pc[x] \in HeldPcs /\ run[x] = r /\ held'[x] = held[x]
      BY <1>2 DEF Alone
    <3>2. held[x].by \in Launches
      BY <3>1 DEF Typed, LocalOK, Receipts
    <3> QED
      BY <1>3, <1>4, <2>1, <3>1, <3>2 DEF Sound, Carried
  <2>9. Importing(r)'
    <3>1. ~Recording(r)
      BY <1>1, <2>1 DEF Recording, Sound, OneLauncher, Launching
    <3> SUFFICES ASSUME NEW x \in Threads, pc'[x] = "import", run'[x] = r
                 PROVE  held'[x] = receipt'[r]
      BY <2>3 DEF Importing
    <3>2. pc[x] = "import" /\ run[x] = r /\ held'[x] = held[x]
      BY <1>2 DEF Alone
    <3> QED
      BY <1>2, <2>1, <3>1, <3>2 DEF Sound, Importing
  <2> QED
    BY <2>5, <2>6, <2>7, <2>8, <2>9 DEF Sound
<1> QED
  BY <1>5, <1>6 DEF Sane

\* The launch is recorded, unless an import is on its way.
LEMMA RecordsSane ==
    ASSUME Typed, Sane, NEW t \in Threads, NEW r \in Runs, run[t] = r, RecordsLaunch(t)
    PROVE  Sane'
<1> USE DEF LaunchPcs, HeldPcs
<1>1. r \in Runs /\ pc[t] = "record"
  BY DEF RecordsLaunch, Typed, LocalOK, RunPcs
<1>2. Rests(t)
  BY EndsRests DEF RecordsLaunch
<1>3. /\ UNCHANGED <<recorded, receipt, exitFile, worker, torn>> /\ raced \subseteq raced'
      /\ status' = [status EXCEPT ![r] = "running"]
  BY DEF RecordsLaunch, files
<1>4. ASSUME NEW x \in Clean', x # r PROVE Sound(x)'
  BY <1>2, <1>3, <1>4, OthersSane DEF Rests, Under, Clean, Typed, RecordsOK
<1>5. ASSUME r \in Clean' PROVE Sound(r)'
  <2>1. Sound(r) /\ \A x \in Threads : ~(pc[x] = "import" /\ run[x] = r)
    BY <1>3, <1>5 DEF Clean, Sane, RecordsLaunch
  <2>2. Under(r)'
    BY <1>1, <1>3 DEF Under, Typed, RecordsOK
  <2>3. \A x \in Threads : pc'[x] \in LaunchPcs \union HeldPcs =>
            x # t /\ pc'[x] = pc[x] /\ run'[x] = run[x] /\ held'[x] = held[x]
    BY <1>2 DEF Rests, Alone
  <2>4. OneLauncher(r)' /\ OneBusy(r)' /\ Marked(r)' /\ Settled(r)'
    BY <1>3, <2>1, <2>2, <2>3
    DEF Sound, OneLauncher, Launching, OneBusy, Marked, Settled, NoBusy
  <2>5. Ready(r)' /\ Unread(r)'
    BY <1>3, <2>1, <2>3 DEF Sound, Ready, Unread, NoBusy, Unwritten
  <2>6. Carried(r)' /\ Importing(r)'
    BY <1>3, <2>1, <2>3 DEF Sound, Carried, Importing
  <2> QED
    BY <2>4, <2>5, <2>6 DEF Sound
<1> QED
  BY <1>4, <1>5 DEF Sane

\* A thread takes the receipt of a worker that has gone.
LEMMA RefreshesSane ==
    ASSUME Typed, Sane, NEW t \in Threads, NEW r \in Runs, pc[t] # "record",
           RefreshesRun(t, r)
    PROVE  Sane'
<1> USE DEF LaunchPcs, HeldPcs
<1>1. UNCHANGED <<status, recorded, receipt, exitFile, worker, raced, torn>>
  BY DEF RefreshesRun, Refreshes, table, files
<1>2. CASE Returns(t, r, status[r])
  BY <1>1, <1>2, ReturnsRests, QuietSane DEF Quiet, Under
<1>3. ASSUME Importable(r), Goto(t, "reread"), run' = [run EXCEPT ![t] = r],
             held' = [held EXCEPT ![t] = receipt[r]]
      PROVE  Sane'
  <2>1. Alone(t) /\ pc'[t] = "reread" /\ run'[t] = r /\ held'[t] = receipt[r]
    BY <1>3 DEF Goto, Alone, Typed, LocalOK
  <2>2. ASSUME NEW x \in Clean', x # r PROVE Sound(x)'
    <3>1. x \in Clean /\ x \in Runs
      BY <1>1, <2>2 DEF Clean
    <3>2. Untouched(x)
      BY <1>1, <2>1, <2>2 DEF Untouched, Alone, Recording, Under
    <3> QED
      BY <3>1, <3>2, UntouchedSound DEF Sane
  <2>3. ASSUME r \in Clean' PROVE Sound(r)'
    <3>1. Sound(r)
      BY <1>1, <2>3 DEF Clean, Sane
    <3>2. Recording(r) => Recording(r)'
      BY <2>1 DEF Recording, Alone
    <3>3. worker[r][receipt[r].by] = "gone"
      <4>1. receipt[r] # None /\ receipt[r].by \in Launches
            /\ receipt[r].status \in {"paused"} \union Final
        BY <1>3 DEF Importable, Typed, RecordsOK, Receipts
      <4>2. CASE receipt[r].status = "paused"
        BY <1>3, <3>1, <4>1, <4>2
        DEF Importable, Sound, Marked, NoBusy, Typed, RecordsOK, Busy
      <4> QED
        BY <4>1, <4>2 DEF Typed, RecordsOK
    <3>4. Carried(r)' /\ Importing(r)'
      BY <1>1, <2>1, <3>1, <3>2, <3>3 DEF Sound, Carried, Importing, Alone, NoBusy, Unwritten
    <3>5. OneLauncher(r)' /\ OneBusy(r)' /\ Marked(r)'
      BY <1>1, <2>1, <3>1 DEF Sound, OneLauncher, OneBusy, Marked, NoBusy, Launching, Alone
    <3>6. Settled(r)' /\ Ready(r)' /\ Unread(r)'
      BY <1>1, <2>1, <3>1, <3>2
      DEF Sound, Settled, Ready, Unread, NoBusy, Unwritten, Under, Alone
    <3> QED
      BY <3>4, <3>5, <3>6 DEF Sound
  <2> QED
    BY <2>2, <2>3 DEF Sane
<1> QED
  BY <1>2, <1>3 DEF RefreshesRun, Refreshes

\* A receipt that is not on record, and is still the last one, may be imported.
LEMMA RereadsSane ==
    ASSUME Typed, Sane, NEW t \in Threads, NEW r \in Runs, run[t] = r, Rereads(t)
    PROVE  Sane'
<1> USE DEF LaunchPcs, HeldPcs
<1>1. /\ r \in Runs /\ held[t] \in Receipts /\ pc[t] = "reread"
      /\ UNCHANGED <<status, recorded, receipt, exitFile, worker, torn>>
      /\ raced \subseteq raced'
  BY DEF Rereads, Typed, LocalOK, RunPcs, table, files
<1>2. CASE Returns(t, r, status[r])
  BY <1>1, <1>2, ReturnsRests, QuietSane DEF Quiet, Under
<1>3. ASSUME recorded[r] # held[t], Goto(t, "import"), UNCHANGED handler,
             receipt[r] # held[t] => r \in raced'
      PROVE  Sane'
  <2>1. Alone(t) /\ pc'[t] = "import" /\ run'[t] = r /\ held'[t] = held[t]
    BY <1>3 DEF Goto, Alone, handler, Typed, LocalOK
  <2>2. ASSUME NEW x \in Clean', x # r PROVE Sound(x)'
    BY <1>1, <2>1, <2>2, OthersSane DEF Clean, Under
  <2>3. ASSUME r \in Clean' PROVE Sound(r)'
    <3>1. Sound(r) /\ receipt[r] = held[t]
      BY <1>1, <1>3, <2>3 DEF Clean, Sane
    <3>2. Recording(r) => Recording(r)'
      BY <1>1, <2>1 DEF Recording, Alone
    <3>3. worker[r][held[t].by] = "gone"
      BY <1>1, <3>1 DEF Sound, Carried
    <3>4. NoBusy(r)
      BY <1>3, <3>1, <3>3 DEF Sound, Unread, Unwritten, NoBusy, Busy
    <3>5. Carried(r)' /\ Importing(r)'
      BY <1>1, <2>1, <3>1, <3>2, <3>3, <3>4
      DEF Sound, Carried, Importing, Alone, NoBusy, Unwritten
    <3>6. OneLauncher(r)' /\ OneBusy(r)' /\ Marked(r)'
      BY <1>1, <2>1, <3>1 DEF Sound, OneLauncher, OneBusy, Marked, NoBusy, Launching, Alone
    <3>7. Settled(r)' /\ Ready(r)' /\ Unread(r)'
      BY <1>1, <2>1, <3>1, <3>2
      DEF Sound, Settled, Ready, Unread, NoBusy, Unwritten, Under, Alone
    <3> QED
      BY <3>5, <3>6, <3>7 DEF Sound
  <2> QED
    BY <2>2, <2>3 DEF Sane
<1> QED
  BY <1>1, <1>2, <1>3 DEF Rereads

\* What is imported is the last receipt, or a launch is about to be recorded.
LEMMA ImportsSane ==
    ASSUME Typed, Sane, NEW t \in Threads, NEW r \in Runs, run[t] = r, Imports(t)
    PROVE  Sane'
<1> USE DEF LaunchPcs, HeldPcs
<1>1. /\ r \in Runs /\ held[t] \in Receipts /\ pc[t] = "import"
      /\ UNCHANGED <<receipt, exitFile, worker, raced, torn>>
      /\ recorded' = [recorded EXCEPT ![r] = held[t]]
      /\ status' = [status EXCEPT ![r] = held[t].status]
  BY DEF Imports, Typed, LocalOK, RunPcs, files
<1>2. Rests(t)
  <2>1. CASE Takes(t, r, "project")
    BY <2>1, TakesRests DEF Rests
  <2> QED
    BY <2>1, EndsRests DEF Imports
<1>3. ASSUME NEW x \in Clean', x # r PROVE Sound(x)'
  BY <1>1, <1>2, <1>3, OthersSane DEF Rests, Under, Clean, Typed, RecordsOK
<1>4. ASSUME r \in Clean' PROVE Sound(r)'
  <2>1. Sound(r)
    BY <1>1, <1>4 DEF Clean, Sane
  <2>2. recorded'[r] = held[t]
    BY <1>1 DEF Typed, RecordsOK
  <2>3. \A x \in Threads : pc'[x] \in LaunchPcs \union HeldPcs =>
            x # t /\ pc'[x] = pc[x] /\ run'[x] = run[x] /\ held'[x] = held[x]
    BY <1>2 DEF Rests, Alone
  <2>4. Recording(r)' <=> Recording(r)
    BY <1>1, <1>2 DEF Recording, Rests, Alone
  <2>5. OneLauncher(r)' /\ OneBusy(r)' /\ Marked(r)' /\ Carried(r)'
    BY <1>1, <2>1, <2>3
    DEF Sound, OneLauncher, Launching, OneBusy, Marked, NoBusy, Carried
  <2>6. Importing(r)'
    BY <1>1, <2>1, <2>3, <2>4 DEF Sound, Importing, NoBusy, Unwritten
  <2>7. Settled(r)'
    BY <1>1, <2>1, <2>2, <2>4 DEF Sound, Importing, Settled, NoBusy
  <2>8. Unread(r)'
    BY <1>1, <2>1, <2>2 DEF Sound, Importing, Unread, NoBusy, Unwritten
  <2>9. Ready(r)'
    <3>1. ASSUME NEW x \in Threads, pc[x] \in {"count", "launch"}, run[x] = r
          PROVE  ~Recording(r)
      BY <2>1, <3>1 DEF Recording, Sound, OneLauncher, Launching
    <3> QED
      BY <1>1, <2>1, <2>2, <2>3, <3>1 DEF Sound, Importing, Ready, NoBusy
  <2> QED
    BY <2>5, <2>6, <2>7, <2>8, <2>9 DEF Sound
<1> QED
  BY <1>3, <1>4 DEF Sane

\* A worker that leaves a receipt is the last one to be busy.
LEMMA WorkSane ==
    ASSUME Typed, Sane, NEW r \in Runs, NEW k \in Launches, Work(r, k)
    PROVE  Sane'
<1> USE DEF LaunchPcs, HeldPcs
<1>1. /\ UNCHANGED <<status, recorded, pc, run, held, raced, torn>>
      /\ worker[r][k] \in Busy
  BY WorkSteps DEF table, local, handler, history
<1>2. \A x \in Runs \ {r} :
        /\ receipt'[x] = receipt[x] /\ worker'[x] = worker[x]
        /\ x \in exitFile' => x \in exitFile
  BY WorkSteps DEF Typed, RecordsOK
<1>3. ASSUME NEW x \in Clean', x # r PROVE Sound(x)'
  <2>1. x \in Clean /\ x \in Runs
    BY <1>1, <1>3 DEF Clean
  <2>2. Untouched(x)
    BY <1>1, <1>2, <1>3, <2>1 DEF Untouched, Recording, Under
  <2> QED
    BY <2>1, <2>2, UntouchedSound DEF Sane
<1>4. ASSUME r \in Clean' PROVE Sound(r)'
  <2>1. Sound(r)
    BY <1>1, <1>4 DEF Clean, Sane
  <2>2. /\ \A j \in Launches : worker[r][j] \in Busy => j = k
        /\ r \notin exitFile
        /\ Under(r) \/ Recording(r)
        /\ \A t \in Threads : ~(pc[t] \in {"count", "launch"} /\ run[t] = r)
    BY <1>1, <2>1 DEF Sound, OneBusy, Marked, NoBusy, Settled, Ready
  <2>3. /\ \A j \in Launches \ {k} : worker'[r][j] = worker[r][j]
        /\ worker'[r][k] = "gone" \/ (worker'[r][k] = "paused" /\ exitFile' = exitFile)
    BY WorkSteps DEF Typed, RecordsOK
  <2>4. receipt'[r] = receipt[r] \/ (receipt'[r] # None /\ receipt'[r].by = k)
    BY WorkSteps, ReceiptAssumption DEF Typed, RecordsOK, Receipts
  <2>5. OneBusy(r)' /\ Marked(r)'
    BY <2>2, <2>3 DEF OneBusy, Marked, NoBusy, Busy
  <2>6. OneLauncher(r)' /\ Settled(r)' /\ Ready(r)'
    BY <1>1, <2>1, <2>2 DEF Sound, OneLauncher, Launching, Settled, Ready, Under, Recording
  <2>7. Unread(r)'
    BY <1>1, <2>1, <2>2, <2>3, <2>4 DEF Sound, Unread, Unwritten, Busy
  <2>8. Carried(r)'
    <3> SUFFICES ASSUME NEW t \in Threads, pc[t] \in HeldPcs, run[t] = r
                 PROVE  worker'[r][held[t].by] = "gone"
      BY <1>1 DEF Carried
    <3>1. held[t].by \in Launches
      BY DEF Typed, LocalOK, Receipts
    <3> QED
      BY <1>1, <2>1, <2>3, <3>1 DEF Sound, Carried, Busy
  <2>9. Importing(r)'
    BY <1>1, <2>1, <2>2, <2>3, <2>4 DEF Sound, Importing, NoBusy, Unwritten, Recording, Busy
  <2> QED
    BY <2>5, <2>6, <2>7, <2>8, <2>9 DEF Sound
<1> QED
  BY <1>3, <1>4 DEF Sane

\* A launch that the console does not survive tears the run.
LEMMA DeathSane == Typed /\ Sane /\ ConsoleDies => Sane'
<1> SUFFICES ASSUME Typed, Sane, ConsoleDies, NEW r \in Clean' PROVE Sound(r)'
  BY DEF Sane
<1>1. r \in Runs /\ r \in Clean /\ ~Recording(r)
  BY DEF Clean, ConsoleDies, Recording
<1>2. Untouched(r)
  BY <1>1 DEF Untouched, ConsoleDies, table, files, Under, LaunchPcs, HeldPcs
<1> QED
  BY <1>1, <1>2, UntouchedSound DEF Sane

LEMMA CreatesSane ==
    ASSUME Typed, Sane, NEW t \in Threads, Creates(t), pc[t] # "record"
    PROVE  Sane'
<1>1. PICK r \in Runs : /\ status[r] = "none"
                        /\ status' = [status EXCEPT ![r] = "queued"]
                        /\ Takes(t, r, "start")
  BY DEF Creates
<1>2. Quiet(t)
  BY <1>1, TakesRests
  DEF Quiet, Rests, Creates, files, history, Under, Typed, RecordsOK, LaunchPcs, HeldPcs
<1> QED
  BY <1>2, QuietSane

LEMMA FailsSane ==
    ASSUME Typed, Sane, NEW t \in Threads, Fails(t), pc[t] # "record"
    PROVE  Sane'
<1>1. Quiet(t)
  BY EndsRests DEF Fails, Quiet, table, files, Under
<1> QED
  BY <1>1, QuietSane

LEMMA HandlesSane ==
    ASSUME Typed, Sane, NEW t \in Threads, Handles(t)
    PROVE  Sane'
<1>1. CASE StartChecks(t)
  <2>1. run[t] \in Runs
    BY <1>1 DEF StartChecks, Typed, LocalOK, RunPcs
  <2> QED
    BY <1>1, <2>1, BeginsSane DEF StartChecks, Startable
<1>2. CASE StartRefused(t) \/ CountRefuses(t) \/ ImportRaises(t)
  BY <1>2, FailsSane DEF StartRefused, CountRefuses, ImportRaises
<1>3. CASE SpawnFails(t)
  <2>1. Quiet(t)
    BY <1>3, EndsRests DEF SpawnFails, MayLaunch, Quiet, table, Under
  <2> QED
    BY <2>1, QuietSane
<1>4. CASE Spawns(t) \/ RecordsLaunch(t) \/ Rereads(t) \/ Imports(t)
  <2>1. run[t] \in Runs
    BY <1>4
    DEF Spawns, MayLaunch, RecordsLaunch, Rereads, Imports, Typed, LocalOK, RunPcs, HeldPcs,
        LaunchPcs
  <2> QED
    BY <1>4, <2>1, SpawnsSane, RecordsSane, RereadsSane, ImportsSane
<1> QED
  BY <1>1, <1>2, <1>3, <1>4 DEF Handles

LEMMA RequestSane ==
    ASSUME Typed, Sane, NEW t \in Http, Request(t)
    PROVE  Sane'
<1>t. t \in Threads
  BY DEF Threads
<1>1. CASE HttpCreates(t)
  BY <1>t, <1>1, CreatesSane DEF HttpCreates, Asks
<1>2. CASE LeavesQueued(t)
  <2>1. Quiet(t)
    BY <1>t, <1>2, EndsRests DEF LeavesQueued, Quiet, table, files, Under
  <2> QED
    BY <1>t, <2>1, QuietSane
<1>3. ASSUME NEW r \in Runs, HttpStarts(t, r) \/ HttpResumes(t, r) PROVE Sane'
  BY <1>t, <1>3, BeginsSane DEF HttpStarts, HttpResumes, Asks, Startable
<1>4. ASSUME NEW r \in Runs, HttpPauses(t, r) PROVE Sane'
  <2>1. Rests(t)
    BY <1>t, <1>4 DEF HttpPauses, Goto, Rests, Alone, Typed, LocalOK, LaunchPcs, HeldPcs
  <2>2. Quiet(t)
    BY <1>4, <2>1 DEF HttpPauses, Asks, Quiet, table, history, Under
  <2> QED
    BY <1>t, <2>2, QuietSane
<1>5. ASSUME NEW r \in Runs, HttpRefreshes(t, r) PROVE Sane'
  BY <1>t, <1>5, RefreshesSane DEF HttpRefreshes, Asks
<1>6. CASE NotesPause(t)
  <2>1. Rests(t)
    BY <1>t, <1>6, EndsRests DEF NotesPause
  <2>2. \A r \in Runs : r \in raced' \/ (Under(r) => Under(r)')
    BY <1>t, <1>6 DEF NotesPause, Under, Typed, RecordsOK, LocalOK
  <2>3. Quiet(t)
    BY <1>6, <2>1, <2>2 DEF NotesPause, Quiet, files
  <2> QED
    BY <1>t, <2>3, QuietSane
<1> QED
  BY <1>1, <1>2, <1>3, <1>4, <1>5, <1>6 DEF Request

LEMMA RunnerSane ==
    ASSUME Typed, Sane, RunOnce \/ Enables \/ Disables
    PROVE  Sane'
<1>r. Runner \in Threads
  BY DEF Threads
<1>1. CASE RefreshesCurrent \/ RefreshesListed
  BY <1>r, <1>1, RefreshesSane DEF RefreshesCurrent, RefreshesListed, Typed, RunnerOK
<1>2. CASE Lists
  <2>1. Rests(Runner)
    BY <1>r, <1>2, TakesRests DEF Lists, ListsInto, Rests, LaunchPcs, HeldPcs
  <2>2. Quiet(Runner)
    BY <1>2, <2>1 DEF Lists, Quiet, table, files, Under
  <2> QED
    BY <1>r, <2>2, QuietSane
<1>3. CASE RunnerCreates
  BY <1>r, <1>3, CreatesSane DEF RunnerCreates
<1>4. CASE CreateRaises
  BY <1>r, <1>4, FailsSane DEF CreateRaises
<1>5. CASE Projects
  <2>1. Rests(Runner)
    BY <1>r, <1>5, ReturnsRests DEF Projects
  <2>2. Quiet(Runner)
    BY <1>5, <2>1 DEF Projects, Quiet, table, files, Under
  <2> QED
    BY <1>r, <2>2, QuietSane
<1>6. CASE Enables \/ Disables
  <2> SUFFICES ASSUME NEW r \in Clean' PROVE Sound(r)'
    BY DEF Sane
  <2>1. r \in Runs /\ r \in Clean /\ Untouched(r)
    BY <1>6
    DEF Enables, Disables, table, files, local, handler, history, Clean, Untouched, Recording,
        Under
  <2> QED
    BY <2>1, UntouchedSound DEF Sane
<1> QED
  BY <1>1, <1>2, <1>3, <1>4, <1>5, <1>6 DEF RunOnce

LEMMA SaneNext == Typed /\ Sane /\ [Next]_vars => Sane'
<1> SUFFICES ASSUME Typed, Sane, [Next]_vars PROVE Sane'
  OBVIOUS
<1>1. CASE UNCHANGED vars
  <2> SUFFICES ASSUME NEW r \in Clean' PROVE Sound(r)'
    BY DEF Sane
  <2>1. r \in Runs /\ r \in Clean /\ Untouched(r)
    BY <1>1
    DEF vars, table, files, local, handler, history, Clean, Untouched, Recording, Under
  <2> QED
    BY <2>1, UntouchedSound DEF Sane
<1> QED
  BY <1>1, HandlesSane, RequestSane, RunnerSane, WorkSane, DeathSane DEF Next

\* Only a launch, or the worker, changes the worker.
LEMMA WorkerStays ==
    ASSUME Next
    PROVE  \/ worker' = worker
           \/ \E t \in Threads : Spawns(t)
           \/ \E r \in Runs, k \in Launches : Work(r, k)
<1>1. ASSUME NEW t \in Threads, Handles(t) PROVE worker' = worker \/ Spawns(t)
  BY <1>1
  DEF Handles, StartChecks, BeginsLaunch, StartRefused, CountRefuses, Fails, SpawnFails,
      RecordsLaunch, Rereads, ImportRaises, Imports
<1>2. ASSUME NEW t \in Http, Request(t) PROVE worker' = worker
  BY <1>2
  DEF Request, HttpCreates, Creates, LeavesQueued, HttpStarts, HttpResumes, BeginsLaunch,
      HttpPauses, HttpRefreshes, RefreshesRun, Refreshes, NotesPause
<1>3. RunOnce \/ Enables \/ Disables \/ ConsoleDies => worker' = worker
  BY DEF RunOnce, RefreshesCurrent, Lists, RefreshesListed, RunnerCreates, Creates, CreateRaises,
         Fails, Projects, RefreshesRun, Refreshes, Enables, Disables, ConsoleDies
<1> QED
  BY <1>1, <1>2, <1>3 DEF Next

\* A run has one worker at a time, but for the runs whose handlers raced or
\* whose launch the console did not survive.
THEOREM OneWorker == Spec => OneWorkerPerRun
<1> DEFINE Starts(r, k) == worker[r][k] = "none" /\ worker'[r][k] # "none"
<1>1. ASSUME Typed, Sane, Next, NEW r \in Clean, NEW k \in Launches, Starts(r, k)
      PROVE  NoBusy(r)
  <2>0. r \in Runs
    BY DEF Clean
  <2>1. CASE \E t \in Threads : Spawns(t)
    <3>1. PICK t \in Threads : Spawns(t)
      BY <2>1
    <3>2. run[t] = r
      BY <1>1, <2>0, <3>1 DEF Spawns, Typed, RecordsOK
    <3> QED
      BY <1>1, <3>1, <3>2, SpawnsAlone
  <2>2. CASE \E x \in Runs, j \in Launches : Work(x, j)
    <3>1. PICK x \in Runs, j \in Launches : Work(x, j)
      BY <2>2
    <3>2. worker[x][j] \in Busy /\ \E w \in {"gone", "paused"} :
                                    worker' = [worker EXCEPT ![x][j] = w]
      BY <1>1, <3>1, WorkSteps
    <3> QED
      BY <1>1, <2>0, <3>1, <3>2 DEF Typed, RecordsOK, Busy
  <2>3. CASE worker' = worker
    BY <1>1, <2>3
  <2> QED
    BY <1>1, <2>1, <2>2, <2>3, WorkerStays
<1>2. Typed /\ Sane /\ [Next]_vars =>
        [\A r \in Runs, k \in Launches :
            (worker[r][k] = "none" /\ worker'[r][k] # "none" /\ r \notin raced \union torn) =>
                \A j \in Launches : worker[r][j] \notin Busy]_vars
  BY <1>1 DEF NoBusy, Clean
<1> QED
  BY <1>2, TypedInit, TypedNext, SaneInit, SaneNext, PTL DEF Spec, OneWorkerPerRun
-----------------------------------------------------------------------------
(* The runner starts nothing while a worker is at work.                    *)

Two(r) == \E j, k \in Launches : j < k /\ worker[r][j] # "none" /\ worker[r][k] # "none"

\* What RunnerWaits leaves out, but for the runs launched since the listing.
Excused(r) == r \in raced \/ (r \in torn /\ Two(r))

\* A run without a receipt has no outcome, and nobody holds one of it ...
Unreported(r) ==
    receipt[r] = None =>
        /\ status[r] \notin Final
        /\ \A t \in Threads : ~(pc[t] \in HeldPcs /\ run[t] = r)

\* ... and a run that is, or was, launched has a row.
Rowed(r) ==
    (\E t \in Threads : Launching(t, r)) \/ (\E k \in Launches : worker[r][k] # "none") =>
        status[r] # "none"

Kept == \A r \in Runs : Unreported(r) /\ Rowed(r)

\* What a step does to that.
Keeps(r) ==
    /\ receipt[r] # None => receipt'[r] # None
    /\ status'[r] \in Final => status[r] \in Final \/ receipt[r] # None
    /\ status[r] # "none" => status'[r] # "none"
    /\ \A t \in Threads : pc'[t] \in HeldPcs /\ run'[t] = r =>
            (pc[t] \in HeldPcs /\ run[t] = r) \/ receipt[r] # None
    /\ \A t \in Threads : pc'[t] \in LaunchPcs /\ run'[t] = r =>
            (pc[t] \in LaunchPcs /\ run[t] = r) \/ status[r] # "none"
    /\ \A k \in Launches : worker'[r][k] # "none" =>
            worker[r][k] # "none" \/ status[r] # "none"

LEMMA KeptInit == Init => Kept
  BY DEF Init, Kept, Unreported, Rowed, Launching, LaunchPcs, HeldPcs, Final

LEMMA KeepsKept ==
    ASSUME Kept, \A r \in Runs : Keeps(r)
    PROVE  Kept'
<1> SUFFICES ASSUME NEW r \in Runs PROVE Unreported(r)' /\ Rowed(r)'
  BY DEF Kept
<1>1. Unreported(r)'
  BY DEF Kept, Keeps, Unreported
<1>2. Rowed(r)'
  BY DEF Kept, Keeps, Rowed, Launching
<1> QED
  BY <1>1, <1>2

\* A step of a thread that rests, or takes up what it had, or may.
LEMMA ThreadKeeps ==
    ASSUME Typed, Kept, NEW t \in Threads, Alone(t),
           UNCHANGED <<receipt, worker>>,
           \A r \in Runs : status'[r] \in Final => status[r] \in Final \/ receipt[r] # None,
           \A r \in Runs : status[r] # "none" => status'[r] # "none",
           \/ pc'[t] \notin LaunchPcs \union HeldPcs
           \/ pc'[t] \in LaunchPcs /\ run'[t] \in Runs /\ status[run'[t]] # "none"
           \/ pc'[t] \in HeldPcs /\ run'[t] \in Runs /\ receipt[run'[t]] # None
    PROVE  Kept'
<1>1. ASSUME NEW r \in Runs PROVE Keeps(r)
  BY DEF Keeps, Alone, LaunchPcs, HeldPcs
<1> QED
  BY <1>1, KeepsKept

LEMMA HandlesKept ==
    ASSUME Typed, Kept, NEW t \in Threads, Handles(t)
    PROVE  Kept'
<1> USE DEF LaunchPcs, HeldPcs
<1>1. CASE StartChecks(t)
  <2>1. run[t] \in Runs /\ status[run[t]] # "none"
    BY <1>1 DEF StartChecks, Startable, Typed, LocalOK, RunPcs
  <2>2. Alone(t) /\ pc'[t] = "count" /\ run'[t] = run[t]
    BY <1>1, TakesRests DEF StartChecks, BeginsLaunch
  <2> QED
    BY <1>1, <2>1, <2>2, ThreadKeeps DEF StartChecks, BeginsLaunch, table, files
<1>2. CASE StartRefused(t) \/ CountRefuses(t) \/ ImportRaises(t) \/ SpawnFails(t)
  BY <1>2, EndsRests, ThreadKeeps
  DEF StartRefused, CountRefuses, ImportRaises, SpawnFails, Fails, Rests, table, files
<1>3. CASE RecordsLaunch(t)
  <2>1. status' = [status EXCEPT ![run[t]] = "running"] /\ Rests(t)
    BY <1>3, EndsRests DEF RecordsLaunch
  <2>2. \A r \in Runs : status'[r] \in {status[r], "running"}
    BY <2>1 DEF Typed, RecordsOK
  <2> QED
    BY <1>3, <2>1, <2>2, ThreadKeeps DEF RecordsLaunch, files, Rests, Final
<1>4. CASE Rereads(t)
  <2>1. run[t] \in Runs /\ receipt[run[t]] # None
    BY <1>4 DEF Rereads, Kept, Unreported, Typed, LocalOK, RunPcs
  <2>2. UNCHANGED <<status, receipt, worker>>
    BY <1>4 DEF Rereads, table, files
  <2>3. CASE Returns(t, run[t], status[run[t]])
    BY <2>2, <2>3, ReturnsRests, ThreadKeeps DEF Rests
  <2>4. CASE Goto(t, "import") /\ UNCHANGED handler
    <3>1. Alone(t) /\ pc'[t] = "import" /\ run'[t] = run[t]
      BY <2>4 DEF Goto, handler, Alone, Typed, LocalOK
    <3> QED
      BY <2>1, <2>2, <3>1, ThreadKeeps
  <2> QED
    BY <1>4, <2>3, <2>4 DEF Rereads
<1>5. CASE Imports(t)
  <2>1. run[t] \in Runs /\ receipt[run[t]] # None /\ held[t] \in Receipts
    BY <1>5 DEF Imports, Kept, Unreported, Typed, LocalOK, RunPcs
  <2>2. status' = [status EXCEPT ![run[t]] = held[t].status] /\ held[t].status # "none"
    BY <1>5, <2>1 DEF Imports, Receipts, Final
  <2>3. Rests(t)
    BY <1>5, TakesRests, EndsRests DEF Imports, Rests
  <2>4. \A r \in Runs : status'[r] = status[r] \/ (r = run[t] /\ status'[r] # "none")
    BY <2>1, <2>2 DEF Typed, RecordsOK
  <2> QED
    BY <1>5, <2>1, <2>3, <2>4, ThreadKeeps DEF Imports, files, Rests
<1>6. CASE Spawns(t)
  <2>1. run[t] \in Runs /\ pc[t] \in {"count", "launch"}
    BY <1>6 DEF Spawns, MayLaunch, Typed, LocalOK, RunPcs
  <2>2. status[run[t]] # "none"
    BY <2>1 DEF Kept, Rowed, Launching
  <2>3. PICK k \in Launches : worker' = [worker EXCEPT ![run[t]][k] = "works"]
    BY <1>6 DEF Spawns
  <2>4. \A r \in Runs : r # run[t] => worker'[r] = worker[r]
    BY <2>1, <2>3 DEF Typed, RecordsOK
  <2>5. Alone(t) /\ pc'[t] = "record" /\ run'[t] = run[t] /\ UNCHANGED <<status, receipt>>
    BY <1>6 DEF Spawns, Goto, Alone, handler, table, Typed, LocalOK
  <2>6. ASSUME NEW r \in Runs PROVE Keeps(r)
    BY <2>1, <2>2, <2>4, <2>5 DEF Keeps, Alone
  <2> QED
    BY <2>6, KeepsKept
<1> QED
  BY <1>1, <1>2, <1>3, <1>4, <1>5, <1>6 DEF Handles

LEMMA CreatesKept ==
    ASSUME Typed, Kept, NEW t \in Threads, Creates(t)
    PROVE  Kept'
<1>1. PICK r \in Runs : status' = [status EXCEPT ![r] = "queued"] /\ Takes(t, r, "start")
  BY DEF Creates
<1>2. \A x \in Runs : status'[x] \in {status[x], "queued"}
  BY <1>1 DEF Typed, RecordsOK
<1> QED
  BY <1>1, <1>2, TakesRests, ThreadKeeps DEF Creates, files, Final, LaunchPcs, HeldPcs

LEMMA RefreshesKept ==
    ASSUME Typed, Kept, NEW t \in Threads, NEW r \in Runs, RefreshesRun(t, r)
    PROVE  Kept'
<1>1. UNCHANGED <<status, receipt, worker>>
  BY DEF RefreshesRun, Refreshes, table, files
<1>2. CASE Returns(t, r, status[r])
  BY <1>1, <1>2, ReturnsRests, ThreadKeeps DEF Rests
<1>3. CASE Importable(r) /\ Goto(t, "reread") /\ run' = [run EXCEPT ![t] = r]
           /\ held' = [held EXCEPT ![t] = receipt[r]]
  <2>1. Alone(t) /\ pc'[t] = "reread" /\ run'[t] = r
    BY <1>3 DEF Goto, Alone, Typed, LocalOK
  <2> QED
    BY <1>1, <1>3, <2>1, ThreadKeeps DEF Importable, HeldPcs, LaunchPcs
<1> QED
  BY <1>2, <1>3 DEF RefreshesRun, Refreshes

LEMMA RequestKept ==
    ASSUME Typed, Kept, NEW t \in Http, Request(t)
    PROVE  Kept'
<1> USE DEF LaunchPcs, HeldPcs
<1>t. t \in Threads
  BY DEF Threads
<1>1. CASE HttpCreates(t)
  BY <1>t, <1>1, CreatesKept DEF HttpCreates
<1>2. CASE LeavesQueued(t)
  BY <1>t, <1>2, EndsRests, ThreadKeeps DEF LeavesQueued, Rests, table, files
<1>3. ASSUME NEW r \in Runs, NEW p \in {"count", "launch"}, status[r] # "none",
             BeginsLaunch(t, r, p)
      PROVE  Kept'
  <2>1. Alone(t) /\ pc'[t] = p /\ run'[t] = r
    BY <1>t, <1>3, TakesRests DEF BeginsLaunch
  <2> QED
    BY <1>t, <1>3, <2>1, ThreadKeeps DEF BeginsLaunch, table, files
<1>4. ASSUME NEW r \in Runs, HttpStarts(t, r) \/ HttpResumes(t, r) PROVE Kept'
  BY <1>3, <1>4 DEF HttpStarts, HttpResumes, Startable
<1>5. ASSUME NEW r \in Runs, HttpPauses(t, r) PROVE Kept'
  <2>1. Rests(t)
    BY <1>t, <1>5 DEF HttpPauses, Goto, Rests, Alone, Typed, LocalOK
  <2> QED
    BY <1>t, <1>5, <2>1, ThreadKeeps DEF HttpPauses, Rests, table
<1>6. ASSUME NEW r \in Runs, HttpRefreshes(t, r) PROVE Kept'
  BY <1>t, <1>6, RefreshesKept DEF HttpRefreshes
<1>7. CASE NotesPause(t)
  <2>1. Rests(t) /\ \A r \in Runs : status'[r] \in {status[r], "paused", "pause_requested"}
    BY <1>t, <1>7, EndsRests DEF NotesPause, Typed, RecordsOK
  <2> QED
    BY <1>t, <1>7, <2>1, ThreadKeeps DEF NotesPause, files, Rests, Final
<1> QED
  BY <1>1, <1>2, <1>4, <1>5, <1>6, <1>7 DEF Request

LEMMA KeptNext == Typed /\ Kept /\ [Next]_vars => Kept'
<1> SUFFICES ASSUME Typed, Kept, [Next]_vars PROVE Kept'
  OBVIOUS
<1> USE DEF LaunchPcs, HeldPcs
<1>r. Runner \in Threads
  BY DEF Threads
<1>1. CASE RunOnce
  <2>1. CASE RefreshesCurrent \/ RefreshesListed
    BY <1>r, <2>1, RefreshesKept DEF RefreshesCurrent, RefreshesListed, Typed, RunnerOK
  <2>2. CASE Lists
    BY <1>r, <2>2, TakesRests, ThreadKeeps DEF Lists, ListsInto, table, files
  <2>3. CASE RunnerCreates
    BY <1>r, <2>3, CreatesKept DEF RunnerCreates
  <2>4. CASE CreateRaises
    BY <1>r, <2>4, EndsRests, ThreadKeeps DEF CreateRaises, Fails, Rests, table, files
  <2>5. CASE Projects
    BY <1>r, <2>5, ReturnsRests, ThreadKeeps DEF Projects, Rests, table, files
  <2> QED
    BY <1>1, <2>1, <2>2, <2>3, <2>4, <2>5 DEF RunOnce
<1>2. CASE Enables \/ Disables \/ ConsoleDies \/ UNCHANGED vars
  <2>1. ASSUME NEW r \in Runs PROVE Keeps(r)
    BY <1>2
    DEF Enables, Disables, ConsoleDies, vars, table, files, local, handler, Keeps
  <2> QED
    BY <2>1, KeepsKept
<1>3. ASSUME NEW r \in Runs, NEW k \in Launches, Work(r, k) PROVE Kept'
  <2>1. ASSUME NEW x \in Runs PROVE Keeps(x)
    <3>1. UNCHANGED <<status, pc, run>> /\ worker[r][k] \in Busy
      BY <1>3, WorkSteps DEF table, local, handler
    <3>2. \A j \in Launches : worker'[x][j] = worker[x][j] \/ (x = r /\ j = k)
      BY <1>3, WorkSteps DEF Typed, RecordsOK
    <3>3. receipt'[x] = receipt[x] \/ receipt'[x] # None
      BY <1>3, WorkSteps, ReceiptAssumption DEF Typed, RecordsOK, Receipts
    <3> QED
      BY <3>1, <3>2, <3>3 DEF Keeps, Busy
  <2> QED
    BY <2>1, KeepsKept
<1> QED
  BY <1>1, <1>2, <1>3, HandlesKept, RequestKept DEF Next

\* A run at work is on record as active, or about to be.
LEMMA WorksActive ==
    ASSUME Typed, Sane, Kept, NEW r \in Runs, Works(r), ~Excused(r)
    PROVE  status[r] \in Active \/ Recording(r)
<1>1. PICK k \in Launches : worker[r][k] = "works"
  BY DEF Works
<1>2. CASE r \notin torn
  BY <1>1, <1>2 DEF Excused, Sane, Clean, Sound, Settled, Under, NoBusy, Busy, Active
<1>3. CASE ~Two(r)
  <2>1. receipt[r] = None
    <3> SUFFICES ASSUME receipt[r] # None PROVE FALSE
      OBVIOUS
    <3>1. receipt[r].by \in Launches /\ worker[r][receipt[r].by] \in {"paused", "gone"}
      BY DEF Typed, RecordsOK, Receipts
    <3>2. receipt[r].by < k \/ k < receipt[r].by
      BY <1>1, <3>1, BoundAssumption DEF Launches
    <3> QED
      BY <1>1, <1>3, <3>1, <3>2 DEF Two
  <2>2. status[r] \notin Final /\ status[r] # "none"
    BY <1>1, <2>1 DEF Kept, Unreported, Rowed
  <2> QED
    BY <2>2 DEF Typed, RecordsOK, Statuses, Terminal, Final
<1> QED
  BY <1>2, <1>3 DEF Excused

\* Where the runner is, once it has listed the active runs and while it looks at
\* them, nothing works but what it has not looked at, and what was launched since.
Going == {"start"} \union LaunchPcs

Placed ==
    /\ pc[Runner] = "scan" => ret = "existing"
    /\ pc[Runner] \in Going => ret = "existing" /\ todo = {}

Noted == ret = "existing" => \A t \in Threads : pc[t] = "record" => run[t] \in since

Looked ==
    ret = "existing" => \A r \in Runs : Works(r) => r \in todo \union since \/ Excused(r)

Listed == Placed /\ Noted /\ Looked

LEMMA ListedInit == Init => Listed
  BY DEF Init, Listed, Placed, Noted, Looked, Going, LaunchPcs, Threads

LEMMA IdleListed ==
    ASSUME ret' = "current", pc'[Runner] \notin Going \union {"scan"}
    PROVE  Listed'
  BY DEF Listed, Placed, Noted, Looked

\* Launches and histories only grow.
Monotone ==
    /\ raced \subseteq raced' /\ torn \subseteq torn'
    /\ \A r \in Runs, k \in Launches : worker[r][k] # "none" => worker'[r][k] # "none"

LEMMA StaysListed ==
    ASSUME Listed, Monotone, UNCHANGED <<todo, ret>>, since \subseteq since',
           pc'[Runner] = "scan" => ret = "existing",
           pc'[Runner] \in Going => ret = "existing" /\ todo = {},
           \A t \in Threads : pc'[t] = "record" =>
                (pc[t] = "record" /\ run'[t] = run[t]) \/ (ret = "existing" => run'[t] \in since'),
           \A r \in Runs : Works(r)' => Works(r) \/ (ret = "existing" => r \in since')
    PROVE  Listed'
<1>1. \A r \in Runs : Excused(r) => Excused(r)'
  BY DEF Excused, Two, Monotone
<1>2. Placed' /\ Noted'
  BY DEF Listed, Placed, Noted
<1>3. Looked'
  BY <1>1 DEF Listed, Looked
<1> QED
  BY <1>2, <1>3 DEF Listed

\* A handler of another thread.
LEMMA HttpListed ==
    ASSUME Typed, Listed, NEW t \in Http, Alone(t), UNCHANGED <<todo, ret, since, worker, torn>>,
           raced \subseteq raced', pc'[t] # "record"
    PROVE  Listed'
<1>1. Runner \in Threads \ {t} /\ t \in Threads
  BY ThreadAssumption DEF Threads
<1>2. Monotone /\ \A r : Works(r)' => Works(r)
  BY DEF Monotone, Works
<1>3. pc'[Runner] = pc[Runner]
  BY <1>1 DEF Alone
<1>4. \A x \in Threads : pc'[x] = "record" => pc[x] = "record" /\ run'[x] = run[x]
  BY DEF Alone
<1> QED
  BY <1>2, <1>3, <1>4, StaysListed DEF Listed, Placed

\* A step of the runner that does not list.
LEMMA RunnerListed ==
    ASSUME Typed, Listed, Alone(Runner), UNCHANGED <<todo, ret, since, worker, torn>>,
           raced \subseteq raced', pc'[Runner] # "record",
           pc'[Runner] = "scan" => ret = "existing",
           pc'[Runner] \in Going => ret = "existing" /\ todo = {}
    PROVE  Listed'
<1>1. Monotone /\ \A r : Works(r)' => Works(r)
  BY DEF Monotone, Works
<1>2. \A x \in Threads : pc'[x] = "record" => pc[x] = "record" /\ run'[x] = run[x]
  BY DEF Alone
<1> QED
  BY <1>1, <1>2, StaysListed

LEMMA ListsListed ==
    ASSUME Typed, Sane, Kept, ListsInto(ActiveRuns), UNCHANGED <<worker, raced, torn>>
    PROVE  Listed'
<1>1. Alone(Runner) /\ pc'[Runner] = "scan"
  BY TakesRests DEF ListsInto, Threads
<1>2. Placed'
  BY <1>1 DEF ListsInto, Placed, Going, LaunchPcs
<1>3. \A r \in Runs : Recording(r) => r \in since'
  BY DEF ListsInto, Recording, Launching, LaunchPcs
<1>4. Noted'
  <2>1. \A t \in Threads : pc'[t] = "record" => pc[t] = "record" /\ run'[t] = run[t]
    BY <1>1 DEF Alone
  <2> QED
    BY <1>3, <2>1 DEF Noted, Recording, Typed, LocalOK, RunPcs, LaunchPcs
<1>5. Looked'
  <2> SUFFICES ASSUME NEW r \in Runs, Works(r)', ~Excused(r)'
               PROVE  r \in todo' \union since'
    BY DEF Looked
  <2>1. Works(r) /\ ~Excused(r)
    BY DEF Works, Excused, Two
  <2> QED
    BY <1>3, <2>1, WorksActive DEF ListsInto, ActiveRuns
<1> QED
  BY <1>2, <1>4, <1>5 DEF Listed

LEMMA EndsListed ==
    ASSUME Typed, NEW r, EndsRound(r)
    PROVE  Listed'
<1>1. pc'[Runner] = "idle"
  BY TakesRests DEF EndsRound, Threads
<1> QED
  BY <1>1, IdleListed DEF EndsRound, Going, LaunchPcs

LEMMA RaisesListed ==
    ASSUME Typed, Listed, NEW t \in Threads, Raises(t), UNCHANGED <<worker, torn>>,
           raced \subseteq raced'
    PROVE  Listed'
<1>1. CASE t = Runner
  BY <1>1, EndsListed DEF Raises
<1>2. CASE t # Runner
  BY <1>2, EndsRests, HttpListed DEF Raises, Answers, Rests, Threads, LaunchPcs
<1> QED
  BY <1>1, <1>2

\* A run that is taken off the list does not work, or was launched since.
LEMMA ReturnsListed ==
    ASSUME Typed, Sane, Kept, Listed, NEW t \in Threads, NEW r \in Runs,
           Returns(t, r, status[r]), UNCHANGED <<worker, raced, torn>>
    PROVE  Listed'
<1>1. CASE t # Runner /\ Answers(t)
  BY <1>1, EndsRests, HttpListed DEF Answers, Rests, Threads, LaunchPcs
<1>2. CASE CurrentHas(r, status[r])
  BY <1>2, EndsListed, ListsListed DEF CurrentHas
<1>3. ASSUME t = Runner, ret = "existing", ListedHas(r, status[r]) PROVE Listed'
  <2>1. CASE EndsRound(None)
    BY <2>1, EndsListed
  <2>2. ASSUME status[r] \notin Active, Takes(Runner, None, "scan"), todo' = todo \ {r},
               UNCHANGED <<ret, since>>
        PROVE  Listed'
    <3>1. Alone(Runner) /\ pc'[Runner] = "scan"
      BY <1>3, <2>2, TakesRests
    <3>2. Placed'
      BY <1>3, <2>2, <3>1 DEF Placed, Going, LaunchPcs
    <3>3. Noted'
      BY <1>3, <2>2, <3>1 DEF Listed, Noted, Alone
    <3>4. Looked'
      <4> SUFFICES ASSUME NEW x \in Runs, Works(x)', ~Excused(x)'
                   PROVE  x \in todo' \union since'
        BY DEF Looked
      <4>1. Works(x) /\ ~Excused(x)
        BY DEF Works, Excused, Two
      <4>2. x \in todo \union since
        BY <1>3, <4>1 DEF Listed, Looked
      <4>3. CASE x = r
        <5>1. Recording(r)
          BY <2>2, <4>1, <4>3, WorksActive
        <5> QED
          BY <1>3, <2>2, <4>3, <5>1 DEF Recording, Listed, Noted
      <4> QED
        BY <2>2, <4>2, <4>3
    <3> QED
      BY <3>2, <3>3, <3>4 DEF Listed
  <2> QED
    BY <1>3, <2>1, <2>2 DEF ListedHas
<1> QED
  BY <1>1, <1>2, <1>3 DEF Returns

\* Where a step of any thread leads that lists nothing and starts no worker.
LEMMA ThreadListed ==
    ASSUME Typed, Listed, NEW t \in Threads, Alone(t),
           UNCHANGED <<todo, ret, since, worker, torn>>, raced \subseteq raced',
           pc'[t] \notin {"record", "scan"},
           t = Runner /\ pc'[t] \in Going => ret = "existing" /\ todo = {}
    PROVE  Listed'
<1>1. CASE t = Runner
  BY <1>1, RunnerListed
<1>2. CASE t # Runner
  BY <1>2, HttpListed DEF Threads
<1> QED
  BY <1>1, <1>2

LEMMA RefreshingListed ==
    ASSUME Typed, Sane, Kept, Listed, NEW t \in Threads, NEW r \in Runs, RefreshesRun(t, r)
    PROVE  Listed'
<1>1. UNCHANGED <<worker, raced, torn>>
  BY DEF RefreshesRun, Refreshes
<1>2. CASE Returns(t, r, status[r])
  BY <1>1, <1>2, ReturnsListed
<1>3. CASE Goto(t, "reread") /\ run' = [run EXCEPT ![t] = r]
           /\ held' = [held EXCEPT ![t] = receipt[r]] /\ UNCHANGED <<todo, ret, since>>
  <2>1. Alone(t) /\ pc'[t] = "reread"
    BY <1>3 DEF Goto, Alone, Typed, LocalOK
  <2> QED
    BY <1>1, <1>3, <2>1, ThreadListed DEF Going, LaunchPcs
<1> QED
  BY <1>2, <1>3 DEF RefreshesRun, Refreshes

LEMMA HandlesListed ==
    ASSUME Typed, Sane, Kept, Listed, NEW t \in Threads, Handles(t)
    PROVE  Listed'
<1> USE DEF Going, LaunchPcs
<1>1. CASE StartChecks(t)
  <2>1. Alone(t) /\ pc'[t] = "count"
    BY <1>1, TakesRests DEF StartChecks, BeginsLaunch
  <2>2. t = Runner => ret = "existing" /\ todo = {}
    BY <1>1 DEF StartChecks, Listed, Placed
  <2>3. UNCHANGED <<todo, ret, since, worker, torn>> /\ raced \subseteq raced'
    BY <1>1 DEF StartChecks, BeginsLaunch
  <2> QED
    BY <2>1, <2>2, <2>3, ThreadListed
<1>2. CASE StartRefused(t) \/ CountRefuses(t) \/ ImportRaises(t) \/ SpawnFails(t)
  BY <1>2, RaisesListed DEF StartRefused, CountRefuses, ImportRaises, SpawnFails, Fails
<1>3. CASE RecordsLaunch(t)
  <2>1. UNCHANGED <<worker, torn>> /\ raced \subseteq raced'
    BY <1>3 DEF RecordsLaunch
  <2>2. CASE t = Runner
    BY <1>3, <2>2, EndsListed DEF RecordsLaunch
  <2>3. CASE t # Runner
    BY <1>3, <2>1, <2>3, EndsRests, HttpListed DEF RecordsLaunch, Answers, Rests, Threads
  <2> QED
    BY <2>2, <2>3
<1>4. CASE Rereads(t)
  <2>1. run[t] \in Runs /\ UNCHANGED <<worker, torn>>
    BY <1>4 DEF Rereads, Typed, LocalOK, RunPcs, HeldPcs
  <2>2. CASE Returns(t, run[t], status[run[t]]) /\ UNCHANGED raced
    BY <2>1, <2>2, ReturnsListed
  <2>3. CASE Goto(t, "import") /\ UNCHANGED <<handler, todo, ret, since>> /\ raced \subseteq raced'
    <3>1. Alone(t) /\ pc'[t] = "import"
      BY <2>3 DEF Goto, handler, Alone, Typed, LocalOK
    <3> QED
      BY <2>1, <2>3, <3>1, ThreadListed
  <2> QED
    BY <1>4, <2>2, <2>3 DEF Rereads
<1>5. CASE Imports(t)
  <2>1. UNCHANGED <<worker, raced, torn>>
    BY <1>5 DEF Imports
  <2>2. CASE Takes(t, run[t], "project") /\ UNCHANGED <<todo, ret, since>>
    BY <2>1, <2>2, TakesRests, ThreadListed
  <2>3. CASE Answers(t) /\ t # Runner
    BY <2>1, <2>3, EndsRests, HttpListed DEF Answers, Rests, Threads
  <2> QED
    BY <1>5, <2>2, <2>3 DEF Imports
<1>6. CASE Spawns(t)
  <2>1. run[t] \in Runs /\ pc[t] \in {"count", "launch"}
    BY <1>6 DEF Spawns, MayLaunch, Typed, LocalOK, RunPcs
  <2>2. PICK k \in Launches : worker' = [worker EXCEPT ![run[t]][k] = "works"]
    BY <1>6 DEF Spawns
  <2>3. Alone(t) /\ pc'[t] = "record" /\ run'[t] = run[t]
    BY <1>6 DEF Spawns, Goto, Alone, handler, Typed, LocalOK
  <2>4. UNCHANGED <<todo, ret, raced, torn>> /\ since \subseteq since'
        /\ (ret = "existing" => run[t] \in since')
    BY <1>6 DEF Spawns
  <2>5. Monotone
    BY <2>1, <2>2, <2>4 DEF Monotone, Typed, RecordsOK
  <2>6. \A r \in Runs : Works(r)' => Works(r) \/ r = run[t]
    BY <2>1, <2>2 DEF Works, Typed, RecordsOK
  <2>7. t = Runner => ret = "existing" /\ todo = {}
    BY <2>1 DEF Listed, Placed
  <2>8. t # Runner => pc'[Runner] = pc[Runner]
    BY <2>3 DEF Alone, Threads
  <2>9. \A x \in Threads : pc'[x] = "record" =>
            (pc[x] = "record" /\ run'[x] = run[x]) \/ (ret = "existing" => run'[x] \in since')
    BY <2>3, <2>4 DEF Alone
  <2> QED
    BY <2>3, <2>4, <2>5, <2>6, <2>7, <2>8, <2>9, StaysListed DEF Listed, Placed
<1> QED
  BY <1>1, <1>2, <1>3, <1>4, <1>5, <1>6 DEF Handles

LEMMA RequestListed ==
    ASSUME Typed, Sane, Kept, Listed, NEW t \in Http, Request(t)
    PROVE  Listed'
<1> USE DEF LaunchPcs
<1>t. t \in Threads
  BY DEF Threads
<1>1. CASE HttpCreates(t)
  <2>1. PICK r \in Runs : Takes(t, r, "start")
    BY <1>1 DEF HttpCreates, Creates
  <2> QED
    BY <1>t, <1>1, <2>1, TakesRests, HttpListed DEF HttpCreates, Creates, history
<1>2. CASE LeavesQueued(t) \/ NotesPause(t)
  BY <1>t, <1>2, EndsRests, HttpListed DEF LeavesQueued, NotesPause, Answers, Rests
<1>3. ASSUME NEW r \in Runs, HttpStarts(t, r) \/ HttpResumes(t, r) PROVE Listed'
  <2>1. PICK p \in {"count", "launch"} : BeginsLaunch(t, r, p)
    BY <1>3 DEF HttpStarts, HttpResumes
  <2> QED
    BY <1>t, <2>1, TakesRests, HttpListed DEF BeginsLaunch
<1>4. ASSUME NEW r \in Runs, HttpPauses(t, r) PROVE Listed'
  <2>1. Rests(t)
    BY <1>t, <1>4 DEF HttpPauses, Goto, Rests, Alone, Typed, LocalOK, HeldPcs
  <2> QED
    BY <1>4, <2>1, HttpListed DEF HttpPauses, history, Rests
<1>5. ASSUME NEW r \in Runs, HttpRefreshes(t, r) PROVE Listed'
  BY <1>t, <1>5, RefreshingListed DEF HttpRefreshes
<1> QED
  BY <1>1, <1>2, <1>3, <1>4, <1>5 DEF Request

LEMMA ListedNext == Typed /\ Sane /\ Kept /\ Listed /\ [Next]_vars => Listed'
<1> SUFFICES ASSUME Typed, Sane, Kept, Listed, [Next]_vars PROVE Listed'
  OBVIOUS
<1> USE DEF Going, LaunchPcs
<1>r. Runner \in Threads
  BY DEF Threads
<1>1. CASE RunOnce
  <2>1. CASE RefreshesCurrent \/ RefreshesListed
    BY <1>r, <2>1, RefreshingListed DEF RefreshesCurrent, RefreshesListed, Typed, RunnerOK
  <2>2. CASE Lists
    BY <2>2, ListsListed DEF Lists
  <2>3. CASE RunnerCreates
    <3>1. PICK r \in Runs : Takes(Runner, r, "start")
      BY <2>3 DEF RunnerCreates, Creates
    <3>2. ret = "existing" /\ todo = {}
      BY <2>3 DEF RunnerCreates, Listed, Placed
    <3> QED
      BY <1>r, <2>3, <3>1, <3>2, TakesRests, ThreadListed DEF RunnerCreates, Creates, history
  <2>4. CASE CreateRaises
    BY <1>r, <2>4, RaisesListed DEF CreateRaises, Fails
  <2>5. CASE Projects
    <3>1. run[Runner] \in Runs
      BY <1>r, <2>5 DEF Projects, Typed, LocalOK, RunPcs
    <3> QED
      BY <1>r, <2>5, <3>1, ReturnsListed DEF Projects
  <2> QED
    BY <1>1, <2>1, <2>2, <2>3, <2>4, <2>5 DEF RunOnce
<1>2. CASE Enables \/ Disables \/ UNCHANGED vars
  BY <1>2
  DEF Enables, Disables, vars, local, handler, history, Listed, Placed, Noted, Looked, Works,
      Excused, Two
<1>3. CASE ConsoleDies
  BY <1>r, <1>3, IdleListed DEF ConsoleDies
<1>4. ASSUME NEW r \in Runs, NEW k \in Launches, Work(r, k) PROVE Listed'
  <2>1. UNCHANGED <<pc, run, todo, ret, since, raced, torn>> /\ worker[r][k] \in Busy
    BY <1>4, WorkSteps DEF local, handler, history
  <2>2. PICK w \in {"gone", "paused"} : worker' = [worker EXCEPT ![r][k] = w]
    BY <1>4, WorkSteps
  <2>3. Monotone /\ \A x \in Runs : Works(x)' => Works(x)
    BY <2>1, <2>2 DEF Monotone, Works, Typed, RecordsOK, Busy
  <2> QED
    BY <2>1, <2>3, StaysListed DEF Listed, Placed
<1> QED
  BY <1>1, <1>2, <1>3, <1>4, HandlesListed, RequestListed DEF Next

\* Only the runner starts what it starts.
LEMMA RunnerSpawns ==
    ASSUME Typed, Next, pc[Runner] # "record", pc'[Runner] = "record"
    PROVE  Spawns(Runner)
<1> USE DEF LaunchPcs, HeldPcs
<1>r. Runner \in Threads
  BY DEF Threads
<1>1. ASSUME NEW t \in Threads, Alone(t), pc'[t] # "record" PROVE FALSE
  BY <1>1, <1>r DEF Alone
<1>2. ASSUME NEW t \in Threads, Rests(t) PROVE FALSE
  BY <1>1, <1>2 DEF Rests
<1>3. ASSUME NEW t \in Threads, NEW r, NEW p, Takes(t, r, p), p # "record" PROVE FALSE
  BY <1>1, <1>3, TakesRests
<1>4. ASSUME NEW t \in Threads, NEW p, Goto(t, p), p # "record" PROVE FALSE
  BY <1>4, <1>r DEF Goto, Typed, LocalOK
<1>5. ASSUME NEW t \in Threads, Fails(t) PROVE FALSE
  BY <1>2, <1>5, EndsRests DEF Fails
<1>6. ASSUME NEW t \in Threads, NEW r \in Runs, RefreshesRun(t, r) PROVE FALSE
  BY <1>2, <1>4, <1>6, ReturnsRests DEF RefreshesRun, Refreshes
<1>7. ASSUME NEW t \in Threads, Handles(t) PROVE Spawns(Runner)
  <2>1. CASE StartChecks(t)
    BY <1>3, <2>1 DEF StartChecks, BeginsLaunch
  <2>2. CASE StartRefused(t) \/ CountRefuses(t) \/ ImportRaises(t)
    BY <1>5, <2>2 DEF StartRefused, CountRefuses, ImportRaises
  <2>3. CASE SpawnFails(t)
    BY <1>2, <2>3, EndsRests DEF SpawnFails
  <2>4. CASE RecordsLaunch(t)
    BY <1>2, <2>4, EndsRests DEF RecordsLaunch
  <2>5. CASE Rereads(t)
    BY <1>2, <1>4, <2>5, ReturnsRests DEF Rereads
  <2>6. CASE Imports(t)
    BY <1>2, <1>3, <2>6, EndsRests DEF Imports
  <2>7. CASE Spawns(t)
    <3>1. pc' = [pc EXCEPT ![t] = "record"]
      BY <2>7 DEF Spawns, Goto
    <3>2. t = Runner
      BY <3>1 DEF Typed, LocalOK
    <3> QED
      BY <2>7, <3>2
  <2> QED
    BY <1>7, <2>1, <2>2, <2>3, <2>4, <2>5, <2>6, <2>7 DEF Handles
<1>8. ASSUME NEW t \in Http, Request(t) PROVE FALSE
  <2>t. t \in Threads
    BY DEF Threads
  <2>1. CASE HttpCreates(t)
    BY <1>3, <2>t, <2>1 DEF HttpCreates, Creates
  <2>2. CASE LeavesQueued(t) \/ NotesPause(t)
    BY <1>2, <2>t, <2>2, EndsRests DEF LeavesQueued, NotesPause
  <2>3. CASE \E r \in Runs : HttpStarts(t, r) \/ HttpResumes(t, r)
    BY <1>3, <2>t, <2>3 DEF HttpStarts, HttpResumes, BeginsLaunch
  <2>4. CASE \E r \in Runs : HttpPauses(t, r)
    BY <1>4, <2>t, <2>4 DEF HttpPauses
  <2>5. CASE \E r \in Runs : HttpRefreshes(t, r)
    BY <1>6, <2>t, <2>5 DEF HttpRefreshes
  <2> QED
    BY <1>8, <2>1, <2>2, <2>3, <2>4, <2>5 DEF Request
<1>9. ASSUME RunOnce PROVE FALSE
  <2>1. CASE RefreshesCurrent \/ RefreshesListed
    BY <1>r, <1>6, <2>1 DEF RefreshesCurrent, RefreshesListed, Typed, RunnerOK
  <2>2. CASE Lists
    BY <1>r, <1>3, <2>2 DEF Lists, ListsInto
  <2>3. CASE RunnerCreates
    BY <1>r, <1>3, <2>3 DEF RunnerCreates, Creates
  <2>4. CASE CreateRaises
    BY <1>r, <1>5, <2>4 DEF CreateRaises
  <2>5. CASE Projects
    BY <1>r, <1>2, <2>5, ReturnsRests DEF Projects
  <2> QED
    BY <1>9, <2>1, <2>2, <2>3, <2>4, <2>5 DEF RunOnce
<1>10. ASSUME Enables \/ Disables \/ ConsoleDies PROVE FALSE
  BY <1>r, <1>10 DEF Enables, Disables, ConsoleDies, local
<1>11. ASSUME NEW r \in Runs, NEW k \in Launches, Work(r, k) PROVE FALSE
  BY <1>11, WorkSteps DEF local
<1> QED
  BY <1>7, <1>8, <1>9, <1>10, <1>11 DEF Next

\* The runner starts a worker only when none is at work, but for the runs that
\* were launched since it listed the active ones, raced, or torn and launched again.
THEOREM RunnerIsPatient == Spec => RunnerWaits
<1>1. ASSUME Typed, Listed, Next, pc[Runner] # "record", pc'[Runner] = "record",
             NEW r \in Runs, Works(r)
      PROVE  r \in since \/ Excused(r)
  <2>1. pc[Runner] \in Going
    BY <1>1, RunnerSpawns DEF Spawns, MayLaunch, Going, LaunchPcs
  <2> QED
    BY <1>1, <2>1 DEF Listed, Placed, Looked
<1>2. Typed /\ Listed /\ [Next]_vars =>
        [pc[Runner] # "record" /\ pc'[Runner] = "record" =>
            \A r \in Runs : Works(r) =>
                \/ r \in since \union raced
                \/ r \in torn /\ \E j, k \in Launches :
                    j < k /\ worker[r][j] # "none" /\ worker[r][k] # "none"]_vars
  BY <1>1 DEF Excused, Two
<1> QED
  BY <1>2, TypedInit, TypedNext, SaneInit, SaneNext, KeptInit, KeptNext, ListedInit, ListedNext,
     PTL
  DEF Spec, RunnerWaits
=============================================================================
