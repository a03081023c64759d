--------------------------- MODULE StrategyFactory ---------------------------
(***************************************************************************)
(* Research runs: StrategyFactoryOrchestrator over its table and its marker *)
(* files (strategy_factory_orchestrator.py), the continuous runner          *)
(* (strategy_factory_continuous_runner.py) and the HTTP requests            *)
(* (http_app.py) that start, pause, resume and refresh the same runs.       *)
(*                                                                         *)
(* Every request and every round of the runner opens a connection of its   *)
(* own, and each handler reads a row, looks at files, and updates the row   *)
(* in a later statement.  A step is one access to the table, with the       *)
(* operations on files and processes that follow it.  The runner's lock     *)
(* covers a round of the runner, enable and disable.  A worker is a process *)
(* that outlives the console: it is seen through a receipt file and a       *)
(* marker that it leaves at exit.                                           *)
(***************************************************************************)
EXTENDS Naturals, FiniteSets

CONSTANTS
    Runs,         \* run ids
    Http,         \* HTTP threads
    Runner,       \* the thread of the continuous runner
    None,         \* no run, no receipt
    MaxRequests,  \* bound on the HTTP requests
    MaxLaunches,  \* bound on the workers of a run
    MaxFaults     \* bound on the deaths of workers and of the console

ASSUME ThreadAssumption == Runner \notin Http
ASSUME NoneAssumption == None \notin Runs
ASSUME BoundAssumption ==
    MaxRequests \in Nat /\ MaxLaunches \in Nat /\ MaxFaults \in Nat

Threads  == Http \union {Runner}
Launches == 1..MaxLaunches

VARIABLES
    \* The table.
    status,     \* status[r], "none" without a row
    pid,        \* runs with a process id
    recorded,   \* receiptJson
    \* Files.
    pauseFile,  \* runs with a PAUSE marker
    exitFile,   \* runs with a worker_stopped.json
    receipt,    \* the last line of research_cycle_receipts.jsonl
    enabled,    \* the runner's state file
    current,    \* its currentRunId
    \* The workers.
    worker,     \* worker[r][k]: process of the k-th launch of r
    \* The threads.
    pc,
    run,        \* the run of the handler
    held,       \* the receipt it has in hand
    read,       \* the status pause_run has read
    todo,       \* active runs the runner has listed and not looked at
    ret,        \* what the runner refreshes for
    \* History.
    since,      \* runs launched while, or since, the runner listed the active ones
    raced,      \* runs whose launch met another launch or an import, or whose
                \* pause was written over a status it had not read
    torn,       \* runs whose launch the console did not survive
    requests,
    faults

table   == <<status, pid, recorded>>
files   == <<pauseFile, exitFile, receipt>>
state   == <<enabled, current>>
handler == <<run, held, read>>
local   == <<pc, handler, todo, ret>>
history == <<since, raced, torn>>
bounds  == <<requests, faults>>
vars    == <<table, files, state, worker, local, history, bounds>>

Active   == {"queued", "running", "pause_requested", "paused"}
Terminal == {"completed"}
Statuses == {"none", "awaiting"} \union Active \union Terminal
Final    == {"completed", "awaiting"}
Receipts == [status : {"paused"} \union Final, by : Launches]
LaunchPcs == {"count", "launch", "record"}
Pcs      == {"idle", "start", "note", "reread", "import", "project", "scan"}
                \union LaunchPcs
Busy     == {"works", "paused"}   \* at the research, or about to hand it over

ASSUME ReceiptAssumption == None \notin Receipts

FactoryTypeOK ==
    /\ status \in [Runs -> Statuses]
    /\ pid \subseteq Runs
    /\ recorded \in [Runs -> Receipts \union {None}]
    /\ pauseFile \subseteq Runs
    /\ exitFile \subseteq Runs
    /\ receipt \in [Runs -> Receipts \union {None}]
    /\ enabled \in BOOLEAN
    /\ current \in Runs \union {None}
    /\ worker \in [Runs -> [Launches -> {"none", "gone"} \union Busy]]
    /\ pc \in [Threads -> Pcs]
    /\ run \in [Threads -> Runs \union {None}]
    /\ held \in [Threads -> Receipts \union {None}]
    /\ read \in [Threads -> {"none", "queued", "running"}]
    /\ todo \subseteq Runs
    /\ ret \in {"current", "existing"}
    /\ since \subseteq Runs
    /\ raced \subseteq Runs
    /\ torn \subseteq Runs
    /\ requests \in 0..MaxRequests
    /\ faults \in 0..MaxFaults

Init ==
    /\ status = [r \in Runs |-> "none"]
    /\ pid = {}
    /\ recorded = [r \in Runs |-> None]
    /\ pauseFile = {}
    /\ exitFile = {}
    /\ receipt = [r \in Runs |-> None]
    /\ enabled \in BOOLEAN
    /\ current = None
    /\ worker = [r \in Runs |-> [k \in Launches |-> "none"]]
    /\ pc = [t \in Threads |-> "idle"]
    /\ run = [t \in Threads |-> None]
    /\ held = [t \in Threads |-> None]
    /\ read = [t \in Threads |-> "none"]
    /\ todo = {}
    /\ ret = "current"
    /\ since = {}
    /\ raced = {}
    /\ torn = {}
    /\ requests = 0
    /\ faults = 0

-----------------------------------------------------------------------------

Goto(t, p) == pc' = [pc EXCEPT ![t] = p]

Works(r) == \E k \in Launches : worker[r][k] = "works"

\* A request arrives (at t).
IsAsked == requests < MaxRequests /\ requests' = requests + 1

Asks(t) == pc[t] = "idle" /\ IsAsked

\* A handler takes up r, at p.
Takes(t, r, p) ==
    /\ Goto(t, p)
    /\ run' = [run EXCEPT ![t] = r]
    /\ held' = [held EXCEPT ![t] = None]
    /\ read' = [read EXCEPT ![t] = "none"]

\* The round of the runner ends, and its state is saved.
EndsRound(r) ==
    /\ Takes(Runner, None, "idle")
    /\ todo' = {}
    /\ ret' = "current"
    /\ since' = {}
    /\ current' = r
    /\ UNCHANGED enabled

\* The request is answered.
Answers(t) == Takes(t, None, "idle") /\ UNCHANGED <<todo, ret, since, state>>

\* An exception: HTTP 409, or "cycle_item_failed".
Raises(t) ==
    IF t = Runner THEN EndsRound(None) ELSE Answers(t)

Fails(t) ==
    /\ Raises(t)
    /\ UNCHANGED <<table, files, worker, raced, torn, bounds>>

-----------------------------------------------------------------------------
(* create_run, start_run, resume_run and _launch_run.                      *)

\* create_run; start_run follows, unless the request says otherwise.
Creates(t) ==
    /\ \E r \in Runs :
        /\ status[r] = "none"
        /\ status' = [status EXCEPT ![r] = "queued"]
        /\ Takes(t, r, "start")
    /\ UNCHANGED <<pid, recorded, files, state, worker, todo, ret, history, faults>>

HttpCreates(t) == Asks(t) /\ Creates(t)

\* (the request says so)
LeavesQueued(t) ==
    /\ t # Runner
    /\ pc[t] = "start"
    /\ Answers(t)
    /\ UNCHANGED <<table, files, worker, raced, torn, bounds>>

\* A worker that was paused has left its marker.
HandedOver(r) == r \notin pid \/ r \in exitFile

Launching(t, r) == pc[t] \in LaunchPcs /\ run[t] = r

\* The checks passed: on to p.
BeginsLaunch(t, r, p) ==
    /\ Takes(t, r, p)
    /\ raced' = IF \E x \in Threads \ {t} : Launching(x, r)
                    THEN raced \union {r} ELSE raced
    /\ UNCHANGED <<table, files, state, worker, todo, ret, since, torn, faults>>

Startable(r) == status[r] = "queued" \/ (status[r] = "paused" /\ HandedOver(r))

StartChecks(t) ==
    /\ pc[t] = "start"
    /\ Startable(run[t])
    /\ BeginsLaunch(t, run[t], "count")
    /\ UNCHANGED requests

StartRefused(t) == pc[t] = "start" /\ ~Startable(run[t]) /\ Fails(t)

HttpStarts(t, r) == Asks(t) /\ Startable(r) /\ BeginsLaunch(t, r, "count")

\* resume_run, which counts nothing.
HttpResumes(t, r) ==
    /\ Asks(t)
    /\ status[r] = "paused"
    /\ HandedOver(r)
    /\ BeginsLaunch(t, r, "launch")

\* Another run runs, or is about to pause.
LimitReached(r) == \E x \in Runs \ {r} : status[x] \in {"running", "pause_requested"}

MayLaunch(t) == pc[t] = "launch" \/ (pc[t] = "count" /\ ~LimitReached(run[t]))

CountRefuses(t) == pc[t] = "count" /\ LimitReached(run[t]) /\ Fails(t)

\* _launch_run: both markers are removed, and the worker is started ...
Spawns(t) ==
    LET r == run[t] IN
    /\ MayLaunch(t)
    /\ pauseFile' = pauseFile \ {r}
    /\ exitFile' = exitFile \ {r}
    /\ \E k \in Launches :
        /\ worker[r][k] = "none"
        /\ \A j \in 1..(k - 1) : worker[r][j] # "none"
        /\ worker' = [worker EXCEPT ![r][k] = "works"]
    /\ Goto(t, "record")
    /\ since' = IF ret = "existing" THEN since \union {r} ELSE since
    /\ UNCHANGED <<table, receipt, state, handler, todo, ret, raced, torn, bounds>>

\* (Popen raises)
SpawnFails(t) ==
    /\ MayLaunch(t)
    /\ pauseFile' = pauseFile \ {run[t]}
    /\ exitFile' = exitFile \ {run[t]}
    /\ Raises(t)
    /\ UNCHANGED <<table, receipt, worker, raced, torn, bounds>>

\* ... and the row says so.  The runner notes its current run.
RecordsLaunch(t) ==
    LET r == run[t] IN
    /\ pc[t] = "record"
    /\ status' = [status EXCEPT ![r] = "running"]
    /\ pid' = pid \union {r}
    /\ raced' = IF \E x \in Threads : pc[x] = "import" /\ run[x] = r
                    THEN raced \union {r} ELSE raced
    /\ IF t = Runner THEN EndsRound(r) ELSE Answers(t)
    /\ UNCHANGED <<recorded, files, worker, torn, bounds>>

-----------------------------------------------------------------------------
(* pause_run                                                               *)

Pausable(r) == status[r] \in {"queued", "running"}

\* The row is read, and the worker is told.
HttpPauses(t, r) ==
    /\ Asks(t)
    /\ Pausable(r)
    /\ pauseFile' = pauseFile \union {r}
    /\ Goto(t, "note")
    /\ run' = [run EXCEPT ![t] = r]
    /\ read' = [read EXCEPT ![t] = status[r]]
    /\ UNCHANGED <<table, exitFile, receipt, state, worker, held, todo, ret, history, faults>>

\* UPDATE, by the status that was read first.
NotesPause(t) ==
    /\ pc[t] = "note"
    /\ status' = [status EXCEPT ![run[t]] =
                    IF read[t] = "queued" THEN "paused" ELSE "pause_requested"]
    /\ raced' = IF status[run[t]] # read[t] THEN raced \union {run[t]} ELSE raced
    /\ Answers(t)
    /\ UNCHANGED <<pid, recorded, files, worker, torn, bounds>>

-----------------------------------------------------------------------------
(* refresh_run and record_receipt.                                         *)

ActiveRuns == {r \in Runs : status[r] \in Active}

\* list_runs.  A launch on its way may or may not be on record.
ListsInto(runs) ==
    /\ Takes(Runner, None, "scan")
    /\ todo' = runs
    /\ ret' = "existing"
    /\ since' = {r \in Runs : \E t \in Threads : Launching(t, r)}
    /\ UNCHANGED state

\* The runner's current run has this status.
CurrentHas(r, st) ==
    \/ st \notin Terminal /\ EndsRound(r)
    \/ st \in Terminal /\ ~enabled /\ EndsRound(None)
    \/ st \in Terminal /\ enabled /\ ListsInto(ActiveRuns)

\* A run the runner listed has this status.
ListedHas(r, st) ==
    \/ st \in Active /\ EndsRound(None)
    \/ /\ st \notin Active
       /\ Takes(Runner, None, "scan")
       /\ todo' = todo \ {r}
       /\ UNCHANGED <<ret, since, state>>

Returns(t, r, st) ==
    \/ t # Runner /\ Answers(t)
    \/ t = Runner /\ ret = "current" /\ CurrentHas(r, st)
    \/ t = Runner /\ ret = "existing" /\ ListedHas(r, st)

\* A paused receipt counts when the worker is gone.
Importable(r) ==
    /\ receipt[r] # None
    /\ receipt[r].status = "paused" => r \in exitFile

Refreshes(t, r, importable) ==
    /\ IF status[r] \notin Terminal /\ importable
       THEN /\ Goto(t, "reread")
            /\ run' = [run EXCEPT ![t] = r]
            /\ held' = [held EXCEPT ![t] = receipt[r]]
            /\ UNCHANGED <<read, todo, ret, since, state>>
       ELSE Returns(t, r, status[r])
    /\ UNCHANGED <<table, files, worker, raced, torn, faults>>

\* Mutant: the marker of the worker is not waited for.
RefreshesEarly(t, r) == Refreshes(t, r, receipt[r] # None)

\* refresh_run: the row, then the last receipt and the marker.
RefreshesRun(t, r) == Refreshes(t, r, Importable(r))

\* A page shows the run.
HttpRefreshes(t, r) == Asks(t) /\ status[r] # "none" /\ RefreshesRun(t, r)

\* record_receipt reads the row again: a receipt it has is not imported twice.
Rereads(t) ==
    LET r == run[t] IN
    /\ pc[t] = "reread"
    /\ IF recorded[r] = held[t]
       THEN Returns(t, r, status[r]) /\ UNCHANGED raced
       ELSE /\ Goto(t, "import")
            /\ raced' = IF receipt[r] # held[t] THEN raced \union {r} ELSE raced
            /\ UNCHANGED <<handler, todo, ret, since, state>>
    /\ UNCHANGED <<table, files, worker, torn, bounds>>

\* A receipt that crosses the boundary, whatever its status, or an outcome that
\* cannot be built.  What was imported once had passed.
ImportRaises(t) ==
    /\ pc[t] = "import"
    /\ Fails(t)

\* UPDATE, by the receipt's status.  A completed run keeps its pid.
Imports(t) ==
    LET r == run[t] IN
    /\ pc[t] = "import"
    /\ status' = [status EXCEPT ![r] = held[t].status]
    /\ pid' = IF held[t].status = "completed" THEN pid ELSE pid \ {r}
    /\ recorded' = [recorded EXCEPT ![r] = held[t]]
    /\ IF t = Runner
       THEN Takes(t, r, "project") /\ UNCHANGED <<todo, ret, since, state>>
       ELSE Answers(t)
    /\ UNCHANGED <<files, worker, raced, torn, bounds>>

\* get_run
Projects ==
    /\ pc[Runner] = "project"
    /\ Returns(Runner, run[Runner], status[run[Runner]])
    /\ UNCHANGED <<table, files, worker, raced, torn, bounds>>

-----------------------------------------------------------------------------
(* run_once, enable and disable, under the runner's lock.                  *)

RefreshesCurrent ==
    /\ pc[Runner] = "idle"
    /\ current # None
    /\ RefreshesRun(Runner, current)
    /\ UNCHANGED requests

\* Mutant: a run that is queued has nothing at work.
ListsRunning ==
    /\ pc[Runner] = "idle"
    /\ enabled
    /\ current = None
    /\ ListsInto({r \in ActiveRuns : status[r] # "queued"})
    /\ UNCHANGED <<table, files, worker, raced, torn, bounds>>

Lists ==
    /\ pc[Runner] = "idle"
    /\ enabled
    /\ current = None
    /\ ListsInto(ActiveRuns)
    /\ UNCHANGED <<table, files, worker, raced, torn, bounds>>

RefreshesListed ==
    /\ pc[Runner] = "scan"
    /\ \E r \in todo : RefreshesRun(Runner, r)
    /\ UNCHANGED requests

RunnerCreates ==
    /\ pc[Runner] = "scan"
    /\ todo = {}
    /\ Creates(Runner)
    /\ UNCHANGED requests

\* create_run raises: no family, no profile.
CreateRaises == pc[Runner] = "scan" /\ todo = {} /\ Fails(Runner)

Enables ==
    /\ pc[Runner] = "idle"
    /\ IsAsked
    /\ enabled' = TRUE
    /\ UNCHANGED <<table, files, current, worker, local, history, faults>>

Disables ==
    /\ pc[Runner] = "idle"
    /\ IsAsked
    /\ enabled' = FALSE
    /\ UNCHANGED <<table, files, current, worker, local, history, faults>>

-----------------------------------------------------------------------------
(* The workers, and the death of the console.                              *)

WritesReceipt(r, k, st) ==
    /\ worker[r][k] = "works"
    /\ receipt' = [receipt EXCEPT ![r] = [status |-> st, by |-> k]]
    /\ UNCHANGED <<table, pauseFile, state, local, history, bounds>>

WorkerPauses(r, k) ==
    /\ r \in pauseFile
    /\ WritesReceipt(r, k, "paused")
    /\ worker' = [worker EXCEPT ![r][k] = "paused"]
    /\ UNCHANGED exitFile

\* --worker-exit-file
WorkerExits(r, k) ==
    /\ worker[r][k] = "paused"
    /\ worker' = [worker EXCEPT ![r][k] = "gone"]
    /\ exitFile' = exitFile \union {r}
    /\ UNCHANGED <<table, pauseFile, receipt, state, local, history, bounds>>

\* Nobody waits for the marker of a worker that has ended: it exits at once.
WorkerEnds(r, k) ==
    /\ \E st \in Final : WritesReceipt(r, k, st)
    /\ worker' = [worker EXCEPT ![r][k] = "gone"]
    /\ exitFile' = exitFile \union {r}

Fault == faults < MaxFaults /\ faults' = faults + 1

WorkerDies(r, k) ==
    /\ worker[r][k] \in Busy
    /\ Fault
    /\ worker' = [worker EXCEPT ![r][k] = "gone"]
    /\ UNCHANGED <<table, files, state, local, history, requests>>

ConsoleDies ==
    /\ Fault
    /\ pc' = [t \in Threads |-> "idle"]
    /\ run' = [t \in Threads |-> None]
    /\ held' = [t \in Threads |-> None]
    /\ read' = [t \in Threads |-> "none"]
    /\ todo' = {}
    /\ ret' = "current"
    /\ torn' = torn \union {run[t] : t \in {x \in Threads : pc[x] = "record"}}
    /\ since' = {}
    /\ UNCHANGED <<table, files, state, worker, raced, requests>>

-----------------------------------------------------------------------------

Handles(t) ==
    \/ StartChecks(t)
    \/ StartRefused(t)
    \/ CountRefuses(t)
    \/ Spawns(t)
    \/ SpawnFails(t)
    \/ RecordsLaunch(t)
    \/ Rereads(t)
    \/ ImportRaises(t)
    \/ Imports(t)

Request(t) ==
    \/ HttpCreates(t)
    \/ LeavesQueued(t)
    \/ \E r \in Runs : HttpStarts(t, r)
    \/ \E r \in Runs : HttpResumes(t, r)
    \/ \E r \in Runs : HttpPauses(t, r)
    \/ \E r \in Runs : HttpRefreshes(t, r)
    \/ NotesPause(t)

RunOnce ==
    \/ RefreshesCurrent
    \/ Lists
    \/ RefreshesListed
    \/ RunnerCreates
    \/ CreateRaises
    \/ Projects

Work(r, k) ==
    \/ WorkerPauses(r, k)
    \/ WorkerEnds(r, k)
    \/ WorkerExits(r, k)
    \/ WorkerDies(r, k)

Next ==
    \/ \E t \in Threads : Handles(t)
    \/ RunOnce
    \/ \E t \in Http : Request(t)
    \/ Enables
    \/ Disables
    \/ \E r \in Runs, k \in Launches : Work(r, k)
    \/ ConsoleDies

Spec == Init /\ [][Next]_vars

-----------------------------------------------------------------------------
\* A run has one worker at a time, through pauses, resumptions and restarts:
\* none is started while another is at the research or about to hand it over.
\* A second one is only ever started when two launches of the run overlapped, a
\* launch or a pause overwrote what another handler had recorded meanwhile, an
\* import was so late that another worker had left a receipt, or the console
\* died between starting a worker and recording it.
OneWorkerPerRun ==
    [][\A r \in Runs, k \in Launches :
        (worker[r][k] = "none" /\ worker'[r][k] # "none" /\ r \notin raced \union torn) =>
            \A j \in Launches : worker[r][j] \notin Busy]_vars

\* The runner starts a worker only when none is at work, whatever was started,
\* paused or left behind by a crash before: but for runs whose launch was not
\* yet on record when it listed the active ones, runs whose handlers raced with
\* each other, and runs launched again over a worker that a crash of the console
\* had left unrecorded (whose receipt then counts as that of the new worker).
RunnerWaits ==
    [][pc[Runner] # "record" /\ pc'[Runner] = "record" =>
        \A r \in Runs : Works(r) =>
            \/ r \in since \union raced
            \/ r \in torn /\ \E j, k \in Launches :
                j < k /\ worker[r][j] # "none" /\ worker[r][k] # "none"]_vars
=============================================================================
