--------------------------- MODULE AutoExecution ---------------------------
(***************************************************************************)
(* The unified automatic execution of one environment: the runner thread   *)
(* and its queue of confirmed closes (unified_auto_execution_runner.py),   *)
(* the heartbeat and the operator's actions of the controller              *)
(* (unified_auto_execution_controller.py), and the runtime row and candle  *)
(* checkpoints of the store (unified_auto_execution_store.py).             *)
(*                                                                         *)
(* The adapter is what the order paths look like from here: entries are    *)
(* open, paused or killed, and preflight, reconcile and run_batch succeed, *)
(* fail, or fail for a transient reason.  The heartbeat of the other       *)
(* environment, which the thread runs in turn, only takes time.            *)
(***************************************************************************)
EXTENDS Naturals, FiniteSets, Sequences

CONSTANTS
    Demo,        \* TRUE for okx_demo: candles come as events, not by the clock
    Releases,    \* releases of the environment, all of one timeframe
    Threads,     \* HTTP threads that run actions
    PidReuse,    \* TRUE: the process id of a dead process comes back
    MaxCandle,   \* bound on the number of candles
    MaxDeaths,   \* bound on process deaths
    MaxActions   \* bound on operator actions

ASSUME BooleanAssumption == Demo \in BOOLEAN /\ PidReuse \in BOOLEAN
ASSUME BoundAssumption ==
    MaxCandle \in Nat \ {0} /\ MaxDeaths \in Nat /\ MaxActions \in Nat

VARIABLES
    \* Durable: the SQLite files.
    desired,  \* desiredEnabled
    armed,    \* armedProcessId, 0 for NULL
    status,   \* status of the runtime row
    ckpt,     \* ckpt[r]: candle of the release's checkpoint, 0 for none
    entries,  \* the order path's flags: "open", "paused" or "killed"
    \* Volatile: the runner.
    pc,       \* control state of the runner thread
    wake,     \* _wake_event is set
    queue,    \* _pending_close_events
    accepted, \* _seen_close_sequences
    drained,  \* events of this round still to be run
    event,    \* close event of the heartbeat, 0 for none
    key,      \* candle key of the heartbeat
    due,      \* releases still to be checkpointed
    \* Volatile: the other threads.
    wakers,   \* how many threads are between append and set in wake
    op,       \* op[t]: what the HTTP thread does next
    \* Environment.
    candle,   \* the latest closed candle
    \* History.
    proc,     \* number of the process
    armedIn,  \* process that recorded the ARM, 0 for none
    straddle, \* an ARM or the enabling was withdrawn during this heartbeat
    failed,   \* a heartbeat of the process failed since entries were resumed
    evals,    \* evals[r]: candles of which a batch was completed
    torn,     \* torn[r]: completed, but the process died before the checkpoint
    early,    \* all that is queued was queued when the thread started, which
              \* cleared its wake-up
    disordered, \* a close was accepted after a later one
    deaths,
    actions

row      == <<desired, armed, status>>
durable  == <<row, ckpt, entries>>
beat     == <<drained, event, key, due>>
closes   == <<accepted, early, disordered>>
runner   == <<pc, wake, queue, closes, beat>>
others   == <<wakers, op>>
counters == <<deaths, actions>>
history  == <<proc, armedIn, straddle, failed, evals, torn, counters>>
vars     == <<durable, runner, others, candle, history>>

Statuses == {"disabled", "disarmed", "waiting_for_arm", "armed", "waiting", "running",
             "degraded", "paused"}
BeatPcs  == {"preflight", "reconcile", "schedule", "batch", "inbatch", "save"}
EndPcs   == {"disabled", "disarmed", "waiting", "running", "degraded", "fail", "paused"}
Pcs      == {"off", "read", "wait", "clear", "drain", "next"} \union BeatPcs \union EndPcs
Ops      == {"idle", "start", "enable", "arm", "record", "pause", "paused", "stop",
             "emergency", "disable", "wake"}
Candles  == 1..MaxCandle

TypeOK ==
    /\ desired \in BOOLEAN
    /\ armed \in 0..(MaxDeaths + 1)
    /\ status \in Statuses
    /\ ckpt \in [Releases -> 0..MaxCandle]
    /\ entries \in {"open", "paused", "killed"}
    /\ pc \in Pcs
    /\ wake \in BOOLEAN
    /\ queue \in Seq(Candles)
    /\ accepted \subseteq Candles
    /\ drained \in Seq(Candles)
    /\ event \in 0..MaxCandle
    /\ key \in 0..MaxCandle
    /\ due \subseteq Releases
    /\ wakers \in Nat
    /\ op \in [Threads -> Ops]
    /\ candle \in 0..MaxCandle
    /\ proc \in 1..(MaxDeaths + 1)
    /\ armedIn \in 0..(MaxDeaths + 1)
    /\ straddle \in BOOLEAN
    /\ failed \in BOOLEAN
    /\ evals \in [Releases -> SUBSET Candles]
    /\ torn \in [Releases -> SUBSET Candles]
    /\ early \in BOOLEAN
    /\ disordered \in BOOLEAN
    /\ deaths \in 0..MaxDeaths
    /\ actions \in 0..MaxActions

Init ==
    /\ desired = FALSE
    /\ armed = 0
    /\ status = "disabled"
    /\ ckpt = [r \in Releases |-> 0]
    /\ entries = "paused"
    /\ pc = "off"
    /\ wake = FALSE
    /\ queue = <<>>
    /\ accepted = {}
    /\ drained = <<>>
    /\ event = 0
    /\ key = 0
    /\ due = {}
    /\ wakers = 0
    /\ op = [t \in Threads |-> "idle"]
    /\ candle = IF Demo THEN 0 ELSE 1   \* the clock always has a closed one
    /\ proc = 1
    /\ armedIn = 0
    /\ straddle = FALSE
    /\ failed = FALSE
    /\ evals = [r \in Releases |-> {}]
    /\ torn = [r \in Releases |-> {}]
    /\ early = FALSE
    /\ disordered = FALSE
    /\ deaths = 0
    /\ actions = 0

Pid == IF PidReuse THEN 1 ELSE proc

\* armedForCurrentProcess
Armed == armed = Pid

-----------------------------------------------------------------------------
(* The runner thread.                                                      *)

Goto(p) == pc' = p

Moves(p) ==
    /\ Goto(p)
    /\ UNCHANGED <<durable, wake, queue, closes, beat, others, candle, history>>

\* start: a new thread; both events are cleared, and with them the wake-up of
\* what was queued before (run_server attaches the listener first).
RunnerStarts ==
    /\ pc = "off"
    /\ wake' = FALSE
    /\ early' = (queue # <<>> /\ wakers = 0)
    /\ Goto("read")
    /\ UNCHANGED <<durable, queue, accepted, disordered, beat, others, candle, history>>

\* _wake_event.wait: set, or the interval is over.
WaitEnds == pc = "wait" /\ Moves("clear")

ClearsWake ==
    /\ pc = "clear"
    /\ wake' = FALSE
    /\ Goto("drain")
    /\ UNCHANGED <<durable, queue, closes, beat, others, candle, history>>

\* Mutant: the latest event is taken first.
DrainsLatestFirst ==
    /\ pc = "drain"
    /\ drained' = [i \in 1..Len(queue) |-> queue[Len(queue) + 1 - i]]
    /\ queue' = <<>>
    /\ early' = FALSE
    /\ Goto("next")
    /\ UNCHANGED <<durable, wake, accepted, disordered, event, key, due, others, candle,
                   history>>

\* _drain_close_events
Drains ==
    /\ pc = "drain"
    /\ drained' = queue
    /\ queue' = <<>>
    /\ early' = FALSE
    /\ Goto("next")
    /\ UNCHANGED <<durable, wake, accepted, disordered, event, key, due, others, candle,
                   history>>

\* Mutant: of a round's events the last one only is run.
NextHeartbeatLatest ==
    /\ pc = "next"
    /\ event' = IF drained = <<>> THEN 0 ELSE drained[Len(drained)]
    /\ drained' = <<>>
    /\ Goto("read")
    /\ UNCHANGED <<durable, wake, queue, closes, key, due, others, candle, history>>

\* The next event of the round, or the next round with a heartbeat of its own.
NextHeartbeat ==
    /\ pc = "next"
    /\ IF drained = <<>>
       THEN event' = 0 /\ UNCHANGED drained
       ELSE event' = Head(drained) /\ drained' = Tail(drained)
    /\ Goto("read")
    /\ UNCHANGED <<durable, wake, queue, closes, key, due, others, candle, history>>

\* Mutant: the first heartbeat of a round ends the round.
ReturnsToWait ==
    /\ Goto("wait")
    /\ event' = 0
    /\ key' = 0
    /\ due' = {}
    /\ straddle' = FALSE
    /\ UNCHANGED drained

\* The heartbeat returns: one of a round's events, or the one before the wait.
Returns ==
    /\ Goto(IF event = 0 THEN "wait" ELSE "next")
    /\ event' = 0
    /\ key' = 0
    /\ due' = {}
    /\ straddle' = FALSE
    /\ UNCHANGED drained

-----------------------------------------------------------------------------
(* UnifiedAutoExecutionController.heartbeat                                *)

\* Mutant: some process armed the environment.
ReadsAnyArm ==
    /\ pc = "read"
    /\ key' = IF Demo THEN event ELSE candle
    /\ Goto(IF ~desired THEN "disabled" ELSE IF armed = 0 THEN "disarmed" ELSE "preflight")
    /\ UNCHANGED <<durable, wake, queue, closes, drained, event, due, others, candle,
                   history>>

\* The runtime row is read once, and the clock with it.
ReadsRuntime ==
    /\ pc = "read"
    /\ key' = IF Demo THEN event ELSE candle
    /\ Goto(IF ~desired THEN "disabled" ELSE IF ~Armed THEN "disarmed" ELSE "preflight")
    /\ UNCHANGED <<durable, wake, queue, closes, drained, event, due, others, candle,
                   history>>

\* update_runtime with the status the heartbeat ends with, then the return.
Reports ==
    /\ pc \in {"disabled", "disarmed", "waiting", "running", "degraded", "paused"}
    /\ status' = pc
    /\ Returns
    /\ UNCHANGED <<desired, armed, ckpt, entries, wake, queue, closes, others, candle,
                   proc, armedIn, failed, evals, torn, counters>>

PreflightPasses == pc = "preflight" /\ entries = "open" /\ Moves("reconcile")

Reconciles == pc = "reconcile" /\ Moves("schedule")

\* Demo without an event evaluates nothing; otherwise the releases whose
\* checkpoint is not the candle are due.
Due == {r \in Releases : ckpt[r] # key}

NothingDue ==
    /\ pc = "schedule"
    /\ (Demo /\ event = 0) \/ Due = {}
    /\ Moves("waiting")

\* Mutant: the checkpoints are not consulted.
SchedulesAll ==
    /\ pc = "schedule"
    /\ Demo => event # 0
    /\ due' = Releases
    /\ Goto("batch")
    /\ UNCHANGED <<durable, wake, queue, closes, drained, event, key, others, candle,
                   history>>

Schedules ==
    /\ pc = "schedule"
    /\ Demo => event # 0
    /\ Due # {}
    /\ due' = Due
    /\ Goto("batch")
    /\ UNCHANGED <<durable, wake, queue, closes, drained, event, key, others, candle,
                   history>>

\* run_batch starts: the order path looks at its flags again.
BatchBegins == pc = "batch" /\ entries = "open" /\ Moves("inbatch")

\* It returns ok: every due release was evaluated for the candle.
BatchCompletes ==
    /\ pc = "inbatch"
    /\ evals' = [r \in Releases |-> IF r \in due THEN evals[r] \union {key} ELSE evals[r]]
    /\ Goto("save")
    /\ UNCHANGED <<durable, wake, queue, closes, beat, others, candle, proc, armedIn,
                   straddle, failed, torn, counters>>

\* save_checkpoint, one release after the other.
SavesCheckpoint ==
    /\ pc = "save"
    /\ \E r \in due :
        /\ ckpt' = [ckpt EXCEPT ![r] = key]
        /\ due' = due \ {r}
    /\ UNCHANGED <<row, entries, pc, wake, queue, closes, drained, event, key, others,
                   candle, history>>

Saved == pc = "save" /\ due = {} /\ Moves("running")

\* A Demo reconciliation or batch that failed for a transport reason: degraded,
\* and no pause.
Degrades ==
    /\ Demo
    /\ pc \in {"reconcile", "inbatch"}
    /\ Moves("degraded")

\* A gate is closed, a call is not ok or raises: _handle_failure or the
\* exception handler.
Fails ==
    /\ pc \in {"preflight", "reconcile", "batch", "inbatch"}
    /\ failed' = TRUE
    /\ Goto("fail")
    /\ UNCHANGED <<durable, wake, queue, closes, beat, others, candle, proc, armedIn,
                   straddle, evals, torn, counters>>

\* Mutant: a failure is reported, and the order path left open.
FailureReported == pc = "fail" /\ Moves("paused")

\* adapter.pause
PausesEntries ==
    /\ pc = "fail"
    /\ entries' = IF entries = "killed" THEN "killed" ELSE "paused"
    /\ Goto("paused")
    /\ UNCHANGED <<row, ckpt, wake, queue, closes, beat, others, candle, history>>

-----------------------------------------------------------------------------
(* The market threads (Demo) and the clock.                                *)

CandleCloses ==
    /\ candle < MaxCandle
    /\ candle' = candle + 1
    /\ UNCHANGED <<durable, runner, others, history>>

\* wake with a close event, of a socket or a timer thread: accepted once per
\* process and sequence id, in whatever order they come, also before the thread
\* runs.  A process that starts over may see a candle confirmed again.
AcceptsClose ==
    /\ Demo
    /\ \E k \in 1..candle :
        /\ k \notin accepted
        /\ accepted' = accepted \union {k}
        /\ queue' = Append(queue, k)
        /\ disordered' = \/ disordered
                         \/ \E j \in accepted : k < j
                         \/ \E r \in Releases : k < ckpt[r]
    /\ wakers' = wakers + 1
    /\ early' = FALSE
    /\ UNCHANGED <<durable, pc, wake, beat, op, candle, history>>

\* Mutant: only a thread that waits is woken.
WakesWaiter ==
    /\ wakers > 0
    /\ wakers' = wakers - 1
    /\ wake' = (wake \/ pc = "wait")
    /\ UNCHANGED <<durable, pc, queue, closes, beat, op, candle, history>>

SetsWake ==
    /\ wakers > 0
    /\ wakers' = wakers - 1
    /\ wake' = TRUE
    /\ UNCHANGED <<durable, pc, queue, closes, beat, op, candle, history>>

-----------------------------------------------------------------------------
(* UnifiedAutoExecutionRunner.action and the controller's actions.         *)

Does(t, p) == op' = [op EXCEPT ![t] = p]

Requests(t) ==
    /\ op[t] = "idle"
    /\ pc # "off"
    /\ actions < MaxActions
    /\ actions' = actions + 1
    /\ \E a \in {"start", "arm", "pause", "stop", "emergency"} : Does(t, a)
    /\ UNCHANGED <<durable, runner, wakers, candle, proc, armedIn, straddle, failed, evals,
                   torn, deaths>>

\* The order path is resumed: demo_resume, or the clearing of arm_live_canary.
Resumes ==
    /\ entries' = "open"
    /\ failed' = FALSE

\* start: Demo resumes first (which raises under the kill switch); the ARM of
\* this process is required.
StartResumes(t) ==
    /\ op[t] = "start"
    /\ IF Demo /\ entries # "killed" THEN Resumes ELSE UNCHANGED <<entries, failed>>
    /\ Does(t, IF Armed /\ (Demo => entries # "killed") THEN "enable" ELSE "idle")
    /\ UNCHANGED <<row, ckpt, runner, wakers, candle, proc, armedIn, straddle, evals, torn,
                   counters>>

\* set_desired_enabled(True), whatever became of the ARM.
StartEnables(t) ==
    /\ op[t] = "enable"
    /\ desired' = TRUE
    /\ status' = "waiting_for_arm"
    /\ Does(t, "wake")
    /\ UNCHANGED <<armed, ckpt, entries, runner, wakers, candle, history>>

\* arm: Live clears the order path's flags, Demo has had its release verified.
ArmClears(t) ==
    /\ op[t] = "arm"
    /\ IF Demo THEN UNCHANGED <<entries, failed>> ELSE Resumes
    /\ Does(t, "record")
    /\ UNCHANGED <<row, ckpt, runner, wakers, candle, proc, armedIn, straddle, evals, torn,
                   counters>>

\* record_arm
ArmRecords(t) ==
    /\ op[t] = "record"
    /\ armed' = Pid
    /\ armedIn' = proc
    /\ status' = "armed"
    /\ Does(t, "wake")
    /\ UNCHANGED <<desired, ckpt, entries, runner, wakers, candle, proc, straddle, failed,
                   evals, torn, counters>>

PauseEntries(t) ==
    /\ op[t] = "pause"
    /\ entries' = IF entries = "killed" THEN "killed" ELSE "paused"
    /\ Does(t, "paused")
    /\ UNCHANGED <<row, ckpt, runner, wakers, candle, history>>

PauseReports(t) ==
    /\ op[t] = "paused"
    /\ status' = "paused"
    /\ Does(t, "wake")
    /\ UNCHANGED <<desired, armed, ckpt, entries, runner, wakers, candle, history>>

Withdraws == straddle' = (straddle \/ pc \in BeatPcs)

\* disarm, in stop and emergency_stop.
Disarms(t) ==
    /\ op[t] = "stop"
    /\ armed' = 0
    /\ armedIn' = 0
    /\ status' = "disarmed"
    /\ Withdraws
    /\ Does(t, "disable")
    /\ UNCHANGED <<desired, ckpt, entries, runner, wakers, candle, proc, failed, evals,
                   torn, counters>>

\* set_desired_enabled(False)
Disables(t) ==
    /\ op[t] = "disable"
    /\ desired' = FALSE
    /\ status' = "disabled"
    /\ Withdraws
    /\ Does(t, "wake")
    /\ UNCHANGED <<armed, ckpt, entries, runner, wakers, candle, proc, armedIn, failed,
                   evals, torn, counters>>

\* emergency_stop begins with the adapter's kill switch, which may raise, its
\* flags written or not: then nothing is disarmed.
Kills(t) ==
    /\ op[t] = "emergency"
    /\ \/ entries' = "killed" /\ Does(t, "stop")
       \/ entries' \in {entries, "killed"} /\ Does(t, "idle")
    /\ UNCHANGED <<row, ckpt, runner, wakers, candle, history>>

\* wake without an event ends every action that succeeded.
ActionWakes(t) ==
    /\ op[t] = "wake"
    /\ wake' = TRUE
    /\ Does(t, "idle")
    /\ UNCHANGED <<durable, pc, queue, closes, beat, wakers, candle, history>>

-----------------------------------------------------------------------------
\* The process dies and another one is started.
Dies ==
    /\ deaths < MaxDeaths
    /\ deaths' = deaths + 1
    /\ proc' = proc + 1
    /\ torn' = [r \in Releases |-> IF pc = "save" /\ r \in due
                                   THEN torn[r] \union {key} ELSE torn[r]]
    /\ Goto("off")
    /\ wake' = FALSE
    /\ queue' = <<>>
    /\ accepted' = {}
    /\ drained' = <<>>
    /\ event' = 0
    /\ key' = 0
    /\ due' = {}
    /\ wakers' = 0
    /\ early' = FALSE
    /\ op' = [t \in Threads |-> "idle"]
    /\ straddle' = FALSE
    /\ failed' = FALSE
    /\ UNCHANGED <<durable, candle, armedIn, disordered, evals, actions>>

-----------------------------------------------------------------------------

Runner ==
    \/ RunnerStarts
    \/ WaitEnds
    \/ ClearsWake
    \/ Drains
    \/ NextHeartbeat
    \/ ReadsRuntime
    \/ Reports
    \/ PreflightPasses
    \/ Reconciles
    \/ NothingDue
    \/ Schedules
    \/ BatchBegins
    \/ BatchCompletes
    \/ SavesCheckpoint
    \/ Saved
    \/ Degrades
    \/ Fails
    \/ PausesEntries

Market ==
    \/ CandleCloses
    \/ AcceptsClose
    \/ SetsWake

Action(t) ==
    \/ Requests(t)
    \/ StartResumes(t)
    \/ StartEnables(t)
    \/ ArmClears(t)
    \/ ArmRecords(t)
    \/ PauseEntries(t)
    \/ PauseReports(t)
    \/ Disarms(t)
    \/ Disables(t)
    \/ Kills(t)
    \/ ActionWakes(t)

Next ==
    \/ Runner
    \/ Market
    \/ \E t \in Threads : Action(t)
    \/ Dies

Spec == Init /\ [][Next]_vars

\* The runner thread is started and scheduled, its waits end, and so do the calls
\* of its heartbeat.
RunningSpec == Spec /\ WF_vars(Runner)

-----------------------------------------------------------------------------
\* "No live adapter call without a valid ARM" (the design, section 15), and
\* "restarted processes [...] never inherit an old process ARM" (V13.27.2): every
\* batch that begins is of an enabled environment that the operator armed in
\* this process, or of the one heartbeat that had read the row when the ARM was
\* withdrawn.
StopInFlight ==
    [][pc = "batch" /\ pc' = "inbatch" =>
          (desired /\ Armed /\ armedIn = proc) \/ straddle]_vars

\* A failure that is not transient stops entries: no batch begins in this
\* process until the operator has resumed them, whatever other threads do
\* meanwhile.
FailureStops ==
    [][pc = "batch" /\ pc' = "inbatch" => ~failed]_vars

\* "A confirmed close wakes the runner immediately" (2026-07-13-top100-demo-
\* release.md:293): while the thread waits with a close queued, the wake-up is
\* set, or a thread that queued one is about to set it.  The exception is the
\* start: what was queued and signalled before the thread ran waits for the
\* interval, an action of the operator, or the next close.
NoLostWakeup ==
    pc = "wait" /\ queue # <<>> => wake \/ wakers > 0 \/ early

\* A checkpoint never goes back to an earlier candle: events are run in the
\* order in which they were accepted, across failures, deaths and restarts, as
\* long as no close was accepted after a later one, of the queue or of a
\* checkpoint.
CheckpointsAdvance ==
    [][disordered \/ \A r \in Releases : ckpt'[r] >= ckpt[r]]_vars

\* "Evaluate once per newly closed candle" (the design, section 6): a batch is
\* completed twice for a release and candle only if the process died between
\* the batch and the checkpoint, or closes were accepted out of order.
OnceUnlessTorn ==
    [][pc = "inbatch" /\ pc' = "save" =>
          disordered \/ \A r \in due : key \in evals[r] => key \in torn[r]]_vars

\* A close that the process has accepted and whose heartbeat has not ended.
Owed(k) ==
    \/ \E i \in DOMAIN queue : queue[i] = k
    \/ \E i \in DOMAIN drained : drained[i] = k
    \/ event = k

\* Its heartbeat ends, and if it says that it ran the candle, every release has
\* its checkpoint there.
EndsFor(k) ==
    /\ event = k
    /\ pc \in EndPcs \ {"fail"}
    /\ pc = "running" => \A r \in Releases : ckpt[r] = k

\* No step loses an accepted close: the drain, the next heartbeat, a failure, a
\* stop or a pause leaves it owed until its own heartbeat ends; only a death of
\* the process takes it away.  The safety part of ClosesAreRun.
ClosesAreKept ==
    [][\A k \in Candles :
          Owed(k) => Owed(k)' \/ EndsFor(k) \/ k \notin accepted']_vars

\* Every close that was accepted is run: it does not stay queued or drained.
ClosesAreRun ==
    \A k \in Candles :
        (\E i \in DOMAIN queue : queue[i] = k)
            ~> (event = k \/ k \notin accepted)
=============================================================================
