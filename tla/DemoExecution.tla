--------------------------- MODULE DemoExecution ---------------------------
(***************************************************************************)
(* The OKX Demo order path: the batch cycle of evolution_demo_service.py,  *)
(* the order lifecycle of demo_execution_engine.py, the SQLite ledger of   *)
(* demo_execution_store.py, the operator's pause, resume and kill switch,  *)
(* and the exchange behind them.                                           *)
(*                                                                         *)
(* A caller is a thread that runs batch cycles: the automatic runner, or   *)
(* an HTTP request thread (POST of a manual cycle).  Each has its own      *)
(* store connection, so every statement that commits is a step of its own, *)
(* and the process may die between any two of them.                        *)
(*                                                                         *)
(* A signal stands for one (release, candidate, instrument, side, signal   *)
(* time), that is for one idempotency key and one clOrdId.                 *)
(***************************************************************************)
EXTENDS Naturals, FiniteSets

CONSTANTS
    Callers,         \* threads that run batch cycles
    Signals,         \* idempotency keys
    Verified,        \* callers and signals: the engine's identity is the release's
    PayloadRepeats,  \* TRUE: a signal is presented again with identical content
    NoSignal,        \* the caller is working on no signal
    MaxCrashes       \* bound on process restarts

ASSUME CallerAssumption == Verified \subseteq Callers \X Signals
ASSUME SignalAssumption == NoSignal \notin Signals
ASSUME PayloadAssumption == PayloadRepeats \in BOOLEAN
ASSUME CrashAssumption == MaxCrashes \in Nat

VARIABLES
    \* Durable: the SQLite ledger.
    rec,        \* rec[s]: status of the signal's record, "none" if there is none
    paused,     \* runtime flag "paused"
    killSwitch, \* runtime flag "killSwitch"
    \* The exchange and the network.
    exch,       \* exch[s]: state of the latest order the exchange holds for s
    requests,   \* place-order requests on the wire
    timer,      \* cancel-all-after countdown
    \* Volatile: the control state of each caller.
    pc,         \* where the caller is in its cycle
    sig,        \* the signal it is working on
    todo,       \* what is left of the pass or of the batch
    residue,    \* the pass recovered a prepared or unknown record
    answer,     \* the response held: to a placement or to a query
    \* Volatile: the operator's requests.
    resumer,
    killer,
    \* History.
    sends,      \* sends[s]: how many placement requests were sent for s
    orphans,    \* signals whose intent a restart left prepared
    straddle,   \* signals past the gates or on the wire when the countdown ran out
    ambiguous,  \* ambiguous[c]: c met an ambiguous placement in this batch
    crashes

durable  == <<rec, paused, killSwitch>>
exchange == <<exch, requests, timer>>
local    == <<pc, sig, todo, residue, answer>>
operator == <<resumer, killer>>
history  == <<sends, orphans, straddle, ambiguous, crashes>>
vars     == <<durable, exchange, local, operator, history>>

Terminal    == {"filled", "canceled", "rejected"}
\* "live" stands for live and partially_filled: nothing in the code tells
\* them apart.  "canceled" stands for canceled and mmp_canceled.
Open        == {"submitted", "live", "unknown"}
Recoverable == Open \union {"prepared"}
RecStatus   == {"none"} \union Recoverable \union Terminal
ExchStatus  == {"none", "live", "filled", "canceled"}
Replies     == {"accepted", "rejected", "unavailable"}
Work        == Signals \X {"prepared", "open", "entry"}

\* Control states of a caller that may still place an order in this cycle.
GatePcs  == {"batch", "killgate"}
PastGate == {"pausegate", "lookup", "insert", "reread", "send"}
PlacePcs == {"await", "rejectpause", "fail", "failpause", "raised", "after"}
EntryPcs == GatePcs \union PastGate \union PlacePcs
PassPcs  == {"list", "recover", "settle"}
Pcs      == {"idle"} \union PassPcs \union EntryPcs

NoAnswer == "none"

TypeOK ==
    /\ rec \in [Signals -> RecStatus]
    /\ paused \in BOOLEAN
    /\ killSwitch \in BOOLEAN
    /\ exch \in [Signals -> ExchStatus]
    /\ requests \subseteq [sig : Signals, by : Callers]
    /\ timer \in {"off", "armed", "fired"}
    /\ pc \in [Callers -> Pcs]
    /\ sig \in [Callers -> Signals \union {NoSignal}]
    /\ todo \in [Callers -> SUBSET Work]
    /\ residue \in [Callers -> BOOLEAN]
    /\ answer \in [Callers -> {NoAnswer} \union Replies \union ExchStatus \union {"unknown"}]
    /\ resumer \in {"idle", "clearing"}
    /\ killer \in {"idle", "flagged", "pausing"}
    /\ sends \in [Signals -> Nat]
    /\ orphans \subseteq Signals
    /\ straddle \subseteq Signals
    /\ ambiguous \in [Callers -> BOOLEAN]
    /\ crashes \in 0..MaxCrashes

Init ==
    /\ rec = [s \in Signals |-> "none"]
    /\ paused = FALSE
    /\ killSwitch = FALSE
    /\ exch = [s \in Signals |-> "none"]
    /\ requests = {}
    /\ timer = "off"
    /\ pc = [c \in Callers |-> "idle"]
    /\ sig = [c \in Callers |-> NoSignal]
    /\ todo = [c \in Callers |-> {}]
    /\ residue = [c \in Callers |-> FALSE]
    /\ answer = [c \in Callers |-> NoAnswer]
    /\ resumer = "idle"
    /\ killer = "idle"
    /\ sends = [s \in Signals |-> 0]
    /\ orphans = {}
    /\ straddle = {}
    /\ ambiguous = [c \in Callers |-> FALSE]
    /\ crashes = 0

-----------------------------------------------------------------------------
(* Steps shared by the handlers.                                           *)

Goto(c, p) == pc' = [pc EXCEPT ![c] = p]

\* The cycle returns or an exception leaves it: the stack is gone.
Leave(c) ==
    /\ pc' = [pc EXCEPT ![c] = "idle"]
    /\ sig' = [sig EXCEPT ![c] = NoSignal]
    /\ todo' = [todo EXCEPT ![c] = {}]
    /\ residue' = [residue EXCEPT ![c] = FALSE]
    /\ answer' = [answer EXCEPT ![c] = NoAnswer]
    /\ ambiguous' = [ambiguous EXCEPT ![c] = FALSE]

\* DemoExecutionStore.update_record: an unconditional UPDATE of the status.
UpdateRecord(s, status) == rec' = [rec EXCEPT ![s] = status]

\* DemoExecutionEngine.pause
Pause == paused' = TRUE

-----------------------------------------------------------------------------
(* The recovery pass that opens every cycle.                               *)

\* build_evolution_demo_status finds no blocker: not paused, not killed.
BeginCycle(c) ==
    /\ pc[c] = "idle"
    /\ ~paused
    /\ ~killSwitch
    /\ Goto(c, "list")
    /\ UNCHANGED <<durable, exchange, sig, todo, residue, answer, operator, history>>

\* Mutant: ambiguous records are left out of the list.
ListWithoutUnknown(c) ==
    /\ pc[c] = "list"
    /\ todo' = [todo EXCEPT ![c] =
            {<<s, "prepared">> : s \in {x \in Signals : rec[x] = "prepared"}}
            \union {<<s, "open">> : s \in {x \in Signals : rec[x] \in {"submitted", "live"}}}]
    /\ Goto(c, "recover")
    /\ UNCHANGED <<durable, exchange, sig, residue, answer, operator, history>>

\* recover_open_records: the list is a snapshot, worked off record by record.
ListRecoverable(c) ==
    /\ pc[c] = "list"
    /\ todo' = [todo EXCEPT ![c] =
            {<<s, "prepared">> : s \in {x \in Signals : rec[x] = "prepared"}}
            \union {<<s, "open">> : s \in {x \in Signals : rec[x] \in Open}}]
    /\ Goto(c, "recover")
    /\ UNCHANGED <<durable, exchange, sig, residue, answer, operator, history>>

\* Mutant: the pass pauses, but does not tell the guard what it found.
RecoverPreparedSilently(c) ==
    /\ pc[c] = "recover"
    /\ \E s \in Signals :
        /\ <<s, "prepared">> \in todo[c]
        /\ todo' = [todo EXCEPT ![c] = @ \ {<<s, "prepared">>}]
    /\ Pause
    /\ UNCHANGED <<rec, killSwitch, exchange, pc, sig, residue, answer, operator,
                   history>>

\* A prepared record is never queried: the runtime is paused instead.
RecoverPrepared(c) ==
    /\ pc[c] = "recover"
    /\ \E s \in Signals :
        /\ <<s, "prepared">> \in todo[c]
        /\ todo' = [todo EXCEPT ![c] = @ \ {<<s, "prepared">>}]
    /\ Pause
    /\ residue' = [residue EXCEPT ![c] = TRUE]
    /\ UNCHANGED <<rec, killSwitch, exchange, pc, sig, answer, operator, history>>

\* reconcile returns at once when the record has become terminal meanwhile.
ReconcileTerminal(c) ==
    /\ pc[c] = "recover"
    /\ \E s \in Signals :
        /\ <<s, "open">> \in todo[c]
        /\ rec[s] \in Terminal
        /\ todo' = [todo EXCEPT ![c] = @ \ {<<s, "open">>}]
    /\ UNCHANGED <<durable, exchange, pc, sig, residue, answer, operator, history>>

\* reconcile, up to the answer of get_order.  The record is written later.
ReconcileQuery(c, s) ==
    /\ pc[c] = "recover"
    /\ <<s, "open">> \in todo[c]
    /\ rec[s] \notin Terminal
    /\ todo' = [todo EXCEPT ![c] = @ \ {<<s, "open">>}]
    /\ sig' = [sig EXCEPT ![c] = s]
    /\ Goto(c, "settle")
    /\ UNCHANGED <<rec, killSwitch, exchange, residue, operator, history>>

\* get_order finds the order: its state is what will be written.
ReconcileAnswered(c, s) ==
    /\ ReconcileQuery(c, s)
    /\ exch[s] # "none"
    /\ answer' = [answer EXCEPT ![c] = exch[s]]
    /\ UNCHANGED paused

\* Mutant: "no such order" is taken for a canceled order.
UnresolvedMeansCanceled(c, s) ==
    /\ ReconcileQuery(c, s)
    /\ answer' = [answer EXCEPT ![c] = "canceled"]
    /\ Pause

\* An error code, or no such order: pause("order_query_unknown").
ReconcileUnresolved(c, s) ==
    /\ ReconcileQuery(c, s)
    /\ answer' = [answer EXCEPT ![c] = "unknown"]
    /\ Pause

\* get_order, or the private read after the pass, raises OkxDemoError: the
\* cycle reports a transient failure and returns without pausing.
TransientFailure(c) ==
    /\ pc[c] = "recover"
    /\ Leave(c)
    /\ UNCHANGED <<durable, exchange, operator, sends, orphans, straddle, crashes>>

\* update_record at the end of reconcile, whatever the record says by now.
ReconcileWrite(c) ==
    /\ pc[c] = "settle"
    /\ UpdateRecord(sig[c], answer[c])
    /\ residue' = [residue EXCEPT ![c] = @ \/ answer[c] = "unknown"]
    /\ sig' = [sig EXCEPT ![c] = NoSignal]
    /\ answer' = [answer EXCEPT ![c] = NoAnswer]
    /\ Goto(c, "recover")
    /\ UNCHANGED <<paused, killSwitch, exchange, todo, operator, history>>

\* The private read answers an error code, or evaluate_demo_runtime_guard
\* finds an unresolved record (always) or an account drift (any time): pause.
GuardBlocks(c) ==
    /\ pc[c] = "recover"
    /\ todo[c] = {}
    /\ Pause
    /\ Leave(c)
    /\ UNCHANGED <<rec, killSwitch, exchange, operator, sends, orphans, straddle,
                   crashes>>

\* Mutant: unresolved records do not block the batch.
GuardPassesResidue(c) ==
    /\ pc[c] = "recover"
    /\ todo[c] = {}
    /\ \E batch \in SUBSET Signals :
        todo' = [todo EXCEPT ![c] = {<<s, "entry">> : s \in batch}]
    /\ Goto(c, "batch")
    /\ UNCHANGED <<durable, exchange, sig, residue, answer, operator, history>>

\* The guard passes, and arbitration leaves some set of signals to execute.
GuardPasses(c) ==
    /\ pc[c] = "recover"
    /\ todo[c] = {}
    /\ ~residue[c]
    /\ \E batch \in SUBSET Signals :
        todo' = [todo EXCEPT ![c] = {<<s, "entry">> : s \in batch}]
    /\ Goto(c, "batch")
    /\ UNCHANGED <<durable, exchange, sig, residue, answer, operator, history>>

-----------------------------------------------------------------------------
(* The batch: one execute() per arbitrated signal.                         *)

\* The loop over globally_selected is over.
EndBatch(c) ==
    /\ pc[c] = "batch"
    /\ todo[c] = {}
    /\ Leave(c)
    /\ UNCHANGED <<durable, exchange, operator, sends, orphans, straddle, crashes>>

\* The next signal of the batch leaves the list of work.
NextSignal(c, s) ==
    /\ pc[c] = "batch"
    /\ <<s, "entry">> \in todo[c]
    /\ todo' = [todo EXCEPT ![c] = @ \ {<<s, "entry">>}]

\* The latency gate or the exchange's set-leverage refuses: continue.
SkipSignal(c) ==
    /\ \E s \in Signals : NextSignal(c, s)
    /\ UNCHANGED <<durable, exchange, pc, sig, residue, answer, operator, history>>

\* set_leverage raises OkxDemoError: pause and break.
LeverageUnknown(c) ==
    /\ pc[c] = "batch"
    /\ todo[c] # {}
    /\ Pause
    /\ Leave(c)
    /\ UNCHANGED <<rec, killSwitch, exchange, operator, sends, orphans, straddle,
                   crashes>>

LeverageSet(c) ==
    /\ \E s \in Signals :
        /\ NextSignal(c, s)
        /\ sig' = [sig EXCEPT ![c] = s]
    /\ Goto(c, "killgate")
    /\ UNCHANGED <<durable, exchange, residue, answer, operator, history>>

\* assert_runtime_identity raises PermissionError, which the batch does not
\* catch: the cycle is abandoned.
IdentityRefused(c) ==
    /\ pc[c] = "killgate"
    /\ <<c, sig[c]>> \notin Verified
    /\ Leave(c)
    /\ UNCHANGED <<durable, exchange, operator, sends, orphans, straddle, crashes>>

\* Mutant: only the pause is checked.
SkipKillSwitch(c) ==
    /\ pc[c] = "killgate"
    /\ <<c, sig[c]>> \in Verified
    /\ Goto(c, "pausegate")
    /\ UNCHANGED <<durable, exchange, sig, todo, residue, answer, operator, history>>

\* execute reads the two flags one after the other.
ReadKillSwitch(c) ==
    /\ pc[c] = "killgate"
    /\ <<c, sig[c]>> \in Verified
    /\ Goto(c, IF killSwitch THEN "after" ELSE "pausegate")
    /\ UNCHANGED <<durable, exchange, sig, todo, residue, answer, operator, history>>

\* The risk envelope, evaluated next, may also refuse.
ReadPaused(c) ==
    /\ pc[c] = "pausegate"
    /\ \/ Goto(c, "after")
       \/ ~paused /\ Goto(c, "lookup")
    /\ UNCHANGED <<durable, exchange, sig, todo, residue, answer, operator, history>>

\* Where execute goes with a record it has just read: a record that is not
\* prepared is returned; the batch counts a live one and moves on.
AfterIntent(status) ==
    CASE status = "prepared" -> "send"
      [] status \in {"submitted", "live", "filled"} -> "batch"
      [] OTHER -> "after"

\* Mutant: the order is sent first, and recorded with its outcome.
LookupThenSend(c) ==
    /\ pc[c] = "lookup"
    /\ Goto(c, IF rec[sig[c]] = "none" THEN "send" ELSE "after")
    /\ UNCHANGED <<durable, exchange, sig, todo, residue, answer, operator, history>>

\* Mutant: a record with other content is taken for the caller's own.
LookupIgnoresContent(c) ==
    /\ pc[c] = "lookup"
    /\ Goto(c, IF rec[sig[c]] = "none" THEN "insert" ELSE AfterIntent(rec[sig[c]]))
    /\ UNCHANGED <<durable, exchange, sig, todo, residue, answer, operator, history>>

\* create_intent: SELECT by idempotency key.  An existing record with other
\* content raises RuntimeError; the batch stamps every signal with its own
\* latencyAudit, so there the content always differs.
LookupIntent(c) ==
    /\ pc[c] = "lookup"
    /\ Goto(c, IF rec[sig[c]] = "none" THEN "insert"
               ELSE IF PayloadRepeats THEN AfterIntent(rec[sig[c]])
               ELSE "after")
    /\ UNCHANGED <<durable, exchange, sig, todo, residue, answer, operator, history>>

\* create_intent: INSERT, on a UNIQUE key.
InsertIntent(c) ==
    /\ pc[c] = "insert"
    /\ rec[sig[c]] = "none"
    /\ UpdateRecord(sig[c], "prepared")
    /\ Goto(c, "reread")
    /\ UNCHANGED <<paused, killSwitch, exchange, sig, todo, residue, answer,
                   operator, history>>

\* Another caller inserted first: IntegrityError leaves the cycle.
InsertConflict(c) ==
    /\ pc[c] = "insert"
    /\ rec[sig[c]] # "none"
    /\ Leave(c)
    /\ UNCHANGED <<durable, exchange, operator, sends, orphans, straddle, crashes>>

\* create_intent returns get_record; execute goes on only if it is prepared.
RereadIntent(c) ==
    /\ pc[c] = "reread"
    /\ Goto(c, AfterIntent(rec[sig[c]]))
    /\ UNCHANGED <<durable, exchange, sig, todo, residue, answer, operator, history>>

\* _place_order, by private WebSocket or by REST.  The REST fallback is taken
\* only when the WebSocket sent nothing, so the request is sent once.
SendRequest(c) ==
    /\ pc[c] = "send"
    /\ requests' = requests \union {[sig |-> sig[c], by |-> c]}
    /\ sends' = [sends EXCEPT ![sig[c]] = @ + 1]
    /\ Goto(c, "await")
    /\ UNCHANGED <<durable, exch, timer, sig, todo, residue, answer, operator,
                   orphans, straddle, ambiguous, crashes>>

\* _place_order raises before anything is sent.
SendFails(c) ==
    /\ pc[c] = "send"
    /\ Goto(c, "fail")
    /\ UNCHANGED <<durable, exchange, sig, todo, residue, answer, operator, history>>

\* No response in time, or a broken channel.  The request may still arrive.
AwaitFails(c) ==
    /\ pc[c] = "await"
    /\ answer' = [answer EXCEPT ![c] = NoAnswer]
    /\ Goto(c, "fail")
    /\ UNCHANGED <<durable, exchange, sig, todo, residue, operator, history>>

\* The accepted order is recorded, and the batch moves on.
RecordSubmitted(c) ==
    /\ pc[c] = "await"
    /\ answer[c] = "accepted"
    /\ UpdateRecord(sig[c], "submitted")
    /\ sig' = [sig EXCEPT ![c] = NoSignal]
    /\ answer' = [answer EXCEPT ![c] = NoAnswer]
    /\ Goto(c, "batch")
    /\ UNCHANGED <<paused, killSwitch, exchange, todo, residue, operator, history>>

\* A rejection is recorded; only 51001 (instrument unavailable) is not fatal.
RecordRejected(c) ==
    /\ pc[c] = "await"
    /\ answer[c] \in {"rejected", "unavailable"}
    /\ UpdateRecord(sig[c], "rejected")
    /\ answer' = [answer EXCEPT ![c] = NoAnswer]
    /\ Goto(c, IF answer[c] = "rejected" THEN "rejectpause" ELSE "after")
    /\ UNCHANGED <<paused, killSwitch, exchange, sig, todo, residue, operator, history>>

\* Mutant: a rejection is raised, and so meets the exception handler.
RejectionRaised(c) ==
    /\ pc[c] = "rejectpause"
    /\ Goto(c, "fail")
    /\ UNCHANGED <<durable, exchange, sig, todo, residue, answer, operator, history>>

PauseRejected(c) ==
    /\ pc[c] = "rejectpause"
    /\ Pause
    /\ Goto(c, "after")
    /\ UNCHANGED <<rec, killSwitch, exchange, sig, todo, residue, answer, operator,
                   history>>

\* Mutant: a placement without an answer is closed as rejected.
TimeoutMeansRejected(c) ==
    /\ pc[c] = "fail"
    /\ UpdateRecord(sig[c], "rejected")
    /\ Goto(c, "failpause")
    /\ UNCHANGED <<paused, killSwitch, exchange, sig, todo, residue, answer,
                   operator, history>>

\* The exception handler of execute: first the record, then the pause.
RecordUnknown(c) ==
    /\ pc[c] = "fail"
    /\ UpdateRecord(sig[c], "unknown")
    /\ Goto(c, "failpause")
    /\ UNCHANGED <<paused, killSwitch, exchange, sig, todo, residue, answer,
                   operator, history>>

\* The exception is raised again.  A RuntimeError or ValueError goes on to the
\* check below; any other one ends the cycle (see AbandonBatch).
PauseUnknown(c) ==
    /\ pc[c] = "failpause"
    /\ Pause
    /\ ambiguous' = [ambiguous EXCEPT ![c] = TRUE]
    /\ Goto(c, "raised")
    /\ UNCHANGED <<rec, killSwitch, exchange, sig, todo, residue, answer, operator,
                   sends, orphans, straddle, crashes>>

\* OkxDemoError: the batch pauses once more ("leverage_state_unknown") and
\* breaks.  An exception it does not catch ends the cycle as well.
AbandonBatch(c) ==
    /\ pc[c] = "raised"
    /\ \/ Pause
       \/ UNCHANGED paused
    /\ Leave(c)
    /\ UNCHANGED <<rec, killSwitch, exchange, operator, sends, orphans, straddle,
                   crashes>>

\* Mutant: the batch goes on without asking.
CarryOn(c) ==
    /\ pc[c] \in {"after", "raised"}
    /\ Goto(c, "batch")
    /\ sig' = [sig EXCEPT ![c] = NoSignal]
    /\ UNCHANGED <<durable, exchange, todo, residue, answer, operator, history>>

\* After a signal that created no order the batch reads the flag again.
CheckPaused(c) ==
    /\ pc[c] \in {"after", "raised"}
    /\ \/ /\ paused
          /\ Leave(c)
       \/ /\ ~paused
          /\ Goto(c, "batch")
          /\ sig' = [sig EXCEPT ![c] = NoSignal]
          /\ UNCHANGED <<todo, residue, answer, ambiguous>>
    /\ UNCHANGED <<durable, exchange, operator, sends, orphans, straddle, crashes>>

-----------------------------------------------------------------------------
(* The exchange, modelled from how the client uses it.                     *)

\* The response reaches the caller only if it still waits for it.
Reply(r, reply) ==
    answer' = IF pc[r.by] = "await" /\ sig[r.by] = r.sig
              THEN [answer EXCEPT ![r.by] = reply]
              ELSE answer

\* A clOrdId only has to differ from those of orders that are open now.
ExchangeAccepts(r) ==
    /\ exch[r.sig] # "live"
    /\ exch' = [exch EXCEPT ![r.sig] = "live"]
    /\ requests' = requests \ {r}
    /\ Reply(r, "accepted")
    /\ UNCHANGED <<durable, timer, pc, sig, todo, residue, operator, history>>

ExchangeRejects(r) ==
    /\ requests' = requests \ {r}
    /\ \E reply \in {"rejected", "unavailable"} : Reply(r, reply)
    /\ UNCHANGED <<durable, exch, timer, pc, sig, todo, residue, operator, history>>

\* Lost, or past its expiry time.
RequestLost(r) ==
    /\ requests' = requests \ {r}
    /\ UNCHANGED <<durable, exch, timer, local, operator, history>>

\* An open order fills, or is canceled by the exchange or by a person.
OrderCloses(s) ==
    /\ exch[s] = "live"
    /\ \E state \in {"filled", "canceled"} : exch' = [exch EXCEPT ![s] = state]
    /\ UNCHANGED <<durable, requests, timer, local, operator, history>>

\* The cancel-all-after countdown runs out: every open order is canceled.
CountdownRunsOut ==
    /\ timer = "armed"
    /\ timer' = "fired"
    /\ exch' = [s \in Signals |-> IF exch[s] = "live" THEN "canceled" ELSE exch[s]]
    /\ straddle' = {r.sig : r \in requests}
            \union {sig[c] : c \in {x \in Callers : pc[x] \in PastGate}}
    /\ UNCHANGED <<durable, requests, local, operator, sends, orphans, ambiguous,
                   crashes>>

-----------------------------------------------------------------------------
(* The operator.                                                           *)

\* pause_evolution_demo_runtime
OperatorPause ==
    /\ Pause
    /\ UNCHANGED <<rec, killSwitch, exchange, local, operator, history>>

\* resume_evolution_demo_runtime reads the kill switch first ...
ResumeCheck ==
    /\ resumer = "idle"
    /\ ~killSwitch
    /\ resumer' = "clearing"
    /\ UNCHANGED <<durable, exchange, local, killer, history>>

\* ... and then clears the pause.
ResumeClear ==
    /\ resumer = "clearing"
    /\ resumer' = "idle"
    /\ paused' = FALSE
    /\ ambiguous' = [c \in Callers |-> FALSE]
    /\ UNCHANGED <<rec, killSwitch, exchange, local, killer, sends, orphans,
                   straddle, crashes>>

\* activate_kill_switch: two flags, each committed, then the exchange.
KillFlag ==
    /\ killer = "idle"
    /\ killSwitch' = TRUE
    /\ killer' = "flagged"
    /\ UNCHANGED <<rec, paused, exchange, local, resumer, history>>

KillPause ==
    /\ killer = "flagged"
    /\ Pause
    /\ killer' = "pausing"
    /\ UNCHANGED <<rec, killSwitch, exchange, local, resumer, history>>

\* cancel_all_after(10); an error leaves the exchange as it was.
KillCancelAll ==
    /\ killer = "pausing"
    /\ killer' = "idle"
    /\ \/ timer' = "armed"
       \/ UNCHANGED timer
    /\ UNCHANGED <<durable, exch, requests, local, resumer, history>>

-----------------------------------------------------------------------------
\* The process dies and is started again: the ledger, the exchange and what is
\* on the wire survive, and every thread starts over.
Crash ==
    /\ crashes < MaxCrashes
    /\ crashes' = crashes + 1
    /\ pc' = [c \in Callers |-> "idle"]
    /\ sig' = [c \in Callers |-> NoSignal]
    /\ todo' = [c \in Callers |-> {}]
    /\ residue' = [c \in Callers |-> FALSE]
    /\ answer' = [c \in Callers |-> NoAnswer]
    /\ resumer' = "idle"
    /\ killer' = "idle"
    /\ ambiguous' = [c \in Callers |-> FALSE]
    /\ orphans' = {s \in Signals : rec[s] = "prepared"}
    /\ UNCHANGED <<durable, exchange, sends, straddle>>

-----------------------------------------------------------------------------

Recovery(c) ==
    \/ BeginCycle(c)
    \/ ListRecoverable(c)
    \/ RecoverPrepared(c)
    \/ ReconcileTerminal(c)
    \/ \E s \in Signals : ReconcileAnswered(c, s)
    \/ \E s \in Signals : ReconcileUnresolved(c, s)
    \/ TransientFailure(c)
    \/ ReconcileWrite(c)
    \/ GuardBlocks(c)
    \/ GuardPasses(c)

Batch(c) ==
    \/ EndBatch(c)
    \/ SkipSignal(c)
    \/ LeverageUnknown(c)
    \/ LeverageSet(c)
    \/ AbandonBatch(c)
    \/ CheckPaused(c)

Execute(c) ==
    \/ IdentityRefused(c)
    \/ ReadKillSwitch(c)
    \/ ReadPaused(c)
    \/ LookupIntent(c)
    \/ InsertIntent(c)
    \/ InsertConflict(c)
    \/ RereadIntent(c)
    \/ SendRequest(c)
    \/ SendFails(c)
    \/ AwaitFails(c)
    \/ RecordSubmitted(c)
    \/ RecordRejected(c)
    \/ PauseRejected(c)
    \/ RecordUnknown(c)
    \/ PauseUnknown(c)

Cycle(c) == Recovery(c) \/ Batch(c) \/ Execute(c)

Exchange ==
    \/ \E r \in requests : ExchangeAccepts(r)
    \/ \E r \in requests : ExchangeRejects(r)
    \/ \E r \in requests : RequestLost(r)
    \/ \E s \in Signals : OrderCloses(s)
    \/ CountdownRunsOut

Operator ==
    \/ OperatorPause
    \/ ResumeCheck
    \/ ResumeClear
    \/ KillFlag
    \/ KillPause
    \/ KillCancelAll

Next ==
    \/ \E c \in Callers : Cycle(c)
    \/ Exchange
    \/ Operator
    \/ Crash

Spec == Init /\ [][Next]_vars

-----------------------------------------------------------------------------
(* Safety.                                                                 *)

\* The ledger is written ahead of the network: whatever the exchange or the
\* wire holds for a signal has a durable record, across any crash
\* (create_intent commits before _place_order).
IntentBeforeSend ==
    \A s \in Signals :
        (sends[s] > 0 \/ exch[s] # "none" \/ \E r \in requests : r.sig = s)
            => rec[s] # "none"

\* A signal is sent at most once, however many cycles, callers and restarts
\* see it.  The exchange only compares a clOrdId with orders that are open, so
\* nothing but the ledger stands between a second send and a second order.
SentAtMostOnce == \A s \in Signals : sends[s] <= 1

\* The two together, and at most one order for a signal, are what the order
\* path promises: the abstract specification that the Live path implements too.
Promise ==
    INSTANCE OrderPromise WITH
        intended <- {s \in Signals : rec[s] # "none"},
        market   <- [s \in Signals |-> CASE exch[s] = "none" -> "none"
                                         [] exch[s] = "live" -> "open"
                                         [] OTHER -> "done"]

ImplementsOrderPromise == Promise!Spec

\* An intent that a restart left prepared may or may not be an order at the
\* exchange.  From the restart on, no cycle gets past its recovery pass.
CrashResidueBlocksEntries ==
    orphans # {} => \A c \in Callers : pc[c] \notin EntryPcs

\* A record closed as rejected is never looked at again, so there must be no
\* order behind it, and no request that can still become one.
RejectedMeansNoOrder ==
    \A s \in Signals :
        rec[s] = "rejected" => exch[s] = "none" /\ \A r \in requests : r.sig # s

\* A record closed as filled or canceled is what the exchange says, although
\* a reconciliation writes a status it read before other callers' writes.
ClosedMatchesExchange ==
    \A s \in Signals : rec[s] \in {"filled", "canceled"} => exch[s] = rec[s]

\* What the kill switch leaves behind: once the countdown it starts has run
\* out, an order is open only for a signal that was already past the two flag
\* reads of execute, or on the wire, at that moment.
KillExposure ==
    timer = "fired" => \A s \in Signals : exch[s] = "live" => s \in straddle

\* A batch that met an ambiguous placement places nothing else, unless the
\* operator resumes in between: the pause it set is still there when it asks.
AmbiguityStopsBatch ==
    \A c \in Callers : ambiguous[c] => paused /\ pc[c] \in {"raised", "after"}

\* With one caller a closed record never changes again: reconcile skips it and
\* no handler of execute comes back to it.
ClosedIsFinal ==
    [][\A s \in Signals : rec[s] \in Terminal => rec'[s] = rec[s]]_rec

-----------------------------------------------------------------------------
(* Liveness.  The runner's heartbeat starts a cycle again and again, and no *)
(* thread stops inside one; requests leave the wire within their expiry.    *)

RunnerFairness ==
    /\ \A c \in Callers : WF_vars(Cycle(c))
    /\ SF_vars(\E c \in Callers : BeginCycle(c))
    /\ \A s \in Signals : SF_vars(\E c \in Callers : ReconcileAnswered(c, s))
    /\ WF_vars(Exchange)

\* The operator resumes whenever the runtime is paused.
ResumeFairness == WF_vars(ResumeCheck \/ ResumeClear)

\* Nobody reaches for the kill switch, which nothing in the program resets.
AttendedNext ==
    \/ \E c \in Callers : Cycle(c)
    \/ Exchange
    \/ OperatorPause
    \/ ResumeCheck
    \/ ResumeClear
    \/ Crash

AttendedSpec ==
    /\ Init
    /\ [][AttendedNext]_vars
    /\ RunnerFairness
    /\ ResumeFairness

\* A closed order whose record is open is closed in the ledger too, as long as
\* somebody resumes the runtime and nobody kills it.
ClosedOrdersSettle ==
    \A s \in Signals :
        (exch[s] \in {"filled", "canceled"} /\ rec[s] \in Open) ~> rec[s] = exch[s]

=============================================================================
