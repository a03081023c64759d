--------------------------- MODULE LiveExecution ---------------------------
(***************************************************************************)
(* The OKX Live order path: the batch of live_auto_execution_service.py    *)
(* with the reconciliation that precedes it, the order lifecycle of        *)
(* live_execution_engine.py, the ledger of live_execution_store.py, and    *)
(* the operator's arming, pause and kill switch (live_canary_service.py).  *)
(*                                                                         *)
(* A caller is a console process whose heartbeat runs Live cycles, or one  *)
(* of its HTTP threads that reconciles.  They share the ledger, and the    *)
(* execution lease, of which ExecutionLease has the detail: here it is     *)
(* free, held by a caller, or lapsed.                                      *)
(***************************************************************************)
EXTENDS Naturals, FiniteSets

CONSTANTS
    Callers,        \* processes and threads
    Signals,        \* idempotency keys
    Instruments,
    InstrumentOf,   \* the instrument of each signal
    IdentityBound,  \* callers with a runtime_identity_factory
    Stallers,       \* callers that may outlive their lease inside a batch
    MaxPerSymbol,   \* maxPositionsPerSymbol
    MaxPositions,   \* maxConcurrentPositions
    NoSignal,       \* the caller is working on no signal
    None,           \* no lease
    MaxCrashes,     \* bound on process deaths
    MaxArms,        \* bound on ARM requests
    MaxKills        \* bound on kill switch requests

ASSUME CallerAssumption ==
    IdentityBound \subseteq Callers /\ Stallers \subseteq Callers /\ None \notin Callers
ASSUME SignalAssumption == IsFiniteSet(Signals) /\ NoSignal \notin Signals
ASSUME InstrumentAssumption == InstrumentOf \in [Signals -> Instruments]
ASSUME LimitAssumption ==
    MaxPerSymbol \in Nat /\ MaxPositions \in Nat
ASSUME BoundAssumption ==
    MaxCrashes \in Nat /\ MaxArms \in Nat /\ MaxKills \in Nat

VARIABLES
    \* Durable: the SQLite file.
    rec,        \* rec[s]: status of the signal's record, "none" if there is none
    paused,     \* runtime flag "paused"
    killSwitch, \* runtime flag "killSwitch"
    matched,    \* runtime flag "lastReconciliationMatched"
    lease,      \* process whose token the lease row holds
    lapsed,     \* that row has expired
    \* The exchange and the network.
    exch,       \* exch[s]: none, live, filled (a position), canceled, flat, or
                \* partial (canceled, with a position of what was filled before)
    requests,   \* place-order requests on the wire
    timer,      \* cancel-all-after countdown of the last kill switch
    \* Volatile: the control state of each caller.
    pc,
    manual,     \* callers that reconcile for an HTTP request, and do no more
    sig,        \* the signal the caller is working on
    todo,       \* what is left of the recovery pass
    answer,     \* the response held: to a placement or to a query
    seen,       \* what the private reads returned
    \* Volatile: the operator's requests.
    armer,
    killer,
    \* History.
    sends,      \* sends[s]: how many placement requests were sent for s
    doubts,     \* placements of unknown outcome that no ARM has waived
    straddle,   \* signals past the gates or on the wire when the countdown ran out
    overrun,    \* signals in whose batch the lease lapsed under the process at work
    crashes,
    arms,
    kills

flags    == <<paused, killSwitch, matched>>
authority == <<lease, lapsed, overrun>>
exchange == <<exch, requests, timer>>
local    == <<pc, manual, sig, todo, answer, seen>>
operator == <<armer, killer>>
counters == <<crashes, arms, kills>>
history  == <<sends, doubts, straddle, counters>>
vars     == <<rec, flags, authority, exchange, local, operator, history>>

Terminal    == {"filled", "canceled", "rejected"}
Open        == {"submitted", "live", "unknown"}  \* live: partially_filled too
Recoverable == Open \union {"prepared"}
RecStatus   == {"none"} \union Recoverable \union Terminal
ExchStatus  == {"none", "live", "filled", "partial", "canceled", "flat"}
NoAnswer    == "none"
Replies     == {"accepted", "rejected"}

\* Control states inside the lease.
GatePcs  == {"snapshot", "assert", "killgate", "pausegate", "verify", "orders"}
PlacePcs == {"lookup", "insert", "reread", "send"}
AfterPcs == {"await", "rejectpause", "fail", "failpause", "abort", "release",
             "failrelease"}
LeasePcs == GatePcs \union PlacePcs \union AfterPcs
Pcs      == {"idle", "list", "recover", "querypause", "settle", "readpos",
             "readord", "compare", "mismatch", "batch", "lease", "ctlpause"}
            \union LeasePcs

Views == [positions : SUBSET Instruments, orders : SUBSET Signals, full : BOOLEAN]
Blank == [positions |-> {}, orders |-> {}, full |-> FALSE]

TypeOK ==
    /\ rec \in [Signals -> RecStatus]
    /\ paused \in BOOLEAN
    /\ killSwitch \in BOOLEAN
    /\ matched \in BOOLEAN
    /\ lease \in Callers \union {None}
    /\ lapsed \in BOOLEAN
    /\ exch \in [Signals -> ExchStatus]
    /\ requests \subseteq [sig : Signals, by : Callers]
    /\ timer \in {"off", "armed", "fired"}
    /\ pc \in [Callers -> Pcs]
    /\ manual \subseteq Callers
    /\ sig \in [Callers -> Signals \union {NoSignal}]
    /\ todo \in [Callers -> SUBSET (Signals \X {"prepared", "open"})]
    /\ answer \in [Callers -> {NoAnswer, "unknown"} \union Replies \union Terminal
                              \union {"live"}]
    /\ seen \in [Callers -> Views]
    /\ armer \in {"idle", "checked", "unkilled"}
    /\ killer \in {"idle", "flagged", "paused"}
    /\ sends \in [Signals -> Nat]
    /\ doubts \subseteq Signals
    /\ straddle \subseteq Signals
    /\ overrun \subseteq Signals
    /\ crashes \in 0..MaxCrashes
    /\ arms \in 0..MaxArms
    /\ kills \in 0..MaxKills

\* LiveExecutionStore.__init__: a new store is killed and paused.
Init ==
    /\ rec = [s \in Signals |-> "none"]
    /\ paused = TRUE
    /\ killSwitch = TRUE
    /\ matched = FALSE
    /\ lease = None
    /\ lapsed = FALSE
    /\ exch = [s \in Signals |-> "none"]
    /\ requests = {}
    /\ timer = "off"
    /\ pc = [c \in Callers |-> "idle"]
    /\ manual = {}
    /\ sig = [c \in Callers |-> NoSignal]
    /\ todo = [c \in Callers |-> {}]
    /\ answer = [c \in Callers |-> NoAnswer]
    /\ seen = [c \in Callers |-> Blank]
    /\ armer = "idle"
    /\ killer = "idle"
    /\ sends = [s \in Signals |-> 0]
    /\ doubts = {}
    /\ straddle = {}
    /\ overrun = {}
    /\ crashes = 0
    /\ arms = 0
    /\ kills = 0

-----------------------------------------------------------------------------
(* Steps shared by the handlers.                                           *)

Goto(c, p) == pc' = [pc EXCEPT ![c] = p]

\* The call returns, or an exception leaves it: the stack is gone.
Leave(c) ==
    /\ Goto(c, "idle")
    /\ manual' = manual \ {c}
    /\ sig' = [sig EXCEPT ![c] = NoSignal]
    /\ todo' = [todo EXCEPT ![c] = {}]
    /\ answer' = [answer EXCEPT ![c] = NoAnswer]
    /\ seen' = [seen EXCEPT ![c] = Blank]

UpdateRecord(s, status) ==
    /\ rec' = [rec EXCEPT ![s] = status]
    /\ doubts' = IF status \in {"prepared", "unknown"} THEN doubts ELSE doubts \ {s}

Pause == paused' = TRUE

\* Nothing but the control state of c changes.
Moves(c, p) ==
    /\ Goto(c, p)
    /\ UNCHANGED <<rec, flags, authority, exchange, manual, sig, todo, answer, seen,
                   operator, history>>

Positions   == {InstrumentOf[s] : s \in {x \in Signals : exch[x] \in {"filled", "partial"}}}
OpenOrders  == {s \in Signals : exch[s] = "live"}
Recorded(S) == {s \in Signals : rec[s] \in S}

HasAuthority(c) == lease = c /\ ~lapsed

-----------------------------------------------------------------------------
(* preflight, recover_open_records and run_live_readonly_reconciliation.   *)

\* OkxLiveAutoExecutionAdapter.preflight passes.
CycleStarts(c) ==
    /\ pc[c] = "idle"
    /\ ~paused
    /\ ~killSwitch
    /\ matched
    /\ Moves(c, "list")

\* preflight finds a blocker, or a gate is off: the controller will pause.
PreflightBlocked(c) ==
    /\ pc[c] = "idle"
    /\ Moves(c, "ctlpause")

\* POST /api/live-canary/reconcile: without the recovery pass.
ManualReconcile(c) ==
    /\ pc[c] = "idle"
    /\ manual' = manual \union {c}
    /\ Goto(c, "readpos")
    /\ UNCHANGED <<rec, flags, authority, exchange, sig, todo, answer, seen, operator,
                   history>>

\* recover_open_records: a snapshot of the ledger, worked off one by one.
ListsRecoverable(c) ==
    /\ pc[c] = "list"
    /\ todo' = [todo EXCEPT ![c] = (Recorded({"prepared"}) \X {"prepared"})
                                   \union (Recorded(Open) \X {"open"})]
    /\ Goto(c, "recover")
    /\ UNCHANGED <<rec, flags, authority, exchange, manual, sig, answer, seen, operator,
                   history>>

\* Mutant: a prepared record is passed over.
SkipsPrepared(c) ==
    /\ pc[c] = "recover"
    /\ \E s \in Signals :
        /\ <<s, "prepared">> \in todo[c]
        /\ todo' = [todo EXCEPT ![c] = @ \ {<<s, "prepared">>}]
    /\ UNCHANGED <<rec, flags, authority, exchange, pc, manual, sig, answer, seen,
                   operator, history>>

\* A prepared record is never queried: entries are paused instead.
RecoversPrepared(c) ==
    /\ pc[c] = "recover"
    /\ \E s \in Signals :
        /\ <<s, "prepared">> \in todo[c]
        /\ todo' = [todo EXCEPT ![c] = @ \ {<<s, "prepared">>}]
    /\ Pause
    /\ UNCHANGED <<rec, killSwitch, matched, authority, exchange, pc, manual, sig,
                   answer, seen, operator, history>>

\* reconcile_record reads the record again, and returns if it is closed.
SkipsClosed(c) ==
    /\ pc[c] = "recover"
    /\ \E s \in Signals :
        /\ <<s, "open">> \in todo[c]
        /\ rec[s] \in Terminal
        /\ todo' = [todo EXCEPT ![c] = @ \ {<<s, "open">>}]
    /\ UNCHANGED <<rec, flags, authority, exchange, pc, manual, sig, answer, seen,
                   operator, history>>

\* reconcile_record up to the answer of get_order.
Queries(c, s, state) ==
    /\ pc[c] = "recover"
    /\ <<s, "open">> \in todo[c]
    /\ rec[s] \notin Terminal
    /\ todo' = [todo EXCEPT ![c] = @ \ {<<s, "open">>}]
    /\ sig' = [sig EXCEPT ![c] = s]
    /\ answer' = [answer EXCEPT ![c] = state]
    /\ Goto(c, IF state = "unknown" THEN "querypause" ELSE "settle")
    /\ UNCHANGED <<rec, flags, authority, exchange, manual, seen, operator, history>>

\* An order whose position was closed meanwhile is still a filled order, and one
\* that was canceled is canceled, whatever was filled before.
OrderState(s) == CASE exch[s] = "flat"    -> "filled"
                   [] exch[s] = "partial" -> "canceled"
                   [] OTHER               -> exch[s]

\* Mutant: the state of the position is taken for that of the order.
QueriesPosition(c, s) ==
    exch[s] # "none" /\ Queries(c, s, IF exch[s] = "partial" THEN "filled" ELSE exch[s])

QueryAnswered(c, s) == exch[s] # "none" /\ Queries(c, s, OrderState(s))

\* An error code, or no such order.
QueryUnknown(c, s) == Queries(c, s, "unknown")

PausesUnknown(c) ==
    /\ pc[c] = "querypause"
    /\ Pause
    /\ Goto(c, "settle")
    /\ UNCHANGED <<rec, killSwitch, matched, authority, exchange, manual, sig, todo,
                   answer, seen, operator, history>>

\* update_record, whatever the record says by now.
WritesState(c) ==
    /\ pc[c] = "settle"
    /\ UpdateRecord(sig[c], answer[c])
    /\ sig' = [sig EXCEPT ![c] = NoSignal]
    /\ answer' = [answer EXCEPT ![c] = NoAnswer]
    /\ Goto(c, "recover")
    /\ UNCHANGED <<flags, authority, exchange, manual, todo, seen, operator, sends,
                   straddle, counters>>

\* OkxLiveError in a query or a private read: the controller pauses.
ReadRaises(c) ==
    /\ pc[c] \in {"recover", "readpos", "readord"}
    /\ c \notin manual
    /\ Moves(c, "ctlpause")

\* The same in the HTTP request, which answers an error.
ManualRaises(c) ==
    /\ pc[c] \in {"readpos", "readord"}
    /\ c \in manual
    /\ Leave(c)
    /\ UNCHANGED <<rec, flags, authority, exchange, operator, history>>

Recovered(c) ==
    /\ pc[c] = "recover"
    /\ todo[c] = {}
    /\ Moves(c, "readpos")

\* get_positions, then get_open_orders.
ReadsPositions(c) ==
    /\ pc[c] = "readpos"
    /\ seen' = [seen EXCEPT ![c].positions = Positions]
    /\ Goto(c, "readord")
    /\ UNCHANGED <<rec, flags, authority, exchange, manual, sig, todo, answer, operator,
                   history>>

ReadsOrders(c) ==
    /\ pc[c] = "readord"
    /\ seen' = [seen EXCEPT ![c].orders = OpenOrders]
    /\ Goto(c, "compare")
    /\ UNCHANGED <<rec, flags, authority, exchange, manual, sig, todo, answer, operator,
                   history>>

\* Everything seen is tracked by a record.  A prepared record tracks nothing.
Tracked == Recorded(Open \union {"filled"})
Agrees(c) ==
    /\ seen[c].positions \subseteq {InstrumentOf[s] : s \in Tracked}
    /\ seen[c].orders \subseteq Tracked

\* The comparison.  An endpoint that failed, or something a person trades on
\* the account, makes it fail as well.
Compares(c) ==
    /\ pc[c] = "compare"
    /\ \E ok \in {FALSE, Agrees(c)} :
        /\ matched' = ok
        /\ \/ ~ok /\ Goto(c, "mismatch") /\ UNCHANGED <<manual, sig, todo, answer, seen>>
           \/ ok /\ c \in manual /\ Leave(c)
           \/ /\ ok
              /\ c \notin manual
              /\ Goto(c, "batch")
              /\ seen' = [seen EXCEPT ![c] = Blank]
              /\ UNCHANGED <<manual, sig, todo, answer>>
    /\ UNCHANGED <<rec, paused, killSwitch, authority, exchange, operator, history>>

\* The pause that goes with a mismatch; the heartbeat then reports a failure.
PausesMismatch(c) ==
    /\ pc[c] = "mismatch"
    /\ Pause
    /\ IF c \in manual THEN Leave(c)
       ELSE Goto(c, "ctlpause") /\ UNCHANGED <<manual, sig, todo, answer, seen>>
    /\ UNCHANGED <<rec, killSwitch, matched, authority, exchange, operator, history>>

\* Whatever fails a heartbeat, _pause_from_failure or the exception handler of
\* the controller ends it with adapter.pause.
ControllerPauses(c) ==
    /\ pc[c] = "ctlpause"
    /\ Pause
    /\ Leave(c)
    /\ UNCHANGED <<rec, killSwitch, matched, authority, exchange, operator, history>>

-----------------------------------------------------------------------------
(* run_live_auto_execution_batch                                           *)

\* No release is due, or no signal is left.
NothingToDo(c) ==
    /\ pc[c] = "batch"
    /\ Leave(c)
    /\ UNCHANGED <<rec, flags, authority, exchange, operator, history>>

\* The flags are read again.
BatchBlocked(c) ==
    /\ pc[c] = "batch"
    /\ paused \/ killSwitch \/ ~matched
    /\ Moves(c, "ctlpause")

\* One entry per heartbeat, of a signal without a record (_tracked_signal).
Selects(c) ==
    /\ pc[c] = "batch"
    /\ ~paused
    /\ ~killSwitch
    /\ matched
    /\ \E s \in Recorded({"none"}) : sig' = [sig EXCEPT ![c] = s]
    /\ Goto(c, "lease")
    /\ UNCHANGED <<rec, flags, authority, exchange, manual, todo, answer, seen, operator,
                   history>>

\* Mutant: the lease is taken over when it is held.
TakesLease(c) ==
    /\ pc[c] = "lease"
    /\ lease' = c
    /\ lapsed' = FALSE
    /\ Goto(c, "snapshot")
    /\ UNCHANGED <<rec, flags, overrun, exchange, manual, sig, todo, answer, seen, operator,
                   history>>

LeaseGranted(c) ==
    /\ pc[c] = "lease"
    /\ lease = None \/ lapsed
    /\ lease' = c
    /\ lapsed' = FALSE
    /\ Goto(c, "snapshot")
    /\ UNCHANGED <<rec, flags, overrun, exchange, manual, sig, todo, answer, seen, operator,
                   history>>

\* "execution_runtime_lease_unavailable": a failed batch, which pauses.
LeaseRefused(c) ==
    /\ pc[c] = "lease"
    /\ lease # None
    /\ ~lapsed
    /\ Moves(c, "ctlpause")

\* Mutant: a filled record, which is closed, is not counted.
CountedOpen(s) ==
    {x \in Recorded(Recoverable) : InstrumentOf[x] = InstrumentOf[s]}

\* Records of the instrument of s that _portfolio_snapshot counts as positions.
Counted(s) ==
    {x \in Recorded(Recoverable \union {"filled"}) : InstrumentOf[x] = InstrumentOf[s]}

\* _portfolio_snapshot, then the arbitration, with a position slot free.
SnapshotTaken(c) ==
    /\ pc[c] = "snapshot"
    /\ Cardinality(Positions) < MaxPositions
    /\ seen' = [seen EXCEPT ![c] =
          [positions |-> Positions, orders |-> {},
           full |-> Cardinality(Counted(sig[c])) + 1 > MaxPerSymbol]]
    \* reconciliationMatched is FALSE: execute will pause and raise.
    /\ Goto(c, IF matched THEN "assert" ELSE "abort")
    /\ UNCHANGED <<rec, flags, authority, exchange, manual, sig, todo, answer, operator,
                   history>>

\* A private endpoint failed, or no position slot is free, which the arbitration
\* refuses: RuntimeError or ValueError leaves the batch.
SnapshotRaises(c) ==
    /\ pc[c] = "snapshot"
    /\ Moves(c, "failrelease")

\* A signal could not be executed: engine.pause, and the batch has failed.
AbortPauses(c) ==
    /\ pc[c] = "abort"
    /\ Pause
    /\ Goto(c, "failrelease")
    /\ UNCHANGED <<rec, killSwitch, matched, authority, exchange, manual, sig, todo,
                   answer, seen, operator, history>>

\* release: it raises without authority, and the batch does not mind.
Frees(c) ==
    /\ lease' = IF HasAuthority(c) THEN None ELSE lease
    /\ UNCHANGED <<lapsed, overrun>>

Releases(c) ==
    /\ pc[c] = "release"
    /\ Frees(c)
    /\ Leave(c)
    /\ UNCHANGED <<rec, flags, exchange, operator, history>>

ReleasesFailed(c) ==
    /\ pc[c] = "failrelease"
    /\ Frees(c)
    /\ Goto(c, "ctlpause")
    /\ UNCHANGED <<rec, flags, exchange, manual, sig, todo, answer, seen, operator,
                   history>>

-----------------------------------------------------------------------------
(* LiveExecutionEngine.execute                                             *)

AuthorityHeld(c) ==
    /\ pc[c] = "assert"
    /\ HasAuthority(c)
    /\ c \in IdentityBound
    /\ Moves(c, "killgate")

\* PermissionError: no authority, or no verified runtime identity.
AuthorityDenied(c) ==
    /\ pc[c] = "assert"
    /\ ~HasAuthority(c) \/ c \notin IdentityBound
    /\ Moves(c, "abort")

\* Mutant: the flags that the batch has read are trusted.
TrustsBatch(c) ==
    /\ pc[c] = "killgate"
    /\ Moves(c, "verify")

\* execute reads the two flags one after the other.
ReadsKillSwitch(c) ==
    /\ pc[c] = "killgate"
    /\ Moves(c, IF killSwitch THEN "abort" ELSE "pausegate")

ReadsPaused(c) ==
    /\ pc[c] = "pausegate"
    /\ Moves(c, IF paused THEN "abort" ELSE "verify")

\* _verify_private_state: the number of positions is that of the snapshot.
PositionsVerified(c) ==
    /\ pc[c] = "verify"
    /\ Cardinality(Positions) = Cardinality(seen[c].positions)
    /\ Moves(c, "orders")

\* Every open order is tracked, and evaluate_portfolio_risk passes.
OrdersVerified(c) ==
    /\ pc[c] = "orders"
    /\ OpenOrders \subseteq Recorded(Recoverable)
    /\ ~seen[c].full
    /\ Moves(c, "lookup")

\* A mismatch, an endpoint that failed, or a risk limit: RuntimeError.
VerificationRaises(c) ==
    /\ pc[c] \in {"verify", "orders"}
    /\ Moves(c, "abort")

\* Where execute goes with a record it has just read.
AfterIntent(status) == IF status = "prepared" THEN "send" ELSE "release"

\* Mutant: the order is sent first, and recorded with its outcome.
LooksThenSends(c) ==
    /\ pc[c] = "lookup"
    /\ Moves(c, IF rec[sig[c]] = "none" THEN "send" ELSE "abort")

\* create_intent: SELECT.  Other content under the same key raises; identical
\* content, which nothing in a Live scan rules out, hands the record back.
LooksUpIntent(c) ==
    /\ pc[c] = "lookup"
    /\ \/ rec[sig[c]] = "none" /\ Moves(c, "insert")
       \/ rec[sig[c]] # "none" /\ Moves(c, AfterIntent(rec[sig[c]]))
       \/ rec[sig[c]] # "none" /\ Moves(c, "abort")

\* create_intent: INSERT, on a UNIQUE key.
InsertsIntent(c) ==
    /\ pc[c] = "insert"
    /\ rec[sig[c]] = "none"
    /\ UpdateRecord(sig[c], "prepared")
    /\ Goto(c, "reread")
    /\ UNCHANGED <<flags, authority, exchange, manual, sig, todo, answer, seen, operator,
                   sends, straddle, counters>>

\* IntegrityError, which the batch does not catch.
InsertRaises(c) ==
    /\ pc[c] = "insert"
    /\ rec[sig[c]] # "none"
    /\ Moves(c, "failrelease")

RereadsIntent(c) ==
    /\ pc[c] = "reread"
    /\ Moves(c, AfterIntent(rec[sig[c]]))

\* place_protected_order
Sends(c) ==
    /\ pc[c] = "send"
    /\ requests' = requests \union {[sig |-> sig[c], by |-> c]}
    /\ sends' = [sends EXCEPT ![sig[c]] = @ + 1]
    /\ Goto(c, "await")
    /\ UNCHANGED <<rec, flags, authority, exch, timer, manual, sig, todo, answer, seen,
                   operator, doubts, straddle, counters>>

\* No order was sent, or no response came back in time.
PlacementRaises(c) ==
    /\ pc[c] \in {"send", "await"}
    /\ answer' = [answer EXCEPT ![c] = NoAnswer]
    /\ Goto(c, "fail")
    /\ UNCHANGED <<rec, flags, authority, exchange, manual, sig, todo, seen, operator,
                   history>>

RecordsSubmitted(c) ==
    /\ pc[c] = "await"
    /\ answer[c] = "accepted"
    /\ UpdateRecord(sig[c], "submitted")
    /\ answer' = [answer EXCEPT ![c] = NoAnswer]
    /\ Goto(c, "release")
    /\ UNCHANGED <<flags, authority, exchange, manual, sig, todo, seen, operator, sends,
                   straddle, counters>>

RecordsRejected(c) ==
    /\ pc[c] = "await"
    /\ answer[c] = "rejected"
    /\ UpdateRecord(sig[c], "rejected")
    /\ answer' = [answer EXCEPT ![c] = NoAnswer]
    /\ Goto(c, "rejectpause")
    /\ UNCHANGED <<flags, authority, exchange, manual, sig, todo, seen, operator, sends,
                   straddle, counters>>

PausesRejected(c) ==
    /\ pc[c] = "rejectpause"
    /\ Pause
    /\ Goto(c, "release")
    /\ UNCHANGED <<rec, killSwitch, matched, authority, exchange, manual, sig, todo,
                   answer, seen, operator, history>>

\* Mutant: a placement without an answer is closed as rejected.
ClosesUnanswered(c) ==
    /\ pc[c] = "fail"
    /\ UpdateRecord(sig[c], "rejected")
    /\ Goto(c, "failpause")
    /\ UNCHANGED <<flags, authority, exchange, manual, sig, todo, answer, seen, operator,
                   sends, straddle, counters>>

\* The exception handler: first the record, then the pause, then raise.
RecordsUnknown(c) ==
    /\ pc[c] = "fail"
    /\ rec' = [rec EXCEPT ![sig[c]] = "unknown"]
    /\ doubts' = doubts \union {sig[c]}
    /\ Goto(c, "failpause")
    /\ UNCHANGED <<flags, authority, exchange, manual, sig, todo, answer, seen, operator,
                   sends, straddle, counters>>

PausesFailed(c) ==
    /\ pc[c] = "failpause"
    /\ Pause
    /\ Goto(c, "abort")
    /\ UNCHANGED <<rec, killSwitch, matched, authority, exchange, manual, sig, todo,
                   answer, seen, operator, history>>

-----------------------------------------------------------------------------
(* The lease, the exchange and the network.                                *)

\* The term, 300 seconds, is over.  By then a holder that does not stall has left
\* the batch, or died.
Lapses ==
    /\ lease # None
    /\ ~lapsed
    /\ lease \in Stallers \/ pc[lease] \notin LeasePcs
    /\ lapsed' = TRUE
    /\ overrun' = overrun \union (IF pc[lease] \in LeasePcs THEN {sig[lease]} ELSE {})
    /\ UNCHANGED <<rec, flags, lease, exchange, local, operator, history>>

\* The response reaches the caller only if it still waits for it.
Reply(r, reply) ==
    answer' = IF pc[r.by] = "await" /\ sig[r.by] = r.sig
              THEN [answer EXCEPT ![r.by] = reply]
              ELSE answer

\* A clOrdId only has to differ from those of orders that are open now.
ExchangeAccepts(r) ==
    /\ exch[r.sig] # "live"
    /\ exch' = [exch EXCEPT ![r.sig] = "live"]
    /\ requests' = requests \ {r}
    /\ Reply(r, "accepted")
    /\ UNCHANGED <<rec, flags, authority, timer, pc, manual, sig, todo, seen, operator,
                   history>>

ExchangeRejects(r) ==
    /\ requests' = requests \ {r}
    /\ Reply(r, "rejected")
    /\ UNCHANGED <<rec, flags, authority, exch, timer, pc, manual, sig, todo, seen,
                   operator, history>>

RequestLost(r) ==
    /\ requests' = requests \ {r}
    /\ UNCHANGED <<rec, flags, authority, exch, timer, local, operator, history>>

\* An open order fills, or is canceled with nothing or a part of it filled; a
\* position meets its protection.
OrderMoves(s) ==
    /\ \/ exch[s] = "live" /\ \E e \in {"filled", "partial", "canceled"} :
                                exch' = [exch EXCEPT ![s] = e]
       \/ exch[s] = "filled" /\ exch' = [exch EXCEPT ![s] = "flat"]
       \/ exch[s] = "partial" /\ exch' = [exch EXCEPT ![s] = "canceled"]
    /\ UNCHANGED <<rec, flags, authority, requests, timer, local, operator, history>>

PastKillGate == {"pausegate", "verify", "orders"} \union PlacePcs

\* The countdown runs out: every open order is canceled.
CountdownRunsOut ==
    /\ timer = "armed"
    /\ timer' = "fired"
    /\ \E parts \in SUBSET OpenOrders :
          exch' = [s \in Signals |-> IF s \in parts THEN "partial"
                                     ELSE IF exch[s] = "live" THEN "canceled"
                                     ELSE exch[s]]
    /\ straddle' = {r.sig : r \in requests}
            \union {sig[c] : c \in {x \in Callers : pc[x] \in PastKillGate}}
    /\ UNCHANGED <<rec, flags, authority, requests, local, operator, sends, doubts,
                   counters>>

-----------------------------------------------------------------------------
(* The operator.                                                           *)

\* pause_live_auto_execution_runtime
OperatorPauses ==
    /\ Pause
    /\ UNCHANGED <<rec, killSwitch, matched, authority, exchange, local, operator,
                   history>>

\* arm_live_canary checks the gates, the release and the reconciliation ...
ArmChecks ==
    /\ armer = "idle"
    /\ matched
    /\ arms < MaxArms
    /\ arms' = arms + 1
    /\ armer' = "checked"
    /\ UNCHANGED <<rec, flags, authority, exchange, local, killer, sends, doubts,
                   straddle, crashes, kills>>

\* ... and clears first the kill switch ...
ArmClearsKill ==
    /\ armer = "checked"
    /\ killSwitch' = FALSE
    /\ armer' = "unkilled"
    /\ UNCHANGED <<rec, paused, matched, authority, exchange, local, killer, history>>

\* ... and then the pause.
ArmClearsPause ==
    /\ armer = "unkilled"
    /\ paused' = FALSE
    /\ armer' = "idle"
    /\ doubts' = {}
    /\ UNCHANGED <<rec, killSwitch, matched, authority, exchange, local, killer, sends,
                   straddle, counters>>

\* activate_live_canary_kill_switch: two flags, then the exchange.
KillFlags ==
    /\ killer = "idle"
    /\ killSwitch' = TRUE
    /\ killer' = "flagged"
    /\ timer' = IF timer = "fired" THEN "off" ELSE timer
    /\ kills < MaxKills
    /\ kills' = kills + 1
    /\ UNCHANGED <<rec, paused, matched, authority, exch, requests, local, armer,
                   sends, doubts, straddle, crashes, arms>>

KillPauses ==
    /\ killer = "flagged"
    /\ Pause
    /\ killer' = "paused"
    /\ UNCHANGED <<rec, killSwitch, matched, authority, exchange, local, armer, history>>

\* cancel_all_after(10); an exception is swallowed.
KillCancels ==
    /\ killer = "paused"
    /\ killer' = "idle"
    /\ \/ timer' = "armed"
       \/ UNCHANGED timer
    /\ UNCHANGED <<rec, flags, authority, exch, requests, local, armer, history>>

-----------------------------------------------------------------------------
\* The process of c dies; the ledger, the lease row, the exchange and what is on
\* the wire survive.  A request of the operator may die with it.
Crash(c) ==
    /\ crashes < MaxCrashes
    /\ crashes' = crashes + 1
    /\ Leave(c)
    /\ armer' \in {armer, "idle"}
    /\ killer' \in {killer, "idle"}
    /\ doubts' = IF pc[c] \in {"reread", "send", "await", "fail"}
                 THEN doubts \union {sig[c]} ELSE doubts
    /\ UNCHANGED <<rec, flags, authority, exchange, sends, straddle, arms, kills>>

-----------------------------------------------------------------------------

Reconciliation(c) ==
    \/ CycleStarts(c)
    \/ PreflightBlocked(c)
    \/ ManualReconcile(c)
    \/ ListsRecoverable(c)
    \/ RecoversPrepared(c)
    \/ SkipsClosed(c)
    \/ \E s \in Signals : QueryAnswered(c, s)
    \/ \E s \in Signals : QueryUnknown(c, s)
    \/ PausesUnknown(c)
    \/ WritesState(c)
    \/ ReadRaises(c)
    \/ ManualRaises(c)
    \/ Recovered(c)
    \/ ReadsPositions(c)
    \/ ReadsOrders(c)
    \/ Compares(c)
    \/ PausesMismatch(c)
    \/ ControllerPauses(c)

Batch(c) ==
    \/ NothingToDo(c)
    \/ BatchBlocked(c)
    \/ Selects(c)
    \/ LeaseGranted(c)
    \/ LeaseRefused(c)
    \/ SnapshotTaken(c)
    \/ SnapshotRaises(c)
    \/ AbortPauses(c)
    \/ Releases(c)
    \/ ReleasesFailed(c)

Execute(c) ==
    \/ AuthorityHeld(c)
    \/ AuthorityDenied(c)
    \/ ReadsKillSwitch(c)
    \/ ReadsPaused(c)
    \/ PositionsVerified(c)
    \/ OrdersVerified(c)
    \/ VerificationRaises(c)
    \/ LooksUpIntent(c)
    \/ InsertsIntent(c)
    \/ InsertRaises(c)
    \/ RereadsIntent(c)
    \/ Sends(c)
    \/ PlacementRaises(c)
    \/ RecordsSubmitted(c)
    \/ RecordsRejected(c)
    \/ PausesRejected(c)
    \/ RecordsUnknown(c)
    \/ PausesFailed(c)

Exchange ==
    \/ \E r \in requests : ExchangeAccepts(r)
    \/ \E r \in requests : ExchangeRejects(r)
    \/ \E r \in requests : RequestLost(r)
    \/ \E s \in Signals : OrderMoves(s)
    \/ CountdownRunsOut

Operator ==
    \/ OperatorPauses
    \/ ArmChecks
    \/ ArmClearsKill
    \/ ArmClearsPause
    \/ KillFlags
    \/ KillPauses
    \/ KillCancels

Next ==
    \/ \E c \in Callers : Reconciliation(c) \/ Batch(c) \/ Execute(c) \/ Crash(c)
    \/ Lapses
    \/ Exchange
    \/ Operator

Spec == Init /\ [][Next]_vars

-----------------------------------------------------------------------------
\* The order promise of one signal.
Promise(s) ==
    INSTANCE OrderPromise WITH
        Signals  <- {s},
        intended <- {x \in {s} : rec[x] # "none"},
        sends    <- [x \in {s} |-> sends[x]],
        market   <- [x \in {s} |-> CASE exch[x] = "none" -> "none"
                                     [] exch[x] = "live" -> "open"
                                     [] OTHER -> "done"]

\* The order path keeps the abstract promise for every signal, across two
\* processes, stolen and lapsed leases, deaths, and content that may or may not
\* repeat: an intent before a request, one request, and one order, with one
\* position per symbol, the default (risk_profile_store.py:145: a higher limit
\* lets a process that selected a signal before another prepared it and died take
\* over that record).  It ends for a signal when a process has outlived its lease
\* at work on it: its successor may find the record it prepared, and both send.
ImplementsOrderPromise ==
    /\ \A s \in Signals : Promise(s)!Init
    /\ [][\A s \in Signals : s \in overrun \/ [Promise(s)!Next]_(Promise(s)!promiseVars)]_vars

\* A request of a caller that does not stall goes out under a lease that it holds
\* at that moment, whatever those do that stall: the code
\* asserts authority once, and the private reads, the risk gate and three
\* commits come after (execution_runtime_lease.py: "Single-writer execution
\* authority").
SendsUnderAuthority ==
    [][\A c \in Callers \ Stallers :
        pc[c] = "send" /\ pc'[c] = "await" => HasAuthority(c)]_vars

\* Whatever interrupted a placement, a timeout, an error or the death of the
\* process, no caller sends another signal while its outcome is unknown, unless
\* the operator has armed the runtime since.
DoubtBlocksSends ==
    \A c \in Callers : pc[c] = "send" => doubts \subseteq {sig[c]}

\* A closed record agrees with the exchange: no order and no request behind a
\* rejected one, no open order behind a filled or canceled one.  Only a signal
\* whose process outlived its lease may have a second request behind its record.
ClosedAgrees ==
    \A s \in Signals \ overrun :
        /\ rec[s] = "rejected" => exch[s] = "none" /\ \A r \in requests : r.sig # s
        /\ rec[s] = "filled" => exch[s] \in {"filled", "flat"}
        /\ rec[s] = "canceled" => exch[s] \in {"canceled", "partial"}

\* As long as the kill switch stays set after its countdown has run out, an
\* order is open only for a signal that was past the kill switch's gate, or on
\* the wire, when the countdown ended.
KillExposure ==
    killSwitch /\ timer = "fired" =>
        \A s \in Signals : exch[s] = "live" => s \in straddle

\* Orders and positions of an instrument that are, or may yet come to be, at the
\* exchange.  What an order left that was canceled after a partial fill is not
\* among them: the ledger closes its record as canceled and counts it no more.
Exposed(i) ==
    {s \in Signals : /\ InstrumentOf[s] = i
                     /\ \/ exch[s] \in {"live", "filled"}
                        \/ \E r \in requests : r.sig = s}

\* "max_positions_per_symbol" (portfolio_risk.py:142): the count is taken from
\* the ledger at the start of a batch and the order is sent seven steps later,
\* and still no symbol ever has more orders and positions than its limit, with
\* requests on the wire, outcomes unknown and deaths in between; as long as no
\* process outlives its lease at work on that symbol.
PositionLimit ==
    \A i \in Instruments :
        \/ Cardinality(Exposed(i)) <= MaxPerSymbol
        \/ \E s \in overrun : InstrumentOf[s] = i

=============================================================================
