------------------------ MODULE DemoExecution_proofs ------------------------
(***************************************************************************)
(* Theorems about DemoExecution for every set of callers and signals, any  *)
(* number of restarts and any identity binding, checked by TLAPS.          *)
(*                                                                         *)
(* Each theorem has an inductive invariant of its own.  TypeInv comes      *)
(* first; the others are inductive relative to it.                         *)
(***************************************************************************)
EXTENDS DemoExecution, TLAPS

-----------------------------------------------------------------------------
(* Type correctness.                                                       *)

\* Control states in which sig[c] names a signal.
SignalPcs == {"settle", "killgate"} \union PastGate \union PlacePcs

\* TypeOK is not inductive: a step that writes sig[c] or answer[c] to the
\* ledger needs to know what they hold where it does.
TypeInv ==
    /\ TypeOK
    /\ \A c \in Callers : pc[c] \in SignalPcs => sig[c] \in Signals
    /\ \A c \in Callers :
        pc[c] = "settle" => answer[c] \in {"live", "filled", "canceled", "unknown"}

LEMMA TypeInit == Init => TypeInv
<1> SUFFICES ASSUME Init PROVE TypeInv
  OBVIOUS
<1> USE CrashAssumption
    DEF Init, SignalPcs, Pcs, PassPcs, EntryPcs, GatePcs, PastGate, PlacePcs,
        RecStatus, ExchStatus, NoAnswer
<1>1. TypeOK
  <2>1. /\ rec \in [Signals -> RecStatus]
        /\ exch \in [Signals -> ExchStatus]
        /\ sends \in [Signals -> Nat]
    OBVIOUS
  <2>2. /\ pc \in [Callers -> Pcs]
        /\ sig \in [Callers -> Signals \union {NoSignal}]
        /\ todo \in [Callers -> SUBSET Work]
        /\ residue \in [Callers -> BOOLEAN]
        /\ ambiguous \in [Callers -> BOOLEAN]
    OBVIOUS
  <2>3. answer \in [Callers -> {NoAnswer} \union Replies \union ExchStatus \union {"unknown"}]
    OBVIOUS
  <2>4. crashes \in 0..MaxCrashes
    OBVIOUS
  <2> QED
    BY <2>1, <2>2, <2>3, <2>4 DEF TypeOK
<1>2. \A c \in Callers : pc[c] = "idle"
  OBVIOUS
<1> QED
  BY <1>1, <1>2 DEF TypeInv

LEMMA TypeStep == TypeInv /\ [Next]_vars => TypeInv'
<1> SUFFICES ASSUME TypeInv, [Next]_vars PROVE TypeInv'
  OBVIOUS
<1> USE CrashAssumption
    DEF TypeInv, TypeOK, durable, exchange, local, operator, history,
        Goto, Leave, UpdateRecord, Pause, NoAnswer,
        SignalPcs, Pcs, PassPcs, EntryPcs, GatePcs, PastGate, PlacePcs,
        RecStatus, Recoverable, Open, Terminal, ExchStatus, Replies, Work
<1>1. ASSUME NEW c \in Callers, Recovery(c) PROVE TypeInv'
  <2>1. CASE BeginCycle(c)  BY <2>1 DEF BeginCycle
  <2>2. CASE ListRecoverable(c)  BY <2>2 DEF ListRecoverable
  <2>3. CASE RecoverPrepared(c)  BY <2>3 DEF RecoverPrepared
  <2>4. CASE ReconcileTerminal(c)  BY <2>4 DEF ReconcileTerminal
  <2>5. ASSUME NEW s \in Signals, ReconcileAnswered(c, s) PROVE TypeInv'
    BY <2>5 DEF ReconcileAnswered, ReconcileQuery
  <2>6. ASSUME NEW s \in Signals, ReconcileUnresolved(c, s) PROVE TypeInv'
    BY <2>6 DEF ReconcileUnresolved, ReconcileQuery
  <2>7. CASE TransientFailure(c)  BY <2>7 DEF TransientFailure
  <2>8. CASE ReconcileWrite(c)  BY <2>8 DEF ReconcileWrite
  <2>9. CASE GuardBlocks(c)  BY <2>9 DEF GuardBlocks
  <2>10. CASE GuardPasses(c)  BY <2>10 DEF GuardPasses
  <2> QED
    BY <1>1, <2>1, <2>2, <2>3, <2>4, <2>5, <2>6, <2>7, <2>8, <2>9, <2>10 DEF Recovery
<1>2. ASSUME NEW c \in Callers, Batch(c) PROVE TypeInv'
  <2>1. CASE EndBatch(c)  BY <2>1 DEF EndBatch
  <2>2. CASE SkipSignal(c)  BY <2>2 DEF SkipSignal, NextSignal
  <2>3. CASE LeverageUnknown(c)  BY <2>3 DEF LeverageUnknown
  <2>4. CASE LeverageSet(c)  BY <2>4 DEF LeverageSet, NextSignal
  <2>5. CASE AbandonBatch(c)  BY <2>5 DEF AbandonBatch
  <2>6. CASE CheckPaused(c)
    <3>1. CASE paused /\ Leave(c)
      BY <2>6, <3>1 DEF CheckPaused
    <3>2. CASE ~paused /\ Goto(c, "batch")
      BY <2>6, <3>2 DEF CheckPaused
    <3> QED
      BY <2>6, <3>1, <3>2 DEF CheckPaused
  <2> QED
    BY <1>2, <2>1, <2>2, <2>3, <2>4, <2>5, <2>6 DEF Batch
<1>3. ASSUME NEW c \in Callers, Execute(c) PROVE TypeInv'
  <2>1. CASE IdentityRefused(c)  BY <2>1 DEF IdentityRefused
  <2>2. CASE ReadKillSwitch(c)  BY <2>2 DEF ReadKillSwitch
  <2>3. CASE ReadPaused(c)  BY <2>3 DEF ReadPaused
  <2>4. CASE LookupIntent(c)  BY <2>4 DEF LookupIntent, AfterIntent
  <2>5. CASE InsertIntent(c)  BY <2>5 DEF InsertIntent
  <2>6. CASE InsertConflict(c)  BY <2>6 DEF InsertConflict
  <2>7. CASE RereadIntent(c)  BY <2>7 DEF RereadIntent, AfterIntent
  <2>8. CASE SendRequest(c)  BY <2>8 DEF SendRequest
  <2>9. CASE SendFails(c)  BY <2>9 DEF SendFails
  <2>10. CASE AwaitFails(c)  BY <2>10 DEF AwaitFails
  <2>11. CASE RecordSubmitted(c)  BY <2>11 DEF RecordSubmitted
  <2>12. CASE RecordRejected(c)  BY <2>12 DEF RecordRejected
  <2>13. CASE PauseRejected(c)  BY <2>13 DEF PauseRejected
  <2>14. CASE RecordUnknown(c)  BY <2>14 DEF RecordUnknown
  <2>15. CASE PauseUnknown(c)  BY <2>15 DEF PauseUnknown
  <2> QED
    BY <1>3, <2>1, <2>2, <2>3, <2>4, <2>5, <2>6, <2>7, <2>8, <2>9,
            <2>10, <2>11, <2>12, <2>13, <2>14, <2>15 DEF Execute
<1>4. CASE Exchange
  <2>1. ASSUME NEW r \in requests, ExchangeAccepts(r) PROVE TypeInv'
    BY <2>1 DEF ExchangeAccepts, Reply
  <2>2. ASSUME NEW r \in requests, ExchangeRejects(r) PROVE TypeInv'
    BY <2>2 DEF ExchangeRejects, Reply
  <2>3. ASSUME NEW r \in requests, RequestLost(r) PROVE TypeInv'
    BY <2>3 DEF RequestLost
  <2>4. ASSUME NEW s \in Signals, OrderCloses(s) PROVE TypeInv'
    BY <2>4 DEF OrderCloses
  <2>5. CASE CountdownRunsOut  BY <2>5 DEF CountdownRunsOut
  <2> QED
    BY <1>4, <2>1, <2>2, <2>3, <2>4, <2>5 DEF Exchange
<1>5. CASE Operator
  <2>1. CASE OperatorPause  BY <2>1 DEF OperatorPause
  <2>2. CASE ResumeCheck  BY <2>2 DEF ResumeCheck
  <2>3. CASE ResumeClear  BY <2>3 DEF ResumeClear
  <2>4. CASE KillFlag  BY <2>4 DEF KillFlag
  <2>5. CASE KillPause  BY <2>5 DEF KillPause
  <2>6. CASE KillCancelAll  BY <2>6 DEF KillCancelAll
  <2> QED
    BY <1>5, <2>1, <2>2, <2>3, <2>4, <2>5, <2>6 DEF Operator
<1>6. CASE Crash
  BY <1>6 DEF Crash
<1>7. CASE UNCHANGED vars
  BY <1>7 DEF vars
<1> QED
  BY <1>1, <1>2, <1>3, <1>4, <1>5, <1>6, <1>7 DEF Next, Cycle

\* Every variable keeps its type, in every reachable state.
THEOREM TypeCorrect == Spec => []TypeOK
<1>1. TypeInv => TypeOK
  BY DEF TypeInv
<1> QED
  BY <1>1, TypeInit, TypeStep, PTL DEF Spec

-----------------------------------------------------------------------------
(* The ledger is ahead of the network.                                     *)

\* A signal some caller has sent, queried or recorded is in the ledger, and
\* what a pass is going to query is past "prepared".
RecordInv ==
    /\ IntentBeforeSend
    /\ \A c \in Callers :
        pc[c] \in {"reread", "send", "await", "rejectpause", "fail", "failpause", "raised"}
            => rec[sig[c]] # "none"
    /\ \A c \in Callers : pc[c] = "settle" => rec[sig[c]] \notin {"none", "prepared"}
    /\ \A c \in Callers, s \in Signals :
        <<s, "open">> \in todo[c] => rec[s] \notin {"none", "prepared"}

LEMMA RecordInit == Init => RecordInv
  BY DEF Init, RecordInv, IntentBeforeSend

LEMMA RecordStep ==
    TypeInv /\ RecordInv /\ [Next]_vars => RecordInv'
<1> SUFFICES ASSUME TypeInv, RecordInv, [Next]_vars PROVE RecordInv'
  OBVIOUS
<1> USE DEF TypeInv, TypeOK, durable, exchange, local, operator, history,
            Goto, Leave, UpdateRecord, Pause, NoAnswer, SignalPcs,
            Pcs, PassPcs, EntryPcs, GatePcs, PastGate, PlacePcs,
            Open, Terminal, Work
<1> USE DEF RecordInv, IntentBeforeSend
<1>1. ASSUME NEW c \in Callers, Recovery(c) PROVE RecordInv'
  <2>1. CASE BeginCycle(c)  BY <2>1 DEF BeginCycle
  <2>2. CASE ListRecoverable(c)  BY <2>2 DEF ListRecoverable
  <2>3. CASE RecoverPrepared(c)  BY <2>3 DEF RecoverPrepared
  <2>4. CASE ReconcileTerminal(c)  BY <2>4 DEF ReconcileTerminal
  <2>5. ASSUME NEW s \in Signals, ReconcileAnswered(c, s) PROVE RecordInv'
    BY <2>5 DEF ReconcileAnswered, ReconcileQuery
  <2>6. ASSUME NEW s \in Signals, ReconcileUnresolved(c, s) PROVE RecordInv'
    BY <2>6 DEF ReconcileUnresolved, ReconcileQuery
  <2>7. CASE TransientFailure(c)  BY <2>7 DEF TransientFailure
  <2>8. CASE ReconcileWrite(c)  BY <2>8 DEF ReconcileWrite
  <2>9. CASE GuardBlocks(c)  BY <2>9 DEF GuardBlocks
  <2>10. CASE GuardPasses(c)  BY <2>10 DEF GuardPasses
  <2> QED
    BY <1>1, <2>1, <2>2, <2>3, <2>4, <2>5, <2>6, <2>7, <2>8, <2>9, <2>10 DEF Recovery
<1>2. ASSUME NEW c \in Callers, Batch(c) PROVE RecordInv'
  <2>1. CASE EndBatch(c)  BY <2>1 DEF EndBatch
  <2>2. CASE SkipSignal(c)  BY <2>2 DEF SkipSignal, NextSignal
  <2>3. CASE LeverageUnknown(c)  BY <2>3 DEF LeverageUnknown
  <2>4. CASE LeverageSet(c)  BY <2>4 DEF LeverageSet, NextSignal
  <2>5. CASE AbandonBatch(c)  BY <2>5 DEF AbandonBatch
  <2>6. CASE CheckPaused(c)  BY <2>6 DEF CheckPaused
  <2> QED
    BY <1>2, <2>1, <2>2, <2>3, <2>4, <2>5, <2>6 DEF Batch
<1>3. ASSUME NEW c \in Callers, Execute(c) PROVE RecordInv'
  <2>1. CASE IdentityRefused(c)  BY <2>1 DEF IdentityRefused
  <2>2. CASE ReadKillSwitch(c)  BY <2>2 DEF ReadKillSwitch
  <2>3. CASE ReadPaused(c)  BY <2>3 DEF ReadPaused
  <2>4. CASE LookupIntent(c)  BY <2>4 DEF LookupIntent, AfterIntent
  <2>5. CASE InsertIntent(c)  BY <2>5 DEF InsertIntent
  <2>6. CASE InsertConflict(c)  BY <2>6 DEF InsertConflict
  <2>7. CASE RereadIntent(c)  BY <2>7 DEF RereadIntent, AfterIntent
  <2>8. CASE SendRequest(c)  BY <2>8 DEF SendRequest
  <2>9. CASE SendFails(c)  BY <2>9 DEF SendFails
  <2>10. CASE AwaitFails(c)  BY <2>10 DEF AwaitFails
  <2>11. CASE RecordSubmitted(c)  BY <2>11 DEF RecordSubmitted
  <2>12. CASE RecordRejected(c)  BY <2>12 DEF RecordRejected
  <2>13. CASE PauseRejected(c)  BY <2>13 DEF PauseRejected
  <2>14. CASE RecordUnknown(c)  BY <2>14 DEF RecordUnknown
  <2>15. CASE PauseUnknown(c)  BY <2>15 DEF PauseUnknown
  <2> QED
    BY <1>3, <2>1, <2>2, <2>3, <2>4, <2>5, <2>6, <2>7, <2>8, <2>9,
            <2>10, <2>11, <2>12, <2>13, <2>14, <2>15 DEF Execute
<1>4. CASE Exchange
  <2>1. ASSUME NEW r \in requests, ExchangeAccepts(r) PROVE RecordInv'
    BY <2>1 DEF ExchangeAccepts, Reply
  <2>2. ASSUME NEW r \in requests, ExchangeRejects(r) PROVE RecordInv'
    BY <2>2 DEF ExchangeRejects, Reply
  <2>3. ASSUME NEW r \in requests, RequestLost(r) PROVE RecordInv'
    BY <2>3 DEF RequestLost
  <2>4. ASSUME NEW s \in Signals, OrderCloses(s) PROVE RecordInv'
    BY <2>4 DEF OrderCloses
  <2>5. CASE CountdownRunsOut  BY <2>5 DEF CountdownRunsOut
  <2> QED
    BY <1>4, <2>1, <2>2, <2>3, <2>4, <2>5 DEF Exchange
<1>5. CASE Operator
  <2>1. CASE OperatorPause  BY <2>1 DEF OperatorPause
  <2>2. CASE ResumeCheck  BY <2>2 DEF ResumeCheck
  <2>3. CASE ResumeClear  BY <2>3 DEF ResumeClear
  <2>4. CASE KillFlag  BY <2>4 DEF KillFlag
  <2>5. CASE KillPause  BY <2>5 DEF KillPause
  <2>6. CASE KillCancelAll  BY <2>6 DEF KillCancelAll
  <2> QED
    BY <1>5, <2>1, <2>2, <2>3, <2>4, <2>5, <2>6 DEF Operator
<1>6. CASE Crash
  BY <1>6 DEF Crash
<1>7. CASE UNCHANGED vars
  BY <1>7 DEF vars
<1> QED
  BY <1>1, <1>2, <1>3, <1>4, <1>5, <1>6, <1>7 DEF Next, Cycle

\* No order and no request exists without a durable record of the signal.
THEOREM LedgerFirst == Spec => []IntentBeforeSend
<1>1. RecordInv => IntentBeforeSend
  BY DEF RecordInv
<1> QED
  BY <1>1, TypeInit, TypeStep, RecordInit, RecordStep, PTL DEF Spec

-----------------------------------------------------------------------------
(* A restart closes the gate until someone repairs the ledger.             *)

\* An orphaned intent stays prepared, so every pass that lists records finds
\* it, and carries the finding to the guard.
ResidueInv ==
    /\ \A s \in orphans : rec[s] = "prepared"
    /\ CrashResidueBlocksEntries
    /\ orphans # {} =>
        \A c \in Callers :
            pc[c] \in {"recover", "settle"} =>
                residue[c] \/ \E s \in orphans : <<s, "prepared">> \in todo[c]

LEMMA ResidueInit == Init => ResidueInv
  BY DEF Init, ResidueInv, CrashResidueBlocksEntries

LEMMA ResidueStep ==
    TypeInv /\ RecordInv /\ ResidueInv /\ [Next]_vars => ResidueInv'
<1> SUFFICES ASSUME TypeInv, RecordInv, ResidueInv, [Next]_vars PROVE ResidueInv'
  OBVIOUS
<1> USE DEF TypeInv, TypeOK, durable, exchange, local, operator, history,
            Goto, Leave, UpdateRecord, Pause, NoAnswer, SignalPcs,
            Pcs, PassPcs, EntryPcs, GatePcs, PastGate, PlacePcs,
            Open, Terminal, Work
<1> USE DEF RecordInv, ResidueInv, CrashResidueBlocksEntries
<1>1. ASSUME NEW c \in Callers, Recovery(c) PROVE ResidueInv'
  <2>1. CASE BeginCycle(c)  BY <2>1 DEF BeginCycle
  <2>2. CASE ListRecoverable(c)  BY <2>2 DEF ListRecoverable
  <2>3. CASE RecoverPrepared(c)  BY <2>3 DEF RecoverPrepared
  <2>4. CASE ReconcileTerminal(c)  BY <2>4 DEF ReconcileTerminal
  <2>5. ASSUME NEW s \in Signals, ReconcileAnswered(c, s) PROVE ResidueInv'
    BY <2>5 DEF ReconcileAnswered, ReconcileQuery
  <2>6. ASSUME NEW s \in Signals, ReconcileUnresolved(c, s) PROVE ResidueInv'
    BY <2>6 DEF ReconcileUnresolved, ReconcileQuery
  <2>7. CASE TransientFailure(c)  BY <2>7 DEF TransientFailure
  <2>8. CASE ReconcileWrite(c)  BY <2>8 DEF ReconcileWrite
  <2>9. CASE GuardBlocks(c)  BY <2>9 DEF GuardBlocks
  <2>10. CASE GuardPasses(c)  BY <2>10 DEF GuardPasses
  <2> QED
    BY <1>1, <2>1, <2>2, <2>3, <2>4, <2>5, <2>6, <2>7, <2>8, <2>9, <2>10 DEF Recovery
<1>2. ASSUME NEW c \in Callers, Batch(c) PROVE ResidueInv'
  <2>1. CASE EndBatch(c)  BY <2>1 DEF EndBatch
  <2>2. CASE SkipSignal(c)  BY <2>2 DEF SkipSignal, NextSignal
  <2>3. CASE LeverageUnknown(c)  BY <2>3 DEF LeverageUnknown
  <2>4. CASE LeverageSet(c)  BY <2>4 DEF LeverageSet, NextSignal
  <2>5. CASE AbandonBatch(c)  BY <2>5 DEF AbandonBatch
  <2>6. CASE CheckPaused(c)  BY <2>6 DEF CheckPaused
  <2> QED
    BY <1>2, <2>1, <2>2, <2>3, <2>4, <2>5, <2>6 DEF Batch
<1>3. ASSUME NEW c \in Callers, Execute(c) PROVE ResidueInv'
  <2>1. CASE IdentityRefused(c)  BY <2>1 DEF IdentityRefused
  <2>2. CASE ReadKillSwitch(c)  BY <2>2 DEF ReadKillSwitch
  <2>3. CASE ReadPaused(c)  BY <2>3 DEF ReadPaused
  <2>4. CASE LookupIntent(c)  BY <2>4 DEF LookupIntent, AfterIntent
  <2>5. CASE InsertIntent(c)  BY <2>5 DEF InsertIntent
  <2>6. CASE InsertConflict(c)  BY <2>6 DEF InsertConflict
  <2>7. CASE RereadIntent(c)  BY <2>7 DEF RereadIntent, AfterIntent
  <2>8. CASE SendRequest(c)  BY <2>8 DEF SendRequest
  <2>9. CASE SendFails(c)  BY <2>9 DEF SendFails
  <2>10. CASE AwaitFails(c)  BY <2>10 DEF AwaitFails
  <2>11. CASE RecordSubmitted(c)  BY <2>11 DEF RecordSubmitted
  <2>12. CASE RecordRejected(c)  BY <2>12 DEF RecordRejected
  <2>13. CASE PauseRejected(c)  BY <2>13 DEF PauseRejected
  <2>14. CASE RecordUnknown(c)  BY <2>14 DEF RecordUnknown
  <2>15. CASE PauseUnknown(c)  BY <2>15 DEF PauseUnknown
  <2> QED
    BY <1>3, <2>1, <2>2, <2>3, <2>4, <2>5, <2>6, <2>7, <2>8, <2>9,
            <2>10, <2>11, <2>12, <2>13, <2>14, <2>15 DEF Execute
<1>4. CASE Exchange
  <2>1. ASSUME NEW r \in requests, ExchangeAccepts(r) PROVE ResidueInv'
    BY <2>1 DEF ExchangeAccepts, Reply
  <2>2. ASSUME NEW r \in requests, ExchangeRejects(r) PROVE ResidueInv'
    BY <2>2 DEF ExchangeRejects, Reply
  <2>3. ASSUME NEW r \in requests, RequestLost(r) PROVE ResidueInv'
    BY <2>3 DEF RequestLost
  <2>4. ASSUME NEW s \in Signals, OrderCloses(s) PROVE ResidueInv'
    BY <2>4 DEF OrderCloses
  <2>5. CASE CountdownRunsOut  BY <2>5 DEF CountdownRunsOut
  <2> QED
    BY <1>4, <2>1, <2>2, <2>3, <2>4, <2>5 DEF Exchange
<1>5. CASE Operator
  <2>1. CASE OperatorPause  BY <2>1 DEF OperatorPause
  <2>2. CASE ResumeCheck  BY <2>2 DEF ResumeCheck
  <2>3. CASE ResumeClear  BY <2>3 DEF ResumeClear
  <2>4. CASE KillFlag  BY <2>4 DEF KillFlag
  <2>5. CASE KillPause  BY <2>5 DEF KillPause
  <2>6. CASE KillCancelAll  BY <2>6 DEF KillCancelAll
  <2> QED
    BY <1>5, <2>1, <2>2, <2>3, <2>4, <2>5, <2>6 DEF Operator
<1>6. CASE Crash
  BY <1>6 DEF Crash
<1>7. CASE UNCHANGED vars
  BY <1>7 DEF vars
<1> QED
  BY <1>1, <1>2, <1>3, <1>4, <1>5, <1>6, <1>7 DEF Next, Cycle

\* After a restart that left an intent prepared no cycle reaches an entry.
THEOREM ResidueBlocks == Spec => []CrashResidueBlocksEntries
<1>1. ResidueInv => CrashResidueBlocksEntries
  BY DEF ResidueInv
<1> QED
  BY <1>1, TypeInit, TypeStep, RecordInit, RecordStep, ResidueInit, ResidueStep,
     PTL DEF Spec

-----------------------------------------------------------------------------
(* One owner per signal, one request per signal.                           *)

\* Between the INSERT of a prepared record and the write of its outcome the
\* record has one owner, and nobody else writes it.
OwnerPcs == {"reread", "send", "await", "fail"}

OwnerInv ==
    /\ \A c \in Callers : pc[c] \in OwnerPcs => rec[sig[c]] = "prepared"
    /\ \A c, d \in Callers :
        pc[c] \in OwnerPcs /\ pc[d] \in OwnerPcs /\ sig[c] = sig[d] => c = d

\* An owner that has not sent yet is the first to send.
OnceInv ==
    /\ SentAtMostOnce
    /\ \A c \in Callers : pc[c] \in {"reread", "send"} => sends[sig[c]] = 0

LEMMA OwnerInit == Init => OwnerInv /\ OnceInv
  BY DEF Init, OwnerInv, OwnerPcs, OnceInv, SentAtMostOnce

\* A prepared record is at work in some caller, or a restart left it behind.
PreparedInv ==
    \A s \in Signals :
        rec[s] = "prepared" =>
            s \in orphans \/ \E c \in Callers : pc[c] \in OwnerPcs /\ sig[c] = s

LEMMA PreparedInit == Init => PreparedInv
  BY DEF Init, PreparedInv

LEMMA PreparedStep == TypeInv /\ PreparedInv /\ [Next]_vars => PreparedInv'
<1> SUFFICES ASSUME TypeInv, PreparedInv, [Next]_vars PROVE PreparedInv'
  OBVIOUS
<1> USE DEF TypeInv, TypeOK, durable, exchange, local, operator, history,
            Goto, Leave, UpdateRecord, Pause, NoAnswer, SignalPcs,
            Pcs, PassPcs, EntryPcs, GatePcs, PastGate, PlacePcs
<1> USE DEF PreparedInv, OwnerPcs
<1>1. ASSUME NEW c \in Callers, Recovery(c) PROVE PreparedInv'
  <2>1. CASE BeginCycle(c)  BY <2>1 DEF BeginCycle
  <2>2. CASE ListRecoverable(c)  BY <2>2 DEF ListRecoverable
  <2>3. CASE RecoverPrepared(c)  BY <2>3 DEF RecoverPrepared
  <2>4. CASE ReconcileTerminal(c)  BY <2>4 DEF ReconcileTerminal
  <2>5. ASSUME NEW s \in Signals, ReconcileAnswered(c, s) PROVE PreparedInv'
    BY <2>5 DEF ReconcileAnswered, ReconcileQuery
  <2>6. ASSUME NEW s \in Signals, ReconcileUnresolved(c, s) PROVE PreparedInv'
    BY <2>6 DEF ReconcileUnresolved, ReconcileQuery
  <2>7. CASE TransientFailure(c)  BY <2>7 DEF TransientFailure
  <2>8. CASE ReconcileWrite(c)  BY <2>8 DEF ReconcileWrite
  <2>9. CASE GuardBlocks(c)  BY <2>9 DEF GuardBlocks
  <2>10. CASE GuardPasses(c)  BY <2>10 DEF GuardPasses
  <2> QED
    BY <1>1, <2>1, <2>2, <2>3, <2>4, <2>5, <2>6, <2>7, <2>8, <2>9, <2>10 DEF Recovery
<1>2. ASSUME NEW c \in Callers, Batch(c) PROVE PreparedInv'
  <2>1. CASE EndBatch(c)  BY <2>1 DEF EndBatch
  <2>2. CASE SkipSignal(c)  BY <2>2 DEF SkipSignal, NextSignal
  <2>3. CASE LeverageUnknown(c)  BY <2>3 DEF LeverageUnknown
  <2>4. CASE LeverageSet(c)  BY <2>4 DEF LeverageSet, NextSignal
  <2>5. CASE AbandonBatch(c)  BY <2>5 DEF AbandonBatch
  <2>6. CASE CheckPaused(c)  BY <2>6 DEF CheckPaused
  <2> QED
    BY <1>2, <2>1, <2>2, <2>3, <2>4, <2>5, <2>6 DEF Batch
<1>3. ASSUME NEW c \in Callers, Execute(c) PROVE PreparedInv'
  <2>1. CASE IdentityRefused(c)  BY <2>1 DEF IdentityRefused
  <2>2. CASE ReadKillSwitch(c)  BY <2>2 DEF ReadKillSwitch
  <2>3. CASE ReadPaused(c)  BY <2>3 DEF ReadPaused
  <2>4. CASE LookupIntent(c)  BY <2>4 DEF LookupIntent, AfterIntent
  <2>5. CASE InsertIntent(c)  BY <2>5 DEF InsertIntent
  <2>6. CASE InsertConflict(c)  BY <2>6 DEF InsertConflict
  <2>7. CASE RereadIntent(c)  BY <2>7 DEF RereadIntent, AfterIntent
  <2>8. CASE SendRequest(c)  BY <2>8 DEF SendRequest
  <2>9. CASE SendFails(c)  BY <2>9 DEF SendFails
  <2>10. CASE AwaitFails(c)  BY <2>10 DEF AwaitFails
  <2>11. CASE RecordSubmitted(c)  BY <2>11 DEF RecordSubmitted
  <2>12. CASE RecordRejected(c)  BY <2>12 DEF RecordRejected
  <2>13. CASE PauseRejected(c)  BY <2>13 DEF PauseRejected
  <2>14. CASE RecordUnknown(c)  BY <2>14 DEF RecordUnknown
  <2>15. CASE PauseUnknown(c)  BY <2>15 DEF PauseUnknown
  <2> QED
    BY <1>3, <2>1, <2>2, <2>3, <2>4, <2>5, <2>6, <2>7, <2>8, <2>9,
            <2>10, <2>11, <2>12, <2>13, <2>14, <2>15 DEF Execute
<1>4. CASE Exchange
  <2>1. ASSUME NEW r \in requests, ExchangeAccepts(r) PROVE PreparedInv'
    BY <2>1 DEF ExchangeAccepts, Reply
  <2>2. ASSUME NEW r \in requests, ExchangeRejects(r) PROVE PreparedInv'
    BY <2>2 DEF ExchangeRejects, Reply
  <2>3. ASSUME NEW r \in requests, RequestLost(r) PROVE PreparedInv'
    BY <2>3 DEF RequestLost
  <2>4. ASSUME NEW s \in Signals, OrderCloses(s) PROVE PreparedInv'
    BY <2>4 DEF OrderCloses
  <2>5. CASE CountdownRunsOut  BY <2>5 DEF CountdownRunsOut
  <2> QED
    BY <1>4, <2>1, <2>2, <2>3, <2>4, <2>5 DEF Exchange
<1>5. CASE Operator
  <2>1. CASE OperatorPause  BY <2>1 DEF OperatorPause
  <2>2. CASE ResumeCheck  BY <2>2 DEF ResumeCheck
  <2>3. CASE ResumeClear  BY <2>3 DEF ResumeClear
  <2>4. CASE KillFlag  BY <2>4 DEF KillFlag
  <2>5. CASE KillPause  BY <2>5 DEF KillPause
  <2>6. CASE KillCancelAll  BY <2>6 DEF KillCancelAll
  <2> QED
    BY <1>5, <2>1, <2>2, <2>3, <2>4, <2>5, <2>6 DEF Operator
<1>6. CASE Crash
  BY <1>6 DEF Crash
<1>7. CASE UNCHANGED vars
  BY <1>7 DEF vars
<1> QED
  BY <1>1, <1>2, <1>3, <1>4, <1>5, <1>6, <1>7 DEF Next, Cycle

\* Nobody finds a record of its own content that another caller has yet to send.
NoHandOver ==
    PayloadRepeats => \A c \in Callers : pc[c] = "lookup" => rec[sig[c]] # "prepared"

\* What the code relies on for it: the content of a signal differs whenever it
\* is presented, or the caller that presents it is always the same.
OneCaller  == \A c, d \in Callers : c = d
OwnRecords == ~PayloadRepeats \/ OneCaller

\* A lone caller at its lookup owns nothing, and got there past the residue.
LEMMA Kept ==
    ASSUME OwnRecords
    PROVE  TypeInv /\ ResidueInv /\ PreparedInv => NoHandOver
<1> SUFFICES ASSUME OneCaller, TypeInv, ResidueInv, PreparedInv,
                    NEW c \in Callers, pc[c] = "lookup"
             PROVE  rec[sig[c]] # "prepared"
  BY DEF NoHandOver, OwnRecords
<1>1. orphans = {}
  BY DEF ResidueInv, CrashResidueBlocksEntries, EntryPcs, PastGate
<1>2. sig[c] \in Signals
  BY DEF TypeInv, SignalPcs, PastGate
<1>3. \A d \in Callers : pc[d] \notin OwnerPcs
  BY DEF OneCaller, OwnerPcs
<1> QED
  BY <1>1, <1>2, <1>3 DEF PreparedInv

LEMMA OwnerStep ==
    TypeInv /\ RecordInv /\ NoHandOver /\ OwnerInv /\ [Next]_vars => OwnerInv'
<1> SUFFICES ASSUME TypeInv, RecordInv, NoHandOver, OwnerInv, [Next]_vars PROVE OwnerInv'
  OBVIOUS
<1> USE DEF TypeInv, TypeOK, durable, exchange, local, operator, history,
            Goto, Leave, UpdateRecord, Pause, NoAnswer, SignalPcs,
            Pcs, PassPcs, EntryPcs, GatePcs, PastGate, PlacePcs,
            Open, Terminal, Work
<1> USE DEF RecordInv, IntentBeforeSend, OwnerInv, OwnerPcs, NoHandOver
<1>1. ASSUME NEW c \in Callers, Recovery(c) PROVE OwnerInv'
  <2>1. CASE BeginCycle(c)  BY <2>1 DEF BeginCycle
  <2>2. CASE ListRecoverable(c)  BY <2>2 DEF ListRecoverable
  <2>3. CASE RecoverPrepared(c)  BY <2>3 DEF RecoverPrepared
  <2>4. CASE ReconcileTerminal(c)  BY <2>4 DEF ReconcileTerminal
  <2>5. ASSUME NEW s \in Signals, ReconcileAnswered(c, s) PROVE OwnerInv'
    BY <2>5 DEF ReconcileAnswered, ReconcileQuery
  <2>6. ASSUME NEW s \in Signals, ReconcileUnresolved(c, s) PROVE OwnerInv'
    BY <2>6 DEF ReconcileUnresolved, ReconcileQuery
  <2>7. CASE TransientFailure(c)  BY <2>7 DEF TransientFailure
  <2>8. CASE ReconcileWrite(c)  BY <2>8 DEF ReconcileWrite
  <2>9. CASE GuardBlocks(c)  BY <2>9 DEF GuardBlocks
  <2>10. CASE GuardPasses(c)  BY <2>10 DEF GuardPasses
  <2> QED
    BY <1>1, <2>1, <2>2, <2>3, <2>4, <2>5, <2>6, <2>7, <2>8, <2>9, <2>10 DEF Recovery
<1>2. ASSUME NEW c \in Callers, Batch(c) PROVE OwnerInv'
  <2>1. CASE EndBatch(c)  BY <2>1 DEF EndBatch
  <2>2. CASE SkipSignal(c)  BY <2>2 DEF SkipSignal, NextSignal
  <2>3. CASE LeverageUnknown(c)  BY <2>3 DEF LeverageUnknown
  <2>4. CASE LeverageSet(c)  BY <2>4 DEF LeverageSet, NextSignal
  <2>5. CASE AbandonBatch(c)  BY <2>5 DEF AbandonBatch
  <2>6. CASE CheckPaused(c)  BY <2>6 DEF CheckPaused
  <2> QED
    BY <1>2, <2>1, <2>2, <2>3, <2>4, <2>5, <2>6 DEF Batch
<1>3. ASSUME NEW c \in Callers, Execute(c) PROVE OwnerInv'
  <2>1. CASE IdentityRefused(c)  BY <2>1 DEF IdentityRefused
  <2>2. CASE ReadKillSwitch(c)  BY <2>2 DEF ReadKillSwitch
  <2>3. CASE ReadPaused(c)  BY <2>3 DEF ReadPaused
  <2>4. CASE LookupIntent(c)  BY <2>4 DEF LookupIntent, AfterIntent
  <2>5. CASE InsertIntent(c)  BY <2>5 DEF InsertIntent
  <2>6. CASE InsertConflict(c)  BY <2>6 DEF InsertConflict
  <2>7. CASE RereadIntent(c)  BY <2>7 DEF RereadIntent, AfterIntent
  <2>8. CASE SendRequest(c)  BY <2>8 DEF SendRequest
  <2>9. CASE SendFails(c)  BY <2>9 DEF SendFails
  <2>10. CASE AwaitFails(c)  BY <2>10 DEF AwaitFails
  <2>11. CASE RecordSubmitted(c)  BY <2>11 DEF RecordSubmitted
  <2>12. CASE RecordRejected(c)  BY <2>12 DEF RecordRejected
  <2>13. CASE PauseRejected(c)  BY <2>13 DEF PauseRejected
  <2>14. CASE RecordUnknown(c)  BY <2>14 DEF RecordUnknown
  <2>15. CASE PauseUnknown(c)  BY <2>15 DEF PauseUnknown
  <2> QED
    BY <1>3, <2>1, <2>2, <2>3, <2>4, <2>5, <2>6, <2>7, <2>8, <2>9,
            <2>10, <2>11, <2>12, <2>13, <2>14, <2>15 DEF Execute
<1>4. CASE Exchange
  <2>1. ASSUME NEW r \in requests, ExchangeAccepts(r) PROVE OwnerInv'
    BY <2>1 DEF ExchangeAccepts, Reply
  <2>2. ASSUME NEW r \in requests, ExchangeRejects(r) PROVE OwnerInv'
    BY <2>2 DEF ExchangeRejects, Reply
  <2>3. ASSUME NEW r \in requests, RequestLost(r) PROVE OwnerInv'
    BY <2>3 DEF RequestLost
  <2>4. ASSUME NEW s \in Signals, OrderCloses(s) PROVE OwnerInv'
    BY <2>4 DEF OrderCloses
  <2>5. CASE CountdownRunsOut  BY <2>5 DEF CountdownRunsOut
  <2> QED
    BY <1>4, <2>1, <2>2, <2>3, <2>4, <2>5 DEF Exchange
<1>5. CASE Operator
  <2>1. CASE OperatorPause  BY <2>1 DEF OperatorPause
  <2>2. CASE ResumeCheck  BY <2>2 DEF ResumeCheck
  <2>3. CASE ResumeClear  BY <2>3 DEF ResumeClear
  <2>4. CASE KillFlag  BY <2>4 DEF KillFlag
  <2>5. CASE KillPause  BY <2>5 DEF KillPause
  <2>6. CASE KillCancelAll  BY <2>6 DEF KillCancelAll
  <2> QED
    BY <1>5, <2>1, <2>2, <2>3, <2>4, <2>5, <2>6 DEF Operator
<1>6. CASE Crash
  BY <1>6 DEF Crash
<1>7. CASE UNCHANGED vars
  BY <1>7 DEF vars
<1> QED
  BY <1>1, <1>2, <1>3, <1>4, <1>5, <1>6, <1>7 DEF Next, Cycle

LEMMA OnceStep ==
    TypeInv /\ RecordInv /\ NoHandOver /\ OwnerInv /\ OnceInv /\ [Next]_vars => OnceInv'
<1> SUFFICES ASSUME TypeInv, RecordInv, NoHandOver, OwnerInv, OnceInv, [Next]_vars
             PROVE  OnceInv'
  OBVIOUS
<1> USE DEF TypeInv, TypeOK, durable, exchange, local, operator, history,
            Goto, Leave, UpdateRecord, Pause, NoAnswer, SignalPcs,
            Pcs, PassPcs, EntryPcs, GatePcs, PastGate, PlacePcs,
            Open, Terminal, Work
<1> USE DEF RecordInv, IntentBeforeSend, OwnerInv, OwnerPcs, OnceInv, SentAtMostOnce,
            NoHandOver
<1>1. ASSUME NEW c \in Callers, Recovery(c) PROVE OnceInv'
  <2>1. CASE BeginCycle(c)  BY <2>1 DEF BeginCycle
  <2>2. CASE ListRecoverable(c)  BY <2>2 DEF ListRecoverable
  <2>3. CASE RecoverPrepared(c)  BY <2>3 DEF RecoverPrepared
  <2>4. CASE ReconcileTerminal(c)  BY <2>4 DEF ReconcileTerminal
  <2>5. ASSUME NEW s \in Signals, ReconcileAnswered(c, s) PROVE OnceInv'
    BY <2>5 DEF ReconcileAnswered, ReconcileQuery
  <2>6. ASSUME NEW s \in Signals, ReconcileUnresolved(c, s) PROVE OnceInv'
    BY <2>6 DEF ReconcileUnresolved, ReconcileQuery
  <2>7. CASE TransientFailure(c)  BY <2>7 DEF TransientFailure
  <2>8. CASE ReconcileWrite(c)  BY <2>8 DEF ReconcileWrite
  <2>9. CASE GuardBlocks(c)  BY <2>9 DEF GuardBlocks
  <2>10. CASE GuardPasses(c)  BY <2>10 DEF GuardPasses
  <2> QED
    BY <1>1, <2>1, <2>2, <2>3, <2>4, <2>5, <2>6, <2>7, <2>8, <2>9, <2>10 DEF Recovery
<1>2. ASSUME NEW c \in Callers, Batch(c) PROVE OnceInv'
  <2>1. CASE EndBatch(c)  BY <2>1 DEF EndBatch
  <2>2. CASE SkipSignal(c)  BY <2>2 DEF SkipSignal, NextSignal
  <2>3. CASE LeverageUnknown(c)  BY <2>3 DEF LeverageUnknown
  <2>4. CASE LeverageSet(c)  BY <2>4 DEF LeverageSet, NextSignal
  <2>5. CASE AbandonBatch(c)  BY <2>5 DEF AbandonBatch
  <2>6. CASE CheckPaused(c)  BY <2>6 DEF CheckPaused
  <2> QED
    BY <1>2, <2>1, <2>2, <2>3, <2>4, <2>5, <2>6 DEF Batch
<1>3. ASSUME NEW c \in Callers, Execute(c) PROVE OnceInv'
  <2>1. CASE IdentityRefused(c)  BY <2>1 DEF IdentityRefused
  <2>2. CASE ReadKillSwitch(c)  BY <2>2 DEF ReadKillSwitch
  <2>3. CASE ReadPaused(c)  BY <2>3 DEF ReadPaused
  <2>4. CASE LookupIntent(c)  BY <2>4 DEF LookupIntent, AfterIntent
  <2>5. CASE InsertIntent(c)  BY <2>5 DEF InsertIntent
  <2>6. CASE InsertConflict(c)  BY <2>6 DEF InsertConflict
  <2>7. CASE RereadIntent(c)  BY <2>7 DEF RereadIntent, AfterIntent
  <2>8. CASE SendRequest(c)  BY <2>8 DEF SendRequest
  <2>9. CASE SendFails(c)  BY <2>9 DEF SendFails
  <2>10. CASE AwaitFails(c)  BY <2>10 DEF AwaitFails
  <2>11. CASE RecordSubmitted(c)  BY <2>11 DEF RecordSubmitted
  <2>12. CASE RecordRejected(c)  BY <2>12 DEF RecordRejected
  <2>13. CASE PauseRejected(c)  BY <2>13 DEF PauseRejected
  <2>14. CASE RecordUnknown(c)  BY <2>14 DEF RecordUnknown
  <2>15. CASE PauseUnknown(c)  BY <2>15 DEF PauseUnknown
  <2> QED
    BY <1>3, <2>1, <2>2, <2>3, <2>4, <2>5, <2>6, <2>7, <2>8, <2>9,
            <2>10, <2>11, <2>12, <2>13, <2>14, <2>15 DEF Execute
<1>4. CASE Exchange
  <2>1. ASSUME NEW r \in requests, ExchangeAccepts(r) PROVE OnceInv'
    BY <2>1 DEF ExchangeAccepts, Reply
  <2>2. ASSUME NEW r \in requests, ExchangeRejects(r) PROVE OnceInv'
    BY <2>2 DEF ExchangeRejects, Reply
  <2>3. ASSUME NEW r \in requests, RequestLost(r) PROVE OnceInv'
    BY <2>3 DEF RequestLost
  <2>4. ASSUME NEW s \in Signals, OrderCloses(s) PROVE OnceInv'
    BY <2>4 DEF OrderCloses
  <2>5. CASE CountdownRunsOut  BY <2>5 DEF CountdownRunsOut
  <2> QED
    BY <1>4, <2>1, <2>2, <2>3, <2>4, <2>5 DEF Exchange
<1>5. CASE Operator
  <2>1. CASE OperatorPause  BY <2>1 DEF OperatorPause
  <2>2. CASE ResumeCheck  BY <2>2 DEF ResumeCheck
  <2>3. CASE ResumeClear  BY <2>3 DEF ResumeClear
  <2>4. CASE KillFlag  BY <2>4 DEF KillFlag
  <2>5. CASE KillPause  BY <2>5 DEF KillPause
  <2>6. CASE KillCancelAll  BY <2>6 DEF KillCancelAll
  <2> QED
    BY <1>5, <2>1, <2>2, <2>3, <2>4, <2>5, <2>6 DEF Operator
<1>6. CASE Crash
  BY <1>6 DEF Crash
<1>7. CASE UNCHANGED vars
  BY <1>7 DEF vars
<1> QED
  BY <1>1, <1>2, <1>3, <1>4, <1>5, <1>6, <1>7 DEF Next, Cycle

-----------------------------------------------------------------------------
(* What a closed record says about the exchange.                           *)

\* Before its one request is answered, a signal has nothing at the exchange;
\* after that the state of its order only moves forward.
ExchInv ==
    /\ \A s \in Signals : sends[s] = 0 => exch[s] = "none" /\ \A r \in requests : r.sig # s
    /\ \A r \in requests : exch[r.sig] = "none"
    /\ \A r, q \in requests : r.sig = q.sig => r = q
    /\ \A c \in Callers : answer[c] # NoAnswer => pc[c] \in {"settle", "await"}
    /\ \A c \in Callers :
        pc[c] = "await" /\ answer[c] \in {"rejected", "unavailable"} =>
            exch[sig[c]] = "none" /\ \A r \in requests : r.sig # sig[c]
    /\ \A c \in Callers :
        pc[c] = "settle" /\ answer[c] \in {"filled", "canceled"} => exch[sig[c]] = answer[c]
    /\ RejectedMeansNoOrder
    /\ ClosedMatchesExchange

LEMMA ExchInit == Init => ExchInv
  BY DEF Init, ExchInv, RejectedMeansNoOrder, ClosedMatchesExchange, NoAnswer

LEMMA ExchStep ==
    TypeInv /\ RecordInv /\ NoHandOver /\ OwnerInv /\ OnceInv /\ ExchInv /\ [Next]_vars
        => ExchInv'
<1> SUFFICES ASSUME TypeInv, RecordInv, NoHandOver, OwnerInv, OnceInv, ExchInv, [Next]_vars
             PROVE  ExchInv'
  OBVIOUS
<1> USE DEF TypeInv, TypeOK, durable, exchange, local, operator, history,
            Goto, Leave, UpdateRecord, Pause, NoAnswer, SignalPcs,
            Pcs, PassPcs, EntryPcs, GatePcs, PastGate, PlacePcs,
            Open, Terminal, Work
<1> USE DEF RecordInv, IntentBeforeSend, OwnerInv, OwnerPcs, OnceInv, SentAtMostOnce,
            ExchInv, RejectedMeansNoOrder, ClosedMatchesExchange, NoHandOver
<1>1. ASSUME NEW c \in Callers, Recovery(c) PROVE ExchInv'
  <2>1. CASE BeginCycle(c)  BY <2>1 DEF BeginCycle
  <2>2. CASE ListRecoverable(c)  BY <2>2 DEF ListRecoverable
  <2>3. CASE RecoverPrepared(c)  BY <2>3 DEF RecoverPrepared
  <2>4. CASE ReconcileTerminal(c)  BY <2>4 DEF ReconcileTerminal
  <2>5. ASSUME NEW s \in Signals, ReconcileAnswered(c, s) PROVE ExchInv'
    BY <2>5 DEF ReconcileAnswered, ReconcileQuery
  <2>6. ASSUME NEW s \in Signals, ReconcileUnresolved(c, s) PROVE ExchInv'
    BY <2>6 DEF ReconcileUnresolved, ReconcileQuery
  <2>7. CASE TransientFailure(c)  BY <2>7 DEF TransientFailure
  <2>8. CASE ReconcileWrite(c)  BY <2>8 DEF ReconcileWrite
  <2>9. CASE GuardBlocks(c)  BY <2>9 DEF GuardBlocks
  <2>10. CASE GuardPasses(c)  BY <2>10 DEF GuardPasses
  <2> QED
    BY <1>1, <2>1, <2>2, <2>3, <2>4, <2>5, <2>6, <2>7, <2>8, <2>9, <2>10 DEF Recovery
<1>2. ASSUME NEW c \in Callers, Batch(c) PROVE ExchInv'
  <2>1. CASE EndBatch(c)  BY <2>1 DEF EndBatch
  <2>2. CASE SkipSignal(c)  BY <2>2 DEF SkipSignal, NextSignal
  <2>3. CASE LeverageUnknown(c)  BY <2>3 DEF LeverageUnknown
  <2>4. CASE LeverageSet(c)  BY <2>4 DEF LeverageSet, NextSignal
  <2>5. CASE AbandonBatch(c)  BY <2>5 DEF AbandonBatch
  <2>6. CASE CheckPaused(c)  BY <2>6 DEF CheckPaused
  <2> QED
    BY <1>2, <2>1, <2>2, <2>3, <2>4, <2>5, <2>6 DEF Batch
<1>3. ASSUME NEW c \in Callers, Execute(c) PROVE ExchInv'
  <2>1. CASE IdentityRefused(c)  BY <2>1 DEF IdentityRefused
  <2>2. CASE ReadKillSwitch(c)  BY <2>2 DEF ReadKillSwitch
  <2>3. CASE ReadPaused(c)  BY <2>3 DEF ReadPaused
  <2>4. CASE LookupIntent(c)  BY <2>4 DEF LookupIntent, AfterIntent
  <2>5. CASE InsertIntent(c)  BY <2>5 DEF InsertIntent
  <2>6. CASE InsertConflict(c)  BY <2>6 DEF InsertConflict
  <2>7. CASE RereadIntent(c)  BY <2>7 DEF RereadIntent, AfterIntent
  <2>8. CASE SendRequest(c)
    <3> DEFINE q == [sig |-> sig[c], by |-> c]
    <3>1. /\ requests' = requests \union {q}
          /\ q.sig = sig[c]
          /\ UNCHANGED <<rec, exch, sig, answer>>
      BY <2>8 DEF SendRequest
    <3>2. /\ exch[sig[c]] = "none"
          /\ \A r \in requests : r.sig # sig[c]
          /\ rec[sig[c]] = "prepared"
          /\ sig[c] \in Signals
      BY <2>8 DEF SendRequest
    <3>3. \A s \in Signals : sends'[s] = 0 => sends[s] = 0 /\ s # sig[c]
      BY <2>8, <3>2 DEF SendRequest
    <3>4. \A s \in Signals : sends'[s] = 0 => exch'[s] = "none" /\ \A r \in requests' : r.sig # s
      BY <3>1, <3>3
    <3>5. /\ \A r \in requests' : exch'[r.sig] = "none"
          /\ \A r, p \in requests' : r.sig = p.sig => r = p
      BY <3>1, <3>2
    <3>6. /\ pc' \in [Callers -> Pcs]
          /\ pc'[c] = "await"
          /\ \A d \in Callers \ {c} : pc'[d] = pc[d]
      BY <2>8 DEF SendRequest
    <3>7. answer[c] \notin {"rejected", "unavailable"}
      BY <2>8 DEF SendRequest
    <3>8. \A d \in Callers :
            pc'[d] = "await" /\ answer'[d] \in {"rejected", "unavailable"} =>
                exch'[sig'[d]] = "none" /\ \A r \in requests' : r.sig # sig'[d]
      BY <2>8, <3>1, <3>2, <3>6, <3>7 DEF SendRequest
    <3>9. RejectedMeansNoOrder' /\ ClosedMatchesExchange'
      BY <3>1, <3>2
    <3> QED
      BY <3>1, <3>4, <3>5, <3>6, <3>8, <3>9
  <2>9. CASE SendFails(c)  BY <2>9 DEF SendFails
  <2>10. CASE AwaitFails(c)  BY <2>10 DEF AwaitFails
  <2>11. CASE RecordSubmitted(c)  BY <2>11 DEF RecordSubmitted
  <2>12. CASE RecordRejected(c)  BY <2>12 DEF RecordRejected
  <2>13. CASE PauseRejected(c)  BY <2>13 DEF PauseRejected
  <2>14. CASE RecordUnknown(c)  BY <2>14 DEF RecordUnknown
  <2>15. CASE PauseUnknown(c)  BY <2>15 DEF PauseUnknown
  <2> QED
    BY <1>3, <2>1, <2>2, <2>3, <2>4, <2>5, <2>6, <2>7, <2>8, <2>9,
            <2>10, <2>11, <2>12, <2>13, <2>14, <2>15 DEF Execute
<1>4. CASE Exchange
  <2>1. ASSUME NEW r \in requests, ExchangeAccepts(r) PROVE ExchInv'
    BY <2>1 DEF ExchangeAccepts, Reply
  <2>2. ASSUME NEW r \in requests, ExchangeRejects(r) PROVE ExchInv'
    BY <2>2 DEF ExchangeRejects, Reply
  <2>3. ASSUME NEW r \in requests, RequestLost(r) PROVE ExchInv'
    BY <2>3 DEF RequestLost
  <2>4. ASSUME NEW s \in Signals, OrderCloses(s) PROVE ExchInv'
    BY <2>4 DEF OrderCloses
  <2>5. CASE CountdownRunsOut  BY <2>5 DEF CountdownRunsOut
  <2> QED
    BY <1>4, <2>1, <2>2, <2>3, <2>4, <2>5 DEF Exchange
<1>5. CASE Operator
  <2>1. CASE OperatorPause  BY <2>1 DEF OperatorPause
  <2>2. CASE ResumeCheck  BY <2>2 DEF ResumeCheck
  <2>3. CASE ResumeClear  BY <2>3 DEF ResumeClear
  <2>4. CASE KillFlag  BY <2>4 DEF KillFlag
  <2>5. CASE KillPause  BY <2>5 DEF KillPause
  <2>6. CASE KillCancelAll  BY <2>6 DEF KillCancelAll
  <2> QED
    BY <1>5, <2>1, <2>2, <2>3, <2>4, <2>5, <2>6 DEF Operator
<1>6. CASE Crash
  BY <1>6 DEF Crash
<1>7. CASE UNCHANGED vars
  BY <1>7 DEF vars
<1> QED
  BY <1>1, <1>2, <1>3, <1>4, <1>5, <1>6, <1>7 DEF Next, Cycle

\* The invariant of the order path.
OrderInv == TypeInv /\ RecordInv /\ OwnerInv /\ OnceInv /\ ExchInv

LEMMA OrderInvariant == OwnRecords /\ Spec => []OrderInv
<1> SUFFICES ASSUME OwnRecords PROVE Spec => []OrderInv
  OBVIOUS
<1>1. TypeInv /\ ResidueInv /\ PreparedInv => NoHandOver
  BY Kept
<1> QED
  BY <1>1, TypeInit, TypeStep, RecordInit, RecordStep, ResidueInit, ResidueStep,
     PreparedInit, PreparedStep, OwnerInit, OwnerStep, OnceStep, ExchInit, ExchStep,
     PTL DEF Spec, OrderInv

\* However many callers share the ledger, and whatever crashes, a signal is sent
\* at most once: when its content differs at every presentation, and when it is
\* always the same caller that presents it.
THEOREM SentOnce == OwnRecords /\ Spec => []SentAtMostOnce
<1>1. OrderInv => SentAtMostOnce
  BY DEF OrderInv, OnceInv
<1> QED
  BY <1>1, OrderInvariant, PTL

\* A closed record agrees with the exchange: rejected means there is no order
\* and none can follow, filled and canceled are what the exchange says.
THEOREM ClosedAgrees ==
    OwnRecords /\ Spec => [](RejectedMeansNoOrder /\ ClosedMatchesExchange)
<1>1. OrderInv => RejectedMeansNoOrder /\ ClosedMatchesExchange
  BY DEF OrderInv, ExchInv
<1> QED
  BY <1>1, OrderInvariant, PTL

\* A record closed as rejected has no order, and none can follow.
THEOREM RejectedIsNoOrder == OwnRecords /\ Spec => []RejectedMeansNoOrder
  BY ClosedAgrees, PTL

-----------------------------------------------------------------------------
(* The abstract promise.                                                   *)

\* What the promise tells apart: which signals have a record, the requests
\* sent, and the orders.
Unnoticed ==
    /\ UNCHANGED <<exch, sends>>
    /\ \A s \in Signals : rec'[s] = "none" <=> rec[s] = "none"

LEMMA PromiseStutter ==
    ASSUME Unnoticed
    PROVE  UNCHANGED Promise!promiseVars
  BY DEF Unnoticed, Promise!promiseVars

LEMMA PromiseInit == Init => Promise!Init
  BY DEF Init, Promise!Init

\* The steps of a caller that neither insert a record nor send a request.
LEMMA CallerUnnoticed ==
    ASSUME TypeInv, RecordInv, NEW c \in Callers, Cycle(c)
    PROVE  Unnoticed \/ InsertIntent(c) \/ SendRequest(c)
<1> USE DEF TypeInv, TypeOK, durable, exchange, history, Pause, UpdateRecord, Unnoticed,
            SignalPcs, PlacePcs
<1>1. ASSUME Recovery(c) PROVE Unnoticed
  <2>1. CASE ReconcileWrite(c)  BY <2>1 DEF ReconcileWrite, RecordInv
  <2>2. ASSUME NEW s \in Signals, ReconcileAnswered(c, s) \/ ReconcileUnresolved(c, s)
        PROVE  Unnoticed
    BY <2>2 DEF ReconcileAnswered, ReconcileUnresolved, ReconcileQuery
  <2>3. CASE BeginCycle(c) \/ ListRecoverable(c) \/ RecoverPrepared(c) \/ ReconcileTerminal(c)
    BY <2>3 DEF BeginCycle, ListRecoverable, RecoverPrepared, ReconcileTerminal
  <2>4. CASE TransientFailure(c) \/ GuardBlocks(c) \/ GuardPasses(c)
    BY <2>4 DEF TransientFailure, GuardBlocks, GuardPasses
  <2> QED
    BY <1>1, <2>1, <2>2, <2>3, <2>4 DEF Recovery
<1>2. ASSUME Batch(c) PROVE Unnoticed
  BY <1>2
  DEF Batch, EndBatch, SkipSignal, LeverageUnknown, LeverageSet, AbandonBatch, CheckPaused
<1>3. ASSUME Execute(c) PROVE Unnoticed \/ InsertIntent(c) \/ SendRequest(c)
  <2>1. CASE RecordSubmitted(c) \/ RecordRejected(c) \/ RecordUnknown(c)
    BY <2>1 DEF RecordSubmitted, RecordRejected, RecordUnknown, RecordInv
  <2>2. CASE IdentityRefused(c) \/ ReadKillSwitch(c) \/ ReadPaused(c) \/ LookupIntent(c)
    BY <2>2 DEF IdentityRefused, ReadKillSwitch, ReadPaused, LookupIntent
  <2>3. CASE InsertConflict(c) \/ RereadIntent(c) \/ SendFails(c) \/ AwaitFails(c)
    BY <2>3 DEF InsertConflict, RereadIntent, SendFails, AwaitFails
  <2>4. CASE PauseRejected(c) \/ PauseUnknown(c)
    BY <2>4 DEF PauseRejected, PauseUnknown
  <2> QED
    BY <1>3, <2>1, <2>2, <2>3, <2>4 DEF Execute
<1> QED
  BY <1>1, <1>2, <1>3 DEF Cycle

LEMMA PromiseCaller ==
    ASSUME TypeInv, RecordInv, OwnerInv, OnceInv,
           NEW c \in Callers, Cycle(c)
    PROVE  [Promise!Next]_Promise!promiseVars
<1> USE DEF TypeInv, TypeOK, durable, exchange, SignalPcs, PastGate
<1>1. CASE InsertIntent(c)
  <2>1. /\ sig[c] \in Signals /\ rec' = [rec EXCEPT ![sig[c]] = "prepared"]
        /\ UNCHANGED <<exch, sends>>
    BY <1>1 DEF InsertIntent, UpdateRecord, history
  <2>2. {s \in Signals : rec'[s] # "none"} = {s \in Signals : rec[s] # "none"} \union {sig[c]}
    BY <2>1
  <2> QED
    BY <2>1, <2>2 DEF Promise!Next, Promise!Intend
<1>2. CASE SendRequest(c)
  <2>1. /\ pc[c] = "send" /\ sig[c] \in Signals
        /\ sends' = [sends EXCEPT ![sig[c]] = @ + 1]
        /\ UNCHANGED <<rec, exch>>
    BY <1>2 DEF SendRequest
  <2>2. sends[sig[c]] = 0 /\ rec[sig[c]] = "prepared"
    BY <2>1 DEF OnceInv, OwnerInv, OwnerPcs
  <2>3. sends' = [sends EXCEPT ![sig[c]] = 1]
    BY <2>1, <2>2
  <2> QED
    BY <2>1, <2>2, <2>3 DEF Promise!Next, Promise!Send
<1> QED
  BY <1>1, <1>2, CallerUnnoticed, PromiseStutter

\* What a step of the exchange does to the orders.
OrderMoves ==
    /\ UNCHANGED <<rec, sends>>
    /\ exch' \in [Signals -> ExchStatus]
    /\ \A s \in Signals :
        \/ exch'[s] = exch[s]
        \/ exch[s] = "none" /\ sends[s] = 1 /\ exch'[s] = "live"
        \/ exch[s] = "live" /\ exch'[s] \in {"filled", "canceled"}

LEMMA ExchangeMoves ==
    ASSUME TypeInv, OnceInv, ExchInv, Exchange
    PROVE  OrderMoves
<1> USE DEF TypeInv, TypeOK, ExchStatus, durable, history, OrderMoves
<1>1. ASSUME NEW r \in requests, ExchangeAccepts(r) PROVE OrderMoves
  <2>1. r.sig \in Signals /\ exch[r.sig] = "none" /\ sends[r.sig] = 1
    BY DEF OnceInv, SentAtMostOnce, ExchInv
  <2> QED
    BY <1>1, <2>1 DEF ExchangeAccepts
<1>2. ASSUME NEW r \in requests, ExchangeRejects(r) \/ RequestLost(r) PROVE OrderMoves
  BY <1>2 DEF ExchangeRejects, RequestLost
<1>3. ASSUME NEW s \in Signals, OrderCloses(s) PROVE OrderMoves
  BY <1>3 DEF OrderCloses
<1>4. CASE CountdownRunsOut
  BY <1>4 DEF CountdownRunsOut
<1> HIDE DEF OrderMoves
<1> QED
  BY <1>1, <1>2, <1>3, <1>4 DEF Exchange

MarketOf(e) == CASE e = "none" -> "none" [] e = "live" -> "open" [] OTHER -> "done"

LEMMA PromiseExchange ==
    ASSUME TypeInv, OnceInv, ExchInv, Exchange
    PROVE  [Promise!Next]_Promise!promiseVars
<1>1. OrderMoves
  BY ExchangeMoves
<1>2. \A s \in Signals : MarketOf(exch'[s]) \in {"none", "open", "done"}
  BY DEF MarketOf
<1>3. \A s \in Signals :
        \/ MarketOf(exch'[s]) = MarketOf(exch[s])
        \/ sends[s] = 1 /\ MarketOf(exch[s]) = "none" /\ MarketOf(exch'[s]) = "open"
        \/ MarketOf(exch[s]) = "open" /\ MarketOf(exch'[s]) = "done"
  BY <1>1 DEF MarketOf, OrderMoves
<1> QED
  BY <1>1, <1>2, <1>3
  DEF OrderMoves, Promise!Next, Promise!Trade, Promise!Advances, MarketOf

\* The Demo order path keeps the abstract promise of OrderPromise: an intent
\* before a request, one request, one order for a signal, which ends once.
THEOREM DemoRefines == OwnRecords /\ Spec => ImplementsOrderPromise
<1>1. ASSUME OrderInv, [Next]_vars
      PROVE  [Promise!Next]_Promise!promiseVars
  <2> USE DEF OrderInv
  <2>1. CASE UNCHANGED vars
    BY <2>1, PromiseStutter DEF vars, durable, exchange, history, Unnoticed
  <2>2. CASE Operator
    <3>1. Unnoticed
      BY <2>2
      DEF Operator, OperatorPause, ResumeCheck, ResumeClear, KillFlag, KillPause,
          KillCancelAll, durable, exchange, history, Unnoticed
    <3> QED
      BY <3>1, PromiseStutter
  <2>3. CASE Crash
    BY <2>3, PromiseStutter DEF Crash, durable, exchange, Unnoticed
  <2> QED
    BY <1>1, <2>1, <2>2, <2>3, PromiseCaller, PromiseExchange DEF Next
<1> QED
  BY <1>1, PromiseInit, OrderInvariant, PTL DEF Spec, ImplementsOrderPromise, Promise!Spec

-----------------------------------------------------------------------------
(* What the abstract promise says by itself.                               *)

\* A request is one of at most one and follows the intent, and an order
\* follows the request.
Accounted ==
    /\ sends \in [Signals -> {0, 1}]
    /\ \A s \in Signals : sends[s] # 0 => rec[s] # "none"
    /\ \A s \in Signals : exch[s] # "none" => sends[s] = 1

LEMMA AccountedInit == Promise!Init => Accounted
<1> SUFFICES ASSUME Promise!Init PROVE Accounted
  OBVIOUS
<1>1. sends = [s \in Signals |-> 0]
  BY DEF Promise!Init
<1>2. ASSUME NEW s \in Signals PROVE exch[s] = "none"
  BY DEF Promise!Init
<1> QED
  BY <1>1, <1>2 DEF Accounted

LEMMA AccountedStep == Accounted /\ [Promise!Next]_(Promise!promiseVars) => Accounted'
<1> DEFINE Intended == {s \in Signals : rec[s] # "none"}
           Market == [s \in Signals |-> CASE exch[s] = "none" -> "none"
                                          [] exch[s] = "live" -> "open"
                                          [] OTHER -> "done"]
<1> SUFFICES ASSUME Accounted, [Promise!Next]_(Promise!promiseVars)
             PROVE  Accounted'
  OBVIOUS
<1>0. ASSUME NEW s \in Signals
      PROVE  /\ s \in Intended <=> rec[s] # "none"
             /\ s \in Intended' <=> rec'[s] # "none"
             /\ Market[s] = "none" <=> exch[s] = "none"
             /\ Market'[s] = "none" <=> exch'[s] = "none"
  OBVIOUS
<1>1. CASE Promise!Intend
  <2>1. Intended \subseteq Intended' /\ sends' = sends /\ Market' = Market
    BY <1>1 DEF Promise!Intend
  <2> QED
    BY <2>1, <1>0 DEF Accounted
<1>2. CASE Promise!Send
  <2>1. Intended' = Intended /\ Market' = Market
    BY <1>2 DEF Promise!Send
  <2>2. PICK s \in Intended : sends[s] = 0 /\ sends' = [sends EXCEPT ![s] = 1]
    BY <1>2 DEF Promise!Send
  <2> QED
    BY <2>1, <2>2, <1>0 DEF Accounted
<1>3. CASE Promise!Trade
  <2>1. Intended' = Intended /\ sends' = sends
    BY <1>3 DEF Promise!Trade
  <2>2. ASSUME NEW s \in Signals PROVE Market[s] = "none" /\ Market'[s] # "none" => sends[s] = 1
    BY <1>3 DEF Promise!Trade, Promise!Advances
  <2> QED
    BY <2>1, <2>2, <1>0 DEF Accounted
<1>4. CASE UNCHANGED Promise!promiseVars
  <2>1. Intended' = Intended /\ sends' = sends /\ Market' = Market
    BY <1>4 DEF Promise!promiseVars
  <2> QED
    BY <2>1, <1>0 DEF Accounted
<1> QED
  BY <1>1, <1>2, <1>3, <1>4 DEF Promise!Next

\* Whatever keeps the order promise sends no signal twice: the abstract
\* specification loses nothing of what the ledger is there for.
THEOREM PromiseSuffices == ImplementsOrderPromise => []SentAtMostOnce
<1>1. Accounted => SentAtMostOnce
  BY DEF Accounted, SentAtMostOnce
<1> QED
  BY <1>1, AccountedInit, AccountedStep, PTL DEF ImplementsOrderPromise, Promise!Spec

-----------------------------------------------------------------------------
(* The kill switch.                                                        *)

\* The countdown is only started behind the flag, and the flag is never
\* cleared: who is not past the gate when it runs out never gets past it.
KillInv ==
    /\ killer # "idle" \/ timer # "off" => killSwitch
    /\ timer = "fired" => \A r \in requests : r.sig \in straddle
    /\ timer = "fired" => \A c \in Callers : pc[c] \in PastGate => sig[c] \in straddle
    /\ KillExposure

LEMMA KillInit == Init => KillInv
  BY DEF Init, KillInv, KillExposure

LEMMA KillStep ==
    TypeInv /\ KillInv /\ [Next]_vars => KillInv'
<1> SUFFICES ASSUME TypeInv, KillInv, [Next]_vars PROVE KillInv'
  OBVIOUS
<1> USE DEF TypeInv, TypeOK, durable, exchange, local, operator, history,
            Goto, Leave, UpdateRecord, Pause, NoAnswer, SignalPcs,
            Pcs, PassPcs, EntryPcs, GatePcs, PastGate, PlacePcs,
            Open, Terminal, Work
<1> USE DEF KillInv, KillExposure
<1>1. ASSUME NEW c \in Callers, Recovery(c) PROVE KillInv'
  <2>1. CASE BeginCycle(c)  BY <2>1 DEF BeginCycle
  <2>2. CASE ListRecoverable(c)  BY <2>2 DEF ListRecoverable
  <2>3. CASE RecoverPrepared(c)  BY <2>3 DEF RecoverPrepared
  <2>4. CASE ReconcileTerminal(c)  BY <2>4 DEF ReconcileTerminal
  <2>5. ASSUME NEW s \in Signals, ReconcileAnswered(c, s) PROVE KillInv'
    BY <2>5 DEF ReconcileAnswered, ReconcileQuery
  <2>6. ASSUME NEW s \in Signals, ReconcileUnresolved(c, s) PROVE KillInv'
    BY <2>6 DEF ReconcileUnresolved, ReconcileQuery
  <2>7. CASE TransientFailure(c)  BY <2>7 DEF TransientFailure
  <2>8. CASE ReconcileWrite(c)  BY <2>8 DEF ReconcileWrite
  <2>9. CASE GuardBlocks(c)  BY <2>9 DEF GuardBlocks
  <2>10. CASE GuardPasses(c)  BY <2>10 DEF GuardPasses
  <2> QED
    BY <1>1, <2>1, <2>2, <2>3, <2>4, <2>5, <2>6, <2>7, <2>8, <2>9, <2>10 DEF Recovery
<1>2. ASSUME NEW c \in Callers, Batch(c) PROVE KillInv'
  <2>1. CASE EndBatch(c)  BY <2>1 DEF EndBatch
  <2>2. CASE SkipSignal(c)  BY <2>2 DEF SkipSignal, NextSignal
  <2>3. CASE LeverageUnknown(c)  BY <2>3 DEF LeverageUnknown
  <2>4. CASE LeverageSet(c)  BY <2>4 DEF LeverageSet, NextSignal
  <2>5. CASE AbandonBatch(c)  BY <2>5 DEF AbandonBatch
  <2>6. CASE CheckPaused(c)  BY <2>6 DEF CheckPaused
  <2> QED
    BY <1>2, <2>1, <2>2, <2>3, <2>4, <2>5, <2>6 DEF Batch
<1>3. ASSUME NEW c \in Callers, Execute(c) PROVE KillInv'
  <2>1. CASE IdentityRefused(c)  BY <2>1 DEF IdentityRefused
  <2>2. CASE ReadKillSwitch(c)  BY <2>2 DEF ReadKillSwitch
  <2>3. CASE ReadPaused(c)  BY <2>3 DEF ReadPaused
  <2>4. CASE LookupIntent(c)  BY <2>4 DEF LookupIntent, AfterIntent
  <2>5. CASE InsertIntent(c)  BY <2>5 DEF InsertIntent
  <2>6. CASE InsertConflict(c)  BY <2>6 DEF InsertConflict
  <2>7. CASE RereadIntent(c)  BY <2>7 DEF RereadIntent, AfterIntent
  <2>8. CASE SendRequest(c)  BY <2>8 DEF SendRequest
  <2>9. CASE SendFails(c)  BY <2>9 DEF SendFails
  <2>10. CASE AwaitFails(c)  BY <2>10 DEF AwaitFails
  <2>11. CASE RecordSubmitted(c)  BY <2>11 DEF RecordSubmitted
  <2>12. CASE RecordRejected(c)  BY <2>12 DEF RecordRejected
  <2>13. CASE PauseRejected(c)  BY <2>13 DEF PauseRejected
  <2>14. CASE RecordUnknown(c)  BY <2>14 DEF RecordUnknown
  <2>15. CASE PauseUnknown(c)  BY <2>15 DEF PauseUnknown
  <2> QED
    BY <1>3, <2>1, <2>2, <2>3, <2>4, <2>5, <2>6, <2>7, <2>8, <2>9,
            <2>10, <2>11, <2>12, <2>13, <2>14, <2>15 DEF Execute
<1>4. CASE Exchange
  <2>1. ASSUME NEW r \in requests, ExchangeAccepts(r) PROVE KillInv'
    BY <2>1 DEF ExchangeAccepts, Reply
  <2>2. ASSUME NEW r \in requests, ExchangeRejects(r) PROVE KillInv'
    BY <2>2 DEF ExchangeRejects, Reply
  <2>3. ASSUME NEW r \in requests, RequestLost(r) PROVE KillInv'
    BY <2>3 DEF RequestLost
  <2>4. ASSUME NEW s \in Signals, OrderCloses(s) PROVE KillInv'
    BY <2>4 DEF OrderCloses
  <2>5. CASE CountdownRunsOut  BY <2>5 DEF CountdownRunsOut
  <2> QED
    BY <1>4, <2>1, <2>2, <2>3, <2>4, <2>5 DEF Exchange
<1>5. CASE Operator
  <2>1. CASE OperatorPause  BY <2>1 DEF OperatorPause
  <2>2. CASE ResumeCheck  BY <2>2 DEF ResumeCheck
  <2>3. CASE ResumeClear  BY <2>3 DEF ResumeClear
  <2>4. CASE KillFlag  BY <2>4 DEF KillFlag
  <2>5. CASE KillPause  BY <2>5 DEF KillPause
  <2>6. CASE KillCancelAll  BY <2>6 DEF KillCancelAll
  <2> QED
    BY <1>5, <2>1, <2>2, <2>3, <2>4, <2>5, <2>6 DEF Operator
<1>6. CASE Crash
  BY <1>6 DEF Crash
<1>7. CASE UNCHANGED vars
  BY <1>7 DEF vars
<1> QED
  BY <1>1, <1>2, <1>3, <1>4, <1>5, <1>6, <1>7 DEF Next, Cycle

\* An order open after the countdown belongs to a signal that was already past
\* the gate, or on the wire, when it ran out.
THEOREM KillBounded == Spec => []KillExposure
<1>1. KillInv => KillExposure
  BY DEF KillInv
<1> QED
  BY <1>1, TypeInit, TypeStep, KillInit, KillStep, PTL DEF Spec

-----------------------------------------------------------------------------
(* An ambiguous placement.                                                 *)

LEMMA AmbiguityInit == Init => AmbiguityStopsBatch
  BY DEF Init, AmbiguityStopsBatch

LEMMA AmbiguityStep ==
    TypeInv /\ AmbiguityStopsBatch /\ [Next]_vars => AmbiguityStopsBatch'
<1> SUFFICES ASSUME TypeInv, AmbiguityStopsBatch, [Next]_vars PROVE AmbiguityStopsBatch'
  OBVIOUS
<1> USE DEF TypeInv, TypeOK, durable, exchange, local, operator, history,
            Goto, Leave, UpdateRecord, Pause, NoAnswer, SignalPcs,
            Pcs, PassPcs, EntryPcs, GatePcs, PastGate, PlacePcs,
            Open, Terminal, Work
<1> USE DEF AmbiguityStopsBatch
<1>1. ASSUME NEW c \in Callers, Recovery(c) PROVE AmbiguityStopsBatch'
  <2>1. CASE BeginCycle(c)  BY <2>1 DEF BeginCycle
  <2>2. CASE ListRecoverable(c)  BY <2>2 DEF ListRecoverable
  <2>3. CASE RecoverPrepared(c)  BY <2>3 DEF RecoverPrepared
  <2>4. CASE ReconcileTerminal(c)  BY <2>4 DEF ReconcileTerminal
  <2>5. ASSUME NEW s \in Signals, ReconcileAnswered(c, s) PROVE AmbiguityStopsBatch'
    BY <2>5 DEF ReconcileAnswered, ReconcileQuery
  <2>6. ASSUME NEW s \in Signals, ReconcileUnresolved(c, s) PROVE AmbiguityStopsBatch'
    BY <2>6 DEF ReconcileUnresolved, ReconcileQuery
  <2>7. CASE TransientFailure(c)  BY <2>7 DEF TransientFailure
  <2>8. CASE ReconcileWrite(c)  BY <2>8 DEF ReconcileWrite
  <2>9. CASE GuardBlocks(c)  BY <2>9 DEF GuardBlocks
  <2>10. CASE GuardPasses(c)  BY <2>10 DEF GuardPasses
  <2> QED
    BY <1>1, <2>1, <2>2, <2>3, <2>4, <2>5, <2>6, <2>7, <2>8, <2>9, <2>10 DEF Recovery
<1>2. ASSUME NEW c \in Callers, Batch(c) PROVE AmbiguityStopsBatch'
  <2>1. CASE EndBatch(c)  BY <2>1 DEF EndBatch
  <2>2. CASE SkipSignal(c)  BY <2>2 DEF SkipSignal, NextSignal
  <2>3. CASE LeverageUnknown(c)  BY <2>3 DEF LeverageUnknown
  <2>4. CASE LeverageSet(c)  BY <2>4 DEF LeverageSet, NextSignal
  <2>5. CASE AbandonBatch(c)  BY <2>5 DEF AbandonBatch
  <2>6. CASE CheckPaused(c)  BY <2>6 DEF CheckPaused
  <2> QED
    BY <1>2, <2>1, <2>2, <2>3, <2>4, <2>5, <2>6 DEF Batch
<1>3. ASSUME NEW c \in Callers, Execute(c) PROVE AmbiguityStopsBatch'
  <2>1. CASE IdentityRefused(c)  BY <2>1 DEF IdentityRefused
  <2>2. CASE ReadKillSwitch(c)  BY <2>2 DEF ReadKillSwitch
  <2>3. CASE ReadPaused(c)  BY <2>3 DEF ReadPaused
  <2>4. CASE LookupIntent(c)  BY <2>4 DEF LookupIntent, AfterIntent
  <2>5. CASE InsertIntent(c)  BY <2>5 DEF InsertIntent
  <2>6. CASE InsertConflict(c)  BY <2>6 DEF InsertConflict
  <2>7. CASE RereadIntent(c)  BY <2>7 DEF RereadIntent, AfterIntent
  <2>8. CASE SendRequest(c)  BY <2>8 DEF SendRequest
  <2>9. CASE SendFails(c)  BY <2>9 DEF SendFails
  <2>10. CASE AwaitFails(c)  BY <2>10 DEF AwaitFails
  <2>11. CASE RecordSubmitted(c)  BY <2>11 DEF RecordSubmitted
  <2>12. CASE RecordRejected(c)  BY <2>12 DEF RecordRejected
  <2>13. CASE PauseRejected(c)  BY <2>13 DEF PauseRejected
  <2>14. CASE RecordUnknown(c)  BY <2>14 DEF RecordUnknown
  <2>15. CASE PauseUnknown(c)  BY <2>15 DEF PauseUnknown
  <2> QED
    BY <1>3, <2>1, <2>2, <2>3, <2>4, <2>5, <2>6, <2>7, <2>8, <2>9,
            <2>10, <2>11, <2>12, <2>13, <2>14, <2>15 DEF Execute
<1>4. CASE Exchange
  <2>1. ASSUME NEW r \in requests, ExchangeAccepts(r) PROVE AmbiguityStopsBatch'
    BY <2>1 DEF ExchangeAccepts, Reply
  <2>2. ASSUME NEW r \in requests, ExchangeRejects(r) PROVE AmbiguityStopsBatch'
    BY <2>2 DEF ExchangeRejects, Reply
  <2>3. ASSUME NEW r \in requests, RequestLost(r) PROVE AmbiguityStopsBatch'
    BY <2>3 DEF RequestLost
  <2>4. ASSUME NEW s \in Signals, OrderCloses(s) PROVE AmbiguityStopsBatch'
    BY <2>4 DEF OrderCloses
  <2>5. CASE CountdownRunsOut  BY <2>5 DEF CountdownRunsOut
  <2> QED
    BY <1>4, <2>1, <2>2, <2>3, <2>4, <2>5 DEF Exchange
<1>5. CASE Operator
  <2>1. CASE OperatorPause  BY <2>1 DEF OperatorPause
  <2>2. CASE ResumeCheck  BY <2>2 DEF ResumeCheck
  <2>3. CASE ResumeClear  BY <2>3 DEF ResumeClear
  <2>4. CASE KillFlag  BY <2>4 DEF KillFlag
  <2>5. CASE KillPause  BY <2>5 DEF KillPause
  <2>6. CASE KillCancelAll  BY <2>6 DEF KillCancelAll
  <2> QED
    BY <1>5, <2>1, <2>2, <2>3, <2>4, <2>5, <2>6 DEF Operator
<1>6. CASE Crash
  BY <1>6 DEF Crash
<1>7. CASE UNCHANGED vars
  BY <1>7 DEF vars
<1> QED
  BY <1>1, <1>2, <1>3, <1>4, <1>5, <1>6, <1>7 DEF Next, Cycle

\* A caller that met an ambiguous placement leaves its batch, unless resumed.
THEOREM AmbiguityStops == Spec => []AmbiguityStopsBatch
  BY TypeInit, TypeStep, AmbiguityInit, AmbiguityStep, PTL DEF Spec


-----------------------------------------------------------------------------
(* With one caller a closed record stays closed.                           *)

\* What one step may do to closed records.
KeepsClosed == \A s \in Signals : rec[s] \in Terminal => rec'[s] = rec[s]

\* The record a lone caller is about to write after a query is still open:
\* nobody else could have closed it since.
OpenInv == \A c \in Callers : pc[c] = "settle" => rec[sig[c]] \notin Terminal

LEMMA OpenStep ==
    ASSUME OneCaller
    PROVE  TypeInv /\ OpenInv /\ [Next]_vars => OpenInv'
<1> SUFFICES ASSUME TypeInv, OpenInv, [Next]_vars PROVE OpenInv'
  OBVIOUS
<1> USE DEF TypeInv, TypeOK, durable, exchange, local, operator, history,
            Goto, Leave, UpdateRecord, Pause, NoAnswer, SignalPcs,
            Pcs, PassPcs, EntryPcs, GatePcs, PastGate, PlacePcs,
            Open, Terminal, Work
<1> USE OneCaller DEF OneCaller, OpenInv
<1>1. ASSUME NEW c \in Callers, Recovery(c) PROVE OpenInv'
  <2>1. CASE BeginCycle(c)  BY <2>1 DEF BeginCycle
  <2>2. CASE ListRecoverable(c)  BY <2>2 DEF ListRecoverable
  <2>3. CASE RecoverPrepared(c)  BY <2>3 DEF RecoverPrepared
  <2>4. CASE ReconcileTerminal(c)  BY <2>4 DEF ReconcileTerminal
  <2>5. ASSUME NEW s \in Signals, ReconcileAnswered(c, s) PROVE OpenInv'
    BY <2>5 DEF ReconcileAnswered, ReconcileQuery
  <2>6. ASSUME NEW s \in Signals, ReconcileUnresolved(c, s) PROVE OpenInv'
    BY <2>6 DEF ReconcileUnresolved, ReconcileQuery
  <2>7. CASE TransientFailure(c)  BY <2>7 DEF TransientFailure
  <2>8. CASE ReconcileWrite(c)  BY <2>8 DEF ReconcileWrite
  <2>9. CASE GuardBlocks(c)  BY <2>9 DEF GuardBlocks
  <2>10. CASE GuardPasses(c)  BY <2>10 DEF GuardPasses
  <2> QED
    BY <1>1, <2>1, <2>2, <2>3, <2>4, <2>5, <2>6, <2>7, <2>8, <2>9, <2>10 DEF Recovery
<1>2. ASSUME NEW c \in Callers, Batch(c) PROVE OpenInv'
  <2>1. CASE EndBatch(c)  BY <2>1 DEF EndBatch
  <2>2. CASE SkipSignal(c)  BY <2>2 DEF SkipSignal, NextSignal
  <2>3. CASE LeverageUnknown(c)  BY <2>3 DEF LeverageUnknown
  <2>4. CASE LeverageSet(c)  BY <2>4 DEF LeverageSet, NextSignal
  <2>5. CASE AbandonBatch(c)  BY <2>5 DEF AbandonBatch
  <2>6. CASE CheckPaused(c)  BY <2>6 DEF CheckPaused
  <2> QED
    BY <1>2, <2>1, <2>2, <2>3, <2>4, <2>5, <2>6 DEF Batch
<1>3. ASSUME NEW c \in Callers, Execute(c) PROVE OpenInv'
  <2>1. CASE IdentityRefused(c)  BY <2>1 DEF IdentityRefused
  <2>2. CASE ReadKillSwitch(c)  BY <2>2 DEF ReadKillSwitch
  <2>3. CASE ReadPaused(c)  BY <2>3 DEF ReadPaused
  <2>4. CASE LookupIntent(c)  BY <2>4 DEF LookupIntent, AfterIntent
  <2>5. CASE InsertIntent(c)  BY <2>5 DEF InsertIntent
  <2>6. CASE InsertConflict(c)  BY <2>6 DEF InsertConflict
  <2>7. CASE RereadIntent(c)  BY <2>7 DEF RereadIntent, AfterIntent
  <2>8. CASE SendRequest(c)  BY <2>8 DEF SendRequest
  <2>9. CASE SendFails(c)  BY <2>9 DEF SendFails
  <2>10. CASE AwaitFails(c)  BY <2>10 DEF AwaitFails
  <2>11. CASE RecordSubmitted(c)  BY <2>11 DEF RecordSubmitted
  <2>12. CASE RecordRejected(c)  BY <2>12 DEF RecordRejected
  <2>13. CASE PauseRejected(c)  BY <2>13 DEF PauseRejected
  <2>14. CASE RecordUnknown(c)  BY <2>14 DEF RecordUnknown
  <2>15. CASE PauseUnknown(c)  BY <2>15 DEF PauseUnknown
  <2> QED
    BY <1>3, <2>1, <2>2, <2>3, <2>4, <2>5, <2>6, <2>7, <2>8, <2>9,
            <2>10, <2>11, <2>12, <2>13, <2>14, <2>15 DEF Execute
<1>4. CASE Exchange
  <2>1. ASSUME NEW r \in requests, ExchangeAccepts(r) PROVE OpenInv'
    BY <2>1 DEF ExchangeAccepts, Reply
  <2>2. ASSUME NEW r \in requests, ExchangeRejects(r) PROVE OpenInv'
    BY <2>2 DEF ExchangeRejects, Reply
  <2>3. ASSUME NEW r \in requests, RequestLost(r) PROVE OpenInv'
    BY <2>3 DEF RequestLost
  <2>4. ASSUME NEW s \in Signals, OrderCloses(s) PROVE OpenInv'
    BY <2>4 DEF OrderCloses
  <2>5. CASE CountdownRunsOut  BY <2>5 DEF CountdownRunsOut
  <2> QED
    BY <1>4, <2>1, <2>2, <2>3, <2>4, <2>5 DEF Exchange
<1>5. CASE Operator
  <2>1. CASE OperatorPause  BY <2>1 DEF OperatorPause
  <2>2. CASE ResumeCheck  BY <2>2 DEF ResumeCheck
  <2>3. CASE ResumeClear  BY <2>3 DEF ResumeClear
  <2>4. CASE KillFlag  BY <2>4 DEF KillFlag
  <2>5. CASE KillPause  BY <2>5 DEF KillPause
  <2>6. CASE KillCancelAll  BY <2>6 DEF KillCancelAll
  <2> QED
    BY <1>5, <2>1, <2>2, <2>3, <2>4, <2>5, <2>6 DEF Operator
<1>6. CASE Crash
  BY <1>6 DEF Crash
<1>7. CASE UNCHANGED vars
  BY <1>7 DEF vars
<1> QED
  BY <1>1, <1>2, <1>3, <1>4, <1>5, <1>6, <1>7 DEF Next, Cycle

LEMMA ClosedStep ==
    TypeInv /\ OwnerInv /\ OpenInv /\ [Next]_vars => KeepsClosed
<1> SUFFICES ASSUME TypeInv, OwnerInv, OpenInv, [Next]_vars PROVE KeepsClosed
  OBVIOUS
<1> USE DEF TypeInv, TypeOK, durable, exchange, local, operator, history,
            Goto, Leave, UpdateRecord, Pause, NoAnswer, SignalPcs,
            Pcs, PassPcs, EntryPcs, GatePcs, PastGate, PlacePcs,
            Open, Terminal, Work
<1> USE DEF KeepsClosed, OpenInv, OwnerInv, OwnerPcs
<1>1. ASSUME NEW c \in Callers, Recovery(c) PROVE KeepsClosed
  <2>1. CASE BeginCycle(c)  BY <2>1 DEF BeginCycle
  <2>2. CASE ListRecoverable(c)  BY <2>2 DEF ListRecoverable
  <2>3. CASE RecoverPrepared(c)  BY <2>3 DEF RecoverPrepared
  <2>4. CASE ReconcileTerminal(c)  BY <2>4 DEF ReconcileTerminal
  <2>5. ASSUME NEW s \in Signals, ReconcileAnswered(c, s) PROVE KeepsClosed
    BY <2>5 DEF ReconcileAnswered, ReconcileQuery
  <2>6. ASSUME NEW s \in Signals, ReconcileUnresolved(c, s) PROVE KeepsClosed
    BY <2>6 DEF ReconcileUnresolved, ReconcileQuery
  <2>7. CASE TransientFailure(c)  BY <2>7 DEF TransientFailure
  <2>8. CASE ReconcileWrite(c)  BY <2>8 DEF ReconcileWrite
  <2>9. CASE GuardBlocks(c)  BY <2>9 DEF GuardBlocks
  <2>10. CASE GuardPasses(c)  BY <2>10 DEF GuardPasses
  <2> QED
    BY <1>1, <2>1, <2>2, <2>3, <2>4, <2>5, <2>6, <2>7, <2>8, <2>9, <2>10 DEF Recovery
<1>2. ASSUME NEW c \in Callers, Batch(c) PROVE KeepsClosed
  <2>1. CASE EndBatch(c)  BY <2>1 DEF EndBatch
  <2>2. CASE SkipSignal(c)  BY <2>2 DEF SkipSignal, NextSignal
  <2>3. CASE LeverageUnknown(c)  BY <2>3 DEF LeverageUnknown
  <2>4. CASE LeverageSet(c)  BY <2>4 DEF LeverageSet, NextSignal
  <2>5. CASE AbandonBatch(c)  BY <2>5 DEF AbandonBatch
  <2>6. CASE CheckPaused(c)  BY <2>6 DEF CheckPaused
  <2> QED
    BY <1>2, <2>1, <2>2, <2>3, <2>4, <2>5, <2>6 DEF Batch
<1>3. ASSUME NEW c \in Callers, Execute(c) PROVE KeepsClosed
  <2>1. CASE IdentityRefused(c)  BY <2>1 DEF IdentityRefused
  <2>2. CASE ReadKillSwitch(c)  BY <2>2 DEF ReadKillSwitch
  <2>3. CASE ReadPaused(c)  BY <2>3 DEF ReadPaused
  <2>4. CASE LookupIntent(c)  BY <2>4 DEF LookupIntent, AfterIntent
  <2>5. CASE InsertIntent(c)  BY <2>5 DEF InsertIntent
  <2>6. CASE InsertConflict(c)  BY <2>6 DEF InsertConflict
  <2>7. CASE RereadIntent(c)  BY <2>7 DEF RereadIntent, AfterIntent
  <2>8. CASE SendRequest(c)  BY <2>8 DEF SendRequest
  <2>9. CASE SendFails(c)  BY <2>9 DEF SendFails
  <2>10. CASE AwaitFails(c)  BY <2>10 DEF AwaitFails
  <2>11. CASE RecordSubmitted(c)  BY <2>11 DEF RecordSubmitted
  <2>12. CASE RecordRejected(c)  BY <2>12 DEF RecordRejected
  <2>13. CASE PauseRejected(c)  BY <2>13 DEF PauseRejected
  <2>14. CASE RecordUnknown(c)  BY <2>14 DEF RecordUnknown
  <2>15. CASE PauseUnknown(c)  BY <2>15 DEF PauseUnknown
  <2> QED
    BY <1>3, <2>1, <2>2, <2>3, <2>4, <2>5, <2>6, <2>7, <2>8, <2>9,
            <2>10, <2>11, <2>12, <2>13, <2>14, <2>15 DEF Execute
<1>4. CASE Exchange
  <2>1. ASSUME NEW r \in requests, ExchangeAccepts(r) PROVE KeepsClosed
    BY <2>1 DEF ExchangeAccepts, Reply
  <2>2. ASSUME NEW r \in requests, ExchangeRejects(r) PROVE KeepsClosed
    BY <2>2 DEF ExchangeRejects, Reply
  <2>3. ASSUME NEW r \in requests, RequestLost(r) PROVE KeepsClosed
    BY <2>3 DEF RequestLost
  <2>4. ASSUME NEW s \in Signals, OrderCloses(s) PROVE KeepsClosed
    BY <2>4 DEF OrderCloses
  <2>5. CASE CountdownRunsOut  BY <2>5 DEF CountdownRunsOut
  <2> QED
    BY <1>4, <2>1, <2>2, <2>3, <2>4, <2>5 DEF Exchange
<1>5. CASE Operator
  <2>1. CASE OperatorPause  BY <2>1 DEF OperatorPause
  <2>2. CASE ResumeCheck  BY <2>2 DEF ResumeCheck
  <2>3. CASE ResumeClear  BY <2>3 DEF ResumeClear
  <2>4. CASE KillFlag  BY <2>4 DEF KillFlag
  <2>5. CASE KillPause  BY <2>5 DEF KillPause
  <2>6. CASE KillCancelAll  BY <2>6 DEF KillCancelAll
  <2> QED
    BY <1>5, <2>1, <2>2, <2>3, <2>4, <2>5, <2>6 DEF Operator
<1>6. CASE Crash
  BY <1>6 DEF Crash
<1>7. CASE UNCHANGED vars
  BY <1>7 DEF vars
<1> QED
  BY <1>1, <1>2, <1>3, <1>4, <1>5, <1>6, <1>7 DEF Next, Cycle

\* A lone caller never writes to a record that is closed.
THEOREM ClosedStaysClosed == OneCaller /\ Spec => ClosedIsFinal
<1> SUFFICES ASSUME OneCaller PROVE Spec => ClosedIsFinal
  OBVIOUS
<1>1. OwnRecords
  BY DEF OwnRecords
<1>2. Init => OpenInv
  BY DEF Init, OpenInv
<1>3. TypeInv /\ OpenInv /\ [Next]_vars => OpenInv'
  BY OpenStep
<1>4. OrderInv /\ OpenInv /\ [Next]_vars =>
        [\A s \in Signals : rec[s] \in Terminal => rec'[s] = rec[s]]_rec
  BY ClosedStep DEF KeepsClosed, OrderInv
<1>5. OrderInv => TypeInv
  BY DEF OrderInv
<1> QED
  BY <1>1, <1>2, <1>3, <1>4, <1>5, OrderInvariant, PTL DEF Spec, ClosedIsFinal
-----------------------------------------------------------------------------
(* What of ClosedOrdersSettle needs no fairness.                           *)

\* What one step may do to open records and closed orders.
Remains ==
    \A s \in Signals :
        /\ rec[s] \in Open => rec'[s] \in Open \union Terminal
        /\ exch[s] \in {"filled", "canceled"} => exch'[s] = exch[s]

LEMMA RemainsStep ==
    TypeInv /\ OwnerInv /\ ExchInv /\ [Next]_vars => Remains
<1> SUFFICES ASSUME TypeInv, OwnerInv, ExchInv, [Next]_vars PROVE Remains
  OBVIOUS
<1> USE DEF TypeInv, TypeOK, durable, exchange, local, operator, history,
            Goto, Leave, UpdateRecord, Pause, NoAnswer, SignalPcs,
            Pcs, PassPcs, EntryPcs, GatePcs, PastGate, PlacePcs,
            Open, Terminal, Work
<1> USE DEF Remains, ExchInv, OwnerInv, OwnerPcs, ExchStatus, RecStatus
<1>1. ASSUME NEW c \in Callers, Recovery(c) PROVE Remains
  <2>1. CASE BeginCycle(c)  BY <2>1 DEF BeginCycle
  <2>2. CASE ListRecoverable(c)  BY <2>2 DEF ListRecoverable
  <2>3. CASE RecoverPrepared(c)  BY <2>3 DEF RecoverPrepared
  <2>4. CASE ReconcileTerminal(c)  BY <2>4 DEF ReconcileTerminal
  <2>5. ASSUME NEW s \in Signals, ReconcileAnswered(c, s) PROVE Remains
    BY <2>5 DEF ReconcileAnswered, ReconcileQuery
  <2>6. ASSUME NEW s \in Signals, ReconcileUnresolved(c, s) PROVE Remains
    BY <2>6 DEF ReconcileUnresolved, ReconcileQuery
  <2>7. CASE TransientFailure(c)  BY <2>7 DEF TransientFailure
  <2>8. CASE ReconcileWrite(c)  BY <2>8 DEF ReconcileWrite
  <2>9. CASE GuardBlocks(c)  BY <2>9 DEF GuardBlocks
  <2>10. CASE GuardPasses(c)  BY <2>10 DEF GuardPasses
  <2> QED
    BY <1>1, <2>1, <2>2, <2>3, <2>4, <2>5, <2>6, <2>7, <2>8, <2>9, <2>10 DEF Recovery
<1>2. ASSUME NEW c \in Callers, Batch(c) PROVE Remains
  <2>1. CASE EndBatch(c)  BY <2>1 DEF EndBatch
  <2>2. CASE SkipSignal(c)  BY <2>2 DEF SkipSignal, NextSignal
  <2>3. CASE LeverageUnknown(c)  BY <2>3 DEF LeverageUnknown
  <2>4. CASE LeverageSet(c)  BY <2>4 DEF LeverageSet, NextSignal
  <2>5. CASE AbandonBatch(c)  BY <2>5 DEF AbandonBatch
  <2>6. CASE CheckPaused(c)  BY <2>6 DEF CheckPaused
  <2> QED
    BY <1>2, <2>1, <2>2, <2>3, <2>4, <2>5, <2>6 DEF Batch
<1>3. ASSUME NEW c \in Callers, Execute(c) PROVE Remains
  <2>1. CASE IdentityRefused(c)  BY <2>1 DEF IdentityRefused
  <2>2. CASE ReadKillSwitch(c)  BY <2>2 DEF ReadKillSwitch
  <2>3. CASE ReadPaused(c)  BY <2>3 DEF ReadPaused
  <2>4. CASE LookupIntent(c)  BY <2>4 DEF LookupIntent, AfterIntent
  <2>5. CASE InsertIntent(c)  BY <2>5 DEF InsertIntent
  <2>6. CASE InsertConflict(c)  BY <2>6 DEF InsertConflict
  <2>7. CASE RereadIntent(c)  BY <2>7 DEF RereadIntent, AfterIntent
  <2>8. CASE SendRequest(c)  BY <2>8 DEF SendRequest
  <2>9. CASE SendFails(c)  BY <2>9 DEF SendFails
  <2>10. CASE AwaitFails(c)  BY <2>10 DEF AwaitFails
  <2>11. CASE RecordSubmitted(c)  BY <2>11 DEF RecordSubmitted
  <2>12. CASE RecordRejected(c)  BY <2>12 DEF RecordRejected
  <2>13. CASE PauseRejected(c)  BY <2>13 DEF PauseRejected
  <2>14. CASE RecordUnknown(c)  BY <2>14 DEF RecordUnknown
  <2>15. CASE PauseUnknown(c)  BY <2>15 DEF PauseUnknown
  <2> QED
    BY <1>3, <2>1, <2>2, <2>3, <2>4, <2>5, <2>6, <2>7, <2>8, <2>9,
            <2>10, <2>11, <2>12, <2>13, <2>14, <2>15 DEF Execute
<1>4. CASE Exchange
  <2>1. ASSUME NEW r \in requests, ExchangeAccepts(r) PROVE Remains
    BY <2>1 DEF ExchangeAccepts, Reply
  <2>2. ASSUME NEW r \in requests, ExchangeRejects(r) PROVE Remains
    BY <2>2 DEF ExchangeRejects, Reply
  <2>3. ASSUME NEW r \in requests, RequestLost(r) PROVE Remains
    BY <2>3 DEF RequestLost
  <2>4. ASSUME NEW s \in Signals, OrderCloses(s) PROVE Remains
    BY <2>4 DEF OrderCloses
  <2>5. CASE CountdownRunsOut  BY <2>5 DEF CountdownRunsOut
  <2> QED
    BY <1>4, <2>1, <2>2, <2>3, <2>4, <2>5 DEF Exchange
<1>5. CASE Operator
  <2>1. CASE OperatorPause  BY <2>1 DEF OperatorPause
  <2>2. CASE ResumeCheck  BY <2>2 DEF ResumeCheck
  <2>3. CASE ResumeClear  BY <2>3 DEF ResumeClear
  <2>4. CASE KillFlag  BY <2>4 DEF KillFlag
  <2>5. CASE KillPause  BY <2>5 DEF KillPause
  <2>6. CASE KillCancelAll  BY <2>6 DEF KillCancelAll
  <2> QED
    BY <1>5, <2>1, <2>2, <2>3, <2>4, <2>5, <2>6 DEF Operator
<1>6. CASE Crash
  BY <1>6 DEF Crash
<1>7. CASE UNCHANGED vars
  BY <1>7 DEF vars
<1> QED
  BY <1>1, <1>2, <1>3, <1>4, <1>5, <1>6, <1>7 DEF Next, Cycle

\* Whoever writes to the open record of an order that has ended, and however
\* late, leaves it where the next recovery pass finds it, or closes it as the
\* order ended: never back to prepared, which nothing queries, and never closed
\* otherwise (recover_open_records, reconcile).
THEOREM SettlesRight ==
    OwnRecords /\ Spec =>
        [][\A s \in Signals :
            exch[s] \in {"filled", "canceled"} /\ rec[s] \in Open
                => rec'[s] \in Open \union {exch[s]}]_vars
<1> SUFFICES ASSUME OwnRecords
             PROVE  Spec =>
                [][\A s \in Signals :
                    exch[s] \in {"filled", "canceled"} /\ rec[s] \in Open
                        => rec'[s] \in Open \union {exch[s]}]_vars
  OBVIOUS
<1>1. OrderInv /\ [Next]_vars => Remains
  BY RemainsStep DEF OrderInv
<1>2. OrderInv => RejectedMeansNoOrder /\ ClosedMatchesExchange
  BY DEF OrderInv, ExchInv
<1>3. ASSUME Remains, (RejectedMeansNoOrder /\ ClosedMatchesExchange)',
             NEW s \in Signals, exch[s] \in {"filled", "canceled"}, rec[s] \in Open
      PROVE  rec'[s] \in Open \union {exch[s]}
  BY <1>3 DEF Remains, RejectedMeansNoOrder, ClosedMatchesExchange, Terminal
<1>4. Remains /\ (RejectedMeansNoOrder /\ ClosedMatchesExchange)' =>
        [\A s \in Signals :
            exch[s] \in {"filled", "canceled"} /\ rec[s] \in Open
                => rec'[s] \in Open \union {exch[s]}]_vars
  BY <1>3
<1> QED
  BY <1>1, <1>2, <1>4, OrderInvariant, PTL DEF Spec
=============================================================================
