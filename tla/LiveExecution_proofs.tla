------------------------ MODULE LiveExecution_proofs ------------------------
(***************************************************************************)
(* Theorems about LiveExecution for any number of callers, signals,        *)
(* instruments, crashes and requests of the operator, checked by TLAPS.    *)
(***************************************************************************)
EXTENDS LiveExecution, FiniteSetTheorems, TLAPS

\* A caller at work on a signal has one, and waits for an answer of the kind
\* its step expects.
Working ==
    \A c \in Callers :
        /\ pc[c] \in {"querypause", "settle", "lease"} \union LeasePcs => sig[c] \in Signals
        /\ pc[c] \in {"querypause", "settle"} =>
              answer[c] \in {"unknown", "live", "filled", "canceled"}
        /\ pc[c] = "querypause" => answer[c] = "unknown"
        /\ pc[c] = "await" => answer[c] \in {NoAnswer} \union Replies
        /\ pc[c] \notin {"querypause", "settle", "await"} => answer[c] = NoAnswer

Typed == TypeOK /\ Working

\* What a caller has seen, blank or updated, is a view.
LEMMA ViewFacts ==
  ASSUME NEW v \in Views, NEW P \in SUBSET Instruments, NEW O \in SUBSET Signals,
         NEW f \in BOOLEAN
  PROVE  /\ Blank \in Views
         /\ [positions |-> P, orders |-> O, full |-> f] \in Views
         /\ [v EXCEPT !.positions = P] \in Views
         /\ [v EXCEPT !.orders = O] \in Views
  BY DEF Views, Blank

LEMMA BlankView == Blank \in Views
  BY DEF Views, Blank

LEMMA TypedInit == Init => Typed
<1> SUFFICES ASSUME Init PROVE Typed
  OBVIOUS
<1>1. /\ paused \in BOOLEAN /\ killSwitch \in BOOLEAN /\ matched \in BOOLEAN
      /\ lapsed \in BOOLEAN
  BY Zenon DEF Init
<1>2. seen \in [Callers -> Views]
  BY BlankView DEF Init
<1>3. todo \in [Callers -> SUBSET (Signals \X {"prepared", "open"})]
  BY DEF Init
<1>4. TypeOK
  BY <1>1, <1>2, <1>3, BoundAssumption
  DEF Init, TypeOK, RecStatus, ExchStatus, Pcs, NoAnswer
<1>5. Working
  BY DEF Init, Working, LeasePcs, GatePcs, PlacePcs, AfterPcs
<1> QED
  BY <1>4, <1>5 DEF Typed

LEMMA TypedReconciliation == ASSUME NEW c \in Callers PROVE Typed /\ Reconciliation(c) => Typed'
<1> SUFFICES ASSUME Typed, Reconciliation(c) PROVE Typed'
  OBVIOUS
<1> USE BoundAssumption, InstrumentAssumption, CallerAssumption
    DEF Typed, TypeOK, Working, Goto, Moves, Pcs, LeasePcs, GatePcs, PlacePcs, AfterPcs,
        Pause, RecStatus, Recoverable, Open, Terminal, ExchStatus, Replies, NoAnswer,
        flags, authority, exchange, local, operator, counters, history
<1>1. CASE CycleStarts(c)
  BY <1>1 DEF CycleStarts
<1>2. CASE PreflightBlocked(c)
  BY <1>2 DEF PreflightBlocked
<1>3. CASE ManualReconcile(c)
  BY <1>3 DEF ManualReconcile
<1>4. CASE ListsRecoverable(c)
  BY <1>4 DEF ListsRecoverable, Recorded, Open, Recoverable
<1>5. CASE RecoversPrepared(c)
  BY <1>5 DEF RecoversPrepared
<1>6. CASE SkipsClosed(c)
  BY <1>6 DEF SkipsClosed
<1>7. ASSUME NEW s \in Signals, QueryAnswered(c, s) PROVE Typed'
  BY <1>7 DEF QueryAnswered, Queries, OrderState
<1>8. ASSUME NEW s \in Signals, QueryUnknown(c, s) PROVE Typed'
  BY <1>8 DEF QueryUnknown, Queries
<1>9. CASE PausesUnknown(c)
  BY <1>9 DEF PausesUnknown
<1>10. CASE WritesState(c)
  BY <1>10 DEF WritesState, UpdateRecord
<1>11. CASE ReadRaises(c)
  BY <1>11 DEF ReadRaises
<1>12. CASE ManualRaises(c)
  BY <1>12, BlankView DEF ManualRaises, Leave
<1>13. CASE Recovered(c)
  BY <1>13 DEF Recovered
<1>14. CASE ReadsPositions(c)
  <2>1. Positions \in SUBSET Instruments
    BY DEF Positions
  <2>2. seen' = [seen EXCEPT ![c] = [@ EXCEPT !.positions = Positions]]
    BY <1>14 DEF ReadsPositions
  <2>3. seen' \in [Callers -> Views]
    BY <2>1, <2>2, ViewFacts
  <2> QED
    BY <1>14, <2>3 DEF ReadsPositions
<1>15. CASE ReadsOrders(c)
  <2>1. OpenOrders \in SUBSET Signals
    BY DEF OpenOrders
  <2>2. seen' = [seen EXCEPT ![c] = [@ EXCEPT !.orders = OpenOrders]]
    BY <1>15 DEF ReadsOrders
  <2>3. seen' \in [Callers -> Views]
    BY <2>1, <2>2, ViewFacts
  <2> QED
    BY <1>15, <2>3 DEF ReadsOrders
<1>16. CASE Compares(c)
  <2>1. PICK ok \in {FALSE, Agrees(c)} :
          /\ matched' = ok
          /\ \/ ~ok /\ Goto(c, "mismatch") /\ UNCHANGED <<manual, sig, todo, answer, seen>>
             \/ ok /\ c \in manual /\ Leave(c)
             \/ /\ ok
                /\ c \notin manual
                /\ Goto(c, "batch")
                /\ seen' = [seen EXCEPT ![c] = Blank]
                /\ UNCHANGED <<manual, sig, todo, answer>>
    BY <1>16 DEF Compares
  <2>2. matched' \in BOOLEAN
    BY <2>1, Zenon DEF Agrees
  <2>3. UNCHANGED <<rec, paused, killSwitch, authority, exchange, operator, history>>
    BY <1>16 DEF Compares
  <2>4. pc[c] = "compare"
    BY <1>16 DEF Compares
  <2>5. Blank \in Views
    BY BlankView
  <2>6. CASE Goto(c, "mismatch") /\ UNCHANGED <<manual, sig, todo, answer, seen>>
    BY <2>2, <2>3, <2>4, <2>6
  <2>7. CASE Leave(c)
    BY <2>2, <2>3, <2>4, <2>5, <2>7 DEF Leave
  <2>8. CASE /\ Goto(c, "batch")
             /\ seen' = [seen EXCEPT ![c] = Blank]
             /\ UNCHANGED <<manual, sig, todo, answer>>
    BY <2>2, <2>3, <2>4, <2>5, <2>8
  <2> QED
    BY <2>1, <2>6, <2>7, <2>8
<1>17. CASE PausesMismatch(c)
  <2>1. paused' \in BOOLEAN
    BY <1>17, Zenon DEF PausesMismatch
  <2>2. /\ UNCHANGED <<rec, killSwitch, matched, authority, exchange, operator, history>>
        /\ pc[c] = "mismatch"
    BY <1>17 DEF PausesMismatch
  <2>3. CASE Leave(c)
    BY <2>1, <2>2, <2>3, BlankView DEF Leave
  <2>4. CASE Goto(c, "ctlpause") /\ UNCHANGED <<manual, sig, todo, answer, seen>>
    BY <2>1, <2>2, <2>4
  <2> QED
    BY <1>17, <2>3, <2>4 DEF PausesMismatch
<1>18. CASE ControllerPauses(c)
  BY <1>18, BlankView DEF ControllerPauses, Leave
<1> QED
  BY <1>1, <1>2, <1>3, <1>4, <1>5, <1>6, <1>7, <1>8, <1>9, <1>10, <1>11, <1>12, <1>13, <1>14, <1>15, <1>16, <1>17, <1>18 DEF Reconciliation

LEMMA TypedBatch == ASSUME NEW c \in Callers PROVE Typed /\ Batch(c) => Typed'
<1> SUFFICES ASSUME Typed, Batch(c) PROVE Typed'
  OBVIOUS
<1> USE BoundAssumption, InstrumentAssumption, CallerAssumption
    DEF Typed, TypeOK, Working, Goto, Moves, Pcs, LeasePcs, GatePcs, PlacePcs, AfterPcs,
        Pause, RecStatus, Recoverable, Open, Terminal, ExchStatus, Replies, NoAnswer,
        flags, authority, exchange, local, operator, counters, history
<1>1. CASE NothingToDo(c)
  BY <1>1, BlankView DEF NothingToDo, Leave
<1>2. CASE BatchBlocked(c)
  BY <1>2 DEF BatchBlocked
<1>3. CASE Selects(c)
  <2>1. PICK s \in Signals : sig' = [sig EXCEPT ![c] = s]
    BY <1>3 DEF Selects, Recorded
  <2> QED
    BY <1>3, <2>1 DEF Selects
<1>4. CASE LeaseGranted(c)
  BY <1>4 DEF LeaseGranted
<1>5. CASE LeaseRefused(c)
  BY <1>5 DEF LeaseRefused
<1>6. CASE SnapshotTaken(c)
  <2>1. Positions \in SUBSET Instruments
    BY DEF Positions
  <2> DEFINE full == Cardinality(Counted(sig[c])) + 1 > MaxPerSymbol
  <2>2. [positions |-> Positions, orders |-> {}, full |-> full] \in Views
    BY <2>1 DEF Views
  <2> HIDE DEF full
  <2>3. /\ pc[c] = "snapshot"
        /\ \/ seen' = [seen EXCEPT ![c] =
                          [positions |-> Positions, orders |-> {}, full |-> full]]
           \/ UNCHANGED seen
        /\ Goto(c, "assert") \/ Goto(c, "abort") \/ Goto(c, "release")
        /\ UNCHANGED <<rec, flags, authority, exchange, manual, sig, todo, answer, operator,
                       history>>
    BY <1>6 DEF SnapshotTaken, full
  <2>4. seen' \in [Callers -> Views]
    BY <2>2, <2>3
  <2> QED
    BY <2>3, <2>4
<1>7. CASE SnapshotRaises(c)
  BY <1>7 DEF SnapshotRaises
<1>8. CASE AbortPauses(c)
  BY <1>8 DEF AbortPauses
<1>9. CASE Releases(c)
  BY <1>9, BlankView DEF Releases, Frees, HasAuthority, Leave
<1>10. CASE ReleasesFailed(c)
  BY <1>10 DEF ReleasesFailed, Frees, HasAuthority
<1> QED
  BY <1>1, <1>2, <1>3, <1>4, <1>5, <1>6, <1>7, <1>8, <1>9, <1>10 DEF Batch

LEMMA TypedExecute == ASSUME NEW c \in Callers PROVE Typed /\ Execute(c) => Typed'
<1> SUFFICES ASSUME Typed, Execute(c) PROVE Typed'
  OBVIOUS
<1> USE BoundAssumption, InstrumentAssumption, CallerAssumption
    DEF Typed, TypeOK, Working, Goto, Moves, Pcs, LeasePcs, GatePcs, PlacePcs, AfterPcs,
        Pause, RecStatus, Recoverable, Open, Terminal, ExchStatus, Replies, NoAnswer,
        flags, authority, exchange, local, operator, counters, history
<1>1. CASE AuthorityHeld(c)
  BY <1>1 DEF AuthorityHeld
<1>2. CASE AuthorityDenied(c)
  BY <1>2 DEF AuthorityDenied
<1>3. CASE ReadsKillSwitch(c)
  BY <1>3 DEF ReadsKillSwitch
<1>4. CASE ReadsPaused(c)
  BY <1>4 DEF ReadsPaused
<1>5. CASE PositionsVerified(c)
  BY <1>5 DEF PositionsVerified
<1>6. CASE OrdersVerified(c)
  BY <1>6 DEF OrdersVerified
<1>7. CASE VerificationRaises(c)
  BY <1>7 DEF VerificationRaises
<1>8. CASE LooksUpIntent(c)
  BY <1>8 DEF LooksUpIntent, AfterIntent
<1>9. CASE InsertsIntent(c)
  BY <1>9 DEF InsertsIntent, UpdateRecord
<1>10. CASE InsertRaises(c)
  BY <1>10 DEF InsertRaises
<1>11. CASE RereadsIntent(c)
  BY <1>11 DEF RereadsIntent, AfterIntent
<1>12. CASE Sends(c)
  <2>1. requests' \subseteq [sig : Signals, by : Callers]
    BY <1>12 DEF Sends
  <2>2. sends' \in [Signals -> Nat]
    BY <1>12 DEF Sends
  <2> QED
    <3>1. /\ pc' = [pc EXCEPT ![c] = "await"] /\ answer[c] \in {NoAnswer} \union Replies
          /\ UNCHANGED <<rec, flags, authority, exch, timer, manual, sig, todo, answer, seen,
                         operator, doubts, straddle, counters>>
          /\ pc[c] = "send"
      BY <1>12 DEF Sends
    <3> QED
      BY <2>1, <2>2, <3>1
<1>13. CASE PlacementRaises(c)
  BY <1>13 DEF PlacementRaises
<1>14. CASE RecordsSubmitted(c)
  BY <1>14 DEF RecordsSubmitted, UpdateRecord
<1>15. CASE RecordsRejected(c)
  BY <1>15 DEF RecordsRejected, UpdateRecord
<1>16. CASE PausesRejected(c)
  BY <1>16 DEF PausesRejected
<1>17. CASE RecordsUnknown(c)
  BY <1>17 DEF RecordsUnknown
<1>18. CASE PausesFailed(c)
  BY <1>18 DEF PausesFailed
<1> QED
  BY <1>1, <1>2, <1>3, <1>4, <1>5, <1>6, <1>7, <1>8, <1>9, <1>10, <1>11, <1>12, <1>13, <1>14, <1>15, <1>16, <1>17, <1>18 DEF Execute

LEMMA TypedCrash == ASSUME NEW c \in Callers PROVE Typed /\ Crash(c) => Typed'
<1> SUFFICES ASSUME Typed, Crash(c) PROVE Typed'
  OBVIOUS
<1> USE BoundAssumption DEF Typed, TypeOK, Working, authority, exchange, flags
<1>1. /\ Leave(c) /\ crashes' \in 0..MaxCrashes
      /\ armer' \in {"idle", "checked", "unkilled"} /\ killer' \in {"idle", "flagged", "paused"}
      /\ UNCHANGED <<rec, flags, authority, exchange, sends, straddle, arms, kills>>
  BY DEF Crash
<1>2. doubts' \subseteq Signals
  BY DEF Crash, LeasePcs, PlacePcs, AfterPcs
<1> QED
  BY <1>1, <1>2, BlankView DEF Leave, Goto, Pcs, LeasePcs, GatePcs, PlacePcs, AfterPcs, NoAnswer

LEMMA TypedOthers == Typed /\ (Lapses \/ Exchange \/ Operator) => Typed'
<1> SUFFICES ASSUME Typed, Lapses \/ Exchange \/ Operator PROVE Typed'
  OBVIOUS
<1> USE BoundAssumption
    DEF Typed, TypeOK, Working, Pause, ExchStatus, Replies, NoAnswer,
        flags, authority, exchange, local, operator, counters, history
<1>1. CASE Lapses
  BY <1>1 DEF Lapses
<1>2. ASSUME NEW r \in requests, ExchangeAccepts(r) PROVE Typed'
  BY <1>2 DEF ExchangeAccepts, Reply
<1>3. ASSUME NEW r \in requests, ExchangeRejects(r) PROVE Typed'
  BY <1>3 DEF ExchangeRejects, Reply
<1>4. ASSUME NEW r \in requests, RequestLost(r) PROVE Typed'
  BY <1>4 DEF RequestLost
<1>5. ASSUME NEW s \in Signals, OrderMoves(s) PROVE Typed'
  BY <1>5 DEF OrderMoves
<1>6. CASE CountdownRunsOut
  <2>1. straddle' \subseteq Signals
    BY <1>6 DEF CountdownRunsOut, PastKillGate, PlacePcs, LeasePcs, GatePcs
  <2> QED
    BY <1>6, <2>1 DEF CountdownRunsOut
<1>7. CASE OperatorPauses
  BY <1>7 DEF OperatorPauses
<1>8. CASE ArmChecks
  BY <1>8 DEF ArmChecks
<1>9. CASE ArmClearsKill
  BY <1>9 DEF ArmClearsKill
<1>10. CASE ArmClearsPause
  BY <1>10 DEF ArmClearsPause
<1>11. CASE KillFlags
  BY <1>11 DEF KillFlags
<1>12. CASE KillPauses
  BY <1>12 DEF KillPauses
<1>13. CASE KillCancels
  BY <1>13 DEF KillCancels
<1> QED
  BY <1>1, <1>2, <1>3, <1>4, <1>5, <1>6, <1>7, <1>8, <1>9, <1>10, <1>11, <1>12, <1>13
  DEF Exchange, Operator

LEMMA TypedNext == Typed /\ [Next]_vars => Typed'
<1> SUFFICES ASSUME Typed, [Next]_vars PROVE Typed'
  OBVIOUS
<1>1. CASE UNCHANGED vars
  BY <1>1
  DEF Typed, TypeOK, Working, vars, flags, authority, exchange, local, operator, counters,
      history
<1>2. CASE Next
  BY <1>2, TypedReconciliation, TypedBatch, TypedExecute, TypedCrash, TypedOthers DEF Next
<1> QED
  BY <1>1, <1>2

\* Every variable of the Live order path keeps its type.
THEOREM LiveTypeCorrect == Spec => []TypeOK
<1>1. Typed => TypeOK
  BY DEF Typed
<1> QED
  BY <1>1, TypedInit, TypedNext, PTL DEF Spec

-----------------------------------------------------------------------------
(* What reconciliation leaves alone.                                       *)

\* Control states outside the lease.
OuterPcs == {"idle", "list", "recover", "querypause", "settle", "readpos", "readord",
             "compare", "mismatch", "batch", "ctlpause"}

LEMMA ReconciliationFrame ==
  ASSUME Typed, NEW c \in Callers, Reconciliation(c)
  PROVE  /\ \A d \in Callers \ {c} : pc'[d] = pc[d] /\ sig'[d] = sig[d]
         /\ pc[c] \in OuterPcs /\ pc'[c] \in OuterPcs
         /\ UNCHANGED <<killSwitch, authority, exchange, operator, sends, straddle, counters>>
<1> DEFINE Goal ==
         /\ \A d \in Callers \ {c} : pc'[d] = pc[d] /\ sig'[d] = sig[d]
         /\ pc[c] \in OuterPcs /\ pc'[c] \in OuterPcs
         /\ UNCHANGED <<killSwitch, authority, exchange, operator, sends, straddle, counters>>
<1> SUFFICES Goal
  OBVIOUS
<1> USE DEF Typed, TypeOK, Goto, Moves, OuterPcs, flags, local, history
<1>1. CASE CycleStarts(c)
  BY <1>1 DEF CycleStarts
<1>2. CASE PreflightBlocked(c)
  BY <1>2 DEF PreflightBlocked
<1>3. CASE ManualReconcile(c)
  BY <1>3 DEF ManualReconcile
<1>4. CASE ListsRecoverable(c)
  BY <1>4 DEF ListsRecoverable
<1>5. CASE RecoversPrepared(c)
  BY <1>5 DEF RecoversPrepared
<1>6. CASE SkipsClosed(c)
  BY <1>6 DEF SkipsClosed
<1>7. ASSUME NEW s \in Signals, QueryAnswered(c, s) PROVE Goal
  BY <1>7 DEF QueryAnswered, Queries
<1>8. ASSUME NEW s \in Signals, QueryUnknown(c, s) PROVE Goal
  BY <1>8 DEF QueryUnknown, Queries
<1>9. CASE PausesUnknown(c)
  BY <1>9 DEF PausesUnknown
<1>10. CASE WritesState(c)
  BY <1>10 DEF WritesState
<1>11. CASE ReadRaises(c)
  BY <1>11 DEF ReadRaises
<1>12. CASE ManualRaises(c)
  BY <1>12 DEF ManualRaises, Leave
<1>13. CASE Recovered(c)
  BY <1>13 DEF Recovered
<1>14. CASE ReadsPositions(c)
  BY <1>14 DEF ReadsPositions
<1>15. CASE ReadsOrders(c)
  BY <1>15 DEF ReadsOrders
<1>16. CASE Compares(c)
  BY <1>16 DEF Compares, Leave
<1>17. CASE PausesMismatch(c)
  BY <1>17 DEF PausesMismatch, Leave
<1>18. CASE ControllerPauses(c)
  BY <1>18 DEF ControllerPauses, Leave
<1> HIDE DEF Goal, Typed, TypeOK, Goto, Moves, OuterPcs, flags, local, history
<1> QED
  BY <1>1, <1>2, <1>3, <1>4, <1>5, <1>6, <1>7, <1>8, <1>9,
     <1>10, <1>11, <1>12, <1>13, <1>14, <1>15, <1>16, <1>17, <1>18 DEF Reconciliation

-----------------------------------------------------------------------------
(* Authority.                                                              *)

\* Control states between the assertion of authority and the request.
HeldPcs == {"killgate", "pausegate", "verify", "orders"} \union PlacePcs

\* Until its request has left, a caller that does not stall has the lease.
Held == \A c \in Callers \ Stallers : pc[c] \in HeldPcs => HasAuthority(c)

\* What a step of one caller does to the control states and to the lease.
LEMMA LeaseSteps ==
  ASSUME Typed, NEW c \in Callers, Reconciliation(c) \/ Batch(c) \/ Execute(c) \/ Crash(c)
  PROVE  /\ overrun' = overrun
         /\ \A d \in Callers \ {c} : pc'[d] = pc[d]
         /\ \/ UNCHANGED <<lease, lapsed>>
            \/ (lease = None \/ lapsed) /\ lease' = c /\ ~lapsed' /\ pc'[c] = "snapshot"
            \/ HasAuthority(c) /\ lease' = None /\ lapsed' = lapsed
                  /\ pc'[c] \in {"idle", "ctlpause"}
         /\ pc'[c] \in HeldPcs =>
               /\ UNCHANGED <<lease, lapsed>>
               /\ pc[c] \in HeldPcs \/ HasAuthority(c)
<1> USE DEF Typed, TypeOK, Goto, Moves, Leave, HeldPcs, PlacePcs, flags, authority, exchange, local, operator, counters, history
<1>1. CASE Reconciliation(c)
  <2>1. /\ \A d \in Callers \ {c} : pc'[d] = pc[d]
        /\ UNCHANGED <<lease, lapsed, overrun>>
        /\ pc'[c] \notin HeldPcs
    BY <1>1, ReconciliationFrame DEF OuterPcs
  <2> QED
    BY <2>1
<1>2. CASE Batch(c)
  BY <1>2
  DEF Batch, NothingToDo, BatchBlocked, Selects, LeaseGranted, LeaseRefused, SnapshotTaken,
      SnapshotRaises, AbortPauses, Releases, ReleasesFailed,
      Frees, HasAuthority
<1>3. CASE Execute(c)
  <2>1. /\ \A d \in Callers \ {c} : pc'[d] = pc[d]
        /\ UNCHANGED <<lease, lapsed, overrun>>
        /\ pc'[c] \in HeldPcs => pc[c] \in HeldPcs \/ HasAuthority(c)
    BY <1>3
    DEF Execute, AfterIntent,
      AuthorityHeld, AuthorityDenied, ReadsKillSwitch, ReadsPaused, PositionsVerified,
      OrdersVerified, VerificationRaises, LooksUpIntent, InsertsIntent, InsertRaises,
      RereadsIntent, Sends, PlacementRaises, RecordsSubmitted, RecordsRejected,
      PausesRejected, RecordsUnknown, PausesFailed
  <2> QED
    BY <2>1
<1>4. CASE Crash(c)
  BY <1>4 DEF Crash
<1> QED
  BY <1>1, <1>2, <1>3, <1>4

LEMMA HeldNext == Typed /\ Held /\ [Next]_vars => Held'
<1> SUFFICES ASSUME Typed, Held, [Next]_vars PROVE Held'
  OBVIOUS
<1> USE DEF Held, HasAuthority
<1>1. CASE UNCHANGED vars
  BY <1>1 DEF vars, flags, authority, exchange, local, operator, counters, history
<1>2. ASSUME NEW c \in Callers, Reconciliation(c) \/ Batch(c) \/ Execute(c) \/ Crash(c)
      PROVE  Held'
  BY <1>2, LeaseSteps, CallerAssumption DEF HeldPcs, PlacePcs
<1>3. CASE Lapses
  BY <1>3 DEF Lapses, HeldPcs, LeasePcs, GatePcs, flags, authority, exchange, local, operator, counters, history
<1>4. CASE Exchange \/ Operator
  <2>1. UNCHANGED <<pc, lease, lapsed>>
    BY <1>4
    DEF Exchange, ExchangeAccepts, ExchangeRejects, RequestLost, OrderMoves, CountdownRunsOut,
        Operator, OperatorPauses, ArmChecks, ArmClearsKill, ArmClearsPause, KillFlags,
        KillPauses, KillCancels, flags, authority, exchange, local, operator, counters, history
  <2> QED
    BY <2>1
<1> QED
  BY <1>1, <1>2, <1>3, <1>4 DEF Next

\* A request of a caller that does not stall leaves under a lease it holds, for
\* any number of processes and whatever the others do.
THEOREM AuthorityAtSend == Spec => SendsUnderAuthority
<1>1. Init => Held
  BY DEF Init, Held, HeldPcs, PlacePcs
<1>2. ASSUME Held
      PROVE  [\A c \in Callers \ Stallers :
                 pc[c] = "send" /\ pc'[c] = "await" => HasAuthority(c)]_vars
  BY <1>2 DEF Held, HeldPcs, PlacePcs
<1> QED
  BY <1>1, <1>2, HeldNext, TypedInit, TypedNext, PTL DEF Spec, SendsUnderAuthority

-----------------------------------------------------------------------------
(* The kill switch.                                                        *)

\* While the kill switch stays set after its countdown, what can still become
\* an order is of a signal the countdown straddled.
Straddled ==
    killSwitch /\ timer = "fired" =>
        /\ \A s \in Signals : exch[s] = "live" => s \in straddle
        /\ \A r \in requests : r.sig \in straddle
        /\ \A c \in Callers : pc[c] \in PastKillGate => sig[c] \in straddle

LEMMA KillSteps ==
  ASSUME Typed, NEW c \in Callers, Reconciliation(c) \/ Batch(c) \/ Execute(c) \/ Crash(c)
  PROVE  /\ \A d \in Callers \ {c} : pc'[d] = pc[d] /\ sig'[d] = sig[d]
         /\ UNCHANGED <<killSwitch, timer, exch, straddle>>
         /\ pc'[c] \in PastKillGate =>
               /\ sig'[c] = sig[c]
               /\ pc[c] \in PastKillGate \/ ~killSwitch
         /\ \/ requests' = requests
            \/ /\ pc[c] = "send"
               /\ requests' = requests \union {[sig |-> sig[c], by |-> c]}
<1> USE DEF Typed, TypeOK, Goto, Moves, Leave, PastKillGate, PlacePcs, flags, authority, exchange, local, operator, counters, history
<1>1. CASE Reconciliation(c)
  <2>1. /\ \A d \in Callers \ {c} : pc'[d] = pc[d] /\ sig'[d] = sig[d]
        /\ UNCHANGED <<killSwitch, timer, exch, straddle, requests>>
        /\ pc'[c] \notin PastKillGate
    BY <1>1, ReconciliationFrame DEF OuterPcs
  <2> QED
    BY <2>1
<1>2. CASE Batch(c)
  <2>1. /\ \A d \in Callers \ {c} : pc'[d] = pc[d] /\ sig'[d] = sig[d]
        /\ UNCHANGED <<killSwitch, timer, exch, straddle, requests>>
        /\ pc'[c] \notin PastKillGate
    BY <1>2
    DEF Batch, NothingToDo, BatchBlocked, Selects, LeaseGranted, LeaseRefused, SnapshotTaken,
      SnapshotRaises, AbortPauses, Releases, ReleasesFailed
  <2> QED
    BY <2>1
<1>3. CASE Execute(c)
  BY <1>3
  DEF Execute, AfterIntent,
      AuthorityHeld, AuthorityDenied, ReadsKillSwitch, ReadsPaused, PositionsVerified,
      OrdersVerified, VerificationRaises, LooksUpIntent, InsertsIntent, InsertRaises,
      RereadsIntent, Sends, PlacementRaises, RecordsSubmitted, RecordsRejected,
      PausesRejected, RecordsUnknown, PausesFailed
<1>4. CASE Crash(c)
  BY <1>4 DEF Crash
<1> QED
  BY <1>1, <1>2, <1>3, <1>4

LEMMA StraddledNext == Typed /\ Straddled /\ [Next]_vars => Straddled'
<1> SUFFICES ASSUME Typed, Straddled, [Next]_vars PROVE Straddled'
  OBVIOUS
<1> USE DEF Straddled, flags, authority, exchange, local, operator, counters, history
<1>1. CASE UNCHANGED vars
  BY <1>1 DEF vars
<1>2. ASSUME NEW c \in Callers, Reconciliation(c) \/ Batch(c) \/ Execute(c) \/ Crash(c)
      PROVE  Straddled'
  <2> SUFFICES ASSUME killSwitch', timer' = "fired"
               PROVE  /\ \A s \in Signals : exch'[s] = "live" => s \in straddle'
                      /\ \A r \in requests' : r.sig \in straddle'
                      /\ \A d \in Callers : pc'[d] \in PastKillGate => sig'[d] \in straddle'
    OBVIOUS
  <2>4. /\ \A d \in Callers \ {c} : pc'[d] = pc[d] /\ sig'[d] = sig[d]
        /\ UNCHANGED <<killSwitch, timer, exch, straddle>>
        /\ pc'[c] \in PastKillGate =>
              /\ sig'[c] = sig[c]
              /\ pc[c] \in PastKillGate \/ ~killSwitch
        /\ \/ requests' = requests
           \/ /\ pc[c] = "send"
              /\ requests' = requests \union {[sig |-> sig[c], by |-> c]}
    BY <1>2, KillSteps
  <2>1. UNCHANGED <<killSwitch, timer, exch, straddle>>
    BY <2>4
  <2>2. \A r \in requests' : r.sig \in straddle
    <3>1. pc[c] = "send" => sig[c] \in straddle
      BY <2>1 DEF PastKillGate, PlacePcs
    <3> QED
      BY <2>4, <2>1, <3>1
  <2>3. \A d \in Callers : pc'[d] \in PastKillGate => sig'[d] \in straddle
    BY <2>4, <2>1
  <2> QED
    BY <2>1, <2>2, <2>3
<1>3. CASE Lapses
  BY <1>3 DEF Lapses
<1>4. ASSUME NEW r \in requests, ExchangeAccepts(r) \/ ExchangeRejects(r) \/ RequestLost(r)
      PROVE  Straddled'
  <2>1. /\ requests' = requests \ {r}
        /\ UNCHANGED <<killSwitch, timer, straddle, pc, sig>>
        /\ exch' = exch \/ exch' = [exch EXCEPT ![r.sig] = "live"]
    BY <1>4 DEF ExchangeAccepts, ExchangeRejects, RequestLost
  <2> QED
    BY <2>1 DEF Typed, TypeOK
<1>5. ASSUME NEW s \in Signals, OrderMoves(s) PROVE Straddled'
  BY <1>5 DEF OrderMoves, Typed, TypeOK
<1>6. CASE CountdownRunsOut
  BY <1>6 DEF CountdownRunsOut
<1>7. CASE Operator
  BY <1>7
  DEF Operator, OperatorPauses, ArmChecks, ArmClearsKill, ArmClearsPause, KillFlags,
      KillPauses, KillCancels, Pause
<1> QED
  BY <1>1, <1>2, <1>3, <1>4, <1>5, <1>6, <1>7 DEF Next, Exchange

\* After the countdown an order is open only for a signal that was past the
\* kill switch's gate, or on the wire, when it ended.
THEOREM KillIsBounded == Spec => []KillExposure
<1>1. Init => Straddled
  BY DEF Init, Straddled
<1>2. Straddled => KillExposure
  BY DEF Straddled, KillExposure
<1> QED
  BY <1>1, <1>2, StraddledNext, TypedInit, TypedNext, PTL DEF Spec

-----------------------------------------------------------------------------
(* A placement of unknown outcome.                                         *)

\* Of a single caller: a signal in doubt is recorded as prepared or unknown,
\* so that the recovery pass lists it; whoever has passed over it, or is on the
\* way to the gate that reads the pause, has paused; and behind that gate
\* nothing is in doubt.
Cautious ==
    /\ \A s \in doubts : rec[s] \in {"prepared", "unknown"}
    /\ \A c \in Callers :
        /\ pc[c] \in {"reread", "send", "await", "fail"} => rec[sig[c]] = "prepared"
        /\ pc[c] = "recover" =>
              \A s \in doubts : <<s, "prepared">> \in todo[c] \/ <<s, "open">> \in todo[c]
                                    \/ paused
        /\ pc[c] = "settle" =>
              \A s \in doubts : <<s, "prepared">> \in todo[c] \/ <<s, "open">> \in todo[c]
                                    \/ paused \/ (s = sig[c] /\ answer[c] # "unknown")
        /\ pc[c] \in {"readpos", "readord", "compare"} /\ c \notin manual =>
              doubts = {} \/ paused
        /\ pc[c] \in {"batch", "lease", "snapshot", "assert", "killgate", "pausegate"} =>
              doubts = {} \/ paused
        /\ pc[c] \in {"verify", "orders"} \union PlacePcs => doubts = {}

LEMMA CautiousReconciliation ==
  ASSUME \A d, e \in Callers : d = e,
         Typed, Cautious, NEW c \in Callers, Reconciliation(c)
  PROVE  Cautious'
<1> USE DEF Typed, TypeOK, Working, Cautious, Goto, Moves, Pause, PlacePcs, LeasePcs, GatePcs,
        AfterPcs, RecStatus, Recoverable, Open, Terminal, flags, authority, exchange, local,
        operator, counters, history
<1>1. CASE CycleStarts(c)
  BY <1>1 DEF CycleStarts
<1>2. CASE PreflightBlocked(c)
  BY <1>2 DEF PreflightBlocked
<1>3. CASE ManualReconcile(c)
  BY <1>3 DEF ManualReconcile
<1>4. CASE ListsRecoverable(c)
  BY <1>4 DEF ListsRecoverable, Recorded, Recoverable, Open
<1>5. CASE RecoversPrepared(c)
  BY <1>5 DEF RecoversPrepared
<1>6. CASE SkipsClosed(c)
  BY <1>6 DEF SkipsClosed, Terminal
<1>7. ASSUME NEW s \in Signals, QueryAnswered(c, s) PROVE Cautious'
  BY <1>7 DEF QueryAnswered, Queries, OrderState
<1>8. ASSUME NEW s \in Signals, QueryUnknown(c, s) PROVE Cautious'
  BY <1>8 DEF QueryUnknown, Queries
<1>9. CASE PausesUnknown(c)
  BY <1>9 DEF PausesUnknown
<1>10. CASE WritesState(c)
  BY <1>10 DEF WritesState, UpdateRecord
<1>11. CASE ReadRaises(c)
  BY <1>11 DEF ReadRaises
<1>12. CASE ManualRaises(c)
  BY <1>12 DEF ManualRaises, Leave
<1>13. CASE Recovered(c)
  <2>1. /\ pc[c] = "recover" /\ pc' = [pc EXCEPT ![c] = "readpos"] /\ todo[c] = {}
        /\ UNCHANGED <<rec, paused, manual, sig, todo, answer, doubts>>
    BY <1>13 DEF Recovered
  <2>2. doubts = {} \/ paused
    BY <2>1
  <2> QED
    BY <2>1, <2>2
<1>14. CASE ReadsPositions(c)
  BY <1>14 DEF ReadsPositions
<1>15. CASE ReadsOrders(c)
  BY <1>15 DEF ReadsOrders
<1>16. CASE Compares(c)
  BY <1>16 DEF Compares, Leave
<1>17. CASE PausesMismatch(c)
  BY <1>17 DEF PausesMismatch, Leave
<1>18. CASE ControllerPauses(c)
  BY <1>18 DEF ControllerPauses, Leave
<1> QED
  BY <1>1, <1>2, <1>3, <1>4, <1>5, <1>6, <1>7, <1>8, <1>9, <1>10,
     <1>11, <1>12, <1>13, <1>14, <1>15, <1>16, <1>17, <1>18 DEF Reconciliation

LEMMA CautiousBatch ==
  ASSUME \A d, e \in Callers : d = e,
         Typed, Cautious, NEW c \in Callers, Batch(c)
  PROVE  Cautious'
<1> USE DEF Typed, TypeOK, Working, Cautious, Goto, Moves, Pause, PlacePcs, LeasePcs, GatePcs,
        AfterPcs, RecStatus, Recoverable, Open, Terminal, flags, authority, exchange, local,
        operator, counters, history
<1>1. CASE NothingToDo(c)
  BY <1>1 DEF NothingToDo, Leave
<1>2. CASE BatchBlocked(c)
  BY <1>2 DEF BatchBlocked
<1>3. CASE Selects(c)
  BY <1>3 DEF Selects
<1>4. CASE LeaseGranted(c)
  BY <1>4 DEF LeaseGranted
<1>5. CASE LeaseRefused(c)
  BY <1>5 DEF LeaseRefused
<1>6. CASE SnapshotTaken(c)
  BY <1>6 DEF SnapshotTaken
<1>7. CASE SnapshotRaises(c)
  BY <1>7 DEF SnapshotRaises
<1>8. CASE AbortPauses(c)
  BY <1>8 DEF AbortPauses
<1>9. CASE Releases(c)
  BY <1>9 DEF Releases, Leave
<1>10. CASE ReleasesFailed(c)
  BY <1>10 DEF ReleasesFailed
<1> QED
  BY <1>1, <1>2, <1>3, <1>4, <1>5, <1>6, <1>7, <1>8, <1>9, <1>10 DEF Batch

LEMMA CautiousExecute ==
  ASSUME \A d, e \in Callers : d = e,
         Typed, Cautious, NEW c \in Callers, Execute(c)
  PROVE  Cautious'
<1> USE DEF Typed, TypeOK, Working, Cautious, Goto, Moves, Pause, PlacePcs, LeasePcs, GatePcs,
        AfterPcs, RecStatus, Recoverable, Open, Terminal, flags, authority, exchange, local,
        operator, counters, history
<1>1. CASE AuthorityHeld(c)
  BY <1>1 DEF AuthorityHeld
<1>2. CASE AuthorityDenied(c)
  BY <1>2 DEF AuthorityDenied
<1>3. CASE ReadsKillSwitch(c)
  BY <1>3 DEF ReadsKillSwitch
<1>4. CASE ReadsPaused(c)
  BY <1>4 DEF ReadsPaused
<1>5. CASE PositionsVerified(c)
  BY <1>5 DEF PositionsVerified
<1>6. CASE OrdersVerified(c)
  BY <1>6 DEF OrdersVerified
<1>7. CASE VerificationRaises(c)
  BY <1>7 DEF VerificationRaises
<1>8. CASE LooksUpIntent(c)
  BY <1>8 DEF LooksUpIntent, AfterIntent
<1>9. CASE InsertsIntent(c)
  BY <1>9 DEF InsertsIntent, UpdateRecord
<1>10. CASE InsertRaises(c)
  BY <1>10 DEF InsertRaises
<1>11. CASE RereadsIntent(c)
  BY <1>11 DEF RereadsIntent, AfterIntent
<1>12. CASE Sends(c)
  BY <1>12 DEF Sends
<1>13. CASE PlacementRaises(c)
  BY <1>13 DEF PlacementRaises
<1>14. CASE RecordsSubmitted(c)
  BY <1>14 DEF RecordsSubmitted, UpdateRecord
<1>15. CASE RecordsRejected(c)
  BY <1>15 DEF RecordsRejected, UpdateRecord
<1>16. CASE PausesRejected(c)
  BY <1>16 DEF PausesRejected
<1>17. CASE RecordsUnknown(c)
  BY <1>17 DEF RecordsUnknown
<1>18. CASE PausesFailed(c)
  BY <1>18 DEF PausesFailed
<1> QED
  BY <1>1, <1>2, <1>3, <1>4, <1>5, <1>6, <1>7, <1>8, <1>9, <1>10,
     <1>11, <1>12, <1>13, <1>14, <1>15, <1>16, <1>17, <1>18 DEF Execute

LEMMA CautiousNext ==
  ASSUME \A d, e \in Callers : d = e
  PROVE  Typed /\ Cautious /\ [Next]_vars => Cautious'
<1> SUFFICES ASSUME Typed, Cautious, [Next]_vars PROVE Cautious'
  OBVIOUS
<1> USE DEF Cautious, flags, authority, exchange, local, operator, counters, history
<1>1. CASE UNCHANGED vars
  BY <1>1 DEF vars
<1>2. ASSUME NEW c \in Callers, Crash(c) PROVE Cautious'
  BY <1>2 DEF Crash, Leave, Goto, PlacePcs, Typed, TypeOK
<1>3. CASE Lapses
  BY <1>3 DEF Lapses
<1>4. ASSUME NEW r \in requests, ExchangeAccepts(r) \/ ExchangeRejects(r) \/ RequestLost(r)
      PROVE  Cautious'
  <2>1. /\ UNCHANGED <<rec, paused, pc, manual, sig, todo, doubts>>
        /\ \A d \in Callers : pc[d] = "settle" => answer'[d] = answer[d]
    BY <1>4 DEF ExchangeAccepts, ExchangeRejects, RequestLost, Reply, Typed, TypeOK
  <2> QED
    BY <2>1
<1>5. ASSUME NEW s \in Signals, OrderMoves(s) PROVE Cautious'
  BY <1>5 DEF OrderMoves
<1>6. CASE CountdownRunsOut
  BY <1>6 DEF CountdownRunsOut
<1>7. CASE Operator
  <2>1. /\ UNCHANGED <<rec, local>>
        /\ \/ doubts' = doubts /\ (paused => paused')
           \/ doubts' = {}
    BY <1>7
    DEF Operator, OperatorPauses, ArmChecks, ArmClearsKill, ArmClearsPause, KillFlags,
        KillPauses, KillCancels, Pause
  <2> QED
    BY <2>1
<1> QED
  BY <1>1, <1>2, <1>3, <1>4, <1>5, <1>6, <1>7, CautiousReconciliation, CautiousBatch,
     CautiousExecute DEF Next, Exchange

\* A single caller sends no signal while the outcome of another placement is
\* unknown, for any number of signals, deaths and requests of the operator.
THEOREM DoubtIsStop ==
  ASSUME \A d, e \in Callers : d = e PROVE Spec => []DoubtBlocksSends
<1>1. Init => Cautious
  BY DEF Init, Cautious, PlacePcs
<1>2. Cautious => DoubtBlocksSends
  BY DEF Cautious, DoubtBlocksSends, PlacePcs
<1>3. Typed /\ Cautious /\ [Next]_vars => Cautious'
  BY CautiousNext
<1> QED
  BY <1>1, <1>2, <1>3, TypedInit, TypedNext, PTL DEF Spec

-----------------------------------------------------------------------------
(* Whose record a caller finds.                                            *)

\* Nobody finds a record that another caller has yet to send, unless a process
\* has outlived its lease at work on the signal.
NoHandOver ==
    \A c \in Callers :
        pc[c] = "lookup" /\ sig[c] \notin overrun => rec[sig[c]] # "prepared"

\* What the code relies on for it: the caller is always the same, or one position
\* for a symbol is the limit.
OneCaller  == \A c, d \in Callers : c = d
OnePlace   == MaxPerSymbol <= 1
OwnRecords == OneCaller \/ OnePlace

\* Control states between the selection of a signal and the lookup.
ViewedPcs   == {"assert", "killgate", "pausegate", "verify", "orders"}
SelectedPcs == {"lease", "snapshot", "lookup"} \union ViewedPcs

\* A lone caller still finds what it has selected without a record.
Fresh == OneCaller => \A c \in Callers : pc[c] \in SelectedPcs => rec[sig[c]] = "none"

\* Whoever is in a batch has the lease, or it lapsed at its work; if one position
\* is the limit, it sees in its snapshot that a prepared record of its signal,
\* left by a caller that died, takes up that limit.
Leased ==
    \A c \in Callers : pc[c] \in LeasePcs => HasAuthority(c) \/ sig[c] \in overrun
Viewed == OnePlace =>
              \A c \in Callers : sig[c] \notin overrun =>
                  /\ pc[c] \in ViewedPcs /\ rec[sig[c]] = "prepared" => seen[c].full
                  /\ pc[c] = "lookup" => rec[sig[c]] # "prepared"

Owning == Fresh /\ Leased /\ Viewed

LEMMA Handing ==
  ASSUME OwnRecords, Owning
  PROVE  NoHandOver
  BY DEF OwnRecords, Owning, Fresh, Viewed, NoHandOver, SelectedPcs

LEMMA CountedFull ==
  ASSUME MaxPerSymbol <= 1, NEW s \in Signals, rec[s] = "prepared"
  PROVE  Cardinality(Counted(s)) + 1 > MaxPerSymbol
<1>1. s \in Counted(s)
  BY DEF Counted, Recorded, Recoverable
<1>2. IsFiniteSet(Counted(s))
  BY SignalAssumption, FS_Subset DEF Counted, Recorded
<1>3. Cardinality(Counted(s)) \in Nat /\ Cardinality(Counted(s)) # 0
  BY <1>1, <1>2, FS_CardinalityType, FS_EmptySet
<1> QED
  BY <1>3, LimitAssumption

\* How a step of a caller leads to a state between selection and lookup.
LEMMA SelectedSteps ==
  ASSUME Typed, NEW c \in Callers, Reconciliation(c) \/ Batch(c) \/ Execute(c) \/ Crash(c),
         pc'[c] \in SelectedPcs
  PROVE  /\ UNCHANGED rec
         /\ \/ rec[sig'[c]] = "none"
            \/ pc[c] \in SelectedPcs /\ sig'[c] = sig[c]
         /\ pc'[c] \in ViewedPcs =>
               /\ sig'[c] = sig[c]
               /\ \/ pc[c] \in ViewedPcs /\ seen'[c] = seen[c]
                  \/ seen'[c].full = (Cardinality(Counted(sig[c])) + 1 > MaxPerSymbol)
         /\ pc'[c] = "lookup" => pc[c] = "orders" /\ ~seen[c].full /\ sig'[c] = sig[c]
<1> USE DEF Typed, TypeOK, Goto, Moves, Leave, SelectedPcs, ViewedPcs, flags, authority,
            exchange, local, operator, counters, history
<1>1. CASE Reconciliation(c)
  BY <1>1, ReconciliationFrame DEF OuterPcs
<1>2. CASE Batch(c)
  <2>1. CASE SnapshotTaken(c)
    BY <2>1 DEF SnapshotTaken
  <2>2. CASE Selects(c)
    BY <2>2 DEF Selects, Recorded
  <2>3. CASE LeaseGranted(c)
    BY <2>3 DEF LeaseGranted
  <2>4. CASE NothingToDo(c) \/ BatchBlocked(c) \/ LeaseRefused(c) \/ SnapshotRaises(c)
             \/ AbortPauses(c) \/ Releases(c) \/ ReleasesFailed(c)
    BY <2>4
    DEF NothingToDo, BatchBlocked, LeaseRefused, SnapshotRaises, AbortPauses, Releases,
        ReleasesFailed
  <2> QED
    BY <1>2, <2>1, <2>2, <2>3, <2>4 DEF Batch
<1>3. CASE Execute(c)
  BY <1>3
  DEF Execute, AfterIntent,
      AuthorityHeld, AuthorityDenied, ReadsKillSwitch, ReadsPaused, PositionsVerified,
      OrdersVerified, VerificationRaises, LooksUpIntent, InsertsIntent, InsertRaises,
      RereadsIntent, Sends, PlacementRaises, RecordsSubmitted, RecordsRejected,
      PausesRejected, RecordsUnknown, PausesFailed
<1>4. CASE Crash(c)
  BY <1>4 DEF Crash
<1> QED
  BY <1>1, <1>2, <1>3, <1>4

\* A step of a caller leaves the others alone, and prepares a record only with
\* the INSERT.
LEMMA PreparingSteps ==
  ASSUME Typed, NEW c \in Callers, Reconciliation(c) \/ Batch(c) \/ Execute(c) \/ Crash(c)
  PROVE  /\ \A d \in Callers \ {c} :
               pc'[d] = pc[d] /\ sig'[d] = sig[d] /\ seen'[d] = seen[d]
         /\ \A s \in Signals :
               rec'[s] = "prepared" => rec[s] = "prepared" \/ (pc[c] = "insert" /\ s = sig[c])
<1> DEFINE Goal ==
         /\ \A d \in Callers \ {c} :
               pc'[d] = pc[d] /\ sig'[d] = sig[d] /\ seen'[d] = seen[d]
         /\ \A s \in Signals :
               rec'[s] = "prepared" => rec[s] = "prepared" \/ (pc[c] = "insert" /\ s = sig[c])
<1> SUFFICES Goal
  OBVIOUS
<1> USE DEF Typed, TypeOK, Working, Goto, Moves, Leave, flags, authority, exchange, local,
            operator, counters, history
<1>1. CASE Reconciliation(c)
  <2>1. CASE WritesState(c)
    BY <2>1 DEF WritesState, UpdateRecord
  <2>2. ASSUME NEW s \in Signals, QueryAnswered(c, s) \/ QueryUnknown(c, s) PROVE Goal
    BY <2>2 DEF QueryAnswered, QueryUnknown, Queries
  <2>3. CASE CycleStarts(c) \/ PreflightBlocked(c) \/ ManualReconcile(c) \/ ListsRecoverable(c)
             \/ RecoversPrepared(c) \/ SkipsClosed(c) \/ PausesUnknown(c) \/ Recovered(c)
    BY <2>3
    DEF CycleStarts, PreflightBlocked, ManualReconcile, ListsRecoverable, RecoversPrepared,
        SkipsClosed, PausesUnknown, Recovered
  <2>4. CASE ReadRaises(c) \/ ManualRaises(c) \/ ReadsPositions(c) \/ ReadsOrders(c)
    BY <2>4 DEF ReadRaises, ManualRaises, ReadsPositions, ReadsOrders
  <2>5. CASE Compares(c)
    BY <2>5 DEF Compares
  <2>6. CASE PausesMismatch(c) \/ ControllerPauses(c)
    BY <2>6 DEF PausesMismatch, ControllerPauses
  <2> QED
    BY <1>1, <2>1, <2>2, <2>3, <2>4, <2>5, <2>6 DEF Reconciliation
<1>2. CASE Batch(c)
  BY <1>2
  DEF Batch, NothingToDo, BatchBlocked, Selects, LeaseGranted, LeaseRefused, SnapshotTaken,
      SnapshotRaises, AbortPauses, Releases, ReleasesFailed
<1>3. CASE Execute(c)
  BY <1>3
  DEF Execute, AuthorityHeld, AuthorityDenied, ReadsKillSwitch, ReadsPaused,
      PositionsVerified, OrdersVerified, VerificationRaises, LooksUpIntent, InsertsIntent,
      InsertRaises, RereadsIntent, Sends, PlacementRaises, RecordsSubmitted,
      RecordsRejected, PausesRejected, RecordsUnknown, PausesFailed, UpdateRecord
<1>4. CASE Crash(c)
  BY <1>4 DEF Crash
<1> QED
  BY <1>1, <1>2, <1>3, <1>4

\* A caller gets into the lease by the grant only.
LEMMA EnteringSteps ==
  ASSUME Typed, NEW c \in Callers, Reconciliation(c) \/ Batch(c) \/ Execute(c) \/ Crash(c),
         pc'[c] \in LeasePcs
  PROVE  \/ pc[c] \in LeasePcs /\ sig'[c] = sig[c] /\ UNCHANGED <<lease, lapsed>>
         \/ lease' = c /\ ~lapsed'
<1> USE DEF Typed, TypeOK, Goto, Moves, Leave, LeasePcs, GatePcs, PlacePcs, AfterPcs, flags,
            authority, exchange, local, operator, counters, history
<1>1. CASE Reconciliation(c)
  BY <1>1, ReconciliationFrame DEF OuterPcs
<1>2. CASE Batch(c)
  BY <1>2
  DEF Batch, NothingToDo, BatchBlocked, Selects, LeaseGranted, LeaseRefused, SnapshotTaken,
      SnapshotRaises, AbortPauses, Releases, ReleasesFailed
<1>3. CASE Execute(c)
  BY <1>3
  DEF Execute, AuthorityHeld, AuthorityDenied, ReadsKillSwitch, ReadsPaused,
      PositionsVerified, OrdersVerified, VerificationRaises, LooksUpIntent, InsertsIntent,
      InsertRaises, RereadsIntent, Sends, PlacementRaises, RecordsSubmitted,
      RecordsRejected, PausesRejected, RecordsUnknown, PausesFailed
<1>4. CASE Crash(c)
  BY <1>4 DEF Crash
<1> QED
  BY <1>1, <1>2, <1>3, <1>4

LEMMA OwningStep ==
  ASSUME Typed, Owning, NEW c \in Callers,
         Reconciliation(c) \/ Batch(c) \/ Execute(c) \/ Crash(c)
  PROVE  Owning'
<1>1. Fresh'
  <2>1. ASSUME OneCaller, NEW d \in Callers, pc'[d] \in SelectedPcs
        PROVE  rec'[sig'[d]] = "none"
    <3>1. d = c
      BY <2>1 DEF OneCaller
    <3> QED
      BY <2>1, <3>1, SelectedSteps DEF Owning, Fresh
  <2> QED
    BY <2>1 DEF Fresh, OneCaller
<1>2. Leased'
  <2> SUFFICES ASSUME NEW d \in Callers, pc'[d] \in LeasePcs, sig'[d] \notin overrun'
               PROVE  lease' = d /\ ~lapsed'
    BY DEF Leased, HasAuthority
  <2>1. sig'[d] \notin overrun
    BY LeaseSteps
  <2>2. CASE d = c
    BY <2>1, <2>2, EnteringSteps DEF Owning, Leased, HasAuthority
  <2>3. CASE d # c
    <3>1. pc'[d] = pc[d] /\ sig'[d] = sig[d]
      BY <2>3, PreparingSteps
    <3>2. lease = d /\ ~lapsed
      BY <2>1, <3>1 DEF Owning, Leased, HasAuthority
    <3> QED
      BY <2>3, <3>2, LeaseSteps, CallerAssumption DEF HasAuthority
  <2> QED
    BY <2>2, <2>3
<1>3. Viewed'
  <2> SUFFICES ASSUME OnePlace, NEW d \in Callers, sig'[d] \notin overrun'
               PROVE  /\ pc'[d] \in ViewedPcs /\ rec'[sig'[d]] = "prepared" => seen'[d].full
                      /\ pc'[d] = "lookup" => rec'[sig'[d]] # "prepared"
    BY DEF Viewed, OnePlace
  <2>1. sig'[d] \notin overrun
    BY LeaseSteps
  <2>2. CASE d = c
    <3>1. ASSUME pc'[c] \in ViewedPcs, rec'[sig'[c]] = "prepared" PROVE seen'[c].full
      <4>1. /\ rec[sig[c]] = "prepared" /\ sig'[c] = sig[c]
            /\ \/ pc[c] \in ViewedPcs /\ seen'[c] = seen[c]
               \/ seen'[c].full = (Cardinality(Counted(sig[c])) + 1 > MaxPerSymbol)
        BY <3>1, SelectedSteps DEF SelectedPcs
      <4>2. sig[c] \in Signals
        BY <3>1, <4>1, TypedNext DEF Typed, Working, LeasePcs, GatePcs, ViewedPcs, Next
      <4> QED
        BY <2>1, <2>2, <4>1, <4>2, CountedFull DEF Owning, Viewed, OnePlace
    <3>2. ASSUME pc'[c] = "lookup" PROVE rec'[sig'[c]] # "prepared"
      BY <2>1, <2>2, <3>2, SelectedSteps DEF Owning, Viewed, SelectedPcs, ViewedPcs
    <3> QED
      BY <2>2, <3>1, <3>2
  <2>3. CASE d # c
    <3>1. pc'[d] = pc[d] /\ sig'[d] = sig[d] /\ seen'[d] = seen[d]
      BY <2>3, PreparingSteps
    <3>2. CASE pc[d] \in ViewedPcs \union {"lookup"}
      <4>1. pc[d] \in LeasePcs /\ sig[d] \in Signals
        BY <3>2 DEF ViewedPcs, LeasePcs, GatePcs, PlacePcs, Typed, Working
      <4>2. lease = d
        BY <2>1, <3>1, <4>1 DEF Owning, Leased, HasAuthority
      <4>3. pc[c] = "insert" => sig[c] # sig[d]
        BY <2>1, <2>3, <3>1, <4>2 DEF Owning, Leased, HasAuthority, LeasePcs, PlacePcs
      <4>4. rec'[sig[d]] = "prepared" => rec[sig[d]] = "prepared"
        BY <4>1, <4>3, PreparingSteps
      <4> QED
        BY <2>1, <3>1, <4>4 DEF Owning, Viewed
    <3> QED
      BY <3>1, <3>2
  <2> QED
    BY <2>2, <2>3
<1> QED
  BY <1>1, <1>2, <1>3 DEF Owning

LEMMA OwningNext == Typed /\ Owning /\ [Next]_vars => Owning'
<1> SUFFICES ASSUME Typed, Owning, [Next]_vars PROVE Owning'
  OBVIOUS
<1> USE DEF Owning, Fresh, Leased, Viewed, HasAuthority, OneCaller, OnePlace
<1>1. ASSUME UNCHANGED <<rec, lease, lapsed, overrun, pc, sig, seen>> PROVE Owning'
  BY <1>1
<1>2. CASE UNCHANGED vars
  BY <1>1, <1>2 DEF vars, authority, local
<1>3. CASE Lapses
  BY <1>3 DEF Lapses, local
<1>4. CASE Exchange \/ Operator
  <2>1. UNCHANGED <<rec, lease, lapsed, overrun, pc, sig, seen>>
    BY <1>4
    DEF Exchange, ExchangeAccepts, ExchangeRejects, RequestLost, OrderMoves, CountdownRunsOut,
        Operator, OperatorPauses, ArmChecks, ArmClearsKill, ArmClearsPause, KillFlags,
        KillPauses, KillCancels, authority, local
  <2> QED
    BY <1>1, <2>1
<1> QED
  BY <1>2, <1>3, <1>4, OwningStep DEF Next

LEMMA OwningInit == Init => Owning
  BY DEF Init, Owning, Fresh, Leased, Viewed, SelectedPcs, ViewedPcs, LeasePcs, GatePcs,
         PlacePcs, AfterPcs

-----------------------------------------------------------------------------
(* The ledger and the exchange.                                            *)

Placing == {"reread", "send", "await", "fail"}
Asking  == {"querypause", "settle"}

\* A caller is at work on a signal of which no process has outlived its lease.
At(c, P) == pc[c] \in P /\ sig[c] \notin overrun

\* One placement of a signal is under way at most, behind a prepared record;
\* nobody asks for the order of a signal that is not past that; and a signal
\* was sent once when a request is on the wire, or an order at the exchange.
Ledger ==
    /\ \A c \in Callers :
        /\ At(c, Placing) => rec[sig[c]] = "prepared"
        /\ At(c, {"reread", "send"}) => sends[sig[c]] = 0
        /\ At(c, Asking) => rec[sig[c]] \notin {"none", "prepared"}
        /\ \A s \in Signals \ overrun :
              <<s, "open">> \in todo[c] => rec[s] \notin {"none", "prepared"}
        /\ \A d \in Callers :
              At(c, Placing) /\ At(d, Placing) /\ sig[c] = sig[d] => c = d
    /\ \A r \in requests : r.sig \notin overrun => sends[r.sig] = 1 /\ exch[r.sig] = "none"
    /\ \A r, q \in requests : r.sig \notin overrun /\ r.sig = q.sig => r = q
    /\ \A s \in Signals \ overrun :
        /\ exch[s] # "none" => sends[s] = 1
        /\ sends[s] # 0 => rec[s] # "none"

\* What is closed, or about to be written as closed, agrees with the exchange.
AnswerAgrees(c) ==
    /\ At(c, Asking) /\ answer[c] = "filled" => exch[sig[c]] \in {"filled", "flat"}
    /\ At(c, Asking) /\ answer[c] = "canceled" => exch[sig[c]] \in {"canceled", "partial"}
    /\ At(c, {"await"}) /\ answer[c] = "rejected" =>
          exch[sig[c]] = "none" /\ \A r \in requests : r.sig # sig[c]

Closing == ClosedAgrees /\ \A c \in Callers : AnswerAgrees(c)

Booked == Ledger /\ Closing

\* A step of c that neither writes a record nor sends, enters no placement, and
\* asks for recorded orders only.
Quiet(c) ==
    /\ UNCHANGED <<rec, sends, exch, requests, overrun>>
    /\ \A d \in Callers \ {c} : /\ pc'[d] = pc[d] /\ sig'[d] = sig[d]
                                /\ todo'[d] = todo[d] /\ answer'[d] = answer[d]
    /\ At(c, Placing)' => pc[c] \in Placing /\ sig'[c] = sig[c]
    /\ At(c, {"reread", "send"})' => pc[c] \in {"reread", "send"}
    /\ pc'[c] = "await" => pc[c] = "await" /\ answer'[c] = answer[c]
    /\ At(c, Asking)' =>
          \/ pc[c] \in Asking /\ sig'[c] = sig[c] /\ answer'[c] = answer[c]
          \/ /\ rec[sig'[c]] \notin {"none", "prepared"}
             /\ answer'[c] = "filled" => exch[sig'[c]] \in {"filled", "flat"}
             /\ answer'[c] = "canceled" => exch[sig'[c]] \in {"canceled", "partial"}
    /\ \A s \in Signals \ overrun :
          <<s, "open">> \in todo'[c] => rec[s] \notin {"none", "prepared"}

LEMMA QuietKeeps ==
  ASSUME Typed, Booked, NEW c \in Callers, Quiet(c)
  PROVE  Booked'
<1> USE DEF At
<1>1. /\ UNCHANGED <<rec, sends, exch, requests, overrun>>
      /\ \A d \in Callers \ {c} : /\ pc'[d] = pc[d] /\ sig'[d] = sig[d]
                                  /\ todo'[d] = todo[d] /\ answer'[d] = answer[d]
  BY DEF Quiet
<1>2. Ledger'
  <2>1. ASSUME NEW d \in Callers
        PROVE  /\ At(d, Placing)' => At(d, Placing) /\ sig'[d] = sig[d]
               /\ At(d, {"reread", "send"})' => At(d, {"reread", "send"})
                                                /\ sig'[d] = sig[d]
               /\ At(d, Asking)' => rec[sig'[d]] \notin {"none", "prepared"}
               /\ \A s \in Signals \ overrun :
                     <<s, "open">> \in todo'[d] => rec[s] \notin {"none", "prepared"}
    <3>1. CASE d = c
      BY <1>1, <3>1 DEF Booked, Ledger, Quiet, Placing
    <3>2. CASE d # c
      BY <1>1, <3>2 DEF Booked, Ledger
    <3> QED
      BY <3>1, <3>2
  <2>2. ASSUME NEW d \in Callers
        PROVE  /\ At(d, Placing)' => rec[sig'[d]] = "prepared"
               /\ At(d, {"reread", "send"})' => sends[sig'[d]] = 0
    BY <2>1 DEF Booked, Ledger
  <2>3. ASSUME NEW d \in Callers, NEW e \in Callers,
               At(d, Placing)', At(e, Placing)', sig'[d] = sig'[e]
        PROVE  d = e
    BY <2>1, <2>3 DEF Booked, Ledger
  <2> QED
    BY <1>1, <2>1, <2>2, <2>3 DEF Booked, Ledger
<1>3. Closing'
  <2>1. ASSUME NEW d \in Callers
        PROVE  AnswerAgrees(d)'
    <3>1. CASE d = c
      BY <1>1, <3>1 DEF Booked, Closing, AnswerAgrees, Quiet, Placing
    <3>2. CASE d # c
      BY <1>1, <3>2 DEF Booked, Closing, AnswerAgrees
    <3> QED
      BY <3>1, <3>2
  <2>2. ClosedAgrees'
    BY <1>1 DEF Booked, Closing, ClosedAgrees
  <2> QED
    BY <1>1, <2>1, <2>2 DEF Closing
<1> QED
  BY <1>2, <1>3 DEF Booked

LEMMA QuietReconciliation ==
  ASSUME Typed, Ledger, NEW c \in Callers, Reconciliation(c), ~WritesState(c)
  PROVE  Quiet(c)
<1> USE DEF Typed, TypeOK, Working, Ledger, Quiet, At, Asking, Placing, Goto, Moves,
        RecStatus, Recoverable, Open, Terminal, flags, authority, exchange, local, operator, counters,
        history
<1>1. CASE CycleStarts(c)
  BY <1>1 DEF CycleStarts
<1>2. CASE PreflightBlocked(c)
  BY <1>2 DEF PreflightBlocked
<1>3. CASE ManualReconcile(c)
  BY <1>3 DEF ManualReconcile
<1>4. CASE ListsRecoverable(c)
  BY <1>4 DEF ListsRecoverable, Recorded, Recoverable, Open
<1>5. CASE RecoversPrepared(c)
  BY <1>5 DEF RecoversPrepared
<1>6. CASE SkipsClosed(c)
  BY <1>6 DEF SkipsClosed
<1>7. ASSUME NEW s \in Signals, QueryAnswered(c, s) PROVE Quiet(c)
  BY <1>7 DEF QueryAnswered, Queries, OrderState, ExchStatus
<1>8. ASSUME NEW s \in Signals, QueryUnknown(c, s) PROVE Quiet(c)
  BY <1>8 DEF QueryUnknown, Queries
<1>9. CASE PausesUnknown(c)
  BY <1>9 DEF PausesUnknown
<1>10. CASE ReadRaises(c)
  BY <1>10 DEF ReadRaises
<1>11. CASE ManualRaises(c)
  BY <1>11 DEF ManualRaises, Leave
<1>12. CASE Recovered(c)
  BY <1>12 DEF Recovered
<1>13. CASE ReadsPositions(c)
  BY <1>13 DEF ReadsPositions
<1>14. CASE ReadsOrders(c)
  BY <1>14 DEF ReadsOrders
<1>15. CASE Compares(c)
  BY <1>15 DEF Compares, Leave
<1>16. CASE PausesMismatch(c)
  BY <1>16 DEF PausesMismatch, Leave
<1>17. CASE ControllerPauses(c)
  BY <1>17 DEF ControllerPauses, Leave
<1> QED
  BY <1>1, <1>2, <1>3, <1>4, <1>5, <1>6, <1>7, <1>8, <1>9, <1>10,
     <1>11, <1>12, <1>13, <1>14, <1>15, <1>16, <1>17 DEF Reconciliation

LEMMA QuietBatch ==
  ASSUME Typed, Ledger, NEW c \in Callers, Batch(c)
  PROVE  Quiet(c)
<1> USE DEF Typed, TypeOK, Working, Ledger, Quiet, At, Asking, Placing, Goto, Moves,
        RecStatus, Recoverable, Open, Terminal, flags, authority, exchange, local, operator, counters,
        history
<1>1. CASE NothingToDo(c)
  BY <1>1 DEF NothingToDo, Leave
<1>2. CASE BatchBlocked(c)
  BY <1>2 DEF BatchBlocked
<1>3. CASE Selects(c)
  BY <1>3 DEF Selects
<1>4. CASE LeaseGranted(c)
  BY <1>4 DEF LeaseGranted
<1>5. CASE LeaseRefused(c)
  BY <1>5 DEF LeaseRefused
<1>6. CASE SnapshotTaken(c)
  BY <1>6 DEF SnapshotTaken
<1>7. CASE SnapshotRaises(c)
  BY <1>7 DEF SnapshotRaises
<1>8. CASE AbortPauses(c)
  BY <1>8 DEF AbortPauses
<1>9. CASE Releases(c)
  BY <1>9 DEF Releases, Frees, Leave
<1>10. CASE ReleasesFailed(c)
  BY <1>10 DEF ReleasesFailed, Frees
<1> QED
  BY <1>1, <1>2, <1>3, <1>4, <1>5, <1>6, <1>7, <1>8, <1>9, <1>10 DEF Batch

LEMMA QuietExecute ==
  ASSUME Typed, NoHandOver, Ledger, NEW c \in Callers, Execute(c), ~InsertsIntent(c),
         ~Sends(c), ~RecordsSubmitted(c), ~RecordsRejected(c), ~RecordsUnknown(c)
  PROVE  Quiet(c)
<1> USE DEF Typed, TypeOK, Working, Ledger, Quiet, At, Asking, Placing, Goto, Moves,
        RecStatus, Recoverable, Open, Terminal, flags, authority, exchange, local, operator, counters,
        history
<1>1. CASE AuthorityHeld(c)
  BY <1>1 DEF AuthorityHeld
<1>2. CASE AuthorityDenied(c)
  BY <1>2 DEF AuthorityDenied
<1>3. CASE ReadsKillSwitch(c)
  BY <1>3 DEF ReadsKillSwitch
<1>4. CASE ReadsPaused(c)
  BY <1>4 DEF ReadsPaused
<1>5. CASE PositionsVerified(c)
  BY <1>5 DEF PositionsVerified
<1>6. CASE OrdersVerified(c)
  BY <1>6 DEF OrdersVerified
<1>7. CASE VerificationRaises(c)
  BY <1>7 DEF VerificationRaises
<1>8. CASE LooksUpIntent(c)
  BY <1>8 DEF LooksUpIntent, AfterIntent, NoHandOver
<1>9. CASE InsertRaises(c)
  BY <1>9 DEF InsertRaises
<1>10. CASE RereadsIntent(c)
  BY <1>10 DEF RereadsIntent, AfterIntent
<1>11. CASE PlacementRaises(c)
  BY <1>11 DEF PlacementRaises
<1>12. CASE PausesRejected(c)
  BY <1>12 DEF PausesRejected
<1>13. CASE PausesFailed(c)
  BY <1>13 DEF PausesFailed
<1> QED
  BY <1>1, <1>2, <1>3, <1>4, <1>5, <1>6, <1>7, <1>8, <1>9, <1>10,
     <1>11, <1>12, <1>13 DEF Execute

LEMMA QuietCrash ==
  ASSUME Typed, Ledger, NEW c \in Callers, Crash(c)
  PROVE  Quiet(c)
  BY DEF Crash, Leave, Goto, Typed, TypeOK, Ledger, Quiet, At, Asking, Placing, exchange,
         authority

\* How the exchange moves an order that it has accepted.
MovesOn(e, f) ==
    \/ e = "live" /\ f \in {"filled", "partial", "canceled"}
    \/ e = "filled" /\ f = "flat"
    \/ e = "partial" /\ f = "canceled"

\* The steps of a caller that do write or send.
LEMMA WritesStateKeeps ==
  ASSUME Typed, Booked, NEW c \in Callers, WritesState(c)
  PROVE  Booked'
<1> USE DEF Typed, TypeOK, Booked, At, flags, authority, exchange
<1>1. /\ pc[c] = "settle" /\ sig[c] \in Signals
      /\ answer[c] \in {"unknown", "live", "filled", "canceled"}
      /\ pc' = [pc EXCEPT ![c] = "recover"] /\ sig' = [sig EXCEPT ![c] = NoSignal]
      /\ answer' = [answer EXCEPT ![c] = NoAnswer]
      /\ rec' = [rec EXCEPT ![sig[c]] = answer[c]]
      /\ UNCHANGED <<exch, requests, sends, todo, overrun>>
  BY DEF WritesState, UpdateRecord, Goto, Working
<1>2. /\ sig[c] \notin overrun => rec[sig[c]] \notin {"none", "prepared"}
      /\ rec'[sig[c]] \notin {"none", "prepared"}
  BY <1>1 DEF Ledger, Asking
<1>3. \A s \in Signals \ {sig[c]} : rec'[s] = rec[s]
  BY <1>1
<1>4. \A d \in Callers : pc'[d] \in Placing \union Asking =>
          d # c /\ pc[d] = pc'[d] /\ sig'[d] = sig[d] /\ answer'[d] = answer[d]
  BY <1>1 DEF Placing, Asking
<1>5. \A d \in Callers : pc[d] \in Placing \union Asking => sig[d] \in Signals
  BY DEF Working, Placing, Asking, LeasePcs, PlacePcs, AfterPcs
<1>6. Ledger'
  <2>1. ASSUME NEW d \in Callers
        PROVE  /\ At(d, Placing)' => rec'[sig'[d]] = "prepared"
               /\ At(d, {"reread", "send"})' => sends[sig'[d]] = 0
               /\ At(d, Asking)' => rec'[sig'[d]] \notin {"none", "prepared"}
               /\ \A s \in Signals \ overrun :
                     <<s, "open">> \in todo[d] => rec'[s] \notin {"none", "prepared"}
    BY <1>1, <1>2, <1>3, <1>4, <1>5 DEF Ledger, Placing
  <2>2. ASSUME NEW d \in Callers, NEW e \in Callers,
               At(d, Placing)', At(e, Placing)', sig'[d] = sig'[e]
        PROVE  d = e
    BY <1>1, <1>4, <2>2 DEF Ledger
  <2> QED
    BY <1>1, <1>2, <1>3, <2>1, <2>2 DEF Ledger
<1>7. Closing'
  <2>1. ClosedAgrees'
    BY <1>1, <1>3 DEF Closing, ClosedAgrees, AnswerAgrees, Asking
  <2> QED
    BY <1>1, <1>4, <2>1 DEF Closing, AnswerAgrees, Placing, Asking
<1> QED
  BY <1>6, <1>7

LEMMA InsertKeeps ==
  ASSUME Typed, Booked, NEW c \in Callers, InsertsIntent(c)
  PROVE  Booked'
<1> USE DEF Typed, TypeOK, Booked, At, flags, authority, exchange
<1>1. /\ pc[c] = "insert" /\ sig[c] \in Signals /\ rec[sig[c]] = "none"
      /\ pc' = [pc EXCEPT ![c] = "reread"]
      /\ rec' = [rec EXCEPT ![sig[c]] = "prepared"]
      /\ UNCHANGED <<exch, requests, sends, todo, sig, answer, overrun>>
  BY DEF InsertsIntent, UpdateRecord, Goto, Working, LeasePcs, PlacePcs
<1>2. sig[c] \notin overrun => sends[sig[c]] = 0
  BY <1>1 DEF Ledger
<1>3. \A s \in Signals \ {sig[c]} : rec'[s] = rec[s]
  BY <1>1
<1>4. \A d \in Callers \ {c} : /\ pc'[d] = pc[d]
                               /\ At(d, Placing \union Asking) =>
                                     sig[d] # sig[c] /\ sig[d] \in Signals
  BY <1>1 DEF Ledger, Working, Placing, Asking, LeasePcs, PlacePcs, AfterPcs
<1>5. Ledger'
  <2>1. ASSUME NEW d \in Callers
        PROVE  /\ At(d, Placing)' => rec'[sig[d]] = "prepared"
               /\ At(d, {"reread", "send"})' => sends[sig[d]] = 0
               /\ At(d, Asking)' => rec'[sig[d]] \notin {"none", "prepared"}
               /\ \A s \in Signals \ overrun :
                     <<s, "open">> \in todo[d] => rec'[s] \notin {"none", "prepared"}
    <3>1. CASE d = c
      BY <1>1, <1>2, <1>3, <3>1 DEF Ledger, Asking
    <3>2. CASE d # c
      BY <1>1, <1>3, <1>4, <3>2 DEF Ledger, Placing
    <3> QED
      BY <3>1, <3>2
  <2>2. ASSUME NEW d \in Callers, NEW e \in Callers,
               At(d, Placing)', At(e, Placing)', sig[d] = sig[e]
        PROVE  d = e
    BY <1>1, <1>4, <2>2 DEF Ledger
  <2>3. \A s \in Signals \ overrun : sends[s] # 0 => rec'[s] # "none"
    BY <1>1, <1>3 DEF Ledger
  <2> QED
    BY <1>1, <2>1, <2>2, <2>3 DEF Ledger
<1>6. Closing'
  <2>1. ClosedAgrees'
    BY <1>1, <1>3 DEF Closing, ClosedAgrees
  <2> QED
    BY <1>1, <1>4, <2>1 DEF Closing, AnswerAgrees, Asking
<1> QED
  BY <1>5, <1>6

LEMMA SendKeeps ==
  ASSUME Typed, Booked, NEW c \in Callers, Sends(c)
  PROVE  Booked'
<1> USE DEF Typed, TypeOK, Booked, At, flags, authority, exchange
<1> DEFINE q == [sig |-> sig[c], by |-> c]
<1>1. /\ pc[c] = "send" /\ sig[c] \in Signals /\ answer[c] = NoAnswer
      /\ pc' = [pc EXCEPT ![c] = "await"]
      /\ requests' = requests \union {q}
      /\ sends' = [sends EXCEPT ![sig[c]] = @ + 1]
      /\ UNCHANGED <<rec, exch, todo, sig, answer, overrun>>
  BY DEF Sends, Goto, Working, LeasePcs, PlacePcs
<1>2. sig[c] \notin overrun =>
          /\ sends[sig[c]] = 0 /\ rec[sig[c]] = "prepared" /\ exch[sig[c]] = "none"
          /\ \A r \in requests : r.sig # sig[c]
  BY <1>1 DEF Ledger, Placing
<1>3. /\ sig[c] \notin overrun => sends'[sig[c]] = 1
      /\ \A s \in Signals \ {sig[c]} : sends'[s] = sends[s]
  BY <1>1, <1>2
<1>4. \A d \in Callers \ {c} : /\ pc'[d] = pc[d]
                               /\ At(d, Placing) => sig[d] # sig[c] /\ sig[d] \in Signals
  BY <1>1 DEF Ledger, Working, Placing, LeasePcs, PlacePcs, AfterPcs
<1>5. Ledger'
  <2>1. ASSUME NEW d \in Callers
        PROVE  /\ At(d, Placing)' => rec[sig[d]] = "prepared"
               /\ At(d, {"reread", "send"})' => sends'[sig[d]] = 0
               /\ At(d, Asking)' => rec[sig[d]] \notin {"none", "prepared"}
    <3>1. CASE d = c
      BY <1>1, <1>2, <3>1 DEF Asking
    <3>2. CASE d # c
      BY <1>1, <1>3, <1>4, <3>2 DEF Ledger, Placing
    <3> QED
      BY <3>1, <3>2
  <2>2. ASSUME NEW d \in Callers, NEW e \in Callers,
               At(d, Placing)', At(e, Placing)', sig[d] = sig[e]
        PROVE  d = e
    BY <1>1, <1>4, <2>2 DEF Ledger, Placing
  <2>3. /\ \A r \in requests' : r.sig \notin overrun => sends'[r.sig] = 1 /\ exch[r.sig] = "none"
        /\ \A r, p \in requests' : r.sig \notin overrun /\ r.sig = p.sig => r = p
    BY <1>1, <1>2, <1>3 DEF Ledger
  <2>4. \A s \in Signals \ overrun : /\ exch[s] # "none" => sends'[s] = 1
                                     /\ sends'[s] # 0 => rec[s] # "none"
    BY <1>2, <1>3 DEF Ledger
  <2> QED
    BY <1>1, <2>1, <2>2, <2>3, <2>4 DEF Ledger
<1>6. Closing'
  <2>1. ClosedAgrees'
    BY <1>1, <1>2 DEF Closing, ClosedAgrees
  <2>2. ASSUME NEW d \in Callers
        PROVE  /\ pc'[d] \in Asking => pc[d] \in Asking
               /\ At(d, {"await"})' /\ answer[d] = "rejected" =>
                     exch[sig[d]] = "none" /\ \A r \in requests' : r.sig # sig[d]
    <3>1. CASE d = c
      BY <1>1, <3>1 DEF Asking, NoAnswer
    <3>2. CASE d # c
      BY <1>1, <1>4, <3>2 DEF Closing, AnswerAgrees, Placing
    <3> QED
      BY <3>1, <3>2
  <2> QED
    BY <1>1, <2>1, <2>2 DEF Closing, AnswerAgrees
<1> QED
  BY <1>5, <1>6

LEMMA OutcomeKeeps ==
  ASSUME Typed, Booked, NEW c \in Callers,
         RecordsSubmitted(c) \/ RecordsRejected(c) \/ RecordsUnknown(c)
  PROVE  Booked'
<1> USE DEF Typed, TypeOK, Booked, At, flags, authority, exchange
<1>1. /\ pc[c] \in {"await", "fail"} /\ sig[c] \in Signals
      /\ pc'[c] \notin Placing \union Asking
      /\ \A d \in Callers \ {c} : pc'[d] = pc[d] /\ answer'[d] = answer[d]
      /\ \A s \in Signals \ {sig[c]} : rec'[s] = rec[s]
      /\ rec'[sig[c]] \notin {"none", "prepared", "filled", "canceled"}
      /\ rec'[sig[c]] = "rejected" => pc[c] = "await" /\ answer[c] = "rejected"
      /\ UNCHANGED <<exch, requests, sends, todo, sig, overrun>>
  BY DEF RecordsSubmitted, RecordsRejected, RecordsUnknown, UpdateRecord, Goto, Working,
         LeasePcs, AfterPcs, Placing, Asking
<1>2. \A d \in Callers \ {c} :
          At(d, Placing) => sig[d] # sig[c] /\ sig[d] \in Signals
  BY <1>1 DEF Ledger, Working, Placing, LeasePcs, PlacePcs, AfterPcs
<1>3. \A d \in Callers : pc[d] \in Asking => sig[d] \in Signals
  BY DEF Working, Asking
<1>4. Ledger'
  <2>1. ASSUME NEW d \in Callers
        PROVE  /\ At(d, Placing)' => rec'[sig[d]] = "prepared"
               /\ At(d, {"reread", "send"})' => sends[sig[d]] = 0
               /\ At(d, Asking)' => rec'[sig[d]] \notin {"none", "prepared"}
               /\ \A s \in Signals \ overrun :
                     <<s, "open">> \in todo[d] => rec'[s] \notin {"none", "prepared"}
    <3>1. CASE d = c
      BY <1>1, <3>1 DEF Ledger, Placing
    <3>2. CASE d # c
      BY <1>1, <1>2, <1>3, <3>2 DEF Ledger, Placing
    <3> QED
      BY <3>1, <3>2
  <2>2. ASSUME NEW d \in Callers, NEW e \in Callers,
               At(d, Placing)', At(e, Placing)', sig[d] = sig[e]
        PROVE  d = e
    BY <1>1, <2>2 DEF Ledger
  <2>3. \A s \in Signals \ overrun : sends[s] # 0 => rec'[s] # "none"
    BY <1>1 DEF Ledger
  <2> QED
    BY <1>1, <2>1, <2>2, <2>3 DEF Ledger
<1>5. Closing'
  <2>1. ClosedAgrees'
    BY <1>1 DEF Closing, ClosedAgrees, AnswerAgrees
  <2>2. \A d \in Callers : pc'[d] \in Placing \union Asking => d # c
    BY <1>1
  <2> QED
    BY <1>1, <2>1, <2>2 DEF Closing, AnswerAgrees, Placing
<1> QED
  BY <1>4, <1>5

LEMMA ExchangeKeeps ==
  ASSUME Typed, Booked, Exchange
  PROVE  Booked'
<1> USE DEF Typed, TypeOK, Booked, At, flags, authority, local
<1>1. ASSUME NEW r \in requests, ExchangeAccepts(r) \/ ExchangeRejects(r) \/ RequestLost(r)
      PROVE  Booked'
  <2>1. /\ requests' = requests \ {r} /\ r.sig \in Signals
        /\ r.sig \notin overrun =>
              /\ exch[r.sig] = "none" /\ sends[r.sig] = 1
              /\ \A p \in requests' : p.sig # r.sig
        /\ UNCHANGED <<rec, pc, sig, todo, sends, overrun>>
    BY <1>1 DEF ExchangeAccepts, ExchangeRejects, RequestLost, Ledger, operator, history
  <2>2. \/ exch' = exch
        \/ exch' = [exch EXCEPT ![r.sig] = "live"]
              /\ \A d \in Callers : answer'[d] = answer[d] \/ answer'[d] = "accepted"
    BY <1>1 DEF ExchangeAccepts, ExchangeRejects, RequestLost, Reply
  <2>3. \A d \in Callers :
          \/ answer'[d] = answer[d]
          \/ /\ pc[d] = "await" /\ sig[d] = r.sig
             /\ answer'[d] = "accepted" \/ (answer'[d] = "rejected" /\ exch' = exch)
    BY <1>1 DEF ExchangeAccepts, ExchangeRejects, RequestLost, Reply
  <2>4. \A s \in Signals \ {r.sig} : exch'[s] = exch[s]
    BY <2>2
  <2>5. Ledger'
    BY <2>1, <2>4 DEF Ledger
  <2>6. ClosedAgrees'
    <3>1. r.sig \notin overrun => rec[r.sig] \notin {"rejected", "filled", "canceled"}
      BY <2>1 DEF Closing, ClosedAgrees
    <3> QED
      BY <2>1, <2>4, <3>1 DEF Closing, ClosedAgrees
  <2>7. ASSUME NEW d \in Callers PROVE AnswerAgrees(d)'
    <3>1. CASE sig[d] \in overrun
      BY <2>1, <3>1 DEF AnswerAgrees
    <3>2. CASE answer'[d] = answer[d] /\ sig[d] \notin overrun
      <4>1. pc[d] \in Asking \union {"await"} => sig[d] \in Signals
        BY DEF Working, Asking, LeasePcs, AfterPcs
      <4>2. CASE sig[d] = r.sig
        <5>1. pc[d] = "await" => answer[d] # "rejected"
          BY <3>2, <4>2 DEF Closing, AnswerAgrees
        <5>2. pc[d] \in Asking => answer[d] \notin {"filled", "canceled"}
          BY <2>1, <3>2, <4>2 DEF Closing, AnswerAgrees
        <5> QED
          BY <2>1, <3>2, <5>1, <5>2 DEF AnswerAgrees
      <4>3. CASE sig[d] # r.sig
        BY <2>1, <2>4, <3>2, <4>1, <4>3 DEF Closing, AnswerAgrees
      <4> QED
        BY <4>2, <4>3
    <3>3. CASE answer'[d] # answer[d] /\ sig[d] \notin overrun
      BY <2>1, <2>3, <3>3 DEF Asking, AnswerAgrees
    <3> QED
      BY <3>1, <3>2, <3>3
  <2> QED
    BY <2>5, <2>6, <2>7 DEF Closing
<1>2. ASSUME UNCHANGED <<rec, pc, sig, todo, answer, sends, requests, overrun>>,
             \A s \in Signals : exch'[s] = exch[s] \/ MovesOn(exch[s], exch'[s])
      PROVE  Booked'
  <2>1. \A s \in Signals : exch'[s] = "none" <=> exch[s] = "none"
    BY <1>2 DEF MovesOn
  <2>2. /\ \A r \in requests : r.sig \in Signals
        /\ \A d \in Callers : pc[d] \in Asking \union {"await"} => sig[d] \in Signals
    BY DEF Working, Asking, LeasePcs, AfterPcs
  <2>3. Ledger'
    BY <1>2, <2>1, <2>2 DEF Ledger
  <2>4. Closing'
    BY <1>2, <2>1, <2>2 DEF Closing, AnswerAgrees, ClosedAgrees, MovesOn
  <2> QED
    BY <2>3, <2>4
<1>3. ASSUME NEW s \in Signals, OrderMoves(s) PROVE Booked'
  BY <1>2, <1>3 DEF OrderMoves, MovesOn, operator, history
<1>4. CASE CountdownRunsOut
  <2>1. \A s \in Signals : exch'[s] = exch[s] \/ MovesOn(exch[s], exch'[s])
    BY <1>4 DEF CountdownRunsOut, OpenOrders, MovesOn
  <2> QED
    BY <1>2, <1>4, <2>1 DEF CountdownRunsOut, operator
<1> QED
  BY <1>1, <1>3, <1>4 DEF Exchange

LEMMA BookedNext ==
  Typed /\ NoHandOver /\ Booked /\ [Next]_vars => Booked'
<1> SUFFICES ASSUME Typed, NoHandOver, Booked, [Next]_vars PROVE Booked'
  OBVIOUS
<1>1. ASSUME UNCHANGED <<rec, exch, requests, pc, sig, todo, answer, sends>>,
             overrun \subseteq overrun'
      PROVE  Booked'
  BY <1>1 DEF Booked, Ledger, Closing, AnswerAgrees, ClosedAgrees, At
<1>2. CASE UNCHANGED vars
  BY <1>1, <1>2 DEF vars, authority, exchange, local, history
<1>3. ASSUME NEW c \in Callers, Reconciliation(c) \/ Batch(c) \/ Execute(c) \/ Crash(c)
      PROVE  Booked'
  BY <1>3, WritesStateKeeps, InsertKeeps, SendKeeps, OutcomeKeeps, QuietReconciliation,
     QuietBatch, QuietExecute, QuietCrash, QuietKeeps DEF Booked
<1>4. CASE Lapses
  BY <1>1, <1>4 DEF Lapses, exchange, local, history
<1>5. CASE Operator
  <2>1. UNCHANGED <<rec, exch, requests, pc, sig, todo, answer, sends, overrun>>
    BY <1>5
    DEF Operator, OperatorPauses, ArmChecks, ArmClearsKill, ArmClearsPause, KillFlags,
        KillPauses, KillCancels, authority, exchange, local, history
  <2> QED
    BY <1>1, <2>1
<1> QED
  BY <1>2, <1>3, <1>4, <1>5, ExchangeKeeps DEF Next

LEMMA BookedInit == Init => Booked
  BY DEF Init, Booked, Ledger, Closing, AnswerAgrees, ClosedAgrees, At, Placing, Asking

\* The invariant of the order path.
LEMMA BookedInvariant == OwnRecords /\ Spec => [](Typed /\ Owning /\ NoHandOver /\ Booked)
<1> SUFFICES ASSUME OwnRecords PROVE Spec => [](Typed /\ Owning /\ NoHandOver /\ Booked)
  OBVIOUS
<1>1. Owning => NoHandOver
  BY Handing
<1> QED
  BY <1>1, TypedInit, TypedNext, OwningInit, OwningNext, BookedInit, BookedNext, PTL DEF Spec

\* A closed record agrees with the exchange, whoever wrote it.
THEOREM ClosedIsTrue == OwnRecords /\ Spec => []ClosedAgrees
<1>1. Booked => ClosedAgrees
  BY DEF Booked, Closing
<1> QED
  BY <1>1, BookedInvariant, PTL

-----------------------------------------------------------------------------
(* The abstract promise.                                                   *)

MarketOf(e) == CASE e = "none" -> "none" [] e = "live" -> "open" [] OTHER -> "done"

\* What a step does to a signal: nothing, its intent, its request, or a move of
\* its order.
Untouched(s) ==
    /\ rec'[s] = "none" <=> rec[s] = "none"
    /\ sends'[s] = sends[s]
    /\ MarketOf(exch'[s]) = MarketOf(exch[s])
Intended(s) == rec'[s] # "none" /\ sends'[s] = sends[s] /\ exch'[s] = exch[s]
Requested(s) ==
    /\ rec[s] # "none" /\ rec'[s] # "none"
    /\ sends[s] = 0 /\ sends'[s] = 1
    /\ exch'[s] = exch[s]
Traded(s) ==
    /\ rec'[s] = rec[s] /\ sends'[s] = sends[s]
    /\ MarketOf(exch'[s]) \in {"none", "open", "done"}
    /\ \/ sends[s] = 1 /\ MarketOf(exch[s]) = "none" /\ MarketOf(exch'[s]) = "open"
       \/ MarketOf(exch[s]) = "open" /\ MarketOf(exch'[s]) = "done"
Kept(s) == Untouched(s) \/ Intended(s) \/ Requested(s) \/ Traded(s)

\* Each of them is a step of the promise.
LEMMA KeptPromise ==
  ASSUME NEW s \in Signals, Kept(s)
  PROVE  [Promise(s)!Next]_(Promise(s)!promiseVars)
<1>1. CASE Untouched(s)
  BY <1>1 DEF Untouched, MarketOf, Promise!promiseVars
<1>2. CASE Intended(s)
  BY <1>2 DEF Intended, Promise!Next, Promise!Intend
<1>3. CASE Requested(s)
  BY <1>3 DEF Requested, Promise!Next, Promise!Send
<1>4. CASE Traded(s)
  BY <1>4 DEF Traded, MarketOf, Promise!Next, Promise!Trade, Promise!Advances
<1> QED
  BY <1>1, <1>2, <1>3, <1>4 DEF Kept

LEMMA PromiseInit == Init => \A s \in Signals : Promise(s)!Init
  BY DEF Init, Promise!Init

LEMMA PromiseCaller ==
  ASSUME Typed, NoHandOver, Booked, NEW c \in Callers,
         Reconciliation(c) \/ Batch(c) \/ Execute(c) \/ Crash(c),
         NEW s \in Signals \ overrun
  PROVE  Kept(s)
<1> USE DEF Typed, TypeOK, flags, authority, exchange
<1>1. ASSUME UNCHANGED <<exch, sends>>, rec'[s] = "none" <=> rec[s] = "none"
      PROVE  Kept(s)
  BY <1>1 DEF Kept, Untouched
<1>2. CASE InsertsIntent(c)
  <2>1. /\ sig[c] \in Signals /\ rec' = [rec EXCEPT ![sig[c]] = "prepared"]
        /\ UNCHANGED <<exch, sends>>
    BY <1>2 DEF InsertsIntent, UpdateRecord, Working, LeasePcs, PlacePcs
  <2> QED
    BY <1>1, <2>1 DEF Kept, Intended
<1>3. CASE Sends(c)
  <2>1. /\ pc[c] = "send" /\ sig[c] \in Signals
        /\ sends' = [sends EXCEPT ![sig[c]] = @ + 1]
        /\ UNCHANGED <<rec, exch>>
    BY <1>3 DEF Sends, Working, LeasePcs, PlacePcs
  <2>2. CASE s = sig[c]
    <3>1. sends[s] = 0 /\ rec[s] = "prepared"
      BY <2>1, <2>2 DEF Booked, Ledger, Placing, At
    <3>2. sends'[s] = 1
      BY <2>1, <2>2, <3>1
    <3> QED
      BY <2>1, <3>1, <3>2 DEF Kept, Requested
  <2>3. CASE s # sig[c]
    BY <2>1, <2>3 DEF Kept, Untouched
  <2> QED
    BY <2>2, <2>3
<1>4. CASE WritesState(c)
  <2>1. /\ sig[c] \in Signals /\ rec' = [rec EXCEPT ![sig[c]] = answer[c]]
        /\ answer[c] # "none" /\ pc[c] = "settle"
        /\ UNCHANGED <<exch, sends>>
    BY <1>4 DEF WritesState, UpdateRecord, Working
  <2>2. s = sig[c] => rec[s] # "none"
    BY <2>1 DEF Booked, Ledger, Asking, At
  <2> QED
    BY <1>1, <2>1, <2>2
<1>5. CASE RecordsSubmitted(c) \/ RecordsRejected(c) \/ RecordsUnknown(c)
  <2>1. /\ sig[c] \in Signals /\ rec'[sig[c]] # "none" /\ pc[c] \in {"await", "fail"}
        /\ \A x \in Signals \ {sig[c]} : rec'[x] = rec[x]
        /\ UNCHANGED <<exch, sends>>
    BY <1>5
    DEF RecordsSubmitted, RecordsRejected, RecordsUnknown, UpdateRecord, Working, LeasePcs,
        AfterPcs
  <2>2. s = sig[c] => rec[s] # "none"
    BY <2>1 DEF Booked, Ledger, Placing, At
  <2> QED
    BY <1>1, <2>1, <2>2
<1>6. CASE Quiet(c)
  BY <1>1, <1>6 DEF Quiet
<1> QED
  BY <1>2, <1>3, <1>4, <1>5, <1>6, QuietReconciliation, QuietBatch, QuietExecute, QuietCrash
  DEF Booked

\* What a step of the exchange does to the orders.
LEMMA PromiseExchange ==
  ASSUME Typed, Booked, Exchange, NEW s \in Signals \ overrun
  PROVE  Kept(s)
<1> USE DEF Typed, TypeOK, history
<1>1. ASSUME UNCHANGED <<rec, sends>>, exch'[s] = exch[s] \/ MovesOn(exch[s], exch'[s])
      PROVE  Kept(s)
  BY <1>1 DEF Kept, Untouched, Traded, MovesOn, MarketOf
<1>2. ASSUME NEW r \in requests, ExchangeAccepts(r) PROVE Kept(s)
  <2>1. UNCHANGED <<rec, sends>> /\ exch' = [exch EXCEPT ![r.sig] = "live"]
    BY <1>2 DEF ExchangeAccepts
  <2>2. CASE s = r.sig
    <3>1. sends[s] = 1 /\ exch[s] = "none" /\ exch'[s] = "live"
      BY <2>1, <2>2 DEF Booked, Ledger
    <3> QED
      BY <2>1, <3>1 DEF Kept, Traded, MarketOf
  <2> QED
    BY <1>1, <2>1, <2>2
<1>3. ASSUME NEW r \in requests, ExchangeRejects(r) \/ RequestLost(r) PROVE Kept(s)
  BY <1>1, <1>3 DEF ExchangeRejects, RequestLost
<1>4. ASSUME NEW x \in Signals, OrderMoves(x) PROVE Kept(s)
  BY <1>1, <1>4 DEF OrderMoves, MovesOn
<1>5. CASE CountdownRunsOut
  BY <1>1, <1>5 DEF CountdownRunsOut, OpenOrders, MovesOn
<1> QED
  BY <1>2, <1>3, <1>4, <1>5 DEF Exchange

\* The Live order path keeps the abstract promise of OrderPromise: an intent
\* before a request, one request, one order for a signal, which ends once; for
\* every signal that no process has outlived its lease at.
THEOREM LiveRefines == OwnRecords /\ Spec => ImplementsOrderPromise
<1>1. ASSUME Typed, NoHandOver, Booked, [Next]_vars
      PROVE  \A s \in Signals : s \in overrun \/ [Promise(s)!Next]_(Promise(s)!promiseVars)
  <2> SUFFICES ASSUME NEW s \in Signals \ overrun PROVE Kept(s)
    BY KeptPromise
  <2>1. ASSUME UNCHANGED <<rec, exch, sends>> PROVE Kept(s)
    BY <2>1 DEF Kept, Untouched
  <2>2. CASE UNCHANGED vars
    BY <2>1, <2>2 DEF vars, exchange, history
  <2>3. CASE Lapses
    BY <2>1, <2>3 DEF Lapses, exchange, history
  <2>4. CASE Operator
    <3>1. UNCHANGED <<rec, exch, sends>>
      BY <2>4
      DEF Operator, OperatorPauses, ArmChecks, ArmClearsKill, ArmClearsPause, KillFlags,
          KillPauses, KillCancels, exchange, history
    <3> QED
      BY <2>1, <3>1
  <2> QED
    BY <1>1, <2>2, <2>3, <2>4, PromiseCaller, PromiseExchange DEF Next
<1> QED
  BY <1>1, PromiseInit, BookedInvariant, PTL DEF Spec, ImplementsOrderPromise

-----------------------------------------------------------------------------
(* The limit of a symbol.                                                  *)

\* No process has outlived its lease at work on the symbol.
Clean(i) == \A s \in overrun : InstrumentOf[s] # i

\* Then no two callers are in a batch for it at once.
LEMMA Alone ==
  ASSUME Owning, NEW c \in Callers, NEW d \in Callers,
         pc[c] \in LeasePcs, pc[d] \in LeasePcs,
         sig[c] \notin overrun, sig[d] \notin overrun
  PROVE  c = d
  BY DEF Owning, Leased, HasAuthority

\* Whoever may still send has room for its order.
Placeable(c) == pc[c] \in PlacePcs \/ (pc[c] \in ViewedPcs /\ ~seen[c].full)
Fits(s)      == Cardinality(Exposed(InstrumentOf[s])) + 1 <= MaxPerSymbol
Room         ==
    \A c \in Callers : Placeable(c) /\ Clean(InstrumentOf[sig[c]]) => Fits(sig[c])
Limited      == Room /\ PositionLimit

\* Fewer orders leave more room.
LEMMA FewerExposed ==
  ASSUME Typed, NEW i, Exposed(i)' \subseteq Exposed(i)
  PROVE  /\ Cardinality(Exposed(i)) \in Nat /\ Cardinality(Exposed(i)') \in Nat
         /\ Cardinality(Exposed(i)') <= Cardinality(Exposed(i))
<1>1. IsFiniteSet(Exposed(i))
  BY SignalAssumption, FS_Subset DEF Exposed
<1>2. IsFiniteSet(Exposed(i)')
  BY <1>1, FS_Subset
<1> QED
  BY <1>1, <1>2, FS_Subset, FS_CardinalityType

\* What is at the exchange, or on the way there, is counted.
LEMMA ExposedCounted ==
  ASSUME Typed, Booked, NEW s \in Signals, Clean(InstrumentOf[s])
  PROVE  Exposed(InstrumentOf[s]) \subseteq Counted(s)
<1> SUFFICES ASSUME NEW x \in Signals, InstrumentOf[x] = InstrumentOf[s],
                    exch[x] \in {"live", "filled"} \/ \E r \in requests : r.sig = x
             PROVE  rec[x] \in Recoverable \union {"filled"}
  BY DEF Exposed, Counted, Recorded
<1> x \notin overrun
  BY DEF Clean
<1>1. sends[x] = 1 /\ (exch[x] \in {"live", "filled"} \/ exch[x] = "none")
  BY DEF Booked, Ledger
<1>2. rec[x] # "none"
  BY <1>1 DEF Booked, Ledger
<1>3. rec[x] \notin {"rejected", "canceled"}
  BY <1>1 DEF Booked, Closing, ClosedAgrees
<1> QED
  BY <1>2, <1>3 DEF Typed, TypeOK, RecStatus, Terminal

\* So a snapshot that is not full leaves room for one order more.
LEMMA CountedFits ==
  ASSUME Typed, Booked, NEW s \in Signals, Clean(InstrumentOf[s]),
         ~(Cardinality(Counted(s)) + 1 > MaxPerSymbol)
  PROVE  Fits(s)
<1>1. IsFiniteSet(Counted(s))
  BY SignalAssumption, FS_Subset DEF Counted, Recorded
<1>2. /\ Cardinality(Exposed(InstrumentOf[s])) \in Nat /\ Cardinality(Counted(s)) \in Nat
      /\ Cardinality(Exposed(InstrumentOf[s])) <= Cardinality(Counted(s))
  BY <1>1, ExposedCounted, FS_Subset, FS_CardinalityType
<1> QED
  BY <1>2, LimitAssumption DEF Fits

\* An overrun is never forgotten.
LEMMA OverrunGrows == Typed /\ [Next]_vars => overrun \subseteq overrun'
<1> SUFFICES ASSUME Typed, [Next]_vars, ~Lapses PROVE UNCHANGED overrun
  BY DEF Lapses
<1>1. ASSUME NEW c \in Callers, Reconciliation(c) PROVE UNCHANGED overrun
  BY <1>1, ReconciliationFrame DEF authority
<1>2. ASSUME NEW c \in Callers, Batch(c) \/ Crash(c) PROVE UNCHANGED overrun
  BY <1>2
  DEF Batch, NothingToDo, BatchBlocked, Selects, LeaseGranted, LeaseRefused, SnapshotTaken,
      SnapshotRaises, AbortPauses, Releases, ReleasesFailed, Frees, Crash, Moves, authority
<1>3. ASSUME NEW c \in Callers, Execute(c) PROVE UNCHANGED overrun
  BY <1>3
  DEF Execute, AuthorityHeld, AuthorityDenied, ReadsKillSwitch, ReadsPaused,
      PositionsVerified, OrdersVerified, VerificationRaises, LooksUpIntent, InsertsIntent,
      InsertRaises, RereadsIntent, Sends, PlacementRaises, RecordsSubmitted, RecordsRejected,
      PausesRejected, RecordsUnknown, PausesFailed, Moves, authority
<1>4. CASE Exchange \/ Operator
  BY <1>4
  DEF Exchange, ExchangeAccepts, ExchangeRejects, RequestLost, OrderMoves, CountdownRunsOut,
      Operator, OperatorPauses, ArmChecks, ArmClearsKill, ArmClearsPause, KillFlags,
      KillPauses, KillCancels, authority
<1> QED
  BY <1>1, <1>2, <1>3, <1>4 DEF Next, vars, authority

\* Nothing but a request adds an order: an answer, a fill, a cancellation or
\* the end of a position does not.
LEMMA ExposedSteps ==
  ASSUME Typed, Booked, [Next]_vars, \A c \in Callers : ~Sends(c), NEW i
  PROVE  Exposed(i)' \subseteq Exposed(i)
<1>1. ASSUME UNCHANGED <<exch, requests>> PROVE Exposed(i)' \subseteq Exposed(i)
  BY <1>1 DEF Exposed
<1>2. CASE UNCHANGED vars
  BY <1>1, <1>2 DEF vars, exchange
<1>3. ASSUME NEW c \in Callers, Reconciliation(c) \/ Batch(c) \/ Execute(c) \/ Crash(c)
      PROVE  UNCHANGED <<exch, requests>>
  <2>1. CASE Reconciliation(c)
    BY <2>1, ReconciliationFrame DEF exchange
  <2>2. CASE Batch(c) \/ Crash(c)
    BY <2>2
    DEF Batch, NothingToDo, BatchBlocked, Selects, LeaseGranted, LeaseRefused, SnapshotTaken,
        SnapshotRaises, AbortPauses, Releases, ReleasesFailed, Crash, Moves, exchange
  <2>3. CASE Execute(c)
    BY <2>3
    DEF Execute, AuthorityHeld, AuthorityDenied, ReadsKillSwitch, ReadsPaused,
        PositionsVerified, OrdersVerified, VerificationRaises, LooksUpIntent, InsertsIntent,
        InsertRaises, RereadsIntent, PlacementRaises, RecordsSubmitted,
        RecordsRejected, PausesRejected, RecordsUnknown, PausesFailed, Moves, exchange
  <2> QED
    BY <1>3, <2>1, <2>2, <2>3
<1>4. CASE Lapses \/ Operator
  BY <1>1, <1>4
  DEF Lapses, Operator, OperatorPauses, ArmChecks, ArmClearsKill, ArmClearsPause, KillFlags,
      KillPauses, KillCancels, exchange
<1>5. ASSUME NEW r \in requests, ExchangeAccepts(r) \/ ExchangeRejects(r) \/ RequestLost(r)
      PROVE  Exposed(i)' \subseteq Exposed(i)
  <2>1. /\ requests' = requests \ {r} /\ r.sig \in Signals
        /\ \A s \in Signals : exch'[s] = exch[s] \/ s = r.sig
    BY <1>5 DEF ExchangeAccepts, ExchangeRejects, RequestLost, Typed, TypeOK
  <2> QED
    BY <2>1 DEF Exposed
<1>6. ASSUME UNCHANGED requests,
             \A s \in Signals : exch'[s] \in {"live", "filled"} =>
                                   exch[s] \in {"live", "filled"}
      PROVE  Exposed(i)' \subseteq Exposed(i)
  BY <1>6 DEF Exposed
<1>7. CASE CountdownRunsOut
  BY <1>6, <1>7 DEF CountdownRunsOut
<1>8. ASSUME NEW s \in Signals, OrderMoves(s) PROVE Exposed(i)' \subseteq Exposed(i)
  BY <1>6, <1>8 DEF OrderMoves, Typed, TypeOK
<1> QED
  BY <1>1, <1>2, <1>3, <1>4, <1>5, <1>7, <1>8 DEF Next, Exchange

\* How a step of a caller leads to where it may still send.
LEMMA PlaceableSteps ==
  ASSUME Typed, NEW c \in Callers, Reconciliation(c) \/ Batch(c) \/ Execute(c) \/ Crash(c),
         Placeable(c)'
  PROVE  /\ sig'[c] = sig[c]
         /\ \/ Placeable(c)
            \/ ~(Cardinality(Counted(sig[c])) + 1 > MaxPerSymbol)
<1>1. CASE pc'[c] \in SelectedPcs
  <2>1. pc'[c] \in ViewedPcs \union {"lookup"}
    BY <1>1 DEF Placeable, SelectedPcs, PlacePcs, ViewedPcs
  <2> QED
    BY <1>1, <2>1, SelectedSteps DEF Placeable, ViewedPcs, PlacePcs
<1>2. CASE pc'[c] \notin SelectedPcs
  <2>1. pc'[c] \in {"insert", "reread", "send"}
    BY <1>2 DEF Placeable, SelectedPcs, PlacePcs
  <2> USE DEF Typed, TypeOK, Goto, Moves, Leave, flags, authority, exchange, local, operator,
              counters, history
  <2>2. CASE Reconciliation(c)
    BY <2>1, <2>2, ReconciliationFrame DEF OuterPcs
  <2>3. CASE Batch(c)
    BY <2>1, <2>3
    DEF Batch, NothingToDo, BatchBlocked, Selects, LeaseGranted, LeaseRefused, SnapshotTaken,
        SnapshotRaises, AbortPauses, Releases, ReleasesFailed
  <2>4. CASE Execute(c)
    <3>1. pc[c] \in PlacePcs /\ sig'[c] = sig[c]
      BY <2>1, <2>4
      DEF Execute, PlacePcs, AuthorityHeld, AuthorityDenied, ReadsKillSwitch, ReadsPaused,
          PositionsVerified, OrdersVerified, VerificationRaises, LooksUpIntent, InsertsIntent,
          InsertRaises, RereadsIntent, Sends, PlacementRaises, RecordsSubmitted,
          RecordsRejected, PausesRejected, RecordsUnknown, PausesFailed
    <3> QED
      BY <3>1 DEF Placeable
  <2>5. CASE Crash(c)
    BY <2>1, <2>5 DEF Crash
  <2> QED
    BY <2>2, <2>3, <2>4, <2>5
<1> QED
  BY <1>1, <1>2

LEMMA PlaceableFacts ==
  ASSUME Typed, NEW c \in Callers, Placeable(c)
  PROVE  pc[c] \in LeasePcs /\ sig[c] \in Signals
  BY DEF Placeable, ViewedPcs, PlacePcs, GatePcs, LeasePcs, Typed, Working

\* The request itself: the only caller in a batch for the symbol had room for it.
LEMMA LimitedSend ==
  ASSUME Typed, Owning, Limited, NEW c \in Callers, Sends(c)
  PROVE  Limited'
<1>1. /\ pc[c] = "send" /\ pc' = [pc EXCEPT ![c] = "await"]
      /\ requests' = requests \union {[sig |-> sig[c], by |-> c]}
      /\ UNCHANGED <<exch, sig, seen, overrun>>
  BY DEF Sends, Goto, authority
<1>2. Placeable(c) /\ pc[c] \in LeasePcs /\ sig[c] \in Signals
  BY <1>1, PlaceableFacts DEF Placeable, PlacePcs
<1>3. Room'
  <2> SUFFICES ASSUME NEW d \in Callers, Placeable(d)', Clean(InstrumentOf[sig[d]])'
               PROVE  Fits(sig[d])'
    BY DEF Room
  <2>1. d # c
    BY <1>1 DEF Placeable, PlacePcs, ViewedPcs, Typed, TypeOK
  <2>2. Placeable(d)
    BY <1>1, <2>1 DEF Placeable, Typed, TypeOK
  <2>3. sig[d] \notin overrun /\ sig[d] \in Signals /\ pc[d] \in LeasePcs
    BY <1>1, <2>2, PlaceableFacts DEF Clean
  <2>4. CASE InstrumentOf[sig[d]] = InstrumentOf[sig[c]]
    BY <1>1, <1>2, <2>1, <2>3, <2>4, Alone DEF Clean
  <2>5. CASE InstrumentOf[sig[d]] # InstrumentOf[sig[c]]
    <3>1. PICK s \in Signals : s = sig[d]
      BY <2>3
    <3>2. Exposed(InstrumentOf[s])' = Exposed(InstrumentOf[s])
      BY <1>1, <1>2, <2>5, <3>1 DEF Exposed
    <3>3. Fits(sig[d]) /\ sig'[d] = sig[d]
      BY <1>1, <2>2 DEF Limited, Room, Clean
    <3> QED
      BY <3>1, <3>2, <3>3 DEF Fits, Exposed
  <2> QED
    BY <2>4, <2>5
<1>4. PositionLimit'
  <2> SUFFICES ASSUME NEW i \in Instruments, Clean(i)
               PROVE  Cardinality(Exposed(i)') <= MaxPerSymbol
    BY <1>1 DEF PositionLimit, Clean
  <2>1. CASE i = InstrumentOf[sig[c]]
    <3>1. Exposed(i)' \subseteq Exposed(i) \union {sig[c]}
      BY <1>1 DEF Exposed
    <3>2. IsFiniteSet(Exposed(i)) /\ Cardinality(Exposed(i)) \in Nat
      BY SignalAssumption, FS_Subset, FS_CardinalityType DEF Exposed
    <3>3. /\ IsFiniteSet(Exposed(i) \union {sig[c]})
          /\ Cardinality(Exposed(i) \union {sig[c]}) \in Nat
          /\ Cardinality(Exposed(i) \union {sig[c]}) <= Cardinality(Exposed(i)) + 1
      BY <3>2, FS_AddElement, FS_CardinalityType
    <3>4. /\ Cardinality(Exposed(i)') \in Nat
          /\ Cardinality(Exposed(i)') <= Cardinality(Exposed(i) \union {sig[c]})
      BY <3>1, <3>3, FS_Subset, FS_CardinalityType
    <3>5. Cardinality(Exposed(i)) + 1 <= MaxPerSymbol
      BY <1>2, <2>1 DEF Limited, Room, Fits
    <3> QED
      BY <3>2, <3>3, <3>4, <3>5, LimitAssumption
  <2>2. CASE i # InstrumentOf[sig[c]]
    <3>1. Exposed(i)' \subseteq Exposed(i)
      BY <1>1, <2>2 DEF Exposed
    <3> QED
      BY <3>1, FewerExposed, LimitAssumption DEF Limited, PositionLimit, Clean
  <2> QED
    BY <2>1, <2>2
<1> QED
  BY <1>3, <1>4 DEF Limited

LEMMA LimitedNext == Typed /\ Owning /\ Booked /\ Limited /\ [Next]_vars => Limited'
<1> SUFFICES ASSUME Typed, Owning, Booked, Limited, [Next]_vars,
                    \A c \in Callers : ~Sends(c)
             PROVE  Limited'
  BY LimitedSend
<1>1. \A i : Exposed(i)' \subseteq Exposed(i)
  BY ExposedSteps
<1> overrun \subseteq overrun'
  BY OverrunGrows
<1>2. PositionLimit'
  BY <1>1, FewerExposed, LimitAssumption DEF Limited, PositionLimit
<1>3. ASSUME NEW d \in Callers, sig'[d] = sig[d], Fits(sig[d]) PROVE Fits(sig[d])'
  <2>1. PICK s : s = sig[d]
    OBVIOUS
  <2>2. Fits(s)'
    BY <1>1, <1>3, <2>1, FewerExposed, LimitAssumption DEF Fits
  <2> QED
    BY <1>3, <2>1, <2>2 DEF Fits, Exposed
<1>4. ASSUME UNCHANGED <<pc, sig, seen>> PROVE Room'
  <2> SUFFICES ASSUME NEW d \in Callers, Placeable(d)', Clean(InstrumentOf[sig[d]])'
               PROVE  Fits(sig[d])'
    BY DEF Room
  <2> QED
    BY <1>3, <1>4 DEF Limited, Room, Placeable, Clean
<1>5. ASSUME NEW c \in Callers, Reconciliation(c) \/ Batch(c) \/ Execute(c) \/ Crash(c)
      PROVE  Room'
  <2> SUFFICES ASSUME NEW d \in Callers, Placeable(d)', Clean(InstrumentOf[sig[d]])'
               PROVE  Fits(sig[d])'
    BY DEF Room
  <2>1. CASE d = c
    <3>1. sig'[c] = sig[c]
      BY <1>5, <2>1, PlaceableSteps
    <3>2. sig[c] \in Signals
      <4>1. Typed'
        BY TypedNext
      <4>2. pc'[c] \in LeasePcs
        BY <2>1 DEF Placeable, ViewedPcs, PlacePcs, GatePcs, LeasePcs
      <4> QED
        BY <3>1, <4>1, <4>2 DEF Typed, Working
    <3>3. Fits(sig[c])
      BY <1>5, <2>1, <3>1, <3>2, PlaceableSteps, CountedFits DEF Limited, Room, Clean
    <3> QED
      BY <1>3, <2>1, <3>1, <3>3
  <2>2. CASE d # c
    <3>1. pc'[d] = pc[d] /\ sig'[d] = sig[d] /\ seen'[d] = seen[d]
      BY <1>5, <2>2, PreparingSteps
    <3>2. Placeable(d)
      BY <3>1 DEF Placeable
    <3> QED
      BY <1>3, <3>1, <3>2 DEF Limited, Room, Clean
  <2> QED
    BY <2>1, <2>2
<1>6. ASSUME UNCHANGED vars PROVE Room'
  BY <1>4, <1>6 DEF vars, local
<1>7. ASSUME Lapses \/ Exchange \/ Operator PROVE Room'
  <2>1. UNCHANGED <<pc, sig, seen>>
    BY <1>7
    DEF Lapses, Exchange, ExchangeAccepts, ExchangeRejects, RequestLost, OrderMoves,
        CountdownRunsOut, Operator, OperatorPauses, ArmChecks, ArmClearsKill, ArmClearsPause,
        KillFlags, KillPauses, KillCancels, local
  <2> QED
    BY <1>4, <2>1
<1> QED
  BY <1>2, <1>5, <1>6, <1>7 DEF Limited, Next

LEMMA LimitedInit == Init => Limited
<1> SUFFICES ASSUME Init PROVE Limited
  OBVIOUS
<1>1. Room
  BY DEF Init, Room, Placeable, PlacePcs, ViewedPcs
<1>2. \A i : Exposed(i) = {}
  BY DEF Init, Exposed
<1> QED
  BY <1>1, <1>2, FS_EmptySet, LimitAssumption DEF Limited, PositionLimit

\* No symbol has more orders and positions than its limit, for any number of
\* processes, signals, symbols and deaths, as long as no process outlives its
\* lease at work on it.
THEOREM SymbolLimit == OwnRecords /\ Spec => []PositionLimit
<1> SUFFICES ASSUME OwnRecords PROVE Spec => []PositionLimit
  OBVIOUS
<1>1. Typed /\ Owning /\ Booked /\ Limited /\ [Next]_vars => Limited'
  BY LimitedNext
<1>2. Limited => PositionLimit
  BY DEF Limited
<1> QED
  BY <1>1, <1>2, LimitedInit, BookedInvariant, PTL DEF Spec
=============================================================================
