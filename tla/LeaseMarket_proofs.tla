-------------------------- MODULE LeaseMarket_proofs --------------------------
(***************************************************************************)
(* Theorems about two components that share nothing: ExecutionLease for    *)
(* any number of processes, any term and any bounds, and MarketCloses for  *)
(* any instruments, universe and bounds.  Checked by TLAPS.                *)
(***************************************************************************)
EXTENDS ExecutionLease, MarketCloses, TLAPS

-----------------------------------------------------------------------------
(* ExecutionLease.                                                         *)

\* The row, if there is one, is that of the latest grant, whoever wrote its term
\* last; no two processes keep the same claim; a clock reading is in the past,
\* and a term is counted from one.
ExecutionInv ==
    /\ LeaseTypeOK
    /\ row # None => row.token = issued
    /\ \A h \in Holders : claim[h] <= issued
    /\ \A g, h \in Holders : claim[g] = claim[h] /\ claim[g] # 0 => g = h
    /\ \A h \in Holders : since[h] <= now
    /\ LockoutBounded

LEMMA ExecutionInitial == LeaseInit => ExecutionInv
  BY BoundAssumption, NoneAssumption
  DEF LeaseInit, ExecutionInv, LeaseTypeOK, Calls, LockoutBounded

LEMMA RowIsNone == None \notin [token : 1..MaxGrants, expires : Nat]
  BY BoundAssumption, NoneAssumption

LEMMA ExecutionStep == ExecutionInv /\ [LeaseNext]_leaseVars => ExecutionInv'
<1> SUFFICES ASSUME ExecutionInv, [LeaseNext]_leaseVars PROVE ExecutionInv'
  OBVIOUS
<1> USE TTLAssumption, BoundAssumption, RowIsNone
    DEF ExecutionInv, LeaseTypeOK, LockoutBounded, Calls, callers, Begin, Return, Owns
<1>1. ASSUME NEW h \in Holders, AcquireBegin(h) PROVE ExecutionInv'
  BY <1>1 DEF AcquireBegin
<1>2. ASSUME NEW h \in Holders, AcquireGranted(h) PROVE ExecutionInv'
  <2>1. /\ since[h] \in Nat /\ since[h] <= now /\ now \in Nat
        /\ issued + 1 \in 1..MaxGrants
    BY <1>2 DEF AcquireGranted
  <2>2. /\ row' = [token |-> issued + 1, expires |-> since[h] + TTL]
        /\ row' \in [token : 1..MaxGrants, expires : Nat]
        /\ row'.token = issued' /\ row'.expires <= now' + TTL
    BY <1>2, <2>1 DEF AcquireGranted
  <2> QED
    BY <1>2, <2>1, <2>2 DEF AcquireGranted
<1>3. ASSUME NEW h \in Holders, AcquireRefused(h) PROVE ExecutionInv'
  BY <1>3 DEF AcquireRefused
<1>4. ASSUME NEW h \in Holders, HeartbeatAssert(h) PROVE ExecutionInv'
  BY <1>4 DEF HeartbeatAssert
<1>5. ASSUME NEW h \in Holders, HeartbeatUpdate(h) PROVE ExecutionInv'
  <2>1. PICK t \in since[h]..now :
            row' = IF row = None THEN None ELSE [row EXCEPT !.expires = t + TTL]
    BY <1>5 DEF HeartbeatUpdate
  <2>2. t \in Nat /\ t <= now
    BY <2>1
  <2>3. row # None => /\ row' \in [token : 1..MaxGrants, expires : Nat]
                      /\ row'.token = row.token /\ row'.expires = t + TTL
    BY <2>1, <2>2
  <2> QED
    BY <1>5, <2>1, <2>2, <2>3 DEF HeartbeatUpdate
<1>6. ASSUME NEW h \in Holders, ReleaseAssert(h) PROVE ExecutionInv'
  BY <1>6 DEF ReleaseAssert
<1>7. ASSUME NEW h \in Holders, ReleaseDelete(h) PROVE ExecutionInv'
  BY <1>7 DEF ReleaseDelete
<1>8. ASSUME NEW h \in Holders, Forget(h) PROVE ExecutionInv'
  BY <1>8 DEF Forget
<1>9. CASE Tick
  BY <1>9 DEF Tick
<1>10. CASE UNCHANGED leaseVars
  BY <1>10 DEF leaseVars
<1> QED
  BY <1>1, <1>2, <1>3, <1>4, <1>5, <1>6, <1>7, <1>8, <1>9, <1>10 DEF LeaseNext

LEMMA ExecutionInvariant == LeaseSpec => []ExecutionInv
  BY ExecutionInitial, ExecutionStep, PTL DEF LeaseSpec

\* Every variable keeps its type.
THEOREM ExecutionTypeCorrect == LeaseSpec => []LeaseTypeOK
<1>1. ExecutionInv => LeaseTypeOK
  BY DEF ExecutionInv
<1> QED
  BY <1>1, ExecutionInvariant, PTL

\* assert_authority accepts one process at most, although the UPDATE of a
\* heartbeat names nobody.
THEOREM ExecutionAuthority == LeaseSpec => []SingleAuthority
<1>1. ExecutionInv => SingleAuthority
  <2> SUFFICES ASSUME ExecutionInv, NEW g \in Holders, NEW h \in Holders,
                      Valid(g), Valid(h)
               PROVE  g = h
    BY DEF SingleAuthority
  <2>1. row.token \in 1..MaxGrants
    BY DEF ExecutionInv, LeaseTypeOK, Valid, Active
  <2>2. claim[g] = row.token /\ claim[h] = row.token /\ row.token # 0
    BY <2>1, BoundAssumption DEF Valid
  <2> QED
    BY <2>2 DEF ExecutionInv
<1> QED
  BY <1>1, ExecutionInvariant, PTL

\* A process that ends without releasing blocks the others for one term.
THEOREM ExecutionLockout == LeaseSpec => []LockoutBounded
<1>1. ExecutionInv => LockoutBounded
  BY DEF ExecutionInv
<1> QED
  BY <1>1, ExecutionInvariant, PTL

-----------------------------------------------------------------------------
(* The abstract lease.                                                     *)

LEMMA ExecutionPromiseInit == LeaseInit => Promise!Init
  BY DEF LeaseInit, Promise!Init

LEMMA ExecutionPromiseStep ==
    ExecutionInv /\ [LeaseNext]_leaseVars => [Promise!Next]_Promise!leaseVars
<1> SUFFICES ASSUME ExecutionInv, [LeaseNext]_leaseVars
             PROVE  Promise!Next \/ UNCHANGED Promise!leaseVars
  OBVIOUS
<1> DEFINE phase == IF row = None THEN "free" ELSE IF Active THEN "held" ELSE "lapsed"
           Goal  == Promise!Next \/ UNCHANGED Promise!leaseVars
<1>1. ASSUME issued' = issued, row' = None \/ (row # None /\ row' # None) PROVE Goal
  BY <1>1
  DEF Active, Promise!Next, Promise!Lapse, Promise!Revive, Promise!Release,
      Promise!leaseVars
<1>2. ASSUME NEW h \in Holders, AcquireGranted(h) PROVE Goal
  <2>1. phase # "held"
    BY <1>2, BoundAssumption, RowIsNone
    DEF AcquireGranted, Active, ExecutionInv, LeaseTypeOK
  <2>2. row' # None
    <3>1. issued + 1 \in Nat /\ since[h] + TTL \in Nat
      BY TTLAssumption, BoundAssumption DEF ExecutionInv, LeaseTypeOK
    <3> QED
      BY <1>2, <3>1, NoneAssumption DEF AcquireGranted
  <2> QED
    BY <1>2, <2>1, <2>2 DEF AcquireGranted, Active, Promise!Next, Promise!Grant
<1>3. ASSUME NEW h \in Holders, HeartbeatUpdate(h) PROVE Goal
  <2>1. row # None => row' # None
    BY <1>3, TTLAssumption, BoundAssumption, RowIsNone
    DEF HeartbeatUpdate, ExecutionInv, LeaseTypeOK
  <2>2. issued' = issued /\ (row = None => row' = None)
    BY <1>3 DEF HeartbeatUpdate
  <2> QED
    BY <1>1, <2>1, <2>2
<1>4. ASSUME NEW h \in Holders, ReleaseDelete(h) PROVE Goal
  BY <1>1, <1>4 DEF ReleaseDelete, Owns
<1>5. ASSUME NEW h \in Holders,
             AcquireBegin(h) \/ AcquireRefused(h) \/ HeartbeatAssert(h) \/
             ReleaseAssert(h) \/ Forget(h)
      PROVE  Goal
  BY <1>1, <1>5
  DEF AcquireBegin, AcquireRefused, HeartbeatAssert, ReleaseAssert, Forget, Begin
<1>6. CASE Tick \/ UNCHANGED leaseVars
  BY <1>1, <1>6 DEF Tick, leaseVars
<1> QED
  BY <1>2, <1>3, <1>4, <1>5, <1>6 DEF LeaseNext

\* A heartbeat that meets a successor's row can only lapse or revive that grant.
THEOREM ExecutionRefines == LeaseSpec => ImplementsRoleLease
  BY ExecutionPromiseInit, ExecutionPromiseStep, ExecutionInvariant, PTL
  DEF LeaseSpec, ImplementsRoleLease, Promise!Spec

-----------------------------------------------------------------------------
(* MarketCloses.                                                           *)

\* The socket thread has nothing to emit while it registers a candle.
SocketFree == handling # 0 => emitter[0] = 0

\* Only a thread that is emitting has looked at the coverage.
Looking == \A e \in Emitters : cover[e] # {} => emitter[e] # 0

\* The thread of a timer emits the batch of its timer.
OwnBatch == \A k \in Candles : emitter[k] \in {0, k}

\* A candle's timer is its only one: while it runs the pending batch holds it,
\* and nobody is at the code that it will run.
OneTimer == \A k \in timers : k \in timed /\ emitter[k] = 0

\* A batch gives up its timer when it is emitted, and not before.
Underway == \A k \in Candles : emitter[k] = k => k \in timed \union emitted

\* A batch is emitted when it is marked so.
Marked == \A k \in Candles : events[k] = IF k \in emitted THEN 1 ELSE 0

MarketInv ==
    /\ MarketTypeOK
    /\ SocketFree
    /\ Looking
    /\ Marked
    /\ OwnBatch
    /\ OneTimer
    /\ Underway

LEMMA Numbers ==
    /\ 0 \in Emitters
    /\ 0 \in 0..MaxCandle
    /\ Candles \subseteq Emitters
    /\ Candles \subseteq 0..MaxCandle
    /\ \A k \in 0..MaxCandle : k # 0 => k \in Candles
    /\ 0 \notin Candles
  BY CandleAssumption DEF Candles, Emitters

LEMMA MarketInitial == Init => MarketInv
<1> SUFFICES ASSUME Init PROVE MarketInv
  OBVIOUS
<1>1. MarketTypeOK
  BY CandleAssumption, InstrumentAssumption, Numbers
  DEF Init, MarketTypeOK, Universes, Connections
<1>2. SocketFree /\ Looking /\ Marked /\ OwnBatch /\ OneTimer /\ Underway
  BY Numbers DEF Init, SocketFree, Looking, Marked, OwnBatch, OneTimer, Underway
<1> QED
  BY <1>1, <1>2 DEF MarketInv

LEMMA RefreshType ==
    ASSUME MarketTypeOK, NEW U \in Universes, NEW failed, Refresh(U, failed)
    PROVE  /\ required' \subseteq Instruments
           /\ rows' \in [Instruments -> SUBSET (0..closed)]
           /\ seeded' \in BOOLEAN
  BY DEF MarketTypeOK, Universes, Refresh, Snapshot

LEMMA CandleInWindow ==
    ASSUME MarketTypeOK
    PROVE  0..closed \subseteq 0..MaxCandle /\ 1..closed \subseteq 0..closed
  BY CandleAssumption DEF MarketTypeOK

LEMMA MarketStep == MarketInv /\ [Next]_vars => MarketInv'
<1> SUFFICES ASSUME MarketInv, [Next]_vars PROVE MarketInv'
  OBVIOUS
<1> USE Numbers
    DEF MarketInv, MarketTypeOK, SocketFree, Looking, Marked, OwnBatch, OneTimer, Underway,
        state, sockets, batches, threads, history
<1>1. CASE AppliesCandle
  <2>1. PICK i \in Instruments, k \in Candles :
            /\ <<i, k>> \in wire
            /\ wire' = wire \ {<<i, k>>}
            /\ rows' = [rows EXCEPT ![i] = @ \union {k}]
            /\ handling' = k
    BY <1>1 DEF AppliesCandle
  <2>2. k \in 0..closed
    BY <2>1, CandleInWindow
  <2>3. rows' \in [Instruments -> SUBSET (0..closed)]
    BY <2>1, <2>2
  <2> QED
    BY <1>1, <2>1, <2>2, <2>3 DEF AppliesCandle
<1>2. CASE Registers
  <2>1. handling \in Candles /\ handling \in 0..MaxCandle
    BY <1>2, CandleInWindow DEF Registers
  <2>2. 0 \in 0..closed
    BY CandleAssumption
  <2>3. timed' \subseteq timed \union {handling} /\ timers' \subseteq timers \union {handling}
    BY <1>2 DEF Registers
  <2>4. \/ UNCHANGED emitter
        \/ emitter' = [emitter EXCEPT ![0] = handling]
    BY <1>2 DEF Registers
  <2>5. emitter' \in [Emitters -> 0..MaxCandle]
    BY <2>1, <2>4
  <2>6. Looking'
    <3>1. cover' = cover
      BY <1>2 DEF Registers
    <3> QED
      BY <2>1, <2>4, <3>1
  <2>7. \A k \in Candles : emitter'[k] = emitter[k]
    BY <2>4
  <2>8. timed \subseteq timed' /\ timers' \subseteq timers \union ({handling} \ timed)
    BY <1>2 DEF Registers
  <2>9. OwnBatch' /\ Underway'
    BY <1>2, <2>7, <2>8 DEF Registers, batches
  <2>10. OneTimer'
    <3> SUFFICES ASSUME NEW k \in timers' PROVE k \in timed' /\ emitter'[k] = 0
      OBVIOUS
    <3>1. CASE k \in timers
      BY <2>7, <2>8, <3>1
    <3>2. CASE k \notin timers
      <4>1. k = handling /\ k \notin timed /\ k \in timed' /\ k \notin emitted
        BY <1>2, <3>2 DEF Registers
      <4> QED
        BY <2>1, <2>7, <4>1
    <3> QED
      BY <3>1, <3>2
  <2> QED
    BY <1>2, <2>1, <2>2, <2>3, <2>5, <2>6, <2>9, <2>10 DEF Registers
<1>3. ASSUME NEW k \in Candles, TimerFires(k) PROVE MarketInv'
  BY <1>3 DEF TimerFires
<1>4. ASSUME NEW e \in Emitters, LooksAtCoverage(e) PROVE MarketInv'
  <2>1. Confirmed(emitter[e]) \subseteq Instruments
    BY DEF Confirmed, Eligible
  <2> QED
    BY <1>4, <2>1 DEF LooksAtCoverage
<1>5. ASSUME NEW e \in Emitters, NothingToEmit(e) PROVE MarketInv'
  BY <1>5 DEF NothingToEmit
<1>6. ASSUME NEW e \in Emitters, AlreadyEmitted(e) PROVE MarketInv'
  BY <1>6 DEF AlreadyEmitted, Done
<1>7. ASSUME NEW e \in Emitters, Emits(e) PROVE MarketInv'
  <2>1. emitter[e] \in Candles
    BY <1>7 DEF Emits
  <2>2. events[emitter[e]] = 0
    BY <1>7, <2>1 DEF Emits
  <2>3. events' = [events EXCEPT ![emitter[e]] = 1]
    BY <1>7, <2>1, <2>2 DEF Emits
  <2>4. Marked'
    BY <1>7, <2>1, <2>3 DEF Emits
  <2>5. Looking' /\ SocketFree'
    BY <1>7 DEF Emits, Done
  <2>6. /\ emitter' \in [Emitters -> 0..MaxCandle]
        /\ cover' \in [Emitters -> SUBSET Instruments]
    BY <1>7 DEF Emits, Done
  <2>7. /\ timed' \subseteq Candles
        /\ timers' \subseteq Candles
        /\ emitted' \subseteq Candles
    BY <1>7, <2>1 DEF Emits
  <2>8. events' \in [Candles -> Nat]
    BY <2>3
  <2>9. OwnBatch' /\ Underway' /\ OneTimer'
    BY <1>7, <2>1 DEF Emits, Done
  <2> QED
    BY <1>7, <2>4, <2>5, <2>6, <2>7, <2>8, <2>9 DEF Emits
<1>8. ASSUME NEW c \in Connections, SocketOpens(c) PROVE MarketInv'
  BY <1>8 DEF SocketOpens
<1>9. ASSUME NEW c \in Connections, OpensConnection(c) PROVE MarketInv'
  <2>1. /\ required' \subseteq Instruments
        /\ rows' \in [Instruments -> SUBSET (0..closed)]
        /\ seeded' \in BOOLEAN
    BY <1>9, RefreshType DEF OpensConnection
  <2> QED
    BY <1>9, <2>1 DEF OpensConnection
<1>10. ASSUME NEW c \in Connections, RefreshFails(c) PROVE MarketInv'
  <2>1. /\ required' \subseteq Instruments
        /\ rows' \in [Instruments -> SUBSET (0..closed)]
        /\ seeded' \in BOOLEAN
    BY <1>10, RefreshType DEF RefreshFails
  <2> QED
    BY <1>10, <2>1 DEF RefreshFails
<1>11. ASSUME NEW c \in Connections, SocketCloses(c) PROVE MarketInv'
  <2>1. drops' \in 0..MaxDrops
    BY <1>11, CandleAssumption DEF SocketCloses
  <2> QED
    BY <1>11, <2>1 DEF SocketCloses
<1>12. CASE CandleCloses
  <2>1. closed' = closed + 1 /\ closed' \in 0..MaxCandle
    BY <1>12, CandleAssumption DEF CandleCloses
  <2>2. wire' \subseteq Instruments \X (1..closed')
    BY <1>12, <2>1 DEF CandleCloses
  <2>3. 0..closed \subseteq 0..closed'
    BY <2>1
  <2>4. rows' \in [Instruments -> SUBSET (0..closed')] /\ handling' \in 0..closed'
    BY <1>12, <2>3 DEF CandleCloses
  <2> QED
    BY <1>12, <2>1, <2>2, <2>4 DEF CandleCloses
<1>13. CASE UNCHANGED vars
  BY <1>13 DEF vars
<1> QED
  BY <1>1, <1>2, <1>3, <1>4, <1>5, <1>6, <1>7, <1>8, <1>9, <1>10, <1>11, <1>12, <1>13
  DEF Next, Socket, Emission, Connection

LEMMA MarketInvariant == Spec => []MarketInv
  BY MarketInitial, MarketStep, PTL DEF Spec

\* Nobody holds a candle that has not closed.
THEOREM MarketTypeCorrect == Spec => []MarketTypeOK
<1>1. MarketInv => MarketTypeOK
  BY DEF MarketInv
<1> QED
  BY <1>1, MarketInvariant, PTL

\* A close is emitted once, whoever gets to it.
THEOREM EmittedAtMostOnce == Spec => []EmittedOnce
<1>1. MarketInv => EmittedOnce
  BY DEF MarketInv, Marked, EmittedOnce
<1> QED
  BY <1>1, MarketInvariant, PTL

-----------------------------------------------------------------------------
(* Batches are kept.                                                       *)

LEMMA KeptStep ==
    ASSUME MarketInv, [Next]_vars, NEW k \in Candles, Owed(k)
    PROVE  Owed(k)' \/ k \in emitted' \/ Confirmed(k) = {}
<1> DEFINE Goal == Owed(k)' \/ k \in emitted' \/ Confirmed(k) = {}
<1> USE Numbers DEF Owed
<1>1. ASSUME UNCHANGED <<timed, timers, emitter>>, handling = k => handling' = k
      PROVE  Goal
  BY <1>1
<1>2. CASE AppliesCandle
  BY <1>1, <1>2 DEF AppliesCandle, threads, batches
<1>3. CASE Registers
  <2>1. emitter[0] = 0 /\ emitter \in [Emitters -> 0..MaxCandle]
    BY <1>3 DEF Registers, MarketInv, SocketFree, MarketTypeOK
  <2>2. CASE handling = k /\ k \notin timed
    BY <1>3, <2>1, <2>2 DEF Registers, batches
  <2>3. CASE k \in timers
    BY <1>3, <2>3 DEF Registers
  <2>4. ASSUME NEW e \in Emitters, emitter[e] = k PROVE Goal
    <3>1. e # 0 /\ emitter'[e] = k
      BY <1>3, <2>1, <2>4 DEF Registers
    <3> QED
      BY <3>1
  <2> QED
    BY <2>2, <2>3, <2>4
<1>4. ASSUME NEW j \in Candles, TimerFires(j) PROVE Goal
  <2>1. emitter \in [Emitters -> 0..MaxCandle] /\ j \in Emitters
    BY DEF MarketInv, MarketTypeOK
  <2>2. CASE j = k
    BY <1>4, <2>1, <2>2 DEF TimerFires
  <2>3. CASE j # k
    <3>1. emitter[j] # k
      BY <2>3 DEF MarketInv, OwnBatch
    <3> QED
      BY <1>4, <2>1, <2>3, <3>1 DEF TimerFires
  <2> QED
    BY <2>2, <2>3
<1>5. ASSUME NEW e \in Emitters, LooksAtCoverage(e) PROVE Goal
  BY <1>1, <1>5 DEF LooksAtCoverage, batches
<1>6. ASSUME NEW e \in Emitters,
             NothingToEmit(e) \/ AlreadyEmitted(e) \/ Emits(e)
      PROVE  Goal
  <2>1. emitter \in [Emitters -> 0..MaxCandle]
    BY DEF MarketInv, MarketTypeOK
  <2>2. CASE emitter[e] = k
    BY <1>6, <2>2 DEF NothingToEmit, AlreadyEmitted, Emits, batches
  <2>3. CASE emitter[e] # k
    BY <1>6, <2>1, <2>3 DEF NothingToEmit, AlreadyEmitted, Emits, Done, batches
  <2> QED
    BY <2>2, <2>3
<1>7. ASSUME NEW c \in Connections, Connection(c) PROVE Goal
  BY <1>1, <1>7
  DEF Connection, SocketOpens, OpensConnection, RefreshFails, SocketCloses, batches, threads
<1>8. CASE CandleCloses \/ UNCHANGED vars
  BY <1>1, <1>8 DEF CandleCloses, vars, batches, threads
<1> QED
  BY <1>2, <1>3, <1>4, <1>5, <1>6, <1>7, <1>8 DEF Next, Socket, Emission

\* A batch is never left by everybody: the safety in ConfirmedIsEmitted.
THEOREM BatchesAreKept == Spec => KeptUntilEmitted
<1>1. MarketInv /\ [Next]_vars =>
        [\A k \in Candles : Owed(k) => Owed(k)' \/ k \in emitted' \/ Confirmed(k) = {}]_vars
  BY KeptStep
<1> QED
  BY <1>1, MarketInvariant, PTL DEF Spec, KeptUntilEmitted
=============================================================================
