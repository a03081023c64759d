---------------------------- MODULE MarketCloses ----------------------------
(***************************************************************************)
(* Where confirmed closes come from: the two sockets, the reseeding and    *)
(* the close batches of OkxPublicMarketRuntime                             *)
(* (okx_public_market_runtime.py), and the candles of                      *)
(* DemoPrewarmedMarketState (demo_prewarmed_market_state.py), for one      *)
(* timeframe.                                                              *)
(*                                                                         *)
(* Threads: the business socket, which applies candles and emits complete  *)
(* batches; a timer per pending batch; and a socket's on_open, which       *)
(* reseeds.  The exchange closes candles for all instruments at once and   *)
(* sends one confirmation per instrument, in order; what is on the wire    *)
(* when the business socket drops is never sent again.                     *)
(***************************************************************************)
EXTENDS Naturals, FiniteSets

CONSTANTS
    Instruments,  \* instruments of the exchange
    Benchmark,    \* BTC-USDT-SWAP, which every universe requires
    MaxCandle,    \* bound on the number of candles
    MaxDrops      \* bound on connection losses

ASSUME InstrumentAssumption == IsFiniteSet(Instruments) /\ Benchmark \in Instruments
ASSUME CandleAssumption == MaxCandle \in Nat /\ MaxDrops \in Nat

Connections == {"public", "business"}
Candles     == 1..MaxCandle
Emitters    == Candles \union {0}  \* 0: the business socket; k: the timer of k

\* What universe_loader may return, the benchmark added.
Universes == {U \in SUBSET Instruments : Benchmark \in U}

VARIABLES
    \* Environment.
    closed,    \* the latest closed candle
    wire,      \* confirmations on their way
    open,      \* sockets that are open
    \* The state.
    required,  \* required instruments
    rows,      \* rows[i]: confirmed candles held for the instrument
    \* The runtime.
    connected, \* connections marked connected
    subscribed,\* subscribed[c]: instruments the socket has subscribed to
    seeded,    \* _seeded
    opening,   \* connections inside _on_open
    timed,     \* batches of _pending_batch_closes that hold a timer, which
               \* stays there when it has fired
    timers,    \* batches whose timer runs
    emitted,   \* _emitted_batch_closes
    handling,  \* candle the socket thread has applied, 0 for none
    emitter,   \* emitter[e]: candle whose batch the thread is emitting, 0 for none
    cover,     \* cover[e]: the instruments its coverage named as confirmed
    \* History.
    events,    \* events[k]: the batches emitted for the candle
    drops

state    == <<required, rows>>
sockets  == <<open, connected, subscribed, seeded, opening>>
batches  == <<timed, timers, emitted>>
threads  == <<handling, emitter, cover>>
history  == <<events, drops>>
vars     == <<closed, wire, state, sockets, batches, threads, history>>

\* Every variable keeps its type; nobody holds a candle that has not closed.
MarketTypeOK ==
    /\ closed \in 0..MaxCandle
    /\ wire \subseteq Instruments \X (1..closed)
    /\ open \subseteq Connections
    /\ required \subseteq Instruments
    /\ rows \in [Instruments -> SUBSET (0..closed)]
    /\ connected \subseteq Connections
    /\ subscribed \in [Connections -> SUBSET Instruments]
    /\ seeded \in BOOLEAN
    /\ opening \subseteq Connections
    /\ timed \subseteq Candles
    /\ timers \subseteq Candles
    /\ emitted \subseteq Candles
    /\ handling \in 0..closed
    /\ emitter \in [Emitters -> 0..MaxCandle]
    /\ cover \in [Emitters -> SUBSET Instruments]
    /\ events \in [Candles -> Nat]
    /\ drops \in 0..MaxDrops

\* refresh_subscriptions has seeded the state, and start the threads.
Init ==
    /\ closed = 0
    /\ wire = {}
    /\ open = {}
    /\ required \in Universes
    /\ rows = [i \in Instruments |-> IF i \in required THEN {0} ELSE {}]
    /\ connected = {}
    /\ subscribed = [c \in Connections |-> {}]
    /\ seeded = TRUE
    /\ opening = {}
    /\ timed = {}
    /\ timers = {}
    /\ emitted = {}
    /\ handling = 0
    /\ emitter = [e \in Emitters |-> 0]
    /\ cover = [e \in Emitters |-> {}]
    /\ events = [k \in Candles |-> 0]
    /\ drops = 0

-----------------------------------------------------------------------------
(* DemoPrewarmedMarketState                                                *)

\* confirmed_coverage: of the instruments that have their history.
Eligible     == {i \in required : rows[i] # {}}
Confirmed(k) == {i \in Eligible : k \in rows[i]}
Complete(k)  == Confirmed(k) = Eligible

-----------------------------------------------------------------------------
(* Messages and batches.                                                   *)

\* handle_message and apply_candle; a confirmation is used once.
AppliesCandle ==
    /\ handling = 0
    /\ emitter[0] = 0
    /\ "business" \in open
    /\ \E i \in Instruments, k \in Candles :
        /\ <<i, k>> \in wire
        /\ \A j \in 1..(k - 1) : <<i, j>> \notin wire
        /\ wire' = wire \ {<<i, k>>}
        /\ rows' = [rows EXCEPT ![i] = @ \union {k}]
        /\ handling' = k
    /\ UNCHANGED <<closed, required, sockets, batches, emitter, cover, history>>

\* Mutant: only a batch that is complete is registered.
RegistersComplete ==
    /\ handling # 0
    /\ handling' = 0
    /\ IF Complete(handling) /\ handling \notin emitted
       THEN emitter' = [emitter EXCEPT ![0] = handling]
       ELSE UNCHANGED emitter
    /\ UNCHANGED <<closed, wire, state, sockets, batches, cover, history>>

\* _register_close_confirmation: a complete batch is emitted, another one gets
\* a timer if it holds none.
Registers ==
    /\ handling # 0
    /\ handling' = 0
    /\ IF handling \in emitted \/ Confirmed(handling) = {}
       THEN UNCHANGED <<timed, timers, emitter>>
       ELSE IF Complete(handling)
       THEN /\ emitter' = [emitter EXCEPT ![0] = handling]
            /\ UNCHANGED <<timed, timers>>
       ELSE /\ timed' = timed \union {handling}
            /\ timers' = timers \union ({handling} \ timed)
            /\ UNCHANGED emitter
    /\ UNCHANGED <<closed, wire, state, sockets, emitted, cover, history>>

\* The five seconds are over.
TimerFires(k) ==
    /\ k \in timers
    /\ timers' = timers \ {k}
    /\ emitter' = [emitter EXCEPT ![k] = k]
    /\ UNCHANGED <<closed, wire, state, sockets, timed, emitted, handling, cover,
                   history>>

\* _emit_close_batch looks at the coverage before it takes the lock ...
LooksAtCoverage(e) ==
    /\ emitter[e] # 0
    /\ cover[e] = {}
    /\ Confirmed(emitter[e]) # {}
    /\ cover' = [cover EXCEPT ![e] = Confirmed(emitter[e])]
    /\ UNCHANGED <<closed, wire, state, sockets, batches, handling, emitter, history>>

\* Mutant: a batch that lacks a confirmation is not emitted.
DropsIncomplete(e) ==
    /\ emitter[e] # 0
    /\ cover[e] = {}
    /\ ~Complete(emitter[e])
    /\ emitter' = [emitter EXCEPT ![e] = 0]
    /\ UNCHANGED <<closed, wire, state, sockets, batches, handling, cover, history>>

\* Every instrument that had confirmed has left the universe.  The batch stays
\* pending, with its timer if it has one.
NothingToEmit(e) ==
    /\ emitter[e] # 0
    /\ cover[e] = {}
    /\ Confirmed(emitter[e]) = {}
    /\ emitter' = [emitter EXCEPT ![e] = 0]
    /\ UNCHANGED <<closed, wire, state, sockets, batches, handling, cover, history>>

Done(e) ==
    /\ emitter' = [emitter EXCEPT ![e] = 0]
    /\ cover' = [cover EXCEPT ![e] = {}]

\* Mutant: the lock is taken, and the batch not looked up again.
EmitsUnchecked(e) ==
    /\ cover[e] # {}
    /\ timed' = timed \ {emitter[e]}
    /\ timers' = timers \ {emitter[e]}
    /\ emitted' = emitted \union {emitter[e]}
    /\ events' = [events EXCEPT ![emitter[e]] = @ + 1]
    /\ Done(e)
    /\ UNCHANGED <<closed, wire, state, sockets, handling, drops>>

\* ... and emits, unless another thread has.  The timer is canceled.
Emits(e) ==
    /\ cover[e] # {}
    /\ emitter[e] \notin emitted
    /\ timed' = timed \ {emitter[e]}
    /\ timers' = timers \ {emitter[e]}
    /\ emitted' = emitted \union {emitter[e]}
    /\ events' = [events EXCEPT ![emitter[e]] = @ + 1]
    /\ Done(e)
    /\ UNCHANGED <<closed, wire, state, sockets, handling, drops>>

AlreadyEmitted(e) ==
    /\ cover[e] # {}
    /\ emitter[e] \in emitted
    /\ Done(e)
    /\ UNCHANGED <<closed, wire, state, sockets, batches, handling, history>>

-----------------------------------------------------------------------------
(* Connections.                                                            *)

SocketOpens(c) ==
    /\ c \notin open
    /\ open' = open \union {c}
    /\ opening' = opening \union {c}
    /\ UNCHANGED <<closed, wire, state, connected, subscribed, seeded, batches, threads,
                   history>>

\* The confirmed candles of a snapshot.
Snapshot == 0..closed

\* refresh_subscriptions takes the universe as it is now, and loads the
\* snapshots that are missing, which are those of instruments without any row;
\* the loaders may fail for some.
Refresh(U, failed) ==
    /\ required' = U
    /\ rows' = [i \in Instruments |-> IF i \in U \ failed /\ rows[i] = {}
                                      THEN Snapshot ELSE rows[i]]
    /\ seeded' = (failed = {})

\* _on_open refreshes if a connection was lost, and subscribes.
OpensConnection(c) ==
    /\ c \in opening
    /\ IF seeded THEN UNCHANGED <<state, seeded>> ELSE \E U \in Universes : Refresh(U, {})
    /\ connected' = connected \union {c}
    /\ opening' = opening \ {c}
    /\ subscribed' = [subscribed EXCEPT ![c] = required']
    /\ UNCHANGED <<closed, wire, open, batches, threads, history>>

\* Loaders fail: the connection counts as lost, and the socket stays open
\* without a subscription.
RefreshFails(c) ==
    /\ c \in opening
    /\ ~seeded
    /\ \E U \in Universes :
        \E failed \in (SUBSET {i \in U : rows[i] = {}}) \ {{}} : Refresh(U, failed)
    /\ connected' = connected \ {c}
    /\ opening' = opening \ {c}
    /\ subscribed' = [subscribed EXCEPT ![c] = {}]
    /\ UNCHANGED <<closed, wire, open, batches, threads, history>>

\* The connection drops, and mark_disconnected clears the readiness.
SocketCloses(c) ==
    /\ c \in open \ opening
    /\ drops < MaxDrops
    /\ drops' = drops + 1
    /\ open' = open \ {c}
    /\ connected' = connected \ {c}
    /\ seeded' = FALSE
    /\ wire' = IF c = "business" THEN {} ELSE wire
    /\ UNCHANGED <<closed, state, subscribed, opening, batches, threads, events>>

-----------------------------------------------------------------------------
\* The exchange closes a candle, and confirms it to a subscribed socket.
CandleCloses ==
    /\ closed < MaxCandle
    /\ closed' = closed + 1
    /\ wire' = IF "business" \in connected
               THEN wire \union (subscribed["business"] \X {closed + 1}) ELSE wire
    /\ UNCHANGED <<state, sockets, batches, threads, history>>

Socket ==
    \/ AppliesCandle
    \/ Registers

Emission(e) ==
    \/ LooksAtCoverage(e)
    \/ NothingToEmit(e)
    \/ Emits(e)
    \/ AlreadyEmitted(e)

Connection(c) ==
    \/ SocketOpens(c)
    \/ OpensConnection(c)
    \/ RefreshFails(c)
    \/ SocketCloses(c)

Next ==
    \/ Socket
    \/ \E k \in Candles : TimerFires(k)
    \/ \E e \in Emitters : Emission(e)
    \/ \E c \in Connections : Connection(c)
    \/ CandleCloses

Spec == Init /\ [][Next]_vars

\* Timers fire and threads are scheduled; the network owes nothing.
EmittingSpec ==
    /\ Spec
    /\ WF_vars(Registers)
    /\ \A k \in Candles : WF_vars(TimerFires(k))
    /\ \A e \in Emitters : WF_vars(Emission(e))

-----------------------------------------------------------------------------
\* A close is emitted once, whether its batch was completed, its timer fired,
\* or both happened.
EmittedOnce == \A k \in Candles : events[k] <= 1

\* Somebody is still to see to the batch of candle k.
Owed(k) ==
    \/ handling = k /\ k \notin timed
    \/ k \in timers
    \/ \E e \in Emitters : emitter[e] = k

\* A batch is never left by everybody: whoever lets go of it has emitted it,
\* has found it emitted, or has found nothing confirmed.
KeptUntilEmitted ==
    [][\A k \in Candles :
        Owed(k) => Owed(k)' \/ k \in emitted' \/ Confirmed(k) = {}]_vars

\* A batch that a confirmation opened is emitted, even if the confirmations of
\* the other instruments are lost with the connection, unless every instrument
\* that confirmed it leaves the universe first.
ConfirmedIsEmitted ==
    \A k \in Candles :
        (handling = k /\ k \notin timed) ~> (events[k] = 1 \/ Confirmed(k) = {})
=============================================================================
