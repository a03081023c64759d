--------------------------- MODULE PrivateOrders ---------------------------
(***************************************************************************)
(* How a Demo order reaches the exchange: _place_order with its REST       *)
(* fallback (demo_execution_engine.py), and the private socket with its    *)
(* pending acknowledgements (okx_demo_private_ws.py).  DemoExecution has   *)
(* one step for what is a race here: the acknowledgement, the timeout, the *)
(* close of the socket and its reconnection.                               *)
(*                                                                         *)
(* Threads: the callers, and the thread of the socket, which runs every    *)
(* callback and opens the next connection when one is over.                *)
(***************************************************************************)
EXTENDS Naturals, FiniteSets

CONSTANTS
    Callers,     \* threads that place orders
    Orders,      \* clOrdIds
    None,        \* no order, no pending acknowledgement, no answer
    MaxCalls,    \* bound on the calls for one clOrdId
    MaxConns     \* bound on the connections

ASSUME NoneAssumption == None \notin Orders
ASSUME BoundAssumption == MaxCalls \in Nat /\ MaxConns \in Nat

VARIABLES
    \* The runtime of the socket.
    conn,        \* number of the app, self._app
    link,        \* its socket: "opening", "up" or "down"
    flags,       \* which of _connected, _authenticated, _subscribed are set
    pending,     \* _pending_orders: None, or what the callbacks have noted
    \* The callers.
    pc,
    order,       \* the clOrdId of the call
    via,         \* the app the call has taken
    answer,      \* what the call returned, or "unknown" when it raised
    \* The network and the exchange.
    requests,    \* requests on their way
    acks,        \* acknowledgements on their way
    exch,        \* exch[o]: "none", "live" or "done"
    refused,     \* clOrdIds of which the exchange has refused a request
    \* History.
    sent,        \* sent[c]: requests that left in this call
    calls        \* calls[o]: calls for the clOrdId

socket   == <<conn, link, flags, pending>>
callers  == <<pc, order, via, answer>>
exchange == <<exch, refused>>
network  == <<requests, acks>>
history  == <<sent, calls>>
vars     == <<socket, callers, network, exchange, history>>

Ready    == {"connected", "authenticated", "subscribed"}
Replies  == {"accepted", "rejected"}
Pcs      == {"idle", "ready", "register", "send", "wait", "rest", "restwait"}
Routes   == {"ws", "rest"}
Pending  == [response : Replies \union {None}, error : BOOLEAN]
Fresh    == [response |-> None, error |-> FALSE]

ASSUME EntryAssumption == None \notin Pending /\ None \notin Replies

OrdersTypeOK ==
    /\ conn \in 0..MaxConns
    /\ link \in {"opening", "up", "down"}
    /\ flags \subseteq Ready
    /\ pending \in [Orders -> Pending \union {None}]
    /\ pc \in [Callers -> Pcs]
    /\ order \in [Callers -> Orders \union {None}]
    /\ via \in [Callers -> 0..MaxConns]
    /\ answer \in [Callers -> Replies \union {"unknown", None}]
    /\ requests \subseteq [order : Orders, by : Callers, route : Routes, conn : 0..MaxConns]
    /\ acks \subseteq [order : Orders, reply : Replies, conn : 0..MaxConns]
    /\ exch \in [Orders -> {"none", "live", "done"}]
    /\ refused \subseteq Orders
    /\ sent \in [Callers -> Nat]
    /\ calls \in [Orders -> 0..MaxCalls]

Init ==
    /\ conn = 0
    /\ link = "down"
    /\ flags = {}
    /\ pending = [o \in Orders |-> None]
    /\ pc = [c \in Callers |-> "idle"]
    /\ order = [c \in Callers |-> None]
    /\ via = [c \in Callers |-> 0]
    /\ answer = [c \in Callers |-> None]
    /\ requests = {}
    /\ acks = {}
    /\ exch = [o \in Orders |-> "none"]
    /\ refused = {}
    /\ sent = [c \in Callers |-> 0]
    /\ calls = [o \in Orders |-> 0]

-----------------------------------------------------------------------------
(* The thread of the socket.                                               *)

\* _run: create_app, after the previous one is over.
CreatesApp ==
    /\ link = "down"
    /\ conn < MaxConns
    /\ conn' = conn + 1
    /\ link' = "opening"
    /\ UNCHANGED <<flags, pending, callers, network, exchange, history>>

\* _on_open, with the login request.
Opens ==
    /\ link = "opening"
    /\ link' = "up"
    /\ flags' = {"connected"}
    /\ UNCHANGED <<conn, pending, callers, network, exchange, history>>

\* _on_message: the login is acknowledged.  A login that is refused changes
\* nothing here.
LogsIn ==
    /\ link = "up"
    /\ "authenticated" \notin flags
    /\ flags' = flags \union {"authenticated"}
    /\ UNCHANGED <<conn, link, pending, callers, network, exchange, history>>

\* The end of the same callback, after the subscription was sent.
Subscribes ==
    /\ link = "up"
    /\ "authenticated" \in flags
    /\ "subscribed" \notin flags
    /\ flags' = flags \union {"subscribed"}
    /\ UNCHANGED <<conn, link, pending, callers, network, exchange, history>>

\* Mutant: every call that waits is given the acknowledgement.
AcknowledgesAll ==
    /\ link = "up"
    /\ \E a \in acks :
        /\ a.conn = conn
        /\ acks' = acks \ {a}
        /\ pending' = [o \in Orders |->
                IF pending[o] = None THEN None
                ELSE [pending[o] EXCEPT !.response = a.reply]]
    /\ UNCHANGED <<conn, link, flags, callers, requests, exchange, history>>

\* _on_message: a payload whose id is pending.  Without one it is dropped.
Acknowledges ==
    /\ link = "up"
    /\ \E a \in acks :
        /\ a.conn = conn
        /\ acks' = acks \ {a}
        /\ pending' = IF pending[a.order] = None THEN pending
                      ELSE [pending EXCEPT ![a.order].response = a.reply]
    /\ UNCHANGED <<conn, link, flags, callers, requests, exchange, history>>

\* _on_close: whoever waits is told that no acknowledgement will come.
Closes ==
    /\ link # "down"
    /\ link' = "down"
    /\ flags' = {}
    /\ pending' = [o \in Orders |-> IF pending[o] = None THEN None
                                    ELSE [pending[o] EXCEPT !.error = TRUE]]
    /\ UNCHANGED <<conn, callers, network, exchange, history>>

\* run_forever raises, and _on_error only notes it.
RunRaises ==
    /\ link # "down"
    /\ link' = "down"
    /\ UNCHANGED <<conn, flags, pending, callers, network, exchange, history>>

-----------------------------------------------------------------------------
(* _place_order of the engine and place_order of the runtime.              *)

Goto(c, p) == pc' = [pc EXCEPT ![c] = p]

\* is_order_ready
IsReady == flags = Ready /\ conn # 0

\* execute places an order.  The ledger lets a clOrdId through once, unless its
\* signal is presented again while it is prepared.
Calls(c, o) ==
    /\ pc[c] = "idle"
    /\ calls[o] < MaxCalls
    /\ calls' = [calls EXCEPT ![o] = @ + 1]
    /\ order' = [order EXCEPT ![c] = o]
    /\ answer' = [answer EXCEPT ![c] = None]
    /\ sent' = [sent EXCEPT ![c] = 0]
    /\ Goto(c, "ready")
    /\ UNCHANGED <<socket, via, network, exchange>>

\* Mode auto: the private socket if it is ready, REST otherwise.
ChoosesRoute(c) ==
    /\ pc[c] = "ready"
    /\ Goto(c, IF IsReady THEN "register" ELSE "rest")
    /\ UNCHANGED <<socket, order, via, answer, network, exchange, history>>

\* place_order under the lock: the app is taken, the call becomes pending.
Registers(c) ==
    /\ pc[c] = "register"
    /\ IsReady
    /\ pending[order[c]] = None
    /\ pending' = [pending EXCEPT ![order[c]] = Fresh]
    /\ via' = [via EXCEPT ![c] = conn]
    /\ Goto(c, "send")
    /\ UNCHANGED <<conn, link, flags, order, answer, network, exchange, history>>

\* OkxPrivateWsUnavailable: the socket is no longer ready, and REST takes over.
FallsBack(c) ==
    /\ pc[c] = "register"
    /\ ~IsReady
    /\ Goto(c, "rest")
    /\ UNCHANGED <<socket, order, via, answer, network, exchange, history>>

\* The stack is gone; what was returned is kept.
Returns(c, result) ==
    /\ Goto(c, "idle")
    /\ via' = [via EXCEPT ![c] = 0]
    /\ answer' = [answer EXCEPT ![c] = result]

\* OkxPrivateWsOrderUnknown: another thread waits for the same clOrdId.
Duplicate(c) ==
    /\ pc[c] = "register"
    /\ IsReady
    /\ pending[order[c]] # None
    /\ Returns(c, "unknown")
    /\ UNCHANGED <<socket, order, network, exchange, history>>

Request(c, route) ==
    [order |-> order[c], by |-> c, route |-> route, conn |-> via[c]]

Sends(c, route) ==
    /\ requests' = requests \union {Request(c, route)}
    /\ sent' = [sent EXCEPT ![c] = @ + 1]

\* app.send, outside the lock.
SendsOrder(c) ==
    /\ pc[c] = "send"
    /\ link = "up"
    /\ via[c] = conn
    /\ Sends(c, "ws")
    /\ Goto(c, "wait")
    /\ UNCHANGED <<socket, order, via, answer, acks, exchange, calls>>

\* The finally clause.
Forgets(c) == pending' = [pending EXCEPT ![order[c]] = None]

\* Mutant: what was not sent for sure is sent again over REST.
SendFallsBack(c) ==
    /\ pc[c] = "send"
    /\ Sends(c, "ws") \/ UNCHANGED <<requests, sent>>
    /\ Forgets(c)
    /\ Goto(c, "rest")
    /\ UNCHANGED <<conn, link, flags, order, via, answer, acks, exchange, calls>>

\* send raises; the request may have left or not.
SendRaises(c) ==
    /\ pc[c] = "send"
    /\ Sends(c, "ws") \/ UNCHANGED <<requests, sent>>
    /\ Forgets(c)
    /\ Returns(c, "unknown")
    /\ UNCHANGED <<conn, link, flags, order, acks, exchange, calls>>

\* The event is set: an error wins over a response.
Acked(c) ==
    /\ pc[c] = "wait"
    /\ pending[order[c]] # Fresh
    /\ Returns(c, IF pending[order[c]].error THEN "unknown"
                  ELSE pending[order[c]].response)
    /\ Forgets(c)
    /\ UNCHANGED <<conn, link, flags, order, network, exchange, history>>

\* The timeout is over before the event is set.
TimesOut(c) ==
    /\ pc[c] = "wait"
    /\ pending[order[c]] = Fresh
    /\ Returns(c, "unknown")
    /\ Forgets(c)
    /\ UNCHANGED <<conn, link, flags, order, network, exchange, history>>

\* client.place_order; its response, or an exception, comes back to this call.
SendsRest(c) ==
    /\ pc[c] = "rest"
    /\ Sends(c, "rest")
    /\ Goto(c, "restwait")
    /\ UNCHANGED <<socket, order, via, answer, acks, exchange, calls>>

RestRaises(c) ==
    /\ pc[c] \in {"rest", "restwait"}
    /\ Returns(c, "unknown")
    /\ UNCHANGED <<socket, order, network, exchange, history>>

-----------------------------------------------------------------------------
(* The exchange.  A clOrdId must differ from those of open orders.         *)

\* The response goes where the request came from.
Responds(r, reply) ==
    /\ requests' = requests \ {r}
    /\ IF r.route = "ws"
       THEN /\ acks' = acks \union {[order |-> r.order, reply |-> reply, conn |-> r.conn]}
            /\ UNCHANGED <<pc, via, answer>>
       ELSE /\ UNCHANGED acks
            /\ IF pc[r.by] = "restwait" /\ order[r.by] = r.order
               THEN Returns(r.by, reply) ELSE UNCHANGED <<pc, via, answer>>

Accepts(r) ==
    /\ exch[r.order] # "live"
    /\ exch' = [exch EXCEPT ![r.order] = "live"]
    /\ Responds(r, "accepted")
    /\ UNCHANGED <<socket, order, refused, history>>

Rejects(r) ==
    /\ refused' = refused \union {r.order}
    /\ Responds(r, "rejected")
    /\ UNCHANGED <<socket, order, exch, history>>

\* The request is lost, or its expiry is over.
RequestLost(r) ==
    /\ requests' = requests \ {r}
    /\ UNCHANGED <<socket, callers, acks, exchange, history>>

\* Acknowledgements of a connection that is over are lost with it.
AckLost ==
    /\ \E a \in acks :
        /\ a.conn # conn \/ link = "down"
        /\ acks' = acks \ {a}
    /\ UNCHANGED <<socket, callers, requests, exchange, history>>

OrderEnds(o) ==
    /\ exch[o] = "live"
    /\ exch' = [exch EXCEPT ![o] = "done"]
    /\ UNCHANGED <<socket, callers, network, refused, history>>

-----------------------------------------------------------------------------

Socket ==
    \/ CreatesApp
    \/ Opens
    \/ LogsIn
    \/ Subscribes
    \/ Acknowledges
    \/ Closes
    \/ RunRaises

Call(c) ==
    \/ \E o \in Orders : Calls(c, o)
    \/ ChoosesRoute(c)
    \/ Registers(c)
    \/ FallsBack(c)
    \/ Duplicate(c)
    \/ SendsOrder(c)
    \/ SendRaises(c)
    \/ Acked(c)
    \/ TimesOut(c)
    \/ SendsRest(c)
    \/ RestRaises(c)

Exchange ==
    \/ \E r \in requests : Accepts(r)
    \/ \E r \in requests : Rejects(r)
    \/ \E r \in requests : RequestLost(r)
    \/ AckLost
    \/ \E o \in Orders : OrderEnds(o)

Next == Socket \/ (\E c \in Callers : Call(c)) \/ Exchange

Spec == Init /\ [][Next]_vars

-----------------------------------------------------------------------------
\* One call sends one request at most, over one of the two routes: REST takes
\* over only from a socket that has sent nothing, whatever happens to the
\* connection between the check, the registration and the send.
OneRequestPerCall == \A c \in Callers : sent[c] <= 1

\* What a call returns is true of its own order, although acknowledgements of
\* other calls arrive meanwhile, late, or on a later connection: accepted, and
\* the exchange has had the order; rejected, and the exchange has refused it,
\* and has no other request for it unless there was another call.
AnswersAreTrue ==
    \A c \in Callers :
        /\ answer[c] = "accepted" => exch[order[c]] # "none"
        /\ answer[c] = "rejected" =>
              /\ order[c] \in refused
              /\ calls[order[c]] = 1 => /\ exch[order[c]] = "none"
                                        /\ \A r \in requests : r.order # order[c]
=============================================================================
