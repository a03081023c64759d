------------------------ MODULE PrivateOrders_proofs ------------------------
(***************************************************************************)
(* Theorems about PrivateOrders for any number of callers, orders, calls   *)
(* and connections, checked by TLAPS.                                      *)
(***************************************************************************)
EXTENDS PrivateOrders, TLAPS

Before == {"ready", "register", "send", "rest"}   \* nothing was sent yet

\* A call has an order, and has sent one request when it waits.
Calling ==
    \A c \in Callers :
        /\ pc[c] # "idle" => order[c] \in Orders /\ calls[order[c]] # 0
        /\ answer[c] # None => order[c] \in Orders
        /\ pc[c] \in Before => sent[c] = 0
        /\ sent[c] <= 1

\* A call that is pending has its entry to itself.
Entries ==
    \A c \in Callers : pc[c] \in {"send", "wait"} =>
        /\ pending[order[c]] # None
        /\ \A d \in Callers : pc[d] \in {"send", "wait"} /\ order[d] = order[c] => c = d

\* What the exchange has said of an order is true of the order, wherever the
\* reply has got to.
True(o, reply) ==
    /\ reply = "accepted" => exch[o] # "none"
    /\ reply = "rejected" => o \in refused

Truthful ==
    /\ \A a \in acks : True(a.order, a.reply)
    /\ \A o \in Orders : pending[o] # None => True(o, pending[o].response)
    /\ \A c \in Callers : answer[c] # None => True(order[c], answer[c])

\* Nothing is on its way, or was decided, for the order.
Untouched(o) ==
    exch[o] = "none" /\ o \notin refused /\ \A r \in requests : r.order # o

\* An order nobody has called for; and one that was called for once.
NoCall ==
    \A o \in Orders : calls[o] = 0 =>
        Untouched(o) /\ \A c \in Callers : pc[c] # "idle" => order[c] # o

OneCall ==
    \A o \in Orders : calls[o] = 1 =>
        /\ \A r, q \in requests : r.order = o /\ q.order = o => r = q
        /\ \A r \in requests : r.order = o => exch[o] = "none" /\ o \notin refused
        /\ o \in refused => exch[o] = "none"
        /\ \A c \in Callers : pc[c] \in Before /\ order[c] = o => Untouched(o)
        /\ \A c, d \in Callers :
              pc[c] # "idle" /\ pc[d] # "idle" /\ order[c] = o /\ order[d] = o => c = d

OrdersInv ==
    /\ OrdersTypeOK
    /\ Calling
    /\ Entries
    /\ Truthful
    /\ NoCall
    /\ OneCall

LEMMA OrdersInitial == Init => OrdersInv
  BY BoundAssumption, NoneAssumption
  DEF Init, OrdersInv, OrdersTypeOK, Calling, Entries, Truthful, True, NoCall, Untouched,
      OneCall, Before, Pcs, Ready

-----------------------------------------------------------------------------
(* The socket: only its own state and what callers wait for change.        *)

\* A step of the socket that adds no entry and removes none, and notes in an
\* entry what is true.
LEMMA SocketKeeps ==
  ASSUME OrdersInv, OrdersTypeOK',
         UNCHANGED <<callers, exchange, requests, history>>,
         \A o \in Orders : pending[o] # None => pending'[o] # None,
         \A o \in Orders : pending'[o] # None => True(o, pending'[o].response),
         acks' \subseteq acks
  PROVE  OrdersInv'
<1> USE DEF OrdersInv, callers, exchange, history
<1>1. Calling' /\ NoCall' /\ OneCall'
  BY DEF Calling, NoCall, OneCall, Untouched
<1>2. Entries'
  BY DEF Entries, Calling
<1>3. Truthful'
  BY DEF Truthful, True
<1> QED
  BY <1>1, <1>2, <1>3

LEMMA SocketStep == OrdersInv /\ Socket => OrdersInv'
<1> SUFFICES ASSUME OrdersInv, Socket PROVE OrdersInv'
  OBVIOUS
<1>1. CASE CreatesApp \/ Opens \/ LogsIn \/ Subscribes \/ RunRaises
  <2>1. UNCHANGED <<pending, callers, network, exchange, history>>
    BY <1>1 DEF CreatesApp, Opens, LogsIn, Subscribes, RunRaises
  <2>2. conn' \in 0..MaxConns /\ link' \in {"opening", "up", "down"}
    BY <1>1, BoundAssumption
    DEF CreatesApp, Opens, LogsIn, Subscribes, RunRaises, OrdersInv, OrdersTypeOK
  <2>3. flags' \subseteq Ready
    BY <1>1
    DEF CreatesApp, Opens, LogsIn, Subscribes, RunRaises, OrdersInv, OrdersTypeOK, Ready
  <2>4. OrdersTypeOK'
    BY <2>1, <2>2, <2>3
    DEF OrdersInv, OrdersTypeOK, callers, network, exchange, history
  <2> QED
    BY <2>1, <2>4, SocketKeeps DEF OrdersInv, Truthful, network
<1>2. CASE Closes
  <2>1. \A o \in Orders :
          /\ pending[o] = None => pending'[o] = None
          /\ pending[o] # None => /\ pending'[o] \in Pending /\ pending'[o] # None
                                  /\ pending'[o].response = pending[o].response
    BY <1>2, EntryAssumption DEF Closes, OrdersInv, OrdersTypeOK, Pending
  <2>2. OrdersTypeOK'
    BY <1>2, <2>1
    DEF Closes, OrdersInv, OrdersTypeOK, callers, network, exchange, history
  <2> QED
    BY <1>2, <2>1, <2>2, SocketKeeps DEF Closes, OrdersInv, Truthful, network
<1>3. CASE Acknowledges
  <2>1. PICK a \in acks :
          /\ acks' = acks \ {a}
          /\ pending' = IF pending[a.order] = None THEN pending
                        ELSE [pending EXCEPT ![a.order].response = a.reply]
    BY <1>3 DEF Acknowledges
  <2>2. a.order \in Orders /\ a.reply \in Replies /\ True(a.order, a.reply)
    BY DEF OrdersInv, OrdersTypeOK, Truthful
  <2>3. \A o \in Orders :
          /\ pending[o] = None => pending'[o] = None
          /\ pending[o] # None => /\ pending'[o] \in Pending /\ pending'[o] # None
                                  /\ pending'[o].response \in {pending[o].response, a.reply}
                                  /\ o # a.order => pending'[o] = pending[o]
    BY <2>1, <2>2, EntryAssumption DEF OrdersInv, OrdersTypeOK, Pending
  <2>4. \A o \in Orders : pending'[o] # None => True(o, pending'[o].response)
    BY <2>2, <2>3 DEF OrdersInv, Truthful
  <2>5. OrdersTypeOK'
    BY <1>3, <2>1, <2>2, <2>3
    DEF Acknowledges, OrdersInv, OrdersTypeOK, callers, exchange, history
  <2> QED
    BY <1>3, <2>1, <2>3, <2>4, <2>5, SocketKeeps DEF Acknowledges
<1> QED
  BY <1>1, <1>2, <1>3 DEF Socket

-----------------------------------------------------------------------------
(* The callers.                                                            *)

\* A step of c that sends nothing, and ends the call or takes it on.
LEMMA CallKeeps ==
  ASSUME OrdersInv, OrdersTypeOK', NEW c \in Callers, pc[c] # "idle",
         UNCHANGED <<order, network, exchange, history>>,
         NEW p \in Pcs, pc' = [pc EXCEPT ![c] = p],
         p \in Before => pc[c] \in Before,
         p \in {"send", "wait"} => pending'[order[c]] # None,
         p \in {"send", "wait"} =>
            \A d \in Callers : pc[d] \in {"send", "wait"} /\ order[d] = order[c] => c = d,
         \A d \in Callers \ {c} : answer'[d] = answer[d],
         answer'[c] = answer[c] \/ True(order[c], answer'[c]),
         \A o \in Orders : pending'[o] # pending[o] =>
            /\ o = order[c]
            /\ pending'[o] # None => True(o, pending'[o].response)
            /\ \A d \in Callers \ {c} : pc[d] \in {"send", "wait"} => order[d] # o
  PROVE  OrdersInv'
<1> USE DEF OrdersInv, network, exchange, history
<1>1. \A d \in Callers : pc'[d] = IF d = c THEN p ELSE pc[d]
  BY DEF OrdersTypeOK
<1>2. Calling'
  BY <1>1 DEF Calling
<1>3. Entries'
  BY <1>1 DEF Entries, Calling
<1>4. Truthful'
  BY DEF Truthful, True, Calling, OrdersTypeOK
<1>5. NoCall' /\ OneCall'
  BY <1>1 DEF NoCall, OneCall, Untouched
<1> QED
  BY <1>2, <1>3, <1>4, <1>5

\* A step of c that sends a request, and waits or ends the call.
LEMMA SendKeeps ==
  ASSUME OrdersInv, OrdersTypeOK', NEW c \in Callers, pc[c] \in {"send", "rest"},
         NEW route \in Routes, Sends(c, route),
         UNCHANGED <<order, acks, exchange, calls>>,
         NEW p \in {"wait", "restwait", "idle"}, pc' = [pc EXCEPT ![c] = p],
         p = "wait" => pc[c] = "send" /\ pending' = pending,
         \A d \in Callers \ {c} : answer'[d] = answer[d],
         answer'[c] = answer[c] \/ True(order[c], answer'[c]),
         \A o \in Orders : pending'[o] # pending[o] =>
            /\ o = order[c]
            /\ pending'[o] = None
            /\ \A d \in Callers \ {c} : pc[d] \in {"send", "wait"} => order[d] # o
  PROVE  OrdersInv'
<1> DEFINE q == Request(c, route)
<1> USE DEF OrdersInv, exchange
<1>1. \A d \in Callers : pc'[d] = IF d = c THEN p ELSE pc[d]
  BY DEF OrdersTypeOK
<1>2. /\ order[c] \in Orders /\ calls[order[c]] # 0 /\ sent[c] = 0
      /\ pc[c] \in Before
  BY DEF Calling, Before
<1>3. sent' = [sent EXCEPT ![c] = 1] /\ requests' = requests \union {q}
      /\ q.order = order[c]
  BY <1>2 DEF Sends, Request, OrdersTypeOK
<1>4. Calling'
  BY <1>1, <1>2, <1>3 DEF Calling, Before, OrdersTypeOK
<1>5. Entries'
  BY <1>1 DEF Entries, Calling
<1>6. Truthful'
  BY DEF Truthful, True, Calling, OrdersTypeOK
<1>7. NoCall'
  BY <1>1, <1>2, <1>3 DEF NoCall, Untouched
<1>8. OneCall'
  BY <1>1, <1>2, <1>3 DEF OneCall, Untouched, Before
<1> QED
  BY <1>4, <1>5, <1>6, <1>7, <1>8

LEMMA BeginStep ==
  ASSUME OrdersInv, NEW c \in Callers, NEW o \in Orders, Calls(c, o)
  PROVE  OrdersInv'
<1> USE DEF OrdersInv, Calls, Goto, socket, network, exchange
<1>1. /\ calls' = [calls EXCEPT ![o] = calls[o] + 1]
      /\ calls[o] + 1 \in 0..MaxCalls /\ calls[o] \in Nat
  BY BoundAssumption DEF OrdersTypeOK
<1>2. OrdersTypeOK'
  BY <1>1 DEF OrdersTypeOK, Pcs
<1>3. \A d \in Callers : /\ pc'[d] = IF d = c THEN "ready" ELSE pc[d]
                         /\ order'[d] = IF d = c THEN o ELSE order[d]
                         /\ answer'[d] = IF d = c THEN None ELSE answer[d]
                         /\ sent'[d] = IF d = c THEN 0 ELSE sent[d]
  BY DEF OrdersTypeOK
<1>4. \A i \in Orders : calls'[i] = IF i = o THEN calls[o] + 1 ELSE calls[i]
  BY <1>1 DEF OrdersTypeOK
<1>5. Calling'
  BY <1>1, <1>3, <1>4 DEF Calling, Before, OrdersTypeOK
<1>6. Entries'
  BY <1>3 DEF Entries
<1>7. Truthful'
  BY <1>3 DEF Truthful, True
<1>8. NoCall'
  BY <1>1, <1>3, <1>4 DEF NoCall, Untouched, OrdersTypeOK
<1>9. OneCall'
  <2> SUFFICES ASSUME NEW i \in Orders, calls'[i] = 1
               PROVE  /\ \A r, q \in requests : r.order = i /\ q.order = i => r = q
                      /\ \A r \in requests : r.order = i => exch[i] = "none" /\ i \notin refused
                      /\ i \in refused => exch[i] = "none"
                      /\ \A d \in Callers : pc'[d] \in Before /\ order'[d] = i => Untouched(i)
                      /\ \A d, e \in Callers :
                            pc'[d] # "idle" /\ pc'[e] # "idle" /\ order'[d] = i
                                /\ order'[e] = i => d = e
    BY DEF OneCall, Untouched
  <2>1. CASE i = o
    <3>1. calls[i] = 0
      BY <1>1, <1>4, <2>1
    <3> QED
      BY <1>3, <2>1, <3>1 DEF NoCall, Untouched
  <2>2. CASE i # o
    BY <1>3, <1>4, <2>2 DEF OneCall
  <2> QED
    BY <2>1, <2>2
<1> QED
  BY <1>2, <1>5, <1>6, <1>7, <1>8, <1>9

LEMMA CallStep ==
  ASSUME OrdersInv, NEW c \in Callers, Call(c)
  PROVE  OrdersInv'
<1> USE DEF OrdersInv
<1>1. ASSUME NEW o \in Orders, Calls(c, o) PROVE OrdersInv'
  BY <1>1, BeginStep
<1>2. CASE ChoosesRoute(c) \/ FallsBack(c)
  <2>1. PICK p \in {"register", "rest"} : pc' = [pc EXCEPT ![c] = p]
    BY <1>2 DEF ChoosesRoute, FallsBack, Goto
  <2>2. /\ UNCHANGED <<socket, order, via, answer, network, exchange, history>>
        /\ pc[c] \in {"ready", "register"} /\ pc[c] \in Before
    BY <1>2 DEF ChoosesRoute, FallsBack, Before
  <2>3. OrdersTypeOK'
    BY <2>1, <2>2 DEF OrdersTypeOK, Pcs, socket, network, exchange, history
  <2> QED
    BY <2>1, <2>2, <2>3, CallKeeps DEF Pcs, socket
<1>3. CASE Registers(c)
  <2>1. /\ pc[c] = "register" /\ order[c] \in Orders /\ pending[order[c]] = None
        /\ pending' = [pending EXCEPT ![order[c]] = Fresh]
    BY <1>3 DEF Registers, Calling
  <2>2. Fresh \in Pending /\ Fresh # None /\ Fresh.response = None
    <3>1. Fresh \in Pending
      BY Zenon DEF Fresh, Pending
    <3>2. Fresh.response = None
      BY DEF Fresh
    <3> QED
      BY <3>1, <3>2, EntryAssumption
  <2>3. OrdersTypeOK'
    BY <1>3, <2>1, <2>2
    DEF Registers, Goto, OrdersTypeOK, Pcs, network, exchange, history
  <2>4. True(order[c], None)
    BY EntryAssumption DEF True, Replies
  <2>5. \A d \in Callers : pc[d] \in {"send", "wait"} => order[d] # order[c]
    BY <2>1 DEF Entries
  <2>6. \A o \in Orders : pending'[o] = IF o = order[c] THEN Fresh ELSE pending[o]
    BY <2>1 DEF OrdersTypeOK
  <2>7. pc' = [pc EXCEPT ![c] = "send"]
        /\ UNCHANGED <<order, answer, network, exchange, history>>
    BY <1>3 DEF Registers, Goto
  <2>8. \A o \in Orders : pending'[o] # pending[o] =>
          /\ o = order[c]
          /\ pending'[o] # None => True(o, pending'[o].response)
          /\ \A d \in Callers \ {c} : pc[d] \in {"send", "wait"} => order[d] # o
    BY <2>2, <2>4, <2>5, <2>6
  <2>9. pending'[order[c]] # None
    BY <2>1, <2>2, <2>6
  <2> QED
    BY <2>1, <2>3, <2>5, <2>7, <2>8, <2>9, CallKeeps DEF Pcs, Before
<1>4. CASE Duplicate(c) \/ RestRaises(c)
  <2>1. /\ pc' = [pc EXCEPT ![c] = "idle"] /\ pc[c] # "idle"
        /\ via' = [via EXCEPT ![c] = 0] /\ answer' = [answer EXCEPT ![c] = "unknown"]
        /\ UNCHANGED <<socket, order, network, exchange, history>>
    BY <1>4 DEF Duplicate, RestRaises, Returns, Goto
  <2>2. OrdersTypeOK'
    BY <2>1, BoundAssumption DEF OrdersTypeOK, Pcs, socket, network, exchange, history
  <2>3. True(order[c], answer'[c]) /\ \A d \in Callers \ {c} : answer'[d] = answer[d]
    BY <2>1 DEF True, OrdersTypeOK
  <2> QED
    BY <2>1, <2>2, <2>3, CallKeeps DEF Pcs, Before, socket
<1>5. CASE Acked(c) \/ TimesOut(c)
  <2>1. pc[c] = "wait" /\ order[c] \in Orders /\ pending[order[c]] # None
    BY <1>5 DEF Acked, TimesOut, Calling, Entries
  <2>2. PICK a \in Replies \union {"unknown", None} :
            /\ Returns(c, a)
            /\ True(order[c], a)
    <3>1. pending[order[c]].response \in Replies \union {None}
          /\ True(order[c], pending[order[c]].response)
      BY <2>1 DEF OrdersTypeOK, Pending, Truthful
    <3>2. True(order[c], "unknown")
      BY DEF True
    <3> QED
      BY <1>5, <3>1, <3>2 DEF Acked, TimesOut
  <2>3. /\ pending' = [pending EXCEPT ![order[c]] = None]
        /\ UNCHANGED <<conn, link, flags, order, network, exchange, history>>
    BY <1>5 DEF Acked, TimesOut, Forgets
  <2>4. OrdersTypeOK'
    BY <2>1, <2>2, <2>3, BoundAssumption
    DEF Returns, Goto, OrdersTypeOK, Pcs, network, exchange, history
  <2>5. \A o \in Orders : pending'[o] # pending[o] => o = order[c] /\ pending'[o] = None
    BY <2>3 DEF OrdersTypeOK
  <2>6. \A d \in Callers \ {c} : pc[d] \in {"send", "wait"} => order[d] # order[c]
    BY <2>1 DEF Entries
  <2>7. /\ pc' = [pc EXCEPT ![c] = "idle"] /\ True(order[c], answer'[c])
        /\ \A d \in Callers \ {c} : answer'[d] = answer[d]
    BY <2>2 DEF Returns, Goto, OrdersTypeOK
  <2>8. \A o \in Orders : pending'[o] # pending[o] =>
          /\ o = order[c]
          /\ pending'[o] # None => True(o, pending'[o].response)
          /\ \A d \in Callers \ {c} : pc[d] \in {"send", "wait"} => order[d] # o
    BY <2>5, <2>6
  <2> QED
    BY <2>1, <2>3, <2>4, <2>7, <2>8, CallKeeps DEF Pcs, Before
<1> DEFINE q(route) == Request(c, route)
<1>6. \A route \in Routes : pc[c] # "idle" =>
        q(route) \in [order : Orders, by : Callers, route : Routes, conn : 0..MaxConns]
  BY DEF Request, OrdersTypeOK, Calling
<1>7. CASE SendsOrder(c)
  <2>1. /\ pc[c] = "send" /\ pc' = [pc EXCEPT ![c] = "wait"] /\ Sends(c, "ws")
        /\ UNCHANGED <<socket, order, via, answer, acks, exchange, calls>>
    BY <1>7 DEF SendsOrder, Goto
  <2>2. OrdersTypeOK'
    BY <1>6, <2>1 DEF OrdersTypeOK, Sends, Pcs, Routes, socket, exchange
  <2> QED
    BY <2>1, <2>2, SendKeeps DEF Routes, socket
<1>8. CASE SendsRest(c)
  <2>1. /\ pc[c] = "rest" /\ pc' = [pc EXCEPT ![c] = "restwait"] /\ Sends(c, "rest")
        /\ UNCHANGED <<socket, order, via, answer, acks, exchange, calls>>
    BY <1>8 DEF SendsRest, Goto
  <2>2. OrdersTypeOK'
    BY <1>6, <2>1 DEF OrdersTypeOK, Sends, Pcs, Routes, socket, exchange
  <2> QED
    BY <2>1, <2>2, SendKeeps DEF Routes, socket
<1>9. CASE SendRaises(c)
  <2>1. /\ pc[c] = "send" /\ order[c] \in Orders
        /\ pc' = [pc EXCEPT ![c] = "idle"] /\ via' = [via EXCEPT ![c] = 0]
        /\ answer' = [answer EXCEPT ![c] = "unknown"]
        /\ pending' = [pending EXCEPT ![order[c]] = None]
        /\ UNCHANGED <<conn, link, flags, order, acks, exchange, calls>>
        /\ Sends(c, "ws") \/ UNCHANGED <<requests, sent>>
    BY <1>9 DEF SendRaises, Returns, Goto, Forgets, Calling
  <2>2. OrdersTypeOK'
    BY <1>6, <2>1, BoundAssumption DEF OrdersTypeOK, Sends, Pcs, Routes, exchange
  <2>3. \A o \in Orders : pending'[o] # pending[o] => o = order[c] /\ pending'[o] = None
    BY <2>1 DEF OrdersTypeOK
  <2>4. \A d \in Callers \ {c} : pc[d] \in {"send", "wait"} => order[d] # order[c]
    BY <2>1 DEF Entries
  <2>5. True(order[c], answer'[c]) /\ \A d \in Callers \ {c} : answer'[d] = answer[d]
    BY <2>1 DEF True, OrdersTypeOK
  <2>6. CASE Sends(c, "ws")
    <3>1. \A o \in Orders : pending'[o] # pending[o] =>
            /\ o = order[c]
            /\ pending'[o] = None
            /\ \A d \in Callers \ {c} : pc[d] \in {"send", "wait"} => order[d] # o
      BY <2>3, <2>4
    <3> QED
      BY <2>1, <2>2, <2>5, <2>6, <3>1, SendKeeps DEF Routes
  <2>7. CASE UNCHANGED <<requests, sent>>
    <3>1. \A o \in Orders : pending'[o] # pending[o] =>
            /\ o = order[c]
            /\ pending'[o] # None => True(o, pending'[o].response)
            /\ \A d \in Callers \ {c} : pc[d] \in {"send", "wait"} => order[d] # o
      BY <2>3, <2>4
    <3> QED
      BY <2>1, <2>2, <2>5, <2>7, <3>1, CallKeeps DEF Pcs, Before, network, history
  <2> QED
    BY <2>1, <2>6, <2>7
<1> QED
  BY <1>1, <1>2, <1>3, <1>4, <1>5, <1>7, <1>8, <1>9 DEF Call

-----------------------------------------------------------------------------
(* The exchange.                                                           *)

\* What a reply does to the callers and to the network.
LEMMA RespondFacts ==
  ASSUME OrdersInv, NEW r \in requests, NEW reply \in Replies, Responds(r, reply),
         UNCHANGED <<socket, order, history>>
  PROVE  /\ requests' = requests \ {r} /\ r.order \in Orders
         /\ acks' \subseteq [order : Orders, reply : Replies, conn : 0..MaxConns]
         /\ \A a \in acks' : a \in acks \/ (a.order = r.order /\ a.reply = reply)
         /\ pc' \in [Callers -> Pcs] /\ via' \in [Callers -> 0..MaxConns]
         /\ answer' \in [Callers -> Replies \union {"unknown", None}]
         /\ \A c \in Callers : pc'[c] = pc[c] \/ (pc'[c] = "idle" /\ pc[c] = "restwait")
         /\ \A c \in Callers : \/ answer'[c] = answer[c]
                               \/ /\ answer'[c] = reply /\ order[c] = r.order
<1> USE DEF OrdersInv, OrdersTypeOK
<1>1. requests' = requests \ {r} /\ r.order \in Orders /\ r.conn \in 0..MaxConns
      /\ r.by \in Callers
  BY DEF Responds
<1>2. CASE r.route = "ws"
  BY <1>1, <1>2 DEF Responds
<1>3. CASE r.route # "ws" /\ pc[r.by] = "restwait" /\ order[r.by] = r.order
  BY <1>1, <1>3, BoundAssumption DEF Responds, Returns, Goto, Pcs
<1>4. CASE r.route # "ws" /\ ~(pc[r.by] = "restwait" /\ order[r.by] = r.order)
  BY <1>1, <1>4 DEF Responds
<1> QED
  BY <1>2, <1>3, <1>4

LEMMA ReplyStep ==
  ASSUME OrdersInv, NEW r \in requests, NEW reply \in Replies, Responds(r, reply),
         UNCHANGED <<socket, order, history>>,
         \/ reply = "accepted" /\ Accepts(r)
         \/ reply = "rejected" /\ Rejects(r)
  PROVE  OrdersInv'
<1> USE DEF OrdersInv
<1>1. \/ reply = "accepted" /\ Accepts(r)
      \/ reply = "rejected" /\ Rejects(r)
  OBVIOUS
<1>2. UNCHANGED <<socket, order, history>>
  OBVIOUS
<1>3. /\ requests' = requests \ {r} /\ r.order \in Orders
      /\ acks' \subseteq [order : Orders, reply : Replies, conn : 0..MaxConns]
      /\ \A a \in acks' : a \in acks \/ (a.order = r.order /\ a.reply = reply)
      /\ pc' \in [Callers -> Pcs] /\ via' \in [Callers -> 0..MaxConns]
      /\ answer' \in [Callers -> Replies \union {"unknown", None}]
      /\ \A c \in Callers : pc'[c] = pc[c] \/ (pc'[c] = "idle" /\ pc[c] = "restwait")
      /\ \A c \in Callers : \/ answer'[c] = answer[c]
                            \/ /\ answer'[c] = reply /\ order[c] = r.order
  BY RespondFacts
<1>4. /\ exch' \in [Orders -> {"none", "live", "done"}] /\ refused' \subseteq Orders
      /\ \A i \in Orders : exch[i] # "none" => exch'[i] # "none"
      /\ refused \subseteq refused'
      /\ reply = "accepted" => exch'[r.order] # "none"
      /\ reply = "rejected" => r.order \in refused'
      /\ \A i \in Orders \ {r.order} : exch'[i] = exch[i] /\ (i \in refused' <=> i \in refused)
      /\ exch'[r.order] # exch[r.order] => refused' = refused
      /\ r.order \in refused' /\ r.order \notin refused => exch' = exch
  <2>1. CASE reply = "accepted"
    BY <1>1, <1>3, <2>1 DEF Accepts, OrdersTypeOK
  <2>2. CASE reply = "rejected"
    BY <1>1, <1>3, <2>2 DEF Rejects, OrdersTypeOK
  <2> QED
    BY <2>1, <2>2 DEF Replies
<1>5. OrdersTypeOK'
  BY <1>2, <1>3, <1>4 DEF OrdersTypeOK, socket, history
<1>6. calls[r.order] # 0
  BY <1>3 DEF NoCall, Untouched
<1>7. Calling'
  BY <1>2, <1>3 DEF Calling, Before, history
<1>8. Entries'
  BY <1>2, <1>3 DEF Entries, socket
<1>9. Truthful'
  <2>1. \A i \in Orders : \A x : True(i, x) =>
          /\ x = "accepted" => exch'[i] # "none"
          /\ x = "rejected" => i \in refused'
    BY <1>4 DEF True
  <2>2. \A a \in acks' : /\ a.reply = "accepted" => exch'[a.order] # "none"
                         /\ a.reply = "rejected" => a.order \in refused'
    <3> SUFFICES ASSUME NEW a \in acks'
                 PROVE  /\ a.reply = "accepted" => exch'[a.order] # "none"
                        /\ a.reply = "rejected" => a.order \in refused'
      OBVIOUS
    <3>1. CASE a \in acks
      BY <2>1, <3>1 DEF Truthful, OrdersTypeOK
    <3>2. CASE a.order = r.order /\ a.reply = reply
      BY <1>4, <3>2
    <3> QED
      BY <1>3, <3>1, <3>2
  <2>3. \A i \in Orders : pending'[i] # None =>
          /\ pending'[i].response = "accepted" => exch'[i] # "none"
          /\ pending'[i].response = "rejected" => i \in refused'
    <3>1. pending' = pending
      BY <1>2 DEF socket
    <3> QED
      BY <2>1, <3>1 DEF Truthful
  <2>4. \A c \in Callers : answer'[c] # None =>
          /\ answer'[c] = "accepted" => exch'[order'[c]] # "none"
          /\ answer'[c] = "rejected" => order'[c] \in refused'
    <3> SUFFICES ASSUME NEW c \in Callers, answer'[c] # None
                 PROVE  /\ answer'[c] = "accepted" => exch'[order[c]] # "none"
                        /\ answer'[c] = "rejected" => order[c] \in refused'
      BY <1>2
    <3>1. CASE answer'[c] = answer[c]
      <4>1. order[c] \in Orders /\ True(order[c], answer'[c])
        BY <3>1 DEF Truthful, Calling
      <4> QED
        BY <2>1, <4>1
    <3>2. CASE answer'[c] = reply /\ order[c] = r.order
      BY <1>4, <3>2
    <3> QED
      BY <1>3, <3>1, <3>2
  <2> QED
    BY <2>2, <2>3, <2>4 DEF Truthful, True
<1>10. NoCall'
  BY <1>2, <1>3, <1>4, <1>6 DEF NoCall, Untouched, history
<1>11. OneCall'
  <2> SUFFICES ASSUME NEW i \in Orders, calls'[i] = 1
               PROVE  /\ \A s, q \in requests' : s.order = i /\ q.order = i => s = q
                      /\ \A s \in requests' : s.order = i =>
                            exch'[i] = "none" /\ i \notin refused'
                      /\ i \in refused' => exch'[i] = "none"
                      /\ \A d \in Callers : pc'[d] \in Before /\ order'[d] = i => Untouched(i)'
                      /\ \A d, e \in Callers :
                            pc'[d] # "idle" /\ pc'[e] # "idle" /\ order'[d] = i
                                /\ order'[e] = i => d = e
    BY DEF OneCall
  <2>1. CASE i = r.order
    <3>1. /\ \A q \in requests : q.order = r.order => q = r
          /\ exch[r.order] = "none" /\ r.order \notin refused
          /\ \A d \in Callers : pc[d] \in Before => order[d] # r.order
      BY <1>2, <2>1 DEF OneCall, Untouched, history
    <3>2. \A d \in Callers : pc'[d] \in Before => order'[d] # r.order
      BY <1>2, <1>3, <3>1 DEF Before
    <3> QED
      BY <1>2, <1>3, <1>4, <2>1, <3>1, <3>2 DEF OneCall, history
  <2>2. CASE i # r.order
    BY <1>2, <1>3, <1>4, <2>2 DEF OneCall, Untouched, Before, history
  <2> QED
    BY <2>1, <2>2
<1> QED
  BY <1>5, <1>7, <1>8, <1>9, <1>10, <1>11

LEMMA ExchangeStep == OrdersInv /\ Exchange => OrdersInv'
<1> SUFFICES ASSUME OrdersInv, Exchange PROVE OrdersInv'
  OBVIOUS
<1> USE DEF OrdersInv
<1>1. ASSUME NEW r \in requests, Accepts(r) \/ Rejects(r) PROVE OrdersInv'
  <2>1. CASE Accepts(r)
    <3>1. Responds(r, "accepted") /\ UNCHANGED <<socket, order, history>>
      BY <2>1 DEF Accepts
    <3> QED
      BY <2>1, <3>1, ReplyStep DEF Replies
  <2>2. CASE Rejects(r)
    <3>1. Responds(r, "rejected") /\ UNCHANGED <<socket, order, history>>
      BY <2>2 DEF Rejects
    <3> QED
      BY <2>2, <3>1, ReplyStep DEF Replies
  <2> QED
    BY <1>1, <2>1, <2>2
<1>2. ASSUME NEW r \in requests, RequestLost(r) PROVE OrdersInv'
  BY <1>2
  DEF RequestLost, socket, callers, exchange, history, OrdersTypeOK, Calling, Entries,
      Truthful, True, NoCall, OneCall, Untouched
<1>3. CASE AckLost
  <2>1. UNCHANGED <<socket, callers, requests, exchange, history>> /\ acks' \subseteq acks
    BY <1>3 DEF AckLost
  <2>2. OrdersTypeOK'
    BY <2>1 DEF OrdersTypeOK, socket, callers, exchange, history
  <2> QED
    BY <2>1, <2>2, SocketKeeps DEF socket, Truthful
<1>4. ASSUME NEW o \in Orders, OrderEnds(o) PROVE OrdersInv'
  <2>1. /\ exch[o] = "live" /\ exch' = [exch EXCEPT ![o] = "done"]
        /\ UNCHANGED <<socket, callers, network, refused, history>>
    BY <1>4 DEF OrderEnds
  <2>2. \A i \in Orders : exch'[i] = IF i = o THEN "done" ELSE exch[i]
    BY <2>1 DEF OrdersTypeOK
  <2>3. OrdersTypeOK' /\ Calling' /\ Entries'
    BY <2>1 DEF OrdersTypeOK, Calling, Entries, socket, callers, network, history
  <2>4. Truthful'
    BY <2>1, <2>2
    DEF Truthful, True, OrdersTypeOK, Calling, socket, callers, network
  <2>5. NoCall'
    BY <2>1, <2>2 DEF NoCall, Untouched, callers, network, history
  <2>6. OneCall'
    BY <2>1, <2>2 DEF OneCall, Untouched, callers, network, history
  <2> QED
    BY <2>3, <2>4, <2>5, <2>6
<1> QED
  BY <1>1, <1>2, <1>3, <1>4 DEF Exchange

LEMMA OrdersStep == OrdersInv /\ [Next]_vars => OrdersInv'
<1> SUFFICES ASSUME OrdersInv, [Next]_vars PROVE OrdersInv'
  OBVIOUS
<1>1. CASE UNCHANGED vars
  BY <1>1
  DEF vars, socket, callers, network, exchange, history, OrdersInv, OrdersTypeOK, Calling,
      Entries, Truthful, True, NoCall, OneCall, Untouched
<1> QED
  BY <1>1, SocketStep, CallStep, ExchangeStep DEF Next

LEMMA OrdersInvariant == Spec => []OrdersInv
  BY OrdersInitial, OrdersStep, PTL DEF Spec

-----------------------------------------------------------------------------
\* Every variable keeps its type.
THEOREM OrdersTypeCorrect == Spec => []OrdersTypeOK
<1>1. OrdersInv => OrdersTypeOK
  BY DEF OrdersInv
<1> QED
  BY <1>1, OrdersInvariant, PTL

\* One call sends one request, over one of the two routes.
THEOREM OneRequest == Spec => []OneRequestPerCall
<1>1. OrdersInv => OneRequestPerCall
  BY DEF OrdersInv, Calling, OneRequestPerCall
<1> QED
  BY <1>1, OrdersInvariant, PTL

\* What a call returns is true of its own order.
THEOREM AnswersHold == Spec => []AnswersAreTrue
<1>1. OrdersInv => AnswersAreTrue
  <2> SUFFICES ASSUME OrdersInv, NEW c \in Callers, answer[c] # None
               PROVE  /\ answer[c] = "accepted" => exch[order[c]] # "none"
                      /\ answer[c] = "rejected" =>
                            /\ order[c] \in refused
                            /\ calls[order[c]] = 1 =>
                                  /\ exch[order[c]] = "none"
                                  /\ \A r \in requests : r.order # order[c]
    BY EntryAssumption DEF AnswersAreTrue, Replies
  <2>1. order[c] \in Orders /\ True(order[c], answer[c])
    BY DEF OrdersInv, Calling, Truthful
  <2> QED
    BY <2>1 DEF OrdersInv, OneCall, True
<1> QED
  BY <1>1, OrdersInvariant, PTL
=============================================================================
