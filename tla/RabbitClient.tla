---------------------------- MODULE RabbitClient ----------------------------
(***************************************************************************)
(* The connection supervisor of src/lib/mq/rabbitmq/client.go as used by a *)
(* Producer: the handleReconnect goroutine with doConn, Publish (waitConn, *)
(* ExchangeDeclare, channel.Publish) called by application goroutines, and *)
(* Close.  The broker side is the amqp library's view of each connection:  *)
(* the network may drop it, and the library then delivers the error on the *)
(* channel's NotifyClose listener (an unbuffered send) before closing it.  *)
(*                                                                         *)
(* Connections are numbered 1, 2, ... in the order doConn dials them; 0 is *)
(* the nil *amqp.Connection / *amqp.Channel.  Time is abstracted: the 2s   *)
(* sleep is a scheduling point and the 20s waitConn timeout may fire at    *)
(* any time the caller is blocked.                                         *)
(***************************************************************************)
EXTENDS Naturals, Sequences, FiniteSets

CONSTANTS
    Publishers,     \* application goroutines that each call Publish once
    MaxConns,       \* bound on the connections doConn dials
    MaxFailures,    \* bound on failed DialConfig / conn.Channel() calls
    Subscribes,     \* whether the application calls Subscribe (once)
    Msgs,           \* the messages waiting in the subscribed queue
    Backlog,        \* their order in the broker queue at start
    DelayTargets    \* dead-letter targets (exchange, routing key) PublishDelay is called with

ASSUME MaxConns \in Nat \ {0} /\ MaxFailures \in Nat

Conns == 1..MaxConns
NoConn == 0
(* A plain Publish call; also the arguments of a DelayQueueTemp queue that *)
(* was never declared, and the route of a message that is not delayed.     *)
NoDelay == "none"

VARIABLES
    rc,             \* pc of the handleReconnect goroutine
    newConn,        \* doConn's local conn
    conn,           \* m.conn and m.channel (the channel opened on m.conn)
    isConnected,    \* m.isConnected
    notifyClose,    \* the connection whose channel m.notifyClose listens to
    connectMsg,     \* m.connectMsg, a channel of capacity 1
    cmClosed,       \* close(m.connectMsg) was executed
    done,           \* close(m.done) was executed
    dialed,         \* connections dialed so far
    open,           \* connections not yet closed, by anybody
    chan,           \* chan[c]: state of the amqp channel of connection c
    failures,       \* failed dials / channel opens so far
    pub,            \* pub[p]: where publisher p is in Publish
    closer,         \* where the application's Close call is
    panicked,       \* "none", or the panic that ended the process
    subscribed,     \* m.handlerFunc != nil
    lp,             \* lp[w]: doConsume as run by worker w (see Workers)
    queue,          \* the broker queue: deliveries in order
    unacked,        \* unacked[c]: the delivery outstanding on channel c
    delay,          \* delay[p]: the dead-letter target of p's PublishDelay, or NoDelay
    delayQ,         \* the x-dead-letter arguments DelayQueueTemp has on the broker
    routed          \* routed[p]: where the message p sent is dead-lettered to

(* chan[c]: "none" no channel was opened on c; "up" usable; "failing" the  *)
(* connection broke and the library is blocked handing the error to the   *)
(* NotifyClose listener; "down" closed, listener channel closed.           *)
ChanStates == {"none", "up", "failing", "down"}
(* doConsume runs in the goroutine that called Subscribe ("sub") and in   *)
(* handleReconnect, from doConn ("rc").                                   *)
Workers == {"sub", "rc"}
LpStates == {"off", "wait", "waitSel", "declare", "recv", "handle", "exited"}
Delivery == [id: Msgs, redelivered: BOOLEAN]

PubStates == {"idle", "wait", "declare", "qdeclare", "publish", "ok", "err"}
CloserStates == {"idle", "handles", "done", "signal", "closeChan", "returned"}
Panics == {"none", "nilConn", "sendOnClosed", "nilChannel", "consumeWait",
           "declareFailed"}
RcStates == {"top", "dial", "channel", "signal", "handler", "consume", "select",
             "exited"}

supVars == <<rc, newConn, conn, isConnected, notifyClose, connectMsg,
             cmClosed, done>>
netVars == <<dialed, open, chan, failures>>
consVars == <<subscribed, lp, queue, unacked>>
delayVars == <<delay, delayQ, routed>>
vars == <<supVars, netVars, pub, delayVars, closer, panicked, consVars>>

TypeOK ==
    /\ rc \in RcStates
    /\ newConn \in {NoConn} \cup Conns
    /\ conn \in {NoConn} \cup Conns
    /\ isConnected \in BOOLEAN
    /\ notifyClose \in {NoConn} \cup Conns
    /\ connectMsg \in Seq(BOOLEAN) /\ Len(connectMsg) <= 1
    /\ cmClosed \in BOOLEAN /\ done \in BOOLEAN
    /\ dialed \in 0..MaxConns /\ open \subseteq 1..dialed
    /\ chan \in [Conns -> ChanStates]
    /\ failures \in 0..MaxFailures
    /\ pub \in [Publishers -> PubStates]
    /\ closer \in CloserStates
    /\ panicked \in Panics
    /\ subscribed \in BOOLEAN
    /\ lp \in [Workers -> [pc: LpStates, ch: {NoConn} \cup Conns,
                           msg: Delivery \cup {<<>>}]]
    /\ queue \in Seq(Delivery)
    /\ unacked \in [Conns -> Seq([d: Delivery, to: Workers])]
    /\ delay \in [Publishers -> {NoDelay} \cup DelayTargets]
    /\ delayQ \in {NoDelay} \cup DelayTargets
    /\ routed \in [Publishers -> {NoDelay} \cup DelayTargets]

(* NewClient: the goroutine starts at the top of its loop, nothing dialed. *)
Init ==
    /\ rc = "top" /\ newConn = NoConn /\ conn = NoConn
    /\ isConnected = FALSE /\ notifyClose = NoConn
    /\ connectMsg = <<>> /\ cmClosed = FALSE /\ done = FALSE
    /\ dialed = 0 /\ open = {} /\ chan = [c \in Conns |-> "none"]
    /\ failures = 0
    /\ pub = [p \in Publishers |-> "idle"]
    /\ closer = "idle"
    /\ panicked = "none"
    /\ subscribed = FALSE
    /\ lp = [w \in Workers |-> [pc |-> "off", ch |-> NoConn, msg |-> <<>>]]
    /\ queue = [i \in DOMAIN Backlog |-> [id |-> Backlog[i], redelivered |-> FALSE]]
    /\ unacked = [c \in Conns |-> <<>>]
    /\ delay = [p \in Publishers |-> NoDelay]
    /\ delayQ = NoDelay
    /\ routed = [p \in Publishers |-> NoDelay]

Alive == panicked = "none"
Usable(c) == c # NoConn /\ chan[c] = "up"

-----------------------------------------------------------------------------
(* handleReconnect: if !m.isConnected || m.conn.IsClosed() { lock; (the    *)
(* same test again); doConn() ; unlock }.  Nobody else takes the lock, so  *)
(* the double test is the single one.                                      *)
Top ==
    /\ Alive /\ rc = "top"
    /\ rc' = IF ~isConnected \/ conn \notin open THEN "dial" ELSE "select"
    /\ UNCHANGED <<newConn, conn, isConnected, notifyClose, connectMsg,
                   cmClosed, done, netVars, pub, delayVars, closer, panicked, consVars>>

(* doConn: amqp.DialConfig fails; doConn returns false.                    *)
DialFails ==
    /\ Alive /\ rc = "dial"
    /\ failures < MaxFailures
    /\ failures' = failures + 1
    /\ rc' = "select"
    /\ UNCHANGED <<newConn, conn, isConnected, notifyClose, connectMsg,
                   cmClosed, done, dialed, open, chan, pub, delayVars, closer, panicked, consVars>>

DialSucceeds ==
    /\ Alive /\ rc = "dial"
    /\ dialed < MaxConns
    /\ dialed' = dialed + 1
    /\ newConn' = dialed + 1
    /\ open' = open \cup {dialed + 1}
    /\ rc' = "channel"
    /\ UNCHANGED <<conn, isConnected, notifyClose, connectMsg, cmClosed,
                   done, chan, failures, pub, delayVars, closer, panicked, consVars>>

(* conn.Channel() fails, always on a dropped connection and otherwise as  *)
(* one of the bounded failures: doConn returns false and nobody closes the *)
(* dialed conn.                                                            *)
ChannelFails ==
    /\ Alive /\ rc = "channel"
    /\ newConn \in open => failures < MaxFailures
    /\ failures' = IF newConn \in open THEN failures + 1 ELSE failures
    /\ rc' = "select"
    /\ UNCHANGED <<newConn, conn, isConnected, notifyClose, connectMsg,
                   cmClosed, done, dialed, open, chan, pub, delayVars, closer, panicked, consVars>>

(* The channel opens: m.notifyClose = make(chan); channel.NotifyClose(..); *)
(* m.conn = conn; m.channel = channel; m.isConnected = true.               *)
ChannelOpens ==
    /\ Alive /\ rc = "channel"
    /\ newConn \in open
    /\ chan' = [chan EXCEPT ![newConn] = "up"]
    /\ notifyClose' = newConn
    /\ conn' = newConn
    /\ isConnected' = TRUE
    /\ rc' = "signal"
    /\ UNCHANGED <<newConn, connectMsg, cmClosed, done, dialed, open,
                   failures, pub, delayVars, closer, panicked, consVars>>

(* m.connectMsg <- true: blocks while the one slot is full.               *)
Signal ==
    /\ Alive /\ rc = "signal"
    /\ ~cmClosed
    /\ Len(connectMsg) < 1
    /\ connectMsg' = Append(connectMsg, TRUE)
    /\ rc' = "handler"
    /\ UNCHANGED <<newConn, conn, isConnected, notifyClose, cmClosed, done,
                   netVars, pub, delayVars, closer, panicked, consVars>>

(* if m.handlerFunc != nil { m.doConsume() }: a Subscribe that stored the  *)
(* handler since the send is seen here.                                    *)
HandlerTest ==
    /\ Alive /\ rc = "handler"
    /\ rc' = IF subscribed THEN "consume" ELSE "select"
    /\ lp' = IF subscribed
           THEN [lp EXCEPT !["rc"] = [pc |-> "wait", ch |-> NoConn, msg |-> <<>>]]
           ELSE lp
    /\ UNCHANGED <<newConn, conn, isConnected, notifyClose, connectMsg, cmClosed,
                   done, netVars, pub, delayVars, closer, panicked, subscribed,
                   queue, unacked>>

(* The same send after Close closed m.connectMsg panics.                   *)
SignalOnClosed ==
    /\ Alive /\ rc = "signal"
    /\ cmClosed
    /\ panicked' = "sendOnClosed"
    /\ UNCHANGED <<supVars, netVars, pub, delayVars, closer, consVars>>

(* After time.Sleep(reconnectDelay): select { case <-m.done: return }      *)
SelectDone ==
    /\ Alive /\ rc = "select"
    /\ done
    /\ rc' = "exited"
    /\ UNCHANGED <<newConn, conn, isConnected, notifyClose, connectMsg,
                   cmClosed, done, netVars, pub, delayVars, closer, panicked, consVars>>

(* case <-m.notifyClose: ready when the library hands over the error or    *)
(* the listener channel is closed (a nil m.notifyClose is never ready).    *)
(* Then m.channel.Close(); m.conn.Close(); m.isConnected = false.          *)
NotifyReady == notifyClose # NoConn /\ chan[notifyClose] \in {"failing", "down"}

SelectNotify ==
    /\ Alive /\ rc = "select"
    /\ NotifyReady
    /\ chan' = [chan EXCEPT ![notifyClose] = "down", ![conn] = "down"]
    /\ open' = open \ {conn}
    /\ isConnected' = FALSE
    /\ rc' = "top"
    /\ UNCHANGED <<newConn, conn, notifyClose, connectMsg, cmClosed, done,
                   dialed, failures, pub, delayVars, closer, panicked, consVars>>

-----------------------------------------------------------------------------
(* The network drops open connection c.  The amqp library shuts its channel *)
(* down and blocks sending the error to the NotifyClose listener; a        *)
(* connection without a channel just closes.  Drops stop once the last     *)
(* connection the model allows is dialed: the transport recovers.          *)
(* When channel c shuts down the broker requeues its unacked delivery,    *)
(* flagged redelivered, at the head of the queue.                          *)
ChannelShut(c) ==
    IF chan[c] = "up" /\ unacked[c] # <<>>
    THEN /\ queue' = <<[unacked[c][1].d EXCEPT !.redelivered = TRUE]>> \o queue
         /\ unacked' = [unacked EXCEPT ![c] = <<>>]
    ELSE UNCHANGED <<queue, unacked>>

Drop(c) ==
    /\ Alive
    /\ c \in open /\ chan[c] # "down"
    /\ dialed < MaxConns
    /\ open' = open \ {c}
    /\ chan' = [chan EXCEPT ![c] = IF @ = "up" THEN "failing" ELSE @]
    /\ ChannelShut(c)
    /\ UNCHANGED <<supVars, dialed, failures, pub, delayVars, closer, panicked,
                   subscribed, lp>>

-----------------------------------------------------------------------------
(* Publish, or PublishDelay with a dead-letter target: both start with     *)
(* waitConn, which returns at once when m.isConnected, else it waits on    *)
(* m.connectMsg or the timeout.                                            *)
PublishCall(p) ==
    /\ Alive /\ pub[p] = "idle"
    /\ pub' = [pub EXCEPT ![p] = IF isConnected THEN "declare" ELSE "wait"]
    /\ \E t \in {NoDelay} \cup DelayTargets : delay' = [delay EXCEPT ![p] = t]
    /\ UNCHANGED <<supVars, netVars, closer, panicked, consVars, delayQ, routed>>

(* isConn = <-m.connectMsg; a closed channel yields false.                 *)
WaitReceives(p) ==
    /\ Alive /\ pub[p] = "wait"
    /\ connectMsg # <<>> \/ cmClosed
    /\ LET v == connectMsg # <<>> /\ Head(connectMsg)
       IN pub' = [pub EXCEPT ![p] = IF v THEN "declare" ELSE "err"]
    /\ connectMsg' = IF connectMsg # <<>> THEN Tail(connectMsg) ELSE connectMsg
    /\ UNCHANGED <<rc, newConn, conn, isConnected, notifyClose, cmClosed,
                   done, netVars, closer, panicked, consVars, delayVars>>

(* <-cxt.Done(): "Wait connect timeout."                                   *)
WaitTimesOut(p) ==
    /\ Alive /\ pub[p] = "wait"
    /\ pub' = [pub EXCEPT ![p] = "err"]
    /\ UNCHANGED <<supVars, netVars, closer, panicked, consVars, delayVars>>

(* if m.conn == nil { panic }; m.channel.ExchangeDeclare(..) fails unless  *)
(* the channel is usable.  PublishDelay goes on to declare its queue.      *)
Declare(p) ==
    /\ Alive /\ pub[p] = "declare"
    /\ IF conn = NoConn
       THEN /\ panicked' = "nilConn"
            /\ UNCHANGED pub
       ELSE /\ pub' = [pub EXCEPT ![p] = CASE ~Usable(conn)       -> "err"
                                             [] delay[p] = NoDelay -> "publish"
                                             [] OTHER              -> "qdeclare"]
            /\ UNCHANGED panicked
    /\ UNCHANGED <<supVars, netVars, closer, consVars, delayVars>>

(* Mutant: the delay queue is declared only by the first PublishDelay,    *)
(* later calls reuse it as it is.                                          *)
QueueDeclareOnce(p) ==
    /\ Alive /\ pub[p] = "qdeclare"
    /\ pub' = [pub EXCEPT ![p] = IF Usable(conn) THEN "publish" ELSE "err"]
    /\ delayQ' = IF Usable(conn) /\ delayQ = NoDelay THEN delay[p] ELSE delayQ
    /\ UNCHANGED <<supVars, netVars, closer, panicked, consVars, delay, routed>>

(* PublishDelay's m.channel.QueueDeclare(delayQueueName, durable, args)    *)
(* with x-dead-letter-exchange/-routing-key of this call.  The durable     *)
(* queue outlives connections.  The broker accepts a first declaration or *)
(* one with the arguments the queue already has; a declaration with other *)
(* arguments is refused with 406 PRECONDITION_FAILED, which closes the     *)
(* channel: the library hands the error to m.notifyClose like a drop.      *)
QueueDeclare(p) ==
    /\ Alive /\ pub[p] = "qdeclare"
    /\ \/ /\ ~Usable(conn)
          /\ pub' = [pub EXCEPT ![p] = "err"]
          /\ UNCHANGED <<netVars, queue, unacked, delayQ>>
       \/ /\ Usable(conn) /\ delayQ \in {NoDelay, delay[p]}
          /\ delayQ' = delay[p]
          /\ pub' = [pub EXCEPT ![p] = "publish"]
          /\ UNCHANGED <<netVars, queue, unacked>>
       \/ /\ Usable(conn) /\ delayQ \notin {NoDelay, delay[p]}
          /\ chan' = [chan EXCEPT ![conn] = "failing"]
          /\ ChannelShut(conn)
          /\ pub' = [pub EXCEPT ![p] = "err"]
          /\ UNCHANGED <<dialed, open, failures, delayQ>>
    /\ UNCHANGED <<supVars, closer, panicked, subscribed, lp, delay, routed>>

(* The broker dead-letters a message expiring in DelayQueueTemp to the     *)
(* target in the queue's arguments; a plain message is not delayed.        *)
DelayRoute(p) == IF delay[p] = NoDelay THEN NoDelay ELSE delayQ

(* json.Marshal, then m.channel.Publish(..): to exchangeName, or for       *)
(* PublishDelay to "" with routing key queue.Name and an Expiration; no    *)
(* confirmation is awaited.                                                *)
PublishSend(p) ==
    /\ Alive /\ pub[p] = "publish"
    /\ pub' = [pub EXCEPT ![p] = IF Usable(conn) THEN "ok" ELSE "err"]
    /\ routed' = IF Usable(conn) THEN [routed EXCEPT ![p] = DelayRoute(p)] ELSE routed
    /\ UNCHANGED <<supVars, netVars, closer, panicked, consVars, delay, delayQ>>

-----------------------------------------------------------------------------
(* Subscribe stores the topology and m.handlerFunc, then runs doConsume in *)
(* the caller if m.isConnected; otherwise it returns and doConn will.      *)
SubscribeCall ==
    /\ Alive /\ Subscribes /\ ~subscribed
    /\ subscribed' = TRUE
    /\ lp' = [lp EXCEPT !["sub"].pc = IF isConnected THEN "wait" ELSE "exited"]
    /\ UNCHANGED <<supVars, netVars, pub, delayVars, closer, panicked, queue, unacked>>

(* doConsume: waitConn returns true at once when m.isConnected.            *)
ConsumeWait(w) ==
    /\ Alive /\ lp[w].pc = "wait"
    /\ lp' = [lp EXCEPT ![w].pc = IF isConnected THEN "declare" ELSE "waitSel"]
    /\ UNCHANGED <<supVars, netVars, pub, delayVars, closer, panicked, subscribed,
                   queue, unacked>>

(* ... else it takes a value from m.connectMsg; false (or the closed       *)
(* channel) makes failOnError panic.                                       *)
ConsumeWaitRecv(w) ==
    /\ Alive /\ lp[w].pc = "waitSel"
    /\ connectMsg # <<>> \/ cmClosed
    /\ IF connectMsg # <<>> /\ Head(connectMsg)
       THEN /\ lp' = [lp EXCEPT ![w].pc = "declare"]
            /\ UNCHANGED panicked
       ELSE /\ panicked' = "consumeWait"
            /\ UNCHANGED lp
    /\ connectMsg' = IF connectMsg # <<>> THEN Tail(connectMsg) ELSE connectMsg
    /\ UNCHANGED <<rc, newConn, conn, isConnected, notifyClose, cmClosed,
                   done, netVars, pub, delayVars, closer, subscribed, queue, unacked>>

(* ... or the 20s deadline passes: failOnError(err, "mq连接超时") panics.   *)
ConsumeWaitTimesOut(w) ==
    /\ Alive /\ lp[w].pc = "waitSel"
    /\ panicked' = "consumeWait"
    /\ UNCHANGED <<supVars, netVars, pub, delayVars, closer, consVars>>

(* ExchangeDeclare, QueueDeclare, QueueBind, Qos(1) and Consume on         *)
(* m.channel; any error panics through failOnError.                        *)
DeclareTopology(w) ==
    /\ Alive /\ lp[w].pc = "declare"
    /\ IF Usable(conn)
       THEN /\ lp' = [lp EXCEPT ![w].pc = "recv", ![w].ch = conn]
            /\ UNCHANGED panicked
       ELSE /\ panicked' = "declareFailed"
            /\ UNCHANGED lp
    /\ UNCHANGED <<supVars, netVars, pub, delayVars, closer, subscribed, queue, unacked>>

(* The broker pushes the head of the queue to a consumer of channel c;    *)
(* Qos(1, 0, true) allows one unacked delivery on the channel.            *)
Consuming(w, c) == lp[w].ch = c /\ lp[w].pc \in {"recv", "handle"}

Deliver(c) ==
    /\ Alive
    /\ chan[c] = "up" /\ unacked[c] = <<>> /\ queue # <<>>
    /\ \E w \in Workers :
          /\ Consuming(w, c)
          /\ unacked' = [unacked EXCEPT ![c] = <<[d |-> Head(queue), to |-> w]>>]
    /\ queue' = Tail(queue)
    /\ UNCHANGED <<supVars, netVars, pub, delayVars, closer, panicked, subscribed, lp>>

(* case msg, ok := <-msgs with ok.                                         *)
Receive(w) ==
    /\ Alive /\ lp[w].pc = "recv"
    /\ LET c == lp[w].ch
       IN /\ unacked[c] # <<>> /\ unacked[c][1].to = w
          /\ lp' = [lp EXCEPT ![w].pc = "handle", ![w].msg = unacked[c][1].d]
    /\ UNCHANGED <<supVars, netVars, pub, delayVars, closer, panicked, subscribed,
                   queue, unacked>>

(* case <-m.done, or msgs closed (!ok): doConsume returns; in the         *)
(* reconnect goroutine doConn returns and the loop sleeps and selects.     *)
ConsumeReturns(w) ==
    /\ Alive /\ lp[w].pc = "recv"
    /\ done \/ chan[lp[w].ch] = "down"
    /\ lp' = [lp EXCEPT ![w].pc = "exited"]
    /\ rc' = IF w = "rc" THEN "select" ELSE rc
    /\ UNCHANGED <<newConn, conn, isConnected, notifyClose, connectMsg,
                   cmClosed, done, netVars, pub, delayVars, closer, panicked, subscribed,
                   queue, unacked>>

(* Mutant: a failed delivery is always rejected with requeue, redelivered *)
(* or not.                                                                 *)
HandleAlwaysRequeue(w) ==
    /\ Alive /\ lp[w].pc = "handle"
    /\ \E ok \in BOOLEAN :
       LET d == lp[w].msg
           c == lp[w].ch
           live == chan[c] = "up"
       IN /\ queue' = IF live /\ ~ok
                      THEN <<[d EXCEPT !.redelivered = TRUE]>> \o queue
                      ELSE queue
          /\ unacked' = IF live THEN [unacked EXCEPT ![c] = <<>>] ELSE unacked
    /\ lp' = [lp EXCEPT ![w].pc = "recv", ![w].msg = <<>>]
    /\ UNCHANGED <<supVars, netVars, pub, delayVars, closer, panicked, subscribed>>

(* if !m.handlerFunc(msg) && !msg.Redelivered { msg.Reject(true) } else   *)
(* { msg.Ack(false) }.  On a channel that has shut down both are no-ops   *)
(* (their error is discarded): the broker already requeued the delivery.   *)
Handle(w) ==
    /\ Alive /\ lp[w].pc = "handle"
    /\ \E ok \in BOOLEAN :
       LET d == lp[w].msg
           c == lp[w].ch
           reject == ~ok /\ ~d.redelivered
           live == chan[c] = "up"
       IN /\ queue' = IF live /\ reject
                      THEN <<[d EXCEPT !.redelivered = TRUE]>> \o queue
                      ELSE queue
          /\ unacked' = IF live THEN [unacked EXCEPT ![c] = <<>>] ELSE unacked
    /\ lp' = [lp EXCEPT ![w].pc = "recv", ![w].msg = <<>>]
    /\ UNCHANGED <<supVars, netVars, pub, delayVars, closer, panicked, subscribed>>

-----------------------------------------------------------------------------
(* Close: m.channel.Close(); m.conn.Close() (a nil channel panics)         *)
CloseHandles ==
    /\ Alive /\ closer = "idle"
    /\ IF conn = NoConn
       THEN /\ panicked' = "nilChannel"
            /\ UNCHANGED <<closer, open, chan, queue, unacked>>
       ELSE /\ closer' = "handles"
            /\ open' = open \ {conn}
            /\ chan' = [chan EXCEPT ![conn] = IF @ = "up" THEN "down" ELSE @]
            /\ ChannelShut(conn)
            /\ UNCHANGED panicked
    /\ UNCHANGED <<supVars, dialed, failures, pub, delayVars, subscribed, lp>>

(* close(m.done); m.isConnected = false                                    *)
CloseDone ==
    /\ Alive /\ closer = "handles"
    /\ done' = TRUE /\ isConnected' = FALSE
    /\ closer' = "signal"
    /\ UNCHANGED <<rc, newConn, conn, notifyClose, connectMsg, cmClosed,
                   netVars, pub, delayVars, panicked, consVars>>

(* Mutant: Close's send on m.connectMsg ignores its capacity.             *)
CloseSignalUnbounded ==
    /\ Alive /\ closer = "signal"
    /\ connectMsg' = Append(connectMsg, FALSE)
    /\ closer' = "closeChan"
    /\ UNCHANGED <<rc, newConn, conn, isConnected, notifyClose, cmClosed,
                   done, netVars, pub, delayVars, panicked, consVars>>

(* m.connectMsg <- false: blocks while the slot is full.                   *)
CloseSignal ==
    /\ Alive /\ closer = "signal"
    /\ Len(connectMsg) < 1
    /\ connectMsg' = Append(connectMsg, FALSE)
    /\ closer' = "closeChan"
    /\ UNCHANGED <<rc, newConn, conn, isConnected, notifyClose, cmClosed,
                   done, netVars, pub, delayVars, panicked, consVars>>

(* close(m.connectMsg); Close returns.                                     *)
CloseChan ==
    /\ Alive /\ closer = "closeChan"
    /\ cmClosed' = TRUE
    /\ closer' = "returned"
    /\ UNCHANGED <<rc, newConn, conn, isConnected, notifyClose, connectMsg,
                   done, netVars, pub, delayVars, panicked, consVars>>

-----------------------------------------------------------------------------
Reconnector == Top \/ DialFails \/ DialSucceeds \/ ChannelFails
               \/ ChannelOpens \/ Signal \/ HandlerTest \/ SignalOnClosed \/ SelectDone
               \/ SelectNotify

Publisher(p) == PublishCall(p) \/ WaitReceives(p) \/ WaitTimesOut(p)
                \/ Declare(p) \/ QueueDeclare(p) \/ PublishSend(p)

Worker(w) == ConsumeWait(w) \/ ConsumeWaitRecv(w) \/ ConsumeWaitTimesOut(w)
             \/ DeclareTopology(w) \/ Receive(w) \/ ConsumeReturns(w)
             \/ Handle(w)

Closer == CloseHandles \/ CloseDone \/ CloseSignal \/ CloseChan

Next == Reconnector \/ (\E c \in Conns : Drop(c))
        \/ (\E p \in Publishers : Publisher(p)) \/ Closer
        \/ SubscribeCall \/ (\E w \in Workers : Worker(w))
        \/ (\E c \in Conns : Deliver(c))

(* The Go runtime runs every goroutine; the library's blocked send and a   *)
(* blocked channel send or receive complete once their partner is ready.   *)
(* The waitConn deadline always fires.  Failures, drops and the           *)
(* application's Publish and Close calls are not forced.                  *)
Fairness ==
    /\ WF_vars(Top) /\ WF_vars(DialSucceeds) /\ WF_vars(ChannelOpens)
    /\ WF_vars(Signal) /\ WF_vars(HandlerTest) /\ WF_vars(SelectDone \/ SelectNotify)
    /\ \A p \in Publishers :
           WF_vars(WaitReceives(p) \/ WaitTimesOut(p) \/ Declare(p)
                   \/ QueueDeclare(p) \/ PublishSend(p))
    /\ WF_vars(CloseDone) /\ WF_vars(CloseSignal) /\ WF_vars(CloseChan)
    /\ \A w \in Workers :
           /\ WF_vars(ConsumeWait(w) \/ DeclareTopology(w) \/ Handle(w))
           /\ WF_vars(ConsumeWaitRecv(w) \/ ConsumeWaitTimesOut(w))
           /\ WF_vars(Receive(w) \/ ConsumeReturns(w))
    /\ \A c \in Conns : WF_vars(Deliver(c))

Spec == Init /\ [][Next]_vars /\ Fairness

-----------------------------------------------------------------------------
(* Once Close has returned, no connection of this client is left open:     *)
(* Close shuts m.conn, and handleReconnect must not open another after it. *)
NoConnectionAfterClose == closer = "returned" => open = {}

(* The reconnect loop eventually has a usable connection for good once the *)
(* network stops dropping it, unless the client was closed or crashed.     *)
ReconnectConverges == <>[](Usable(conn) \/ done \/ ~Alive)

(* Spec: exactly one delivery-consuming task per subscription; in code     *)
(* terms no two doConsume loops consume from the same amqp channel.         *)
OneConsumerPerChannel ==
    \A c \in Conns : ~(Consuming("sub", c) /\ Consuming("rc", c))

(* A doConsume loop running inside handleReconnect gives the goroutine    *)
(* back once its channel breaks, so the close notification can be taken.   *)
ConsumerReleasesReconnectLoop ==
    (rc = "consume" /\ lp["rc"].ch # NoConn /\ chan[lp["rc"].ch] = "failing")
        ~> (rc # "consume" \/ ~Alive)

(* Once subscribed, every queued message is eventually acked (after success *)
(* or the second failure), unless the client is closed or crashed.         *)
AllSettled == queue = <<>> /\ \A c \in Conns : unacked[c] = <<>>
MessagesSettle == subscribed ~> (AllSettled \/ done \/ ~Alive)

(* A PublishDelay that returns nil has its message dead-lettered back to  *)
(* the exchange and routing key it was called with: the one shared        *)
(* DelayQueueTemp never routes it to another caller's target.             *)
DelayRoutedAsAsked ==
    \A p \in Publishers : pub[p] = "ok" => routed[p] = delay[p]

(* A Close call returns (or the process has crashed).                      *)
CloseReturns == (closer = "handles") ~> (closer = "returned" \/ ~Alive)

=============================================================================
