------------------------------ MODULE Delivery ------------------------------
(***************************************************************************)
(* How events reach clients: the event bus of internal/usecase/eventbus    *)
(* and the websocket server of internal/adapter/gateway/server.go, which   *)
(* subscribes to every event, puts it into the queue of every client, and  *)
(* drops it when the queue is full.                                        *)
(*                                                                         *)
(* Publish starts a goroutine per subscription, so two events of one       *)
(* publisher, the deltas of a stream for one, are queued in any order.     *)
(***************************************************************************)
EXTENDS Integers, Sequences, FiniteSets

CONSTANTS Events,         \* what is published, once each
          Clients,        \* websocket connections, each with one RPC
          Subscribers,    \* "gateway", and subscribers whose handlers only compute
          QueueSize       \* 64 in handleUpgrade

ASSUME DeliveryConstants == /\ "gateway" \in Subscribers
                            /\ QueueSize \in Nat \ {0}

VARIABLES subs,       \* Bus.typed and Bus.allSubs
          pub,        \* of every event: where Publish is, and the subscriptions it copied
          handlers,   \* of every event and subscriber: its goroutine, and the clients it still visits
          bus,        \* Bus.closed, where Close is, and the publishes that were past the check by then
          conns,      \* the clients' connections
          gate        \* Server.Stop, and the clients it still closes

deliveryVars == <<subs, pub, handlers, bus, conns, gate>>

NoConn == [pc |-> "none", queue |-> <<>>, writer |-> "idle", rpc |-> "none"]

DeliveryInit ==
    /\ subs = {}
    /\ pub = [e \in Events |-> [pc |-> "idle", subs |-> {}]]
    /\ handlers = [e \in Events |-> [s \in Subscribers |-> [pc |-> "none", left |-> {}]]]
    /\ bus = [closed |-> FALSE, closer |-> "no", late |-> {}]
    /\ conns = [k \in Clients |-> NoConn]
    /\ gate = [pc |-> "new", left |-> {}]

-----------------------------------------------------------------------------
(* The bus *)

Subscribe(s) ==
    /\ s \notin subs /\ s # "gateway"
    /\ subs' = subs \cup {s}
    /\ UNCHANGED <<pub, handlers, bus, conns, gate>>

Unsubscribe(s) ==
    /\ s \in subs /\ s # "gateway"
    /\ subs' = subs \ {s}
    /\ UNCHANGED <<pub, handlers, bus, conns, gate>>

\* Mutant: the bus is not asked whether it is closed.
MutPublishCheck(e) ==
    /\ pub[e].pc = "idle"
    /\ pub' = [pub EXCEPT ![e].pc = "open"]
    /\ UNCHANGED <<subs, handlers, bus, conns, gate>>

\* Publish looks at closed ...
PublishCheck(e) ==
    /\ pub[e].pc = "idle"
    /\ pub' = [pub EXCEPT ![e].pc = IF bus.closed THEN "done" ELSE "open"]
    /\ UNCHANGED <<subs, handlers, bus, conns, gate>>

\* ... copies the subscriptions under the lock ...
PublishCopy(e) ==
    /\ pub[e].pc = "open"
    /\ pub' = [pub EXCEPT ![e] = [pc |-> "dispatch", subs |-> subs]]
    /\ UNCHANGED <<subs, handlers, bus, conns, gate>>

\* ... and dispatches: wg.Add and a goroutine.
Dispatch(e, s) ==
    /\ pub[e].pc = "dispatch" /\ s \in pub[e].subs
    /\ pub' = [pub EXCEPT ![e].subs = @ \ {s}]
    /\ handlers' = [handlers EXCEPT ![e][s] = [pc |-> "run", left |-> {k \in Clients : conns[k].pc = "open"}]]
    /\ UNCHANGED <<subs, bus, conns, gate>>

\* Publish is past its check and has not dispatched to everybody.
Publishing(e) == pub[e].pc = "open" \/ (pub[e].pc = "dispatch" /\ pub[e].subs # {})

\* Close sets closed and waits for the WaitGroup.  A second Close returns at once.
Close ==
    /\ ~bus.closed
    /\ bus' = [closed |-> TRUE, closer |-> "wait", late |-> {e \in Events : Publishing(e)}]
    /\ UNCHANGED <<subs, pub, handlers, conns, gate>>

Running == {run \in Events \X Subscribers : handlers[run[1]][run[2]].pc = "run"}

CloseEnds ==
    /\ bus.closer = "wait" /\ Running = {}
    /\ bus' = [bus EXCEPT !.closer = "returned"]
    /\ UNCHANGED <<subs, pub, handlers, conns, gate>>

-----------------------------------------------------------------------------
(* The gateway *)

\* A send that never blocks: the frame is dropped when the queue is full.
Enqueued(k, frame) ==
    IF Len(conns[k].queue) < QueueSize THEN [conns EXCEPT ![k].queue = Append(@, frame)] ELSE conns

\* Mutant: a send that waits for room.
MutForward(e, k) ==
    /\ handlers[e]["gateway"].pc = "run" /\ k \in handlers[e]["gateway"].left
    /\ Len(conns[k].queue) < QueueSize
    /\ conns' = Enqueued(k, e)
    /\ handlers' = [handlers EXCEPT ![e]["gateway"].left = @ \ {k}]
    /\ UNCHANGED <<subs, pub, bus, gate>>

\* The gateway's handler: one client of the Range.
Forward(e, k) ==
    /\ handlers[e]["gateway"].pc = "run" /\ k \in handlers[e]["gateway"].left
    /\ conns' = Enqueued(k, e)
    /\ handlers' = [handlers EXCEPT ![e]["gateway"].left = @ \ {k}]
    /\ UNCHANGED <<subs, pub, bus, gate>>

\* The handler returns, or panics and is recovered; the others only compute.
HandlerEnds(e, s) ==
    /\ handlers[e][s].pc = "run" /\ (s = "gateway" => handlers[e][s].left = {})
    /\ handlers' = [handlers EXCEPT ![e][s] = [pc |-> "done", left |-> {}]]
    /\ UNCHANGED <<subs, pub, bus, conns, gate>>

\* Start subscribes and serves.
Start ==
    /\ gate.pc = "new"
    /\ gate' = [gate EXCEPT !.pc = "up"]
    /\ subs' = subs \cup {"gateway"}
    /\ UNCHANGED <<pub, handlers, bus, conns>>

\* handleUpgrade: the token is good and the connection accepted ...
Accept(k) ==
    /\ conns[k].pc = "none" /\ gate.pc = "up"
    /\ conns' = [conns EXCEPT ![k].pc = "accepted"]
    /\ UNCHANGED <<subs, pub, handlers, bus, gate>>

\* ... and stored; the loops start.
Store(k) ==
    /\ conns[k].pc = "accepted"
    /\ conns' = [conns EXCEPT ![k].pc = "open"]
    /\ UNCHANGED <<subs, pub, handlers, bus, gate>>

\* readLoop hands a request to dispatchRPC ...
ReadRequest(k) ==
    /\ conns[k].pc = "open" /\ conns[k].rpc = "none"
    /\ conns' = [conns EXCEPT ![k].rpc = "running"]
    /\ UNCHANGED <<subs, pub, handlers, bus, gate>>

\* ... which answers, with sendResponse, also a connection that was closed meanwhile.
Respond(k) ==
    /\ conns[k].rpc = "running"
    /\ conns' = [Enqueued(k, "response") EXCEPT ![k].rpc = "done"]
    /\ UNCHANGED <<subs, pub, handlers, bus, gate>>

\* writeLoop takes a frame; the client takes it, or does not within five seconds.
WriteFrame(k) ==
    /\ conns[k].pc = "open" /\ conns[k].writer = "idle" /\ conns[k].queue # <<>>
    /\ conns' = [conns EXCEPT ![k].writer = "writing", ![k].queue = Tail(@)]
    /\ UNCHANGED <<subs, pub, handlers, bus, gate>>

WriteEnds(k, ok) ==
    /\ conns[k].writer = "writing"
    /\ conns' = [conns EXCEPT ![k].writer = IF ok THEN "idle" ELSE "ended"]
    /\ UNCHANGED <<subs, pub, handlers, bus, gate>>

\* readLoop ends (the client left, or the server closed done): the clean-up.
Disconnect(k) ==
    /\ conns[k].pc = "open"
    /\ conns' = [conns EXCEPT ![k].pc = "closed"]
    /\ UNCHANGED <<subs, pub, handlers, bus, gate>>

\* Stop unsubscribes, closes the clients it finds ...
StopGateway ==
    /\ gate.pc = "up"
    /\ subs' = subs \ {"gateway"}
    /\ gate' = [pc |-> "closing", left |-> {k \in Clients : conns[k].pc = "open"}]
    /\ UNCHANGED <<pub, handlers, bus, conns>>

StopClient(k) ==
    /\ gate.pc = "closing" /\ k \in gate.left
    /\ conns' = [conns EXCEPT ![k].pc = "closed"]
    /\ gate' = [gate EXCEPT !.left = @ \ {k}]
    /\ UNCHANGED <<subs, pub, handlers, bus>>

\* ... and shuts the HTTP server down, which leaves upgraded connections alone.
StopEnds ==
    /\ gate.pc = "closing" /\ gate.left = {}
    /\ gate' = [gate EXCEPT !.pc = "down"]
    /\ UNCHANGED <<subs, pub, handlers, bus, conns>>

HandlerStep == \E e \in Events : \/ \E k \in Clients : Forward(e, k)
                                 \/ \E s \in Subscribers : HandlerEnds(e, s)

DeliveryNext ==
    \/ HandlerStep \/ Close \/ CloseEnds \/ Start \/ StopGateway \/ StopEnds
    \/ \E s \in Subscribers : Subscribe(s) \/ Unsubscribe(s)
    \/ \E e \in Events : \/ PublishCheck(e) \/ PublishCopy(e)
                         \/ \E s \in Subscribers : Dispatch(e, s)
    \/ \E k \in Clients : \/ Accept(k) \/ Store(k) \/ ReadRequest(k) \/ Respond(k) \/ WriteFrame(k)
                          \/ Disconnect(k) \/ StopClient(k)
                          \/ \E ok \in BOOLEAN : WriteEnds(k, ok)

\* Goroutines that have something to do do it; clients need not read what they are sent,
\* and nobody need publish, subscribe, connect or stop.
DeliveryFair == WF_deliveryVars(HandlerStep) /\ WF_deliveryVars(CloseEnds)

DeliverySpec == DeliveryInit /\ [][DeliveryNext]_deliveryVars /\ DeliveryFair

-----------------------------------------------------------------------------
\* "Close prevents new publishes and waits for all in-flight handlers": what still runs
\* after Close returned belongs to a publish that had looked at closed before Close set it,
\* and had not dispatched to everybody by then.
CloseDrains == bus.closer = "returned" => \A run \in Running : run[1] \in bus.late

\* Close returns, with clients that read nothing and queues that are full.
CloseReturns == bus.closer = "wait" ~> bus.closer = "returned"
=============================================================================
