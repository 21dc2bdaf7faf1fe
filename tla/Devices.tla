------------------------------ MODULE Devices -------------------------------
(***************************************************************************)
(* The device tools: internal/adapter/tool/mqtt.go, serial.go, gpio.go     *)
(* with gpio_periph.go, and ble.go, with the backends that cmd/agent wires *)
(* (the mocks, and periph for GPIO).  Every session of the agent shares    *)
(* the devices.                                                            *)
(*                                                                         *)
(* Serial, GPIO and BLE hold a mutex for a whole call, so a call is a      *)
(* step.  MQTT does not: a publish waits for room in a channel with the    *)
(* broker's mutex held, and a goroutine per subscription moves messages    *)
(* from the channel to the tool's buffer.  Messages and bytes are numbered *)
(* in the order in which they were sent.                                   *)
(***************************************************************************)
EXTENDS Integers, Sequences, FiniteSets

CONSTANTS ChanSize,       \* 16 in Subscribe
          BufferCap,      \* 100 in MQTTTool.subscribe
          Ports, Pins, Characteristics,
          DeviceBounds    \* sets of bounds: messages, subscriptions, bytes, settings

ASSUME DeviceConstants ==
    /\ {ChanSize, BufferCap} \subseteq Nat \ {0}
    /\ DeviceBounds \subseteq [messages : Nat, subs : Nat, bytes : Nat, settings : Nat]

VARIABLES current,   \* MockMQTTBackend.subscriptions of the topic: its channel, 0 for none
          queues,    \* of every channel made: what is in it, and whether it is closed
          drains,    \* of every channel: the message its goroutine holds, 0 for none
          buffer,    \* MQTTTool.buffers of the topic
          publish,   \* the publish that holds the broker's mutex, 0 for none
          deleting,  \* an unsubscribe is between its two steps
          sent,      \* how many messages were published
          got,       \* what reads returned
          capped,    \* what the cap of the buffer dropped
          ports,     \* serial ports: open, received, and how much was read and has arrived
          pins,      \* GPIO: mode and the level that is driven
          ble,       \* BLE: connected, and the characteristics
          devLeft    \* what the bounds still allow

mqttVars   == <<current, queues, drains, buffer, publish, deleting, sent, got, capped>>
deviceVars == <<mqttVars, ports, pins, ble, devLeft>>

DevicesInit ==
    /\ current = 0 /\ queues = <<>> /\ drains = <<>> /\ buffer = <<>> /\ publish = 0 /\ deleting = FALSE /\ sent = 0
    /\ got = <<>> /\ capped = {}
    /\ ports = [p \in Ports |-> [open |-> FALSE, data |-> <<>>, arrived |-> 0, got |-> <<>>]]
    /\ pins = [p \in Pins |-> [mode |-> "input", level |-> 0]]
    /\ ble = [connected |-> FALSE, values |-> [c \in Characteristics |-> 0]]
    /\ devLeft \in DeviceBounds

-----------------------------------------------------------------------------
(* MQTT *)

BrokerFree == publish = 0
otherThanMqtt == <<ports, pins, ble, devLeft>>

\* Publish takes the mutex and, when there is room or no subscription, is done at once.
mqttPublish ==
    /\ BrokerFree /\ sent < devLeft.messages
    /\ sent' = sent + 1
    /\ IF current = 0 THEN UNCHANGED <<publish, queues>>
       ELSE IF Len(queues[current].msgs) < ChanSize
       THEN queues' = [queues EXCEPT ![current].msgs = Append(@, sent')] /\ UNCHANGED publish
       ELSE publish' = sent' /\ UNCHANGED queues
    /\ UNCHANGED <<deleting, current, drains, buffer, got, capped, otherThanMqtt>>

\* Otherwise it waits, for a tenth of a second, and gives the message up.
PublishWaits(ok) ==
    /\ ~BrokerFree
    /\ ok => Len(queues[current].msgs) < ChanSize
    /\ queues' = IF ok THEN [queues EXCEPT ![current].msgs = Append(@, publish)] ELSE queues
    /\ publish' = 0
    /\ UNCHANGED <<deleting, current, drains, buffer, sent, got, capped, otherThanMqtt>>

\* Subscribe makes a channel and a goroutine; one that is there is replaced and never closed.
mqttSubscribe ==
    /\ BrokerFree /\ devLeft.subs > 0
    /\ devLeft' = [devLeft EXCEPT !.subs = @ - 1]
    /\ queues' = Append(queues, [msgs |-> <<>>, closed |-> FALSE])
    /\ drains' = Append(drains, 0)
    /\ current' = Len(queues')
    /\ UNCHANGED <<deleting, buffer, publish, sent, got, capped, ports, pins, ble>>

\* Mutant: the cap keeps the oldest messages.
MutCapped(s) == IF Len(s) > BufferCap THEN SubSeq(s, 1, BufferCap) ELSE s

Capped(s) == IF Len(s) > BufferCap THEN SubSeq(s, Len(s) - BufferCap + 1, Len(s)) ELSE s

\* The goroutine of a channel receives ...
DrainTakes(ch) ==
    /\ drains[ch] = 0 /\ queues[ch].msgs # <<>>
    /\ drains' = [drains EXCEPT ![ch] = Head(queues[ch].msgs)]
    /\ queues' = [queues EXCEPT ![ch].msgs = Tail(@)]
    /\ UNCHANGED <<deleting, current, buffer, publish, sent, got, capped, otherThanMqtt>>

\* ... and appends, also to the buffer of a topic that is unsubscribed by now.
DrainAppends(ch) ==
    /\ drains[ch] # 0
    /\ LET all == Append(buffer, drains[ch])
       IN  /\ buffer' = Capped(all)
           /\ capped' = capped \cup ({all[i] : i \in DOMAIN all} \ {buffer'[i] : i \in DOMAIN buffer'})
    /\ drains' = [drains EXCEPT ![ch] = 0]
    /\ UNCHANGED <<deleting, current, queues, publish, sent, got, otherThanMqtt>>

\* unsubscribe: the channel is closed with what is in it ...
mqttUnsubscribe ==
    /\ BrokerFree /\ ~deleting /\ current # 0
    /\ queues' = [queues EXCEPT ![current].closed = TRUE]
    /\ current' = 0 /\ deleting' = TRUE
    /\ UNCHANGED <<drains, buffer, publish, sent, got, capped, otherThanMqtt>>

\* ... and then the buffer is deleted, also that of a new subscription.
DeleteBuffer ==
    /\ deleting
    /\ deleting' = FALSE /\ buffer' = <<>>
    /\ UNCHANGED <<current, queues, drains, publish, sent, got, capped, otherThanMqtt>>

mqttRead ==
    /\ buffer # <<>>
    /\ got' = got \o buffer
    /\ buffer' = <<>>
    /\ UNCHANGED <<deleting, current, queues, drains, publish, sent, capped, otherThanMqtt>>

-----------------------------------------------------------------------------
(* Serial ports *)

Settings == devLeft.settings > 0 /\ devLeft' = [devLeft EXCEPT !.settings = @ - 1]

\* External: a byte arrives, whether or not the port is open.
InjectData(p) ==
    /\ devLeft.bytes > 0 /\ devLeft' = [devLeft EXCEPT !.bytes = @ - 1]
    /\ ports' = [ports EXCEPT ![p].arrived = @ + 1, ![p].data = Append(@, ports[p].arrived + 1)]
    /\ UNCHANGED <<mqttVars, pins, ble>>

serialOpen(p) ==
    /\ ~ports[p].open /\ Settings
    /\ ports' = [ports EXCEPT ![p].open = TRUE]
    /\ UNCHANGED <<mqttVars, pins, ble>>

serialClose(p) ==
    /\ ports[p].open
    /\ ports' = [ports EXCEPT ![p].open = FALSE]
    /\ UNCHANGED <<mqttVars, pins, ble, devLeft>>

serialRead(p, maxBytes) ==
    /\ ports[p].open /\ ports[p].data # <<>>
    /\ LET n == IF Len(ports[p].data) > maxBytes THEN maxBytes ELSE Len(ports[p].data)
       IN  ports' = [ports EXCEPT ![p].got = @ \o SubSeq(ports[p].data, 1, n),
                                  ![p].data = SubSeq(@, n + 1, Len(@))]
    /\ UNCHANGED <<mqttVars, pins, ble, devLeft>>

-----------------------------------------------------------------------------
(* GPIO and BLE *)

\* PeriphGPIOBackend.Read makes the pin an input, also one that was driven.
gpioRead(p) ==
    /\ pins[p].mode # "input"
    /\ pins' = [pins EXCEPT ![p].mode = "input"]
    /\ UNCHANGED <<mqttVars, ports, ble, devLeft>>

gpioWrite(p, v) ==
    /\ v \in {0, 1} /\ Settings
    /\ pins' = [pins EXCEPT ![p] = [mode |-> "output", level |-> v]]
    /\ UNCHANGED <<mqttVars, ports, ble>>

gpioPWM(p) ==
    /\ Settings
    /\ pins' = [pins EXCEPT ![p].mode = "pwm"]
    /\ UNCHANGED <<mqttVars, ports, ble>>

bleConnect ==
    /\ ~ble.connected /\ Settings
    /\ ble' = [ble EXCEPT !.connected = TRUE]
    /\ UNCHANGED <<mqttVars, ports, pins>>

bleDisconnect ==
    /\ ble.connected
    /\ ble' = [ble EXCEPT !.connected = FALSE]
    /\ UNCHANGED <<mqttVars, ports, pins, devLeft>>

bleWrite(c, v) ==
    /\ ble.connected /\ Settings
    /\ ble' = [ble EXCEPT !.values[c] = v]
    /\ UNCHANGED <<mqttVars, ports, pins>>

DevicesNext ==
    \/ mqttPublish \/ mqttSubscribe \/ mqttUnsubscribe \/ DeleteBuffer \/ mqttRead
    \/ \E ok \in BOOLEAN : PublishWaits(ok)
    \/ \E ch \in DOMAIN queues : DrainTakes(ch) \/ DrainAppends(ch)
    \/ \E p \in Ports : \/ InjectData(p) \/ serialOpen(p) \/ serialClose(p)
                        \/ \E n \in 1 .. 2 : serialRead(p, n)
    \/ \E p \in Pins : gpioRead(p) \/ gpioPWM(p) \/ \E v \in {0, 1} : gpioWrite(p, v)
    \/ bleConnect \/ bleDisconnect \/ \E c \in Characteristics, v \in {0, 1} : bleWrite(c, v)

DevicesSpec == DevicesInit /\ [][DevicesNext]_deviceVars

-----------------------------------------------------------------------------
Increasing(s) == \A i, j \in DOMAIN s : i < j => s[i] < s[j]

\* What a topic's readers get is in the order of publication and nothing comes twice, and
\* what the full buffer dropped is older than what it kept, as long as the topic had one
\* subscription; a second one has a goroutine of its own, which overtakes the first.
\* A serial port's readers get every byte once and in order, across closing and opening.
DevicesInOrder ==
    /\ Len(queues) <= 1 => /\ Increasing(got \o buffer)
                           /\ \A m \in capped, i \in DOMAIN buffer : m < buffer[i]
    /\ Cardinality({got[i] : i \in DOMAIN got}) = Len(got)
    /\ \A p \in Ports : ports[p].got \o ports[p].data = [i \in 1 .. ports[p].arrived |-> i]
=============================================================================
