------------------------------ MODULE PortalLink ------------------------------
(***************************************************************************)
(* The way of a gateway's events to the portal: the persistent queue of       *)
(* UpstreamMessageQueueImpl, the connections that GatewayEventBusImpl opens,   *)
(* and what the portal makes of the attach and detach events of a node.       *)
(*                                                                         *)
(* Each connection starts a chain of dequeue callbacks: a callback writes its  *)
(* message to the channel of the moment and, when the write is complete, asks *)
(* for the next one.  Callbacks that ask while the queue is empty share one    *)
(* future, so that two chains are given the same message.  The handlers of a   *)
(* connection run one after the other in its own thread; those of different   *)
(* connections interleave, and so do the driver of the device, the scheduled   *)
(* connection attempts and the callbacks.                                     *)
(***************************************************************************)
EXTENDS Naturals, Sequences, FiniteSets, Functions

CONSTANTS
    Channel,      (* bound: the connections of a behaviour, a set of positive numbers *)
    MaxEvents,    (* bound: events of the device                                *)
    MaxCrashes    (* bound: restarts of the gateway                             *)

ASSUME LinkAssumption == Channel \subseteq Nat \ {0}

VARIABLES
    connected,    (* the flag of GatewayEventBusImpl                            *)
    trying,       (* an attempt to connect is past its test of the flag          *)
    phase,        (* phase[c]: how far the handlers of connection c are, see TypeOK *)
    link,         (* link[c]: "none", "up", "dead": it delivers nothing any more *)
                  (* and the gateway does not know, or "down"                   *)
    registered,   (* GatewayChannelHandler is registered at the event bus        *)
    channel,      (* the channel of the queue, 0 for null                       *)
    queue,        (* the persistent queue of message numbers                    *)
    at,           (* at[c]: where the callbacks of the chain that c began are    *)
    holds,        (* holds[c]: the message of such a callback, 0 for none        *)
    writes,       (* writes[c]: the chains whose writes c has not completed      *)
    attached,     (* attached[c]: the portal knows the node under connection c   *)
    running,      (* the adapter of the device is in runningDeviceAdapters       *)
    announced,    (* the adapter's last event was that the node is connected     *)
    accepted,     (* history: the kinds of all messages, numbered in order       *)
    events, crashes,
    settled,      (* history: the messages the portal has received, and those     *)
                  (* that were written to a connection that broke or were out of  *)
                  (* the queue at a crash                                        *)
    thrown,       (* history: the messages whose write threw                     *)
    newest,       (* history: the highest number written, or given to a write that threw *)
    misled,       (* history: see PortalKnowsDevices                            *)
    deaf          (* history: the queue was disconnected from a live connection  *)

connecting == <<connected, trying>>
handlers == <<phase, registered, channel, deaf>>
callbacks == <<queue, at, holds>>
network == <<link, writes, attached, settled, thrown>>
device == <<running, announced>>
bounds == <<events, crashes>>
past == <<accepted, newest, misled>>
linkVars == <<connecting, handlers, callbacks, network, device, bounds, past>>

(* The device may have been connected already, its event then is in the queue. *)
Init ==
    /\ connected = FALSE /\ trying = FALSE
    /\ phase = [c \in Channel |-> "unused"]
    /\ link = [c \in Channel |-> "none"]
    /\ registered = FALSE /\ channel = 0
    /\ at = [c \in Channel |-> "none"] /\ holds = [c \in Channel |-> 0]
    /\ writes = [c \in Channel |-> <<>>]
    /\ attached = [c \in Channel |-> FALSE]
    /\ running \in BOOLEAN /\ announced = running
    /\ accepted = IF running THEN <<"attached">> ELSE <<>>
    /\ queue = IF running THEN <<1>> ELSE <<>>
    /\ events = 0 /\ crashes = 0
    /\ settled = {} /\ thrown = {} /\ newest = 0 /\ misled = FALSE /\ deaf = FALSE

-----------------------------------------------------------------------------
(* The queue                                                                 *)

(* Mutant: the future that callbacks wait for is forgotten.                  *)
PutBehind(m, here, have) ==
    queue' = Append(queue, m) /\ at' = here /\ holds' = have

(* enqueue of message m, where the callbacks are as in here and have: if some  *)
(* wait, the future they share is completed with m.                           *)
Put(m, here, have) ==
    IF \E c \in Channel : here[c] = "waiting"
    THEN /\ at' = [c \in Channel |-> IF here[c] = "waiting" THEN "called" ELSE here[c]]
         /\ holds' = [c \in Channel |-> IF here[c] = "waiting" THEN m ELSE have[c]]
         /\ UNCHANGED queue
    ELSE queue' = Append(queue, m) /\ at' = here /\ holds' = have

(* dequeueAsync, with a callback of chain c.                                 *)
Dequeue(c) ==
    IF queue = <<>>
    THEN /\ at' = [at EXCEPT ![c] = "waiting"] /\ holds' = [holds EXCEPT ![c] = 0]
         /\ UNCHANGED queue
    ELSE /\ at' = [at EXCEPT ![c] = "called"] /\ holds' = [holds EXCEPT ![c] = Head(queue)]
         /\ queue' = Tail(queue)

(* dequeueAsync with a callback of chain c, then enqueue of message m.         *)
DequeueWith(c, m) ==
    IF queue = <<>>
    THEN Put(m, [at EXCEPT ![c] = "waiting"], holds)
    ELSE /\ at' = [at EXCEPT ![c] = "called"] /\ holds' = [holds EXCEPT ![c] = Head(queue)]
         /\ queue' = Append(Tail(queue), m)

(* A new message of this kind.                                               *)
Accept(kind) ==
    /\ accepted' = Append(accepted, kind)
    /\ Put(Len(accepted) + 1, at, holds)

(* The message of chain c is enqueued again, and the chain ends.             *)
PutBack(c) ==
    Put(holds[c], [at EXCEPT ![c] = "none"], [holds EXCEPT ![c] = 0])

-----------------------------------------------------------------------------
(* GatewayEventBusImpl: the connection attempts                              *)

(* connectToPortalRunnable, run by the schedule or asked for by                *)
(* channelDisconnected.  Two of them may run at a time; that is as if the      *)
(* second had passed its test when the first had opened its connection and    *)
(* the handlers of that had not yet set the flag.                             *)
TryToConnect ==
    /\ ~trying /\ ~connected
    /\ trying' = TRUE
    /\ UNCHANGED <<connected, handlers, callbacks, network, device, bounds, past>>

ConnectFails ==
    /\ trying /\ trying' = FALSE
    /\ UNCHANGED <<connected, handlers, callbacks, network, device, bounds, past>>

Open(c) ==
    /\ trying /\ trying' = FALSE
    /\ phase[c] = "unused" /\ \A d \in Channel : d < c => phase[d] # "unused"
    /\ phase' = [phase EXCEPT ![c] = "open"]
    /\ link' = [link EXCEPT ![c] = "up"]
    /\ UNCHANGED <<connected, registered, channel, deaf, callbacks, writes, attached, settled,
                   thrown, device, bounds, past>>

-----------------------------------------------------------------------------
(* The handlers of connection c                                              *)

(* channelConnected of the observer, and the registration of the handler.     *)
Observe(c) ==
    /\ phase[c] = "open"
    /\ phase' = [phase EXCEPT ![c] = "observed"]
    /\ connected' = TRUE
    /\ registered' = TRUE
    /\ UNCHANGED <<trying, channel, deaf, callbacks, network, device,
                   bounds, past>>

(* Mutant: one chain is thought to be enough for all connections.            *)
BeginOnce(c) ==
    IF \A d \in Channel : phase[d] \in {"unused", "open", "observed"}
    THEN DequeueWith(c, Len(accepted) + 1)
    ELSE Put(Len(accepted) + 1, at, holds)

(* Chain c begins, and the hello is enqueued.                                *)
Begin(c) == DequeueWith(c, Len(accepted) + 1)

(* channelConnected of the queue and of its handler, as far as the nodes are   *)
(* read.                                                                     *)
AddChannel(c) ==
    /\ phase[c] = "observed"
    /\ channel' = c
    /\ deaf' = FALSE
    /\ accepted' = Append(accepted, "hello")
    /\ Begin(c)
    /\ phase' = [phase EXCEPT ![c] = IF running THEN "read" ELSE "up"]
    /\ misled' = (misled \/ running # announced)
    /\ UNCHANGED <<connecting, registered, network, device, bounds, newest>>

(* Mutant: the nodes are announced by their own events only.                 *)
SendNothing(c) ==
    /\ phase[c] = "read"
    /\ phase' = [phase EXCEPT ![c] = "up"]
    /\ UNCHANGED <<connecting, registered, channel, deaf, callbacks, network, device, bounds, past>>

(* The attached event for the nodes that were read, if there were any.        *)
SendNodes(c) ==
    /\ phase[c] = "read"
    /\ phase' = [phase EXCEPT ![c] = "up"]
    /\ Accept("attached")
    /\ UNCHANGED <<connecting, registered, channel, deaf, network, device, bounds, newest, misled>>

(* channelDisconnected of the observer.                                      *)
Lose(c) ==
    /\ phase[c] = "up" /\ link[c] = "down"
    /\ phase' = [phase EXCEPT ![c] = "leaving"]
    /\ connected' = FALSE
    /\ UNCHANGED <<trying, registered, channel, deaf, callbacks, network, device, bounds, past>>

(* channelDisconnected of the handler: unregister() throws if the handler was  *)
(* unregistered by another connection; otherwise the channel of the queue is  *)
(* cleared, whichever it is.                                                 *)
Leave(c) ==
    /\ phase[c] = "leaving"
    /\ phase' = [phase EXCEPT ![c] = "gone"]
    /\ registered' = FALSE
    /\ channel' = IF registered THEN 0 ELSE channel
    /\ deaf' = (deaf \/ (registered /\ channel \notin {0, c}))
    /\ UNCHANGED <<connecting, callbacks, network, device, bounds, past>>

-----------------------------------------------------------------------------
(* The callbacks                                                             *)

(* Not connected: the message goes back.                                     *)
OnSuccessDisconnected(c) ==
    /\ at[c] = "called" /\ channel = 0
    /\ PutBack(c)
    /\ UNCHANGED <<connecting, handlers, network, device, bounds, past>>

Newer(m) == IF m > newest THEN m ELSE newest

OnSuccess(c) ==
    /\ at[c] = "called" /\ channel # 0
    /\ at' = [at EXCEPT ![c] = "writing"]
    /\ writes' = [writes EXCEPT ![channel] = Append(@, c)]
    /\ newest' = Newer(holds[c])
    /\ misled' = (misled \/ holds[c] < newest)
    /\ UNCHANGED <<connecting, handlers, queue, holds, link, attached, settled, thrown,
                   device, bounds, accepted>>

(* The network breaks a connection only while the bound leaves another one.   *)
Spare == \E c \in Channel : phase[c] = "unused"

(* Channels.write throws: the chain ends, nobody puts the message back, and the *)
(* channel is closed, or cleared if it was closed already.                     *)
WriteThrows(c) ==
    /\ at[c] = "called" /\ channel # 0 /\ Spare
    /\ at' = [at EXCEPT ![c] = "none"] /\ holds' = [holds EXCEPT ![c] = 0]
    /\ thrown' = thrown \union {holds[c]}
    /\ link' = [link EXCEPT ![channel] = "down"]
    /\ attached' = [attached EXCEPT ![channel] = FALSE]
    /\ channel' = IF link[channel] = "down" THEN 0 ELSE channel
    /\ newest' = Newer(holds[c])
    /\ UNCHANGED <<connecting, phase, registered, deaf, queue, writes, settled, device,
                   bounds, accepted, misled>>

(* A write that is complete has reached the portal, which handles it in        *)
(* messageReceived and processEvent, or is lost.                              *)
WriteSucceeds(c) ==
    /\ link[c] \in {"up", "dead"} /\ writes[c] # <<>>
    /\ writes' = [writes EXCEPT ![c] = Tail(@)]
    /\ settled' = settled \union {holds[Head(writes[c])]}
    /\ attached' = [attached EXCEPT ![c] =
                       CASE link[c] = "up" /\ accepted[holds[Head(writes[c])]] = "attached" -> TRUE
                         [] link[c] = "up" /\ accepted[holds[Head(writes[c])]] = "detached" -> FALSE
                         [] OTHER -> @]
    /\ Dequeue(Head(writes[c]))
    /\ UNCHANGED <<connecting, handlers, link, thrown, device, bounds, past>>

WriteFails(c) ==
    /\ link[c] = "down" /\ writes[c] # <<>>
    /\ writes' = [writes EXCEPT ![c] = Tail(@)]
    /\ PutBack(Head(writes[c]))
    /\ UNCHANGED <<connecting, handlers, link, attached, settled, thrown, device, bounds, past>>

-----------------------------------------------------------------------------
(* The device, the network, the portal                                       *)

(* The adapter fires its event before its state changes.  Output of the node   *)
(* and notifications take the same way; hello stands for them.               *)
DeviceEvent ==
    /\ running = announced /\ events < MaxEvents
    /\ events' = events + 1
    /\ announced' = ~announced
    /\ Accept(IF announced THEN "detached" ELSE "attached")
    /\ misled' = (misled \/ \E c \in Channel : phase[c] = "read")
    /\ UNCHANGED <<connecting, handlers, network, running, crashes, newest>>

DeviceSettles ==
    /\ running # announced
    /\ running' = announced
    /\ UNCHANGED <<connecting, handlers, callbacks, network, announced, bounds, past>>

(* The portal forgets the nodes of a connection that breaks, and what is        *)
(* written to it until the gateway notices is lost.                           *)
Break(c) ==
    /\ link[c] = "up" /\ Spare
    /\ link' = [link EXCEPT ![c] = "dead"]
    /\ attached' = [attached EXCEPT ![c] = FALSE]
    /\ UNCHANGED <<connecting, handlers, callbacks, writes, settled, thrown, device, bounds, past>>

Notice(c) ==
    /\ link[c] = "dead"
    /\ link' = [link EXCEPT ![c] = "down"]
    /\ UNCHANGED <<connecting, handlers, callbacks, writes, attached, settled, thrown, device,
                   bounds, past>>

(* The gateway stops and starts anew: the queue is on disk, everything else is *)
(* gone, and no event says that the node is.                                  *)
Crash ==
    /\ crashes < MaxCrashes /\ Spare
    /\ crashes' = crashes + 1
    /\ connected' = FALSE /\ trying' = FALSE
    /\ phase' = [c \in Channel |-> IF phase[c] = "unused" THEN "unused" ELSE "gone"]
    /\ registered' = FALSE /\ channel' = 0 /\ deaf' = FALSE
    /\ at' = [c \in Channel |-> "none"] /\ holds' = [c \in Channel |-> 0]
    /\ writes' = [c \in Channel |-> <<>>]
    /\ link' = [c \in Channel |-> IF link[c] = "none" THEN "none" ELSE "down"]
    /\ attached' = [c \in Channel |-> FALSE]
    /\ running' = FALSE /\ announced' = FALSE
    /\ settled' = settled \union (Range(holds) \ {0})
    /\ misled' = (misled \/ queue # <<>>)
    /\ UNCHANGED <<queue, thrown, events, accepted, newest>>

-----------------------------------------------------------------------------
(* What the threads and the network do as long as nothing fails.             *)
Proceeds(c) ==
    \/ Observe(c) \/ AddChannel(c) \/ SendNodes(c) \/ Lose(c) \/ Leave(c)
    \/ OnSuccessDisconnected(c) \/ OnSuccess(c) \/ WriteSucceeds(c) \/ WriteFails(c) \/ Notice(c)

Next ==
    \/ TryToConnect \/ ConnectFails \/ DeviceEvent \/ DeviceSettles \/ Crash
    \/ \E c \in Channel : Open(c) \/ Break(c) \/ WriteThrows(c) \/ Proceeds(c)

(* The scheduler and the threads run, and attempts to connect that go on do    *)
(* not fail for ever.                                                        *)
Fairness ==
    /\ WF_linkVars(TryToConnect)
    /\ SF_linkVars(\E c \in Channel : Open(c))
    /\ \A c \in Channel : WF_linkVars(Proceeds(c))

Spec == Init /\ [][Next]_linkVars /\ Fairness

-----------------------------------------------------------------------------
Messages == 1..Len(accepted)

(* The state has its type; a callback waits only while the queue is empty,    *)
(* and a chain is in the writes of one connection exactly while it writes.     *)
TypeOK ==
    /\ connected \in BOOLEAN /\ trying \in BOOLEAN
    /\ phase \in [Channel -> {"unused", "open", "observed", "read", "up", "leaving", "gone"}]
    /\ link \in [Channel -> {"none", "up", "dead", "down"}]
    /\ registered \in BOOLEAN /\ channel \in Channel \union {0} /\ deaf \in BOOLEAN
    /\ queue \in Seq(Messages)
    /\ at \in [Channel -> {"none", "waiting", "called", "writing"}]
    /\ holds \in [Channel -> Messages \union {0}]
    /\ \A c \in Channel : holds[c] # 0 <=> at[c] \in {"called", "writing"}
    /\ (\E c \in Channel : at[c] = "waiting") => queue = <<>>
    /\ writes \in [Channel -> Seq(Channel)]
    /\ \A c \in Channel : Cardinality({d \in Channel : c \in Range(writes[d])})
                              = IF at[c] = "writing" THEN 1 ELSE 0
    /\ attached \in [Channel -> BOOLEAN] /\ running \in BOOLEAN /\ announced \in BOOLEAN
    /\ accepted \in Seq({"hello", "attached", "detached"})
    /\ events \in Nat /\ crashes \in Nat
    /\ settled \subseteq Messages /\ thrown \subseteq Messages /\ newest \in Messages \union {0}
    /\ misled \in BOOLEAN

(* One connection is left, and everything has arrived over it.               *)
AtRest ==
    /\ {c \in Channel : link[c] = "up"} = {channel} /\ phase[channel] = "up"
    /\ queue = <<>> /\ \A c \in Channel : holds[c] = 0
    /\ running = announced

(* When everything has arrived the portal knows of the node exactly if the     *)
(* gateway has it, after any number of connections, failed writes and          *)
(* restarts.  The exceptions, which the code admits, are in misled: a message  *)
(* was written after a newer one, or after a newer one was lost because its    *)
(* write threw (two chains, or a message put back behind others), the nodes    *)
(* were read while the device changed, or a restart left old events in the     *)
(* queue.                                                                    *)
PortalKnowsDevices == AtRest /\ ~misled => attached[channel] = running

(* The gateway would connect again, but the bound leaves no connection.       *)
Exhausted ==
    ~connected /\ channel = 0 /\ \A c \in Channel : phase[c] \in {"up", "gone"}

(* Every message the queue accepts reaches the portal if the network stops     *)
(* failing, with three exceptions: it was on a connection that broke, its write *)
(* threw (see Reenqueued), or the late disconnection of an old connection has  *)
(* cleared the channel of the new one, which then is deaf.                    *)
Forwarded == []<>(Messages \subseteq settled \union thrown \/ deaf \/ Exhausted)

(* No message vanishes without a trace.                                      *)
Accounted == Messages \subseteq settled \union thrown \union Range(queue) \union Range(holds)

(* A message whose write throws because the channel is closed goes back to the  *)
(* queue, as the log of DequeueCallback says: "ClosedChannelException while    *)
(* trying to forward message to portal server. Re-enqueuing message."          *)
Reenqueued ==
    [][\A c \in Channel :
           WriteThrows(c) /\ link[channel] = "down" =>
               holds[c] \in Range(queue') \union Range(holds') \union settled']_linkVars
=============================================================================
