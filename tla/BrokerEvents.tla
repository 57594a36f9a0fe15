---------------------------- MODULE BrokerEvents ----------------------------
(***************************************************************************)
(* From an SDK callback to the durable journal.  The SDK's callback thread *)
(* runs _on_sdk_event of the XtQuant adapter, which hands a checked event  *)
(* to the pump's sink; the daemon's thread connects, subscribes the sink,  *)
(* and in every iteration drains the queue into the journal.  The two      *)
(* threads meet in the adapter's lock, the pump's lock and the queue.      *)
(***************************************************************************)
EXTENDS Naturals, Sequences, FiniteSets

CONSTANTS
    Economic,       \* ORDER and FILL callbacks
    Operational,    \* ORDER_ERROR and CANCEL_ERROR callbacks
    Malformed,      \* callbacks the adapter refuses: wrong account, missing field...
    Unusable,       \* callbacks the adapter passes and the pump cannot normalise
    Disconnected,   \* the DISCONNECTED callback
    None,           \* no event
    Capacity,       \* of the queue (4096 in the code)
    MaxDrain,       \* events drained per iteration
    MaxTime,        \* bound: readings of the wall clock
    MaxDeliveries   \* bound: callbacks the SDK makes

Events == Economic \cup Operational \cup Malformed \cup Unusable \cup {Disconnected}

EventAssumption ==
    /\ None \notin Events
    /\ Disconnected \notin Economic \cup Operational \cup Malformed \cup Unusable
BoundAssumption ==
    Capacity \in Nat \ {0} /\ MaxDrain \in Nat \ {0} /\ MaxTime \in Nat /\ MaxDeliveries \in Nat

VARIABLES
    now,           \* the wall clock
    link,          \* the SDK's own connection
    deliveries,    \* callbacks made so far
    connected, diagnostic, sink,                    \* the adapter
    cb,            \* what the callback thread is doing
    queue, halt, overflow, failed,                  \* the pump
    journal, risk, \* durable: broker_events and risk_events
    pendingReason, \* the journal's first operational halt reason
    halted,        \* durable: the hooks saved HALTED
    place, drained,   \* the daemon
    lost           \* history: events of this process that reached a subscribed adapter and
                   \* neither the queue nor the journal

adapter == <<connected, diagnostic, sink>>
pump == <<queue, halt, overflow, failed>>
kept == <<journal, risk, halted>>
daemon == <<place, drained, pendingReason>>
pumpVars == <<now, link, deliveries, adapter, cb, pump, kept, daemon, lost>>

Idle == [stage |-> "idle", ev |-> None, at |-> 0]

-----------------------------------------------------------------------------
(* Identity and content of a callback.                                     *)

\* The id hashes the payload: for a disconnect that is the time it was observed at; an order's
\* or a fill's payload carries the broker's own time; an error's id leaves the time out.
EventId(e, at) == <<e, IF e = Disconnected THEN at ELSE 0>>

\* normalize_broker_event stamps the pump's clock on it; the row keeps it.
Envelope(e, observed, received) == [id |-> EventId(e, observed), ev |-> e, received |-> received]

Row(env) == [id |-> env.id, received |-> env.received]

-----------------------------------------------------------------------------
PumpInit ==
    /\ now = 0 /\ link = "down" /\ deliveries = 0
    /\ connected = FALSE /\ diagnostic = "DISCONNECTED" /\ sink = FALSE
    /\ cb = Idle
    /\ queue = <<>> /\ halt = FALSE /\ overflow = None /\ failed = None
    /\ journal = {} /\ risk = {} /\ halted = FALSE
    /\ place = "connect" /\ drained = 0 /\ pendingReason = FALSE
    /\ lost = {}

Running == place # "ended"

-----------------------------------------------------------------------------
(* The callback thread.                                                    *)

FailCallback(d) == diagnostic' = d /\ cb' = Idle

\* _on_sdk_event checks the callback and, for a disconnect, drops the connected flag first;
\* without a sink it is forgotten.
OnSdkEvent(e) ==
    /\ Running /\ link = "up" /\ cb = Idle
    /\ deliveries < MaxDeliveries
    /\ deliveries' = deliveries + 1
    /\ link' = IF e = Disconnected THEN "down" ELSE link
    /\ connected' = (connected /\ e # Disconnected)
    /\ CASE e \in Malformed -> FailCallback("CALLBACK_SCHEMA_INVALID")
         [] e \notin Malformed /\ ~sink ->
               /\ diagnostic' = IF e = Disconnected THEN "DISCONNECTED" ELSE diagnostic
               /\ UNCHANGED cb
         [] OTHER ->
               /\ diagnostic' = IF e = Disconnected THEN "DISCONNECTED" ELSE diagnostic
               /\ cb' = [stage |-> "sink", ev |-> e, at |-> now]
    /\ lost' = IF sink /\ e \in Malformed THEN lost \cup {e} ELSE lost
    /\ UNCHANGED <<now, sink, pump, kept, daemon>>

\* _accept after the pump has halted raises, which the adapter notes.
AcceptHalted ==
    /\ Running /\ cb.stage = "sink" /\ halt
    /\ FailCallback("CALLBACK_SINK_FAILED")
    /\ lost' = lost \cup {cb.ev}
    /\ UNCHANGED <<now, link, deliveries, connected, sink, pump, kept, daemon>>

AcceptUnusable ==
    /\ Running /\ cb.stage = "sink" /\ ~halt
    /\ cb.ev \in Unusable
    /\ halt' = TRUE
    /\ FailCallback("CALLBACK_SINK_FAILED")
    /\ lost' = lost \cup {cb.ev}
    /\ UNCHANGED <<now, link, deliveries, connected, sink, queue, overflow, failed, kept, daemon>>

\* Normalised with the time it is received at; put_nowait comes after it.
Accept ==
    /\ Running /\ cb.stage = "sink" /\ ~halt
    /\ cb.ev \notin Unusable
    /\ cb' = [stage |-> "put", ev |-> Envelope(cb.ev, cb.at, now), at |-> now]
    /\ UNCHANGED <<now, link, deliveries, adapter, pump, kept, daemon, lost>>

Put ==
    /\ Running /\ cb.stage = "put"
    /\ Len(queue) < Capacity
    /\ queue' = Append(queue, cb.ev)
    /\ cb' = Idle
    /\ UNCHANGED <<now, link, deliveries, adapter, halt, overflow, failed, kept, daemon, lost>>

\* Mutant: a full queue drops the event without a word.
Overflow_Drops ==
    /\ Running /\ cb.stage = "put"
    /\ Len(queue) = Capacity
    /\ cb' = Idle
    /\ lost' = lost \cup {cb.ev.ev}
    /\ UNCHANGED <<now, link, deliveries, adapter, pump, kept, daemon>>

Overflow ==
    /\ Running /\ cb.stage = "put"
    /\ Len(queue) = Capacity
    /\ overflow' = cb.ev.ev
    /\ halt' = TRUE
    /\ FailCallback("CALLBACK_SINK_FAILED")
    /\ lost' = lost \cup {cb.ev.ev}
    /\ UNCHANGED <<now, link, deliveries, connected, sink, queue, failed, kept, daemon>>

Callback ==
    \/ \E e \in Events : OnSdkEvent(e)
    \/ AcceptHalted \/ AcceptUnusable \/ Accept \/ Put \/ Overflow

-----------------------------------------------------------------------------
(* The daemon's thread: connect, subscribe, startup.                       *)

\* register_callback and start; the SDK connects.
FacadeConnect ==
    /\ place = "connect"
    /\ link' = "up" /\ place' = "subscribe_account"
    /\ UNCHANGED <<now, deliveries, adapter, cb, pump, kept, drained, pendingReason, lost>>

\* connect or subscribe_account did not return 0, or raised: stop the SDK, halt, give up.
ConnectFails ==
    /\ place \in {"connect", "subscribe_account"}
    /\ link' = "down"
    /\ connected' = FALSE /\ diagnostic' = "CONNECT_FAILED"
    /\ halted' = TRUE
    /\ place' = "ended"
    /\ UNCHANGED <<now, deliveries, sink, cb, pump, journal, risk, drained, pendingReason, lost>>

\* subscribe_account returned 0; the flag is set whatever the callback thread saw meanwhile.
SetConnected ==
    /\ place = "subscribe_account"
    /\ connected' = TRUE /\ diagnostic' = "CONNECTED"
    /\ place' = "subscribe"
    /\ UNCHANGED <<now, link, deliveries, sink, cb, pump, kept, drained, pendingReason, lost>>

Subscribe ==
    /\ place = "subscribe"
    /\ sink' = TRUE
    /\ place' = "top"
    /\ UNCHANGED <<now, link, deliveries, connected, diagnostic, cb, pump, kept, drained,
                   pendingReason, lost>>

-----------------------------------------------------------------------------
(* One iteration.                                                          *)

\* Any exception or halt: hooks.halt, then disconnect, and the process is over.
HaltDaemon ==
    /\ halted' = TRUE
    /\ connected' = FALSE /\ diagnostic' = "DISCONNECTED"
    /\ link' = IF connected THEN "down" ELSE link
    /\ place' = "ended"

HaltIfRequired ==
    /\ place \in {"top", "drained"} /\ halt
    /\ HaltDaemon
    /\ UNCHANGED <<now, deliveries, sink, cb, pump, journal, risk, drained, pendingReason, lost>>

BeginDrain ==
    /\ place = "top" /\ ~halt
    /\ place' = "drain" /\ drained' = 0
    /\ UNCHANGED <<now, link, deliveries, adapter, cb, pump, kept, pendingReason, lost>>

\* Same id, other content: received_at is part of the content.
IdCollides(env) == \E row \in journal : row.id = env.id /\ row # Row(env)

\* ProductionEventJournal.append, one transaction.
Journal(env) ==
    /\ journal' = journal \cup {Row(env)}
    /\ LET fresh == Row(env) \notin journal /\ env.ev \in Operational \cup {Disconnected}
       IN  /\ risk' = IF fresh THEN risk \cup {env.id} ELSE risk
           /\ pendingReason' = (pendingReason \/ fresh)

\* handle_event raised: the envelope is kept, the pump halts, the daemon halts.
WriterFails(env) ==
    /\ failed' = env.ev /\ halt' = TRUE
    /\ HaltDaemon

DispatchOne ==
    /\ place = "drain" /\ drained < MaxDrain /\ queue # <<>>
    /\ LET env == Head(queue) IN
        /\ queue' = Tail(queue)
        /\ drained' = drained + 1
        /\ IF IdCollides(env)
           THEN WriterFails(env) /\ UNCHANGED <<journal, risk, pendingReason>>
           ELSE /\ Journal(env)
                /\ IF pendingReason' THEN WriterFails(env)
                   ELSE UNCHANGED <<halted, connected, diagnostic, link, place, failed, halt>>
    /\ UNCHANGED <<now, deliveries, sink, cb, overflow, lost>>

EndDrain ==
    /\ place = "drain" /\ (drained = MaxDrain \/ queue = <<>>)
    /\ place' = "drained"
    /\ UNCHANGED <<now, link, deliveries, adapter, cb, pump, kept, drained, pendingReason, lost>>

\* A cycle that returns, or none: the risk-blocked daemon only drains.
Cycle ==
    /\ place = "drained" /\ ~halt
    /\ place' = "top"
    /\ UNCHANGED <<now, link, deliveries, adapter, cb, pump, kept, drained, pendingReason, lost>>

\* A query raises: not connected, the SDK returned None, or a fact is refused.
CycleFails ==
    /\ place = "drained" /\ ~halt
    /\ HaltDaemon
    /\ UNCHANGED <<now, deliveries, sink, cb, pump, journal, risk, drained, pendingReason, lost>>

\* A STOP leaves the loop at its top; what is queued is left to the next start's queries.
Stop ==
    /\ place = "top"
    /\ connected' = FALSE /\ diagnostic' = "DISCONNECTED"
    /\ link' = IF connected THEN "down" ELSE link
    /\ place' = "ended"
    /\ UNCHANGED <<now, deliveries, sink, cb, pump, kept, drained, pendingReason, lost>>

PumpCrash ==
    /\ Running
    /\ place' = "ended" /\ link' = "down"
    /\ UNCHANGED <<now, deliveries, adapter, cb, pump, kept, drained, pendingReason, lost>>

\* A new process, after the operator has dealt with a halt.
Restart ==
    /\ place = "ended"
    /\ link' = "down" /\ connected' = FALSE /\ diagnostic' = "DISCONNECTED" /\ sink' = FALSE
    /\ cb' = Idle /\ queue' = <<>> /\ halt' = FALSE /\ overflow' = None /\ failed' = None
    /\ halted' = FALSE
    /\ place' = "connect" /\ drained' = 0 /\ pendingReason' = FALSE
    /\ lost' = {}
    /\ UNCHANGED <<now, deliveries, journal, risk>>

Tick ==
    /\ now < MaxTime
    /\ now' = now + 1
    /\ UNCHANGED <<link, deliveries, adapter, cb, pump, kept, daemon, lost>>

Loop == HaltIfRequired \/ BeginDrain \/ DispatchOne \/ EndDrain \/ Cycle

Daemon ==
    \/ FacadeConnect \/ ConnectFails \/ SetConnected \/ Subscribe
    \/ Loop \/ CycleFails \/ Stop \/ Restart

PumpNext == Callback \/ Daemon \/ PumpCrash \/ Tick

PumpSpec == PumpInit /\ [][PumpNext]_pumpVars

CallbackEnds == AcceptHalted \/ AcceptUnusable \/ Accept \/ Put \/ Overflow

-----------------------------------------------------------------------------
(* Properties.                                                             *)

Health == [connected |-> connected, healthy |-> connected /\ diagnostic = "CONNECTED"]

\* Every variable keeps its type; the queue stays within its capacity.
PumpTypeOK ==
    /\ now \in 0..MaxTime /\ deliveries \in 0..MaxDeliveries
    /\ link \in {"up", "down"} /\ {connected, sink, halt, halted, pendingReason} \subseteq BOOLEAN
    /\ diagnostic \in {"DISCONNECTED", "CONNECTED", "CONNECT_FAILED",
                       "CALLBACK_SCHEMA_INVALID", "CALLBACK_SINK_FAILED"}
    /\ Len(queue) <= Capacity
    /\ {overflow, failed} \subseteq Events \cup {None} /\ lost \subseteq Events
    /\ \A row \in journal : row.received \in 0..MaxTime

\* A callback that reached a subscribed adapter and was not queued leaves a trace the daemon
\* can see: an unhealthy adapter or a halted pump.  (xtquant_production.py _on_sdk_event,
\* event_pump.py _accept)
NoSilentLoss == Running /\ lost # {} => ~Health.healthy \/ halt

\* An operational event in the journal has its risk row, across crashes and redelivery.
\* (production_events.py append: both rows in one transaction)
OperationalIsRisk ==
    \A row \in journal : row.id[1] \in Operational \cup {Disconnected} => row.id \in risk

\* Two rows never share an identity: the journal holds one content for each event id.
\* (repositories.py BrokerEventRepository.append)
OneContentPerId == \A r1, r2 \in journal : r1.id = r2.id => r1 = r2

\* Once an operational event is journaled no further cycle runs in this process.
\* (production_services.py handle_event raises out of the daemon's loop)
NoCycleAfterRisk == [][place = "drained" /\ place' = "top" => ~pendingReason]_pumpVars

\* A callback that reached a subscribed adapter is queued, journaled or has halted the pump; an
\* operational one leaves its risk row and ends the daemon's cycles; one id has one content
\* (event_pump.py, production_events.py, repositories.py).
EventsAreKept ==
    /\ [](PumpTypeOK /\ NoSilentLoss /\ OperationalIsRisk /\ OneContentPerId)
    /\ NoCycleAfterRisk

\* A queued event leaves the queue while the daemon lives, whatever the callback thread adds.
\* (production_daemon.py _drain_events: every iteration drains)
QueueDrains ==
    \A e \in Economic :
        (\E i \in 1..Len(queue) : queue[i].ev = e) /\ Running
            ~> (\A i \in 1..Len(queue) : queue[i].ev # e) \/ ~Running

\* Claimed of redelivery: an event journaled before never makes the writer fail.
DuplicateIsIdempotent ==
    failed \in Economic => \A row \in journal : row.id # EventId(failed, 0)

\* Claimed of callbacks: one that is lost halts the pump.
LostCallbackHalts == Running /\ lost # {} => halt

\* Claimed of a disconnect callback: the adapter is not connected after it, until the next connect.
DisconnectIsSeen ==
    place \in {"top", "drain", "drained"} /\ Health.connected => link = "up"
=============================================================================
