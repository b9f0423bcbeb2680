----------------------------- MODULE EventStream -----------------------------
(***************************************************************************)
(* The live events of a node and the stream that takes them to a page: the *)
(* sources (events/liveEvents.ts, events/topologyWatch.ts), the hub        *)
(* (events/eventHub.ts) with the one sink of this page, and the page's end *)
(* of it (web-app/public/live-events.js) on top of the browser's           *)
(* EventSource.                                                            *)
(*                                                                         *)
(* A change set is the set of tables it touches; what events say is left   *)
(* out but for that.  The transfers recorded (synced) and the changes of   *)
(* the network report (topology) are counters.  EventSource and the        *)
(* network are external.                                                   *)
(*                                                                         *)
(* A definition called a variant is the definition below it with one       *)
(* plausible mistake; PROJECT.json names the property that rules it out.   *)
(***************************************************************************)
EXTENDS Integers, Sequences, FiniteSets

CONSTANTS
    Tables,       \* the tables of the store
    MaxUnread,    \* EventHubOptions.maxBufferedBytes, in events
    Starts        \* kinds of runs: the page the person opens, the change sets others
                  \* write, and bounds on changes of the node, heartbeats, breaks of
                  \* connections, failed requests and moves of the person

ASSUME StreamAssumption == MaxUnread \in Nat

VARIABLES
    node,     \* what the node's routes would answer, and whether it is up
    hub,      \* the sink of this page: whether it is open, and what it has not read
    stream,   \* the LiveEvents of the page
    online,   \* navigator.onLine
    budget    \* what is left of the bounds

streamVars == <<node, hub, stream, online, budget>>

Spend(kind) == budget[kind] > 0 /\ budget' = [budget EXCEPT ![kind] = @ - 1]

StreamInit ==
    /\ node = [up |-> TRUE, synced |-> 0, topology |-> 0, told |-> 0, pulling |-> {}]
    /\ hub = [open |-> FALSE, unread |-> <<>>]
    /\ stream = [source |-> "connecting", state |-> "reconnecting", reopen |-> FALSE]
    /\ online = TRUE
    /\ budget \in Starts

-----------------------------------------------------------------------------
(* The hub.                                                                *)

noSink == [open |-> FALSE, unread |-> <<>>]

(* Variant: a client that does not read is never dropped.                  *)
deliverAlways(chunk) == IF hub.open THEN [hub EXCEPT !.unread = Append(@, chunk)] ELSE hub

(* A sink whose unread part exceeds the bound is destroyed.                *)
deliver(chunk) ==
    IF ~hub.open THEN hub
    ELSE IF Len(hub.unread) >= MaxUnread THEN noSink
    ELSE [hub EXCEPT !.unread = Append(@, chunk)]

publish(event) == hub' = deliver(event)

(* The interval runs while there is a sink.                                *)
Heartbeat ==
    /\ node.up
    /\ hub.open
    /\ Spend("beats")
    /\ hub' = deliver([name |-> "comment"])
    /\ UNCHANGED <<node, stream, online>>

-----------------------------------------------------------------------------
(* The sources.                                                            *)

insertEventOf(changeSet) == [name |-> "insert", changeSet |-> changeSet]
SyncEvent(changeSet, status, number) ==
    [name |-> "sync", changeSet |-> changeSet, status |-> status, number |-> number]
TopologyEvent == [name |-> "topology"]

(* A change set this node wrote, for another tab or for this page.         *)
ChangeSetWritten(changeSet) ==
    node.up /\ publish(insertEventOf(changeSet)) /\ UNCHANGED node

WrittenElsewhere ==
    /\ \E changeSet \in budget.changeSets : ChangeSetWritten(changeSet)
    /\ Spend("changes")
    /\ UNCHANGED <<stream, online>>

(* SyncAgent.onTransfer: the start of a pull, and its outcome.             *)
PullStarts ==
    /\ node.up
    /\ Spend("changes")
    /\ \E changeSet \in budget.changeSets \ node.pulling :
        /\ node' = [node EXCEPT !.synced = @ + 1, !.pulling = @ \cup {changeSet}]
        /\ publish(SyncEvent(changeSet, "pending", node.synced + 1))
    /\ UNCHANGED <<stream, online>>

PullEnds ==
    /\ node.up
    /\ \E changeSet \in node.pulling, status \in {"completed", "failed"} :
        /\ node' = [node EXCEPT !.synced = @ + 1, !.pulling = @ \ {changeSet}]
        /\ publish(SyncEvent(changeSet, status, node.synced + 1))
    /\ UNCHANGED <<stream, online, budget>>

TopologyChanges ==
    /\ node.up
    /\ Spend("changes")
    /\ node' = [node EXCEPT !.topology = @ + 1]
    /\ UNCHANGED <<hub, stream, online>>

(* TopologyWatch.check: by its timer, or by the orchestrator at once.      *)
TopologyCheck ==
    /\ node.up
    /\ node.topology # node.told
    /\ node' = [node EXCEPT !.told = node.topology]
    /\ publish(TopologyEvent)
    /\ UNCHANGED <<stream, online, budget>>

(* The hub is closed and every stream ended; pulls are given up.           *)
NodeStops ==
    /\ node.up
    /\ Spend("breaks")
    /\ node' = [node EXCEPT !.up = FALSE, !.pulling = {}]
    /\ hub' = noSink
    /\ UNCHANGED <<stream, online>>

(* The watch remembers the report as it stands.                            *)
NodeStarts ==
    /\ ~node.up
    /\ node' = [node EXCEPT !.up = TRUE, !.told = node.topology]
    /\ UNCHANGED <<hub, stream, online, budget>>

-----------------------------------------------------------------------------
(* The page's end.                                                         *)

open == [stream EXCEPT !.source = "connecting", !.reopen = FALSE]

downState == IF online THEN "reconnecting" ELSE "offline"

(* The browser connects: GET /api/events adds the sink.                    *)
Opens ==
    /\ stream.source = "connecting"
    /\ node.up /\ online
    /\ hub' = [open |-> TRUE, unread |-> <<>>]
    /\ stream' = [stream EXCEPT !.source = "open", !.state = "live"]
    /\ UNCHANGED <<node, online, budget>>

(* No connection: the browser tries again by itself.                       *)
ConnectFails ==
    /\ stream.source = "connecting"
    /\ ~node.up \/ ~online
    /\ stream' = [stream EXCEPT !.state = downState]
    /\ UNCHANGED <<node, hub, online, budget>>

(* Variant: a fatal error is left to the browser, which does not retry.    *)
closedForGood ==
    [stream EXCEPT !.source = "none", !.state = downState]

(* A fatal error, for example of a proxy while the node restarts.          *)
closedByError ==
    [stream EXCEPT !.source = "none", !.reopen = TRUE, !.state = downState]

ConnectIsRefused ==
    /\ stream.source = "connecting"
    /\ ~node.up
    /\ stream' = closedByError
    /\ UNCHANGED <<node, hub, online, budget>>

Reopens ==
    /\ stream.reopen
    /\ stream' = open
    /\ hub' = IF stream.source = "open" THEN noSink ELSE hub
    /\ UNCHANGED <<node, online, budget>>

(* The connection is gone, by itself or because the hub dropped the sink.  *)
Breaks ==
    /\ stream.source = "open"
    /\ IF hub.open THEN Spend("breaks") ELSE UNCHANGED budget
    /\ hub' = noSink
    /\ stream' = [stream EXCEPT !.source = "connecting", !.state = downState]
    /\ UNCHANGED <<node, online>>

GoesOffline ==
    /\ online
    /\ Spend("breaks")
    /\ online' = FALSE
    /\ stream' = [stream EXCEPT !.source = "none", !.state = "offline"]
    /\ hub' = noSink
    /\ UNCHANGED node

ComesOnline ==
    /\ ~online
    /\ online' = TRUE
    /\ stream' = [open EXCEPT !.state = "reconnecting"]
    /\ UNCHANGED <<node, hub, budget>>

(* A view that subscribes opens a stream that is neither open nor due.     *)
ensureOpen == IF stream.source = "none" /\ ~stream.reopen THEN open ELSE stream
=============================================================================
