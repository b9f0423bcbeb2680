-------------------------------- MODULE Roles --------------------------------
(***************************************************************************)
(* How one node takes the role the election gives it: the class            *)
(* RoleOrchestrator of network/roleOrchestrator.ts, which turns the events *)
(* of the NetworkManager into calls, and the class HubTransport of         *)
(* network/hubTransport.ts, which carries the calls out one at a time.     *)
(*                                                                         *)
(* An action is one synchronous stretch of the code: an event handler, or  *)
(* what runs from the end of one await to the next.  A call is a record in *)
(* the promise queue of the transport, the transition being carried out is *)
(* job.  A server or a socket is known by a number, given in order.        *)
(* Outside and free to do anything it can: the NetworkManager, the hub     *)
(* this node connects to, the clients that connect to this node, the port. *)
(*                                                                         *)
(* Left out: log lines and lastError, what /status shows, the hub's own    *)
(* address, the names and ids of peers except whether the own one is known.*)
(*                                                                         *)
(* A definition called a variant is the definition below it with one       *)
(* plausible mistake; PROJECT.json names the property that rules it out.   *)
(***************************************************************************)
EXTENDS Integers, Sequences, FiniteSets

CONSTANTS
    Hubs,          \* other nodes the election may make the hub
    Self,          \* this node
    Addresses,     \* addresses other hubs are reached at
    Null,          \* no hub, no address, no timer
    Clients,       \* other nodes that connect to this one while it is the hub
    BindAttempts,  \* HubTransportOptions.bindAttempts
    MaxElections,  \* bound: elections with a new outcome
    MaxDrops,      \* bound: connections to the hub that break
    MaxFaults      \* bound: clients and servers that fail to initialize

ASSUME NodesAssumption ==
    /\ Self \notin Hubs
    /\ Null \notin Hubs \cup {Self} \cup Addresses
ASSUME NumbersAssumption ==
    /\ BindAttempts \in Nat \ {0}
    /\ MaxElections \in Nat /\ MaxDrops \in Nat /\ MaxFaults \in Nat

VARIABLES
    manager,   \* the life of the NetworkManager
    topology,  \* NetworkManager.getTopology(): hubNodeId, hubAddress, myRole
    followed,  \* followedRole
    asked,     \* ghost: the last call the orchestrator made
    queue,     \* calls and attachments waiting in the promise queue
    job,       \* the transition that runs and the await it is in
    state,     \* the transport's state
    open,      \* servers that hold the hub port and sockets to a hub
    closing,   \* those whose teardown has begun
    served,    \* whose reads, pulls and channel the store and the agent use
    retry,     \* the address the retry timer is set for
    gaveUp,    \* ghost: the last try to serve as the hub failed for good
    joined,    \* the clients of the hub this node is
    made,      \* servers and sockets made so far
    budget     \* what is left of the bounds

vars == <<manager, topology, followed, asked, queue, job, state, open, closing,
          served, retry, gaveUp, joined, made, budget>>

orchestrator == <<manager, topology, followed>>

Nobody == 0

Standalone ==
    [role |-> "standalone", id |-> Nobody, address |-> Null, known |-> FALSE,
     attached |-> FALSE, connected |-> FALSE, trying |-> FALSE,
     handshake |-> "none", pendingReady |-> FALSE]

HubState(id, call) ==
    [role |-> "hub", id |-> id, address |-> Null, known |-> call.known,
     attached |-> FALSE, connected |-> FALSE, trying |-> FALSE,
     handshake |-> "none", pendingReady |-> FALSE]

(* A fresh client: the socket tries to connect, there is no Client yet. *)
ClientState(id, call) ==
    [role |-> "client", id |-> id, address |-> call.address,
     known |-> call.known, attached |-> FALSE, connected |-> FALSE,
     trying |-> TRUE, handshake |-> "none", pendingReady |-> FALSE]

Call(kind, address) ==
    [kind |-> kind, address |-> address, known |-> TRUE, of |-> Nobody]

Attachment(id) ==
    [kind |-> "attach", address |-> Null, known |-> TRUE, of |-> id]

(* becomeClient of the retry timer, which names no context. *)
Again(address) ==
    [kind |-> "client", address |-> address, known |-> FALSE, of |-> Nobody]

NoJob == [call |-> Call("standalone", Null), await |-> "nothing", attempt |-> 0]
Job(call, await) == [call |-> call, await |-> await, attempt |-> 0]

Out == [at |-> "out", of |-> Nobody]

Init ==
    /\ manager = "none"
    /\ topology = [hub |-> Null, address |-> Null, role |-> "unassigned"]
    /\ followed = "unassigned"
    /\ asked = Call("standalone", Null)
    /\ queue = <<>> /\ job = NoJob
    /\ state = Standalone
    /\ open = {} /\ closing = {}
    /\ served = Nobody
    /\ retry = Null
    /\ gaveUp = FALSE
    /\ joined = [c \in Clients |-> Out]
    /\ made = 0
    /\ budget = [elections |-> MaxElections, drops |-> MaxDrops,
                 faults |-> MaxFaults]

Spend(what) ==
    /\ budget[what] > 0
    /\ budget' = [budget EXCEPT ![what] = @ - 1]

(***************************************************************************)
(* The next transition starts in a microtask of the one before it.  Timers *)
(* and events of sockets and the manager are macrotasks: none comes in     *)
(* between, however long the queue is.                                     *)
(***************************************************************************)
MicrotasksDone == job # NoJob \/ queue = <<>>

-----------------------------------------------------------------------------
(* The orchestrator: the manager's events become calls of the transport *)

Ask(call) == asked' = call /\ queue' = Append(queue, call)

(* start, up to its await; subscribe comes before it. *)
Start ==
    /\ MicrotasksDone
    /\ manager = "none" /\ manager' = "starting"
    /\ UNCHANGED <<topology, followed, asked, queue, job, state, open, closing,
                   served, retry, gaveUp, joined, made, budget>>

Started ==
    /\ MicrotasksDone
    /\ manager = "starting" /\ manager' = "started"
    /\ UNCHANGED <<topology, followed, asked, queue, job, state, open, closing,
                   served, retry, gaveUp, joined, made, budget>>

(* followRole: a client role without an address calls nothing. *)
FollowRole(t) ==
    /\ followed' = t.role
    /\ CASE t.role = "hub" -> Ask(Call("hub", Null))
         [] t.role = "client" /\ t.address # Null ->
                Ask(Call("client", t.address))
         [] t.role = "client" /\ t.address = Null -> UNCHANGED <<asked, queue>>
         [] t.role = "unassigned" -> Ask(Call("standalone", Null))

RoleOf(hub) ==
    CASE hub = Null -> "unassigned"
      [] hub = Self -> "hub"
      [] OTHER -> "client"

(* The manager settles on a hub and emits hub-changed, role-changed and     *)
(* topology-changed, in this order and each only if there is a change.  The *)
(* listener of the first follows if the client role stays, that of the      *)
(* second always, that of the third never.                                  *)
Elect(hub, address) ==
    LET t == [hub |-> hub, address |-> address, role |-> RoleOf(hub)]
        onHubChanged == /\ t.hub # topology.hub
                        /\ t.role = "client" /\ followed = "client"
        onRoleChanged == t.role # topology.role
    IN  /\ MicrotasksDone
        /\ manager \in {"starting", "started", "stopping"}
        /\ t # topology /\ topology' = t
        /\ Spend("elections")
        /\ IF onHubChanged \/ onRoleChanged
           THEN FollowRole(t)
           ELSE UNCHANGED <<followed, asked, queue>>
        /\ UNCHANGED <<manager, job, state, open, closing, served, retry,
                       gaveUp, joined, made>>

(* stop, up to its await of the manager. *)
Stop ==
    /\ MicrotasksDone
    /\ manager = "started" /\ manager' = "stopping"
    /\ UNCHANGED <<topology, followed, asked, queue, job, state, open, closing,
                   served, retry, gaveUp, joined, made, budget>>

(* The manager stopped or failed to: the `finally` stops the transport. *)
StopReturns ==
    /\ MicrotasksDone
    /\ manager = "stopping" /\ manager' = "stopped"
    /\ Ask(Call("standalone", Null))
    /\ UNCHANGED <<topology, followed, job, state, open, closing, served, retry,
                   gaveUp, joined, made, budget>>

-----------------------------------------------------------------------------
(* The transitions of the transport *)

(* Variant: the retry timer outlives the role it was set in. *)
TearDownKeepsRetry ==
    /\ retry' = retry
    /\ state' = Standalone
    /\ served' = Nobody
    /\ closing' = IF state.role = "standalone" THEN {} ELSE {state.id}

(* Variant: a node without a role has a server to close as well. *)
TearDownOfNothing ==
    /\ retry' = Null
    /\ state' = Standalone
    /\ served' = Nobody
    /\ closing' = {state.id}

(* tearDown, up to its awaits: the role is given up and the store is routed *)
(* back before the server or the socket is closed.                          *)
TearDown ==
    /\ retry' = Null
    /\ state' = Standalone
    /\ served' = Nobody
    /\ closing' = IF state.role = "standalone" THEN {} ELSE {state.id}

KeepRole == UNCHANGED <<retry, state, served, closing>>

(* becomeHub: a node that is the hub keeps its server. *)
BecomeHub(call) ==
    /\ call.kind = "hub"
    /\ IF state.role = "hub"
       THEN KeepRole /\ UNCHANGED job
       ELSE TearDown /\ job' = Job(call, "teardown")
    /\ gaveUp' = FALSE

(* Variant: a client keeps its socket whichever address it is told. *)
BecomeClientOfAny(call) ==
    /\ call.kind = "client"
    /\ IF state.role = "client"
       THEN KeepRole /\ UNCHANGED job
       ELSE TearDown /\ job' = Job(call, "teardown")
    /\ UNCHANGED gaveUp

(* becomeClient: a client of this address keeps its socket. *)
BecomeClient(call) ==
    /\ call.kind = "client"
    /\ IF state.role = "client" /\ state.address = call.address
       THEN KeepRole /\ UNCHANGED job
       ELSE TearDown /\ job' = Job(call, "teardown")
    /\ UNCHANGED gaveUp

BecomeStandalone(call) ==
    /\ call.kind = "standalone"
    /\ TearDown /\ job' = Job(call, "teardown")
    /\ UNCHANGED gaveUp

(* attachClient, up to its awaits: only for the socket that is the state's. *)
AttachClient(call) ==
    /\ call.kind = "attach"
    /\ KeepRole
    /\ IF state.id # call.of \/ state.attached
       THEN UNCHANGED job
       ELSE job' = Job(call, "init")
    /\ UNCHANGED gaveUp

(* transition: the next in the queue runs when the one before it returned. *)
RunNext ==
    /\ job = NoJob /\ queue # <<>>
    /\ queue' = Tail(queue)
    /\ LET call == Head(queue)
       IN  \/ BecomeHub(call)
           \/ BecomeClient(call)
           \/ BecomeStandalone(call)
           \/ AttachClient(call)
    /\ UNCHANGED <<orchestrator, asked, open, joined, made, budget>>

(* The close of a server or a socket; a server drops its clients. *)
Closed(id) ==
    /\ id \in closing
    /\ closing' = closing \ {id}
    /\ open' = open \ {id}
    /\ joined' = [c \in Clients |->
                    IF joined[c].of = id THEN Out ELSE joined[c]]
    /\ UNCHANGED <<orchestrator, asked, queue, job, state, served, retry,
                   gaveUp, made, budget>>

(* Variant: the teardown of the old role is not awaited. *)
TornDownAtOnce(kind) ==
    job.await = "teardown" /\ job.call.kind = kind

(* `await this.tearDown()` returns to the transition. *)
TornDown(kind) ==
    job.await = "teardown" /\ job.call.kind = kind /\ closing = {}

BackAlone ==
    /\ TornDown("standalone") /\ job' = NoJob
    /\ UNCHANGED <<orchestrator, asked, queue, state, open, closing, served,
                   retry, gaveUp, joined, made, budget>>

(* startHub: the server is initialized, then the port is bound. *)
StartHub ==
    /\ TornDown("hub") /\ job' = Job(job.call, "listening")
    /\ UNCHANGED <<orchestrator, asked, queue, state, open, closing, served,
                   retry, gaveUp, joined, made, budget>>

(* startClient, up to its await: the state is set before the socket is up. *)
StartClient ==
    /\ TornDown("client")
    /\ made' = made + 1
    /\ state' = ClientState(made', job.call)
    /\ open' = open \cup {made'}
    /\ job' = Job(job.call, "connecting")
    /\ UNCHANGED <<orchestrator, asked, queue, closing, served, retry, gaveUp,
                   joined, budget>>
-----------------------------------------------------------------------------
(* The hub: startHub, listen, addClient *)

(* listen returned: the role, the routes and the channel change at once. *)
HubListens ==
    /\ job.await = "listening"
    /\ made' = made + 1
    /\ state' = HubState(made', job.call)
    /\ open' = open \cup {made'}
    /\ served' = made'
    /\ job' = NoJob
    /\ UNCHANGED <<orchestrator, asked, queue, closing, retry, gaveUp, joined,
                   budget>>

(* The port is busy; another try unless it was the last one. *)
BindFails ==
    /\ job.await = "listening"
    /\ IF job.attempt + 1 < BindAttempts
       THEN job' = [job EXCEPT !.attempt = @ + 1] /\ UNCHANGED gaveUp
       ELSE job' = NoJob /\ gaveUp' = TRUE
    /\ UNCHANGED <<orchestrator, asked, queue, state, open, closing, served,
                   retry, joined, made, budget>>

(* Server.init, createTables or the hub's channel fails before listen. *)
ServerFails ==
    /\ job.await = "listening" /\ job.attempt = 0
    /\ Spend("faults")
    /\ job' = NoJob /\ gaveUp' = TRUE
    /\ UNCHANGED <<orchestrator, asked, queue, state, open, closing, served,
                   retry, joined, made>>

Join(c, entry) ==
    /\ MicrotasksDone
    /\ joined' = [joined EXCEPT ![c] = entry]
    /\ UNCHANGED <<orchestrator, asked, queue, job, state, open, closing, served,
                   retry, gaveUp, made, budget>>

(* addClient, up to `await server.addSocket`.  A server that is not the    *)
(* state's any more sends the socket away, which changes nothing here.     *)
ClientConnects(c) ==
    /\ joined[c] = Out
    /\ state.role = "hub"
    /\ Join(c, [at |-> "adding", of |-> state.id])

ClientAdded(c) ==
    /\ joined[c].at = "adding"
    /\ Join(c, [joined[c] EXCEPT !.at = "asked"])

(* addSocket failed, or the client went away. *)
ClientGone(c) ==
    /\ joined[c] # Out
    /\ Join(c, Out)

(* Variant: whoever answers is attached to whatever hub this node is. *)
ClientReadyUnchecked(c) ==
    /\ joined[c].at = "asked"
    /\ Join(c, [joined[c] EXCEPT !.at = "attached"])

(* The client answered the ready handshake: it is attached to the channel  *)
(* if the server it was added to is still the state's.                     *)
ClientReady(c) ==
    /\ joined[c].at = "asked"
    /\ Join(c, [joined[c] EXCEPT
            !.at = IF state.role = "hub" /\ state.id = joined[c].of
                   THEN "attached" ELSE "unheard"])

(* The client did not answer within peerInitTimeoutMs; it stays added. *)
ClientSilent(c) ==
    /\ joined[c].at = "asked"
    /\ Join(c, [joined[c] EXCEPT !.at = "unheard"])
-----------------------------------------------------------------------------
(* The client: the listeners of startClient, attachClient, the retry *)

(* on connect: an attachment is queued unless there is a Client; the first *)
(* connection also ends the await of startClient.                          *)
Connect ==
    /\ MicrotasksDone
    /\ state.role = "client" /\ state.trying
    /\ state' = [state EXCEPT !.connected = TRUE, !.trying = FALSE,
                              !.handshake = "due"]
    /\ queue' = IF state.attached THEN queue
                ELSE Append(queue, Attachment(state.id))
    /\ job' = IF job.await = "connecting" THEN NoJob ELSE job
    /\ UNCHANGED <<orchestrator, asked, open, closing, served, retry, gaveUp,
                   joined, made, budget>>

(* startClient waits connectTimeoutMs; the socket keeps trying. *)
ConnectTimeout ==
    /\ job.await = "connecting" /\ job' = NoJob
    /\ UNCHANGED <<orchestrator, asked, queue, state, open, closing, served,
                   retry, gaveUp, joined, made, budget>>

(* on disconnect: the socket tries again, by itself or, when the hub asked *)
(* for the disconnect, because the handler calls connect().                *)
Disconnect ==
    /\ MicrotasksDone
    /\ state.connected
    /\ Spend("drops")
    /\ state' = [state EXCEPT !.connected = FALSE, !.trying = TRUE,
                              !.handshake = "none"]
    /\ UNCHANGED <<orchestrator, asked, queue, job, open, closing, served, retry,
                   gaveUp, joined, made>>

(* The hub's ready handshake, once per connection and once the bridges of  *)
(* the Client are on the socket: answered now or by attachClient.          *)
HubReady ==
    /\ MicrotasksDone
    /\ state.handshake = "due"
    /\ state.attached \/ job.await = "init"
    /\ state' = IF state.attached
                THEN [state EXCEPT !.handshake = "answered"]
                ELSE [state EXCEPT !.handshake = "held", !.pendingReady = TRUE]
    /\ UNCHANGED <<orchestrator, asked, queue, job, open, closing, served, retry,
                   gaveUp, joined, made, budget>>

(* Variant: a handshake that came before the Client is never answered. *)
AttachedForgettingReady ==
    /\ job.await = "init"
    /\ state' = [state EXCEPT !.attached = TRUE]
    /\ served' = state.id
    /\ job' = NoJob
    /\ UNCHANGED <<orchestrator, asked, queue, open, closing, retry, gaveUp,
                   joined, made, budget>>

(* attachClient succeeded: the routes, the channel, the held handshake. *)
Attached ==
    /\ job.await = "init"
    /\ state' = [state EXCEPT
            !.attached = TRUE, !.pendingReady = FALSE,
            !.handshake = IF @ = "held" THEN "answered" ELSE @]
    /\ served' = state.id
    /\ job' = NoJob
    /\ UNCHANGED <<orchestrator, asked, queue, open, closing, retry, gaveUp,
                   joined, made, budget>>

(* attachClient failed: `await client?.tearDown()`, the socket still lives. *)
AttachFails ==
    /\ job.await = "init"
    /\ Spend("faults")
    /\ job' = [job EXCEPT !.await = "dropping"]
    /\ UNCHANGED <<orchestrator, asked, queue, state, open, closing, served,
                   retry, gaveUp, joined, made>>

(* Then the socket goes, and its address is kept for the retry. *)
DropClient ==
    /\ job.await = "dropping"
    /\ TearDown
    /\ job' = Job([job.call EXCEPT !.address = state.address], "teardown")
    /\ UNCHANGED <<orchestrator, asked, queue, open, gaveUp, joined, made,
                   budget>>

(* Variant: the address is read from the state the teardown left. *)
SetRetryOfNewState ==
    /\ TornDown("attach") /\ job' = NoJob
    /\ retry' = state.address
    /\ UNCHANGED <<orchestrator, asked, queue, state, open, closing, served,
                   gaveUp, joined, made, budget>>

SetRetry ==
    /\ TornDown("attach") /\ job' = NoJob
    /\ retry' = job.call.address
    /\ UNCHANGED <<orchestrator, asked, queue, state, open, closing, served,
                   gaveUp, joined, made, budget>>

RetryFires ==
    /\ MicrotasksDone
    /\ retry # Null /\ retry' = Null
    /\ queue' = Append(queue, Again(retry))
    /\ UNCHANGED <<orchestrator, asked, job, state, open, closing, served,
                   gaveUp, joined, made, budget>>
-----------------------------------------------------------------------------
Outcomes == {<<Null, Null>>, <<Self, Null>>} \cup Hubs \X (Addresses \cup {Null})

Manager ==
    \/ Start \/ Started \/ Stop \/ StopReturns
    \/ \E o \in Outcomes : Elect(o[1], o[2])

Transition ==
    \/ RunNext
    \/ \E id \in closing : Closed(id)
    \/ BackAlone \/ StartHub \/ StartClient
    \/ HubListens \/ BindFails \/ ServerFails
    \/ Attached \/ AttachFails \/ DropClient \/ SetRetry

Sockets ==
    \/ Connect \/ ConnectTimeout \/ Disconnect \/ HubReady \/ RetryFires
    \/ \E c \in Clients :
        \/ ClientConnects(c) \/ ClientAdded(c) \/ ClientGone(c)
        \/ ClientReady(c) \/ ClientSilent(c)

Next == Manager \/ Transition \/ Sockets

(***************************************************************************)
(* Fairness: an await of the transport returns (every one is a local call, *)
(* a timer or bounded by one), a timer fires, socket.io keeps trying and   *)
(* the hub that was elected can be reached and runs its handshake.         *)
(***************************************************************************)
Fairness ==
    /\ WF_vars(Transition)
    /\ WF_vars(Connect) /\ WF_vars(ConnectTimeout) /\ WF_vars(HubReady)
    /\ WF_vars(RetryFires)

Spec == Init /\ [][Next]_vars /\ Fairness

-----------------------------------------------------------------------------
(* Properties *)

Settled == job = NoJob /\ queue = <<>>

Kinds == {"hub", "client", "standalone", "attach"}
Awaits == {"nothing", "teardown", "listening", "connecting", "init", "dropping"}
CallType == [kind : Kinds, address : Addresses \cup {Null}, known : BOOLEAN,
             of : Nat]
JobType == [call : CallType, await : Awaits, attempt : Nat]
StateType ==
    [role : {"standalone", "hub", "client"}, id : Nat,
     address : Addresses \cup {Null}, known : BOOLEAN, attached : BOOLEAN,
     connected : BOOLEAN, trying : BOOLEAN,
     handshake : {"none", "due", "held", "answered"}, pendingReady : BOOLEAN]
JoinedType ==
    [at : {"out", "adding", "asked", "attached", "unheard"}, of : Nat]

(* Type correctness of the state of orchestrator and transport. *)
TypeOK ==
    /\ manager \in {"none", "starting", "started", "stopping", "stopped"}
    /\ topology \in [hub : Hubs \cup {Self, Null},
                     address : Addresses \cup {Null},
                     role : {"unassigned", "hub", "client"}]
    /\ followed \in {"unassigned", "hub", "client"}
    /\ asked \in CallType
    /\ queue \in Seq(CallType)
    /\ job \in JobType
    /\ state \in StateType
    /\ open \subseteq Nat /\ closing \subseteq open
    /\ served \in Nat /\ made \in Nat
    /\ retry \in Addresses \cup {Null}
    /\ gaveUp \in BOOLEAN
    /\ joined \in [Clients -> JoinedType]
    /\ budget \in [elections : Nat, drops : Nat, faults : Nat]

(* The stores are never handed to two roles at once (hubTransport.ts       *)
(* 225-227): at most one server or socket is open, through every teardown  *)
(* and start, and whatever the store is routed through is the one in use.  *)
OneRoleAtATime ==
    /\ \A i, j \in open : i = j
    /\ served # Nobody => served = state.id /\ served \in open

(* However fast the role flaps, the transport ends in the state of the     *)
(* last call (hubTransport.ts 225-227): serving as the hub unless the port *)
(* could not be bound, client of the last address or about to try it       *)
(* again, or alone with no retry pending.                                  *)
EndsInLastCall ==
    Settled =>
        /\ asked.kind = "hub" =>
              state.role = "hub" \/ (gaveUp /\ state = Standalone)
        /\ asked.kind = "client" =>
              \/ state.role = "client" /\ state.address = asked.address
              \/ state = Standalone /\ retry = asked.address
        /\ asked.kind = "standalone" => state = Standalone

(* Once stop has run, nothing brings a role back (roleOrchestrator.ts      *)
(* 249-253): no timer is left and the port and the socket are released.    *)
StopIsFinal ==
    manager = "stopped" /\ Settled =>
        state = Standalone /\ open = {} /\ served = Nobody /\ retry = Null

(* A client that answered the handshake is attached to the channel of the  *)
(* server it is connected to, and only while that channel is in use: the   *)
(* hub may be torn down, its server not yet closed, while the answer is    *)
(* under way (addClient, hubTransport.ts 585-598).                         *)
AttachesToItsHub ==
    [][\A c \in Clients :
        joined[c].at # "attached" /\ joined'[c].at = "attached"
            => served = joined'[c].of]_vars

(* A call takes effect: a client of the last address asked for is attached *)
(* and its channel published, whatever broke on the way, and a hub serves  *)
(* or has reported that it cannot.                                         *)
LastCallTakesEffect ==
    /\ \A a \in Addresses :
        asked = Call("client", a) ~>
            \/ asked # Call("client", a)
            \/ state.address = a /\ state.attached /\ served = state.id
    /\ asked.kind = "hub" ~> asked.kind # "hub" \/ served # Nobody \/ gaveUp

(* Each connection of a client is followed by a catch-up with the hub      *)
(* (hubTransport.ts 664-668), also when the hub asked before the Client    *)
(* was there, unless the connection breaks first.                          *)
HandshakeAnswered ==
    state.connected ~> ~state.connected \/ state.handshake = "answered"

(* The own node id is known to whatever serves the store, in every role    *)
(* the orchestrator asks for (hubTransport.ts 57-60: null when unknown,    *)
(* "which only the tests do").                                             *)
OwnIdKnown == served # Nobody => state.known
==============================================================================
