# A formal model of rljson-tryout

TLA+ modules, TLC runs and machine-checked proofs for this repository: a small
network of nodes that keep a pet shop in their own stores and synchronise it,
one change set at a time, through an elected hub, and a web app that shows what
one of them holds.
Paths below are relative to the repository; `network/`, `store/`, `events/`
and `routes/` stand for directories of `packages/node-service/src`, `domain/`
for `packages/domain/src` and `public/` for `packages/web-app/public`.

## The system

| part | state it keeps | operations | spoken to by |
|---|---|---|---|
| **pet shop store** `store/petShopStore.ts` | rows, history rows and change sets in an `Io` (memory or SQLite), a chain of pending writes, the peers to pull from | issue an invoice, edit an animal, upload an image, seed; `holdsChangeSet`, `heldChangeSets`, `pullRow`, `writeReceivedRows`, `recordReceivedChangeSet` | routes, sync agent, hub transport |
| **sync agent** `network/syncAgent.ts` | `pending`, `queue`, `active`, counters, the catch-up, the current channel, retry timers | `start`, `stop`, announcements (`receive`), comparisons (`catchUpWith`, `compareWith`), pulls (`drain`, `pull`), `retryPending` | store (a change set was written), transport (a channel, a peer attached) |
| **announcement channel** `network/announcementChannel.ts` | listeners, who announced a hash | `send`, `listen`, `peerAttached` | agent, transport |
| **hub transport** `network/hubTransport.ts` | the role with its sockets, a queue of transitions, the channel, a reconnect timer | `becomeHub`, `becomeClient`, `becomeStandalone`, socket events, the ready handshake | role orchestrator, `@rljson/server` |
| **role orchestrator** `network/roleOrchestrator.ts` | the discovery manager, peers seen, the role followed | `start`, `stop`, discovery events, `excludeFromElection` | `@rljson/network`, topology repair |
| **topology repair** `network/topologyRepair.ts` | conditions observed, repairs done | `check` every second | orchestrator, node directory |
| **node directory** `network/nodeDirectory.ts` | the last status of every node, a polling timer | `start`, `stop`, poll rounds | repair, routes |
| **events** `events/*.ts` | open streams, what changed last | publish, subscribe, drop a slow reader | routes, agent, orchestrator |
| **read cascade** `store/ioSwitch.ts`, `store/borrowedIo.ts` | local store or cascade | forward reads and writes | store |
| **domain** `packages/domain/src` | none | versions of entities, invoice numbers, tables, seed, generator, images | store |
| **routes, configuration, process** `routes/`, `server.ts`, `configuration.ts`, `main.ts` | none beyond the parts above | HTTP, environment, start and shutdown order | the browser |
| **web app** `packages/web-app/public` | what is on the screen, an event stream | views, reconnecting stream, transfer badges | routes |
| **infrastructure** `infra`, `deploy`, `.github` | none | deployment | people |

Everything in one node is one Node.js process: code runs to the next `await`
without interruption, and what is hard lies between the awaits.

* *Concurrency.* Announcements, comparisons with several peers, retry rounds
  and the ends of pulls all feed one queue and one catch-up record.
* *Failure.* Reads from peers time out, the node's own store may reject (a
  store closing under a shutdown), sockets close, processes end between the
  rows of a change set and its record, a hub may lose its store entirely.
* *Ordering.* Announcements are fire and forget and name a hash only; lists
  and pulls are answered later than they were asked for, by a peer that has
  moved on.
* *Timeouts and retries.* A pull that failed is retried until `maxAttempts`, a
  list that could not be read likewise, unless the role changed meanwhile.
  Polls of other nodes are answered late and used later still; a browser's
  stream breaks and comes back without what was sent in between.

What makes the parts correct: the agent pulls every change set it hears of
once, with bounded effort, and its figures under `/status` add up; a node holds
a change set only when it has all of it; the hub learns what its clients hold
and a client what its hub holds; the transport ends in the role of the last
topology; a peer is excluded from the election exactly while it should be;
invoice numbers are unique per node; every reader sees one current version of
an entity, a conflict only where two nodes really wrote at once, and the same
traits whichever way they are stored; a page shows the answer to what was asked
last and follows its node again after anything that broke.

`PROJECT.json` lists the components, the hazards with the line where each one
bites, and the properties that would catch it.

## The modules

| module | what it is |
|---|---|
| `SyncAgent` | one node's `SyncAgent`, in full detail of control |
| `MCSyncAgent` | model values and symmetry for the runs of `SyncAgent` |
| `SyncAgentProofs` | theorems about `SyncAgent`: the queue, the slots, the map and the counters |
| `SyncAgentCatchUpProofs` | more of them: wasted slots, repeated receipts, the catch-up, retries, an agent that stopped |
| `ChangeSetReplication` | what synchronisation promises: written once, taken over whole, kept until the store is lost |
| `SyncNetwork` | a hub and its clients: agents, channels, handshake, stores, crashes |
| `MCSyncNetwork` | a hub and two clients for the runs of `SyncNetwork` |
| `SyncNetworkProofs` | theorems about `SyncNetwork`: the refinement of `ChangeSetReplication`, and what the hub holds at rest |
| `Roles` | one node's role: `RoleOrchestrator` and `HubTransport` together; its runs need no `MC` module |
| `RolesProofs` | theorems about `Roles`: servers, sockets and what they serve, the last call, stop |
| `NodeDirectory` | the rounds of polls of one node and what it keeps of the answers |
| `TopologyRepair` | one node's repair of its election on top of `NodeDirectory`, with a clock; its run needs no `MC` module |
| `TopologyRepairProofs` | theorems about `TopologyRepair` |
| `EntityVersions` | which version of an entity is the current one, which are in conflict |
| `PetShopTables` | rows and what they refer to, both animal-trait relations, invoice numbers, the seed |
| `PetShopStore` | the stores of several nodes, row by row: calls of the API, seed, crashes, pulls, caching reads |
| `MCPetShopStore` | two nodes in the two relation modes for the run of `PetShopStore` |
| `PetShopStoreProofs` | theorems about `PetShopStore`: its tables and plans, forks, images, both relations |
| `PetShopConflictProofs` | more of them: where versions come from, why a conflict is a fork |
| `EventStream` | a node's live events, the hub's sink of one page, the stream in the browser |
| `WebApp` | one page of the web app on top of `EventStream` |
| `MCWebApp` | the starts of the run of `WebApp` |
| `WebAppProofs` | theorems about `WebApp` |

`SyncAgent` sees a role as a channel that is published or taken away, and
`Roles` shows what does that. `SyncNetwork` composes the agents with what
carries and serves their messages; `ChangeSetReplication` is its abstract
specification, reached by `INSTANCE ChangeSetReplication WITH holds <- held`.
`PetShopStore` opens what `SyncAgent` and `SyncNetwork` take as one step: how a
change set is written and how a pull writes it. A
definition the comments call a *variant* is the definition below it with one
plausible mistake; each property is shown to rule one of them out
(`PROJECT.json`, "mutants").

### `SyncAgent` and the code

One action is one synchronous stretch of the agent: from an event or the end of
an await to the next await.

| state | code |
|---|---|
| `lifecycle` | `running`; `"crashed"` is a process ended by an unhandled rejection |
| `channel`, `published` | `channel`; channels are numbered as the transport publishes them, which is how `this.channel !== channel` is told |
| `pending`, `attempts` | the keys of the map `pending` and `attempts` of its entries |
| `queue` | `queue` |
| `pull` | `active` is where it is not `"idle"`; the value is the await the pull is at: `"checking"` `holdsChangeSet`, `"fetching"` up to `writeReceivedRows`, `"written"` up to `recordReceivedChangeSet`, `"recorded"` the return to `pull`, `"settling"` the `finally` callback of `drain` |
| `held` | what `holdsChangeSet` answers true for |
| `announced`, `counters` | `announcedHashes` (its size is `counters.announced`) and the other counters |
| `catchUp` | `catchUp`; `open` is `completedAt === null` |
| `task` | the runs of `catchUpWith`: waiting for a list, for the retry timer, for the own list, comparing, announcing |
| `created`, `budget` | not in the code: entries ever made, and what is left of the bounds |

`Drain` starts pulls while a slot is free and runs the first synchronous piece
of each, as the call of `pull` does. `MicrotasksDone` orders timers and socket
events after the `finally` callback of a pull that returned, as the event loop
does; the continuation of a store read may run in between. A pull that already
left the map but is still in `active` is the one moment in which an
announcement makes an entry without queueing it; only the retry round gets it
going, which is why `PendingSettles` needs the fairness of `RetryPending`.

Abstracted: the rows of a change set, what they depend on and their blobs
either arrive or the pull fails (rejected for good, or to be tried again); the
list of transfers, its listeners, node ids, clock values and log lines are left
out. What other nodes announce and list is any set of change sets that exist.

### `SyncNetwork` and the code

The agent is reduced to its effect: whatever is `pending` is fetched from a node
that can be reached and recorded, in any order. A pull that fails for the last
of `maxAttempts` times is given up and its entry dropped, as is a list that no
try could read. The slots and the order of the pulls are left to `SyncAgent`.

| state | code |
|---|---|
| `up` | whether the process runs; `Crash` and `Restart` end and start it, `Persistent` nodes (`STORAGE=sqlite`) keep `held`, `rows` and `cached` |
| `link` | a client's connection: `"down"`, `"joined"` (in the hub's server, `Client` not built yet), `"answered"` (`attachClient` ran and the ready handshake is answered), `"ready"` (the hub got the answer) |
| `held`, `rows` | per node, change sets with their history row, and with all their rows |
| `cached` | what the hub's cascade cached while it served one client from another |
| `pending`, `attempts`, `fetched` | per agent, the entries of `pending`, their `attempts` that failed, and pulls past `writeReceivedRows` |
| `gaveUp` | what an agent dropped and `/status` counts as failed, until it hears of it again |
| `heard` | the references a node's connector has received in this process |
| `sent`, `relayed`, `latest` | announcements on their way to and from the hub's server and its latest reference, the only one its bootstrap names |
| `asked`, `delayed`, `answered` | comparisons: the list is asked for, waits for its retry timer, or has arrived with what the peer held then |
| `tries` | per pair, the reads of the list that failed since it was asked for; at `MaxAttempts` also a list the hub never asks for, because the answer to its handshake was lost |

`@rljson/server` is modelled from how the code uses it and from what
`docs/findings/change-set-sync.md` records of it: a reference is relayed to the
clients connected at that moment, a repeat of the latest one is dropped, a
client that joins hears the latest one. A connector drops a reference it has
received before, over reconnections as well (`heard`): a change set the agent gave
up comes back by a comparison only, not by an announcement. A comparison
reads the own list and announces in one step: both stores answer in microtasks.
A connection that closes takes with it what was asked over it; connecting again
asks again. Roles are fixed here: elections and role changes are in `Roles`.

### `Roles` and the code

An action is an event of the manager, of a socket or of a timer, or what runs
between two awaits of the transition under way.

| state | code |
|---|---|
| `manager` | where the orchestrator's `manager` is between `start` and the end of `stop` |
| `topology`, `followed` | the manager's topology, `followedRole` |
| `asked` | not in the code: the last call of `becomeHub`, `becomeClient` or `becomeStandalone` by the orchestrator |
| `queue`, `job` | the promise chain `queue`: what waits in it, and the transition that runs with the await it is at |
| `state` | `state`, with the socket of a client: `connected`, whether it is `trying`, where the ready handshake of this connection is, `pendingReady` |
| `open`, `closing` | servers that hold the port and sockets that exist; those whose close was called and has not returned |
| `served` | the server or client whose routes the store uses and whose channel is published |
| `retry` | the retry timer and its address |
| `gaveUp` | not in the code: the last try to serve as the hub failed for good |
| `joined` | clients of this hub: being added, asked by the handshake, attached, unheard |
| `made`, `budget` | not in the code: the numbers given out, and what is left of the bounds |

A transition that returned starts the next one in a microtask, so no event
comes in between (`MicrotasksDone`). The manager emits `hub-changed`,
`role-changed` and `topology-changed` in this order, and the handlers of one
election run without an await, so `Elect` is one action. `TornDown` waits for
everything in `closing`, as `await this.tearDown()` does; `Closed` may come at
any time after it. A socket knows the number it was made with, which is what
`this.state !== state` compares.

Abstracted: the hub's own address, `lastError` and what `/status` shows; the
awaits before `listen` are one with it; a teardown whose close rejects; `stop`
called before `start` returned. An address the library finds out later for the
same hub is an election with that outcome.

### `NodeDirectory`, `TopologyRepair` and the code

Time is counted in ticks; `Tick` is blocked while a timer is due or a request
has reached its timeout, so timers fire on time and everything else may happen
at any moment in between.

| state | code |
|---|---|
| `polled` | `polled`: what each node answered last, and whether it answered the last poll |
| `asked`, `round`, `left` | the fetch to each node (the node reads its own status when it answers, the answer is used when it arrives), the round it belongs to, and the ticks to its timeout or to the next round |
| `conditions`, `repairedAt` | `conditions` (`firstObserved`) and `repairedAt`, as ages |
| `check` | the interval of `start` |
| `excluded` | what `excludeFromElection` set in the manager, as the time left |
| `table`, `hub`, `denied` | discovery: the start time its peer table holds, the hub it follows, and for how long that hub has had another role |
| `peer` | the peers: the start of their run, their role, whether they are up and, if not, for how long they have been silent |

Outside and free: peers go down, come up at any time with a later start and any
role, and change roles; discovery learns a peer with the start of its run while
it is up, never refreshes it and may forget it once it has been silent for the
broadcast timeout (`Silence`), as `docs/findings/network-discovery.md` describes
it.
Peers outside `Unsteady` only answer or fail, which holds a round up. Abstracted:
names, `lastSeen` and connected clients; the details that are logged. Left out: a
second `start` of the directory after `stop`, which `main.ts` never makes, and a
shutdown while `await directory.start()` is still under way.

### `EntityVersions`, `PetShopTables`, `PetShopStore` and the code

A row stands for its content hash, and a row that refers to others contains
them, so a reference can never name the wrong row but the row it names may be
missing. One action is one write to the store, or one read and what is cached of
it.

| state | code |
|---|---|
| `rows`, `history` | the component tables and their `InsertHistory` companions |
| `changeSets`, `held` | the `changeSets` table, and the change sets that have a history row |
| `blobs` | the blob store (in memory, also with `STORAGE=sqlite`) |
| `up` | the process: down, seeding, serving |
| `chain` | `pendingWrite`: the calls that wait, the running one first with the writes it has still to do (`todo`) and what it has written (`items`) |
| `pulls` | `pullChangeSet` past `writeReceivedRows`: what it has still to follow (`walk`), has met (`seen`) and pulled |
| `clock` | the clock of the timeIds a node gives out |
| `calls`, `faults`, `leftOut` | not in the code: bounds, and the nodes that ever did without a row a received row names |

`Begin` is the synchronous plan of a call at the head of `pendingWrite`: which
current rows it read and what it will write. The pairings of an edit are planned
after its animal row is written (`PlanPairings`). `PullDependency` and
`LeaveDependency` are `pullDependencies`, one reference at a time; rows are
followed before history rows and equal candidates in a fixed order, because the
order decides only which of them are left when the bound is reached.

Abstracted: persons and breeders (written by the seed only, referred to like
species and customers); columns that an edit copies; one species, one animal,
one customer, one year and one line per invoice; the rule of each form field (a
refused edit writes nothing and is not a step). What a peer has arrives in one
read or the read fails; announcements and lists are left to `SyncAgent`: a node
may pull whatever a running node holds.

### `EventStream`, `WebApp` and the code

| state | code |
|---|---|
| `node` | what `/status` would answer, as counters (`synced`, `topology`), what `TopologyWatch` reported last, the pulls under way |
| `hub` | the sink of this page in `EventHub`: whether it is open and what the browser has not read |
| `stream`, `online` | `LiveEvents`: its `EventSource`, its state, its reopen timer; `navigator.onLine` |
| `location`, `view` | the hash, and the element in `<main>`: what it was asked for (`selection`), where it is (`phase`), what its cards answer (`cards`), its refresh timer, its subscription |
| `requests`, `typed` | requests in flight with the view that made them, and search fields that wait for a pause in the typing |
| `leaked` | views that left the document and are subscribed for good |
| `feed` | `StatusFeed`: the cycle under way, whether another one is due, its two timers, what it showed last |
| `activity`, `dialog` | one side of one partner in `TransferActivity`; `TransferDialog` |

A person moves only along links that are on the screen (`content`, `frame`). An
answer is compared with what the code compares it with and nothing else: a view
with `isConnected` or a sequence, a search with the selection of the moment. The list
of animals has no cards while it searches; the picker of the invoice form keeps its
rows on screen until the latest search is answered
(`public/components/invoice-form.js:374`). The dialog lists what the node knew when
it answered; an event between that and the answer finds no list and is lost.
Abstracted: what the node answers, apart from the status; an event is the set of
tables it touches; two equal requests in flight are one. Left out: rendering,
forms and their validation, the diff of a change set, the outgoing side of
`TransferActivity`, the refresh of the chips, titles and focus.

## The runs

| run | instance | what it shows |
|---|---|---|
| `AgentPulls` | 1 own and 3 foreign change sets, 2 slots, 2 attempts, one channel, one peer, one announcement, one store fault | type invariant; no change set pulled twice at once (`NoDoublePull`) or without an entry (`QueuedIsPending`); slots never exceeded (`ConcurrencyBound`) nor wasted (`WorkConserving`); counters add up (`EveryEntryAccounted`), a change set is received once (`ReceivedOnce`), attempts are bounded (`ExhaustedIsGone`), a stopped agent starts nothing (`StoppedStartsNothing`) |
| `AgentCatchUp` | 2 foreign change sets, 1 slot, one comparison at a time, two attaches whose catch-ups overlap, one announcement, one channel that can go away, fair | the figures of the catch-up fit (`CatchUpFits`), what it waits for can still settle it (`OutstandingIsPending`), `RetriesAreCurrent`, `PendingSettles`, `CatchUpCompletes` |
| `AgentStuckCatchUp` | one own, two foreign change sets, one fault | **violated**: `OpenCatchUpHasWork` |
| `NetworkRefinement` | hub in memory, two SQLite clients, one change set, two attempts, two faults | type invariant, `HeldHasRows`, the hub holds at rest what every client that keeps its store wrote or shows it as failed, unless neither end could read the list of the other (`AtRestHubHoldsDurable`), `ImplementsReplication` |
| `NetworkLiveness` | the same with one fault, fair | `HubLearns`, `AttachedClientCatchesUp`, and no entry waits for ever, nor is a change set a node heard of lost without being shown as failed (`HeardIsSettled`) |
| `NetworkLateJoin` | hub and two clients, all SQLite, two change sets, one attempt, no fault | **violated**: `AtRestAllAgree` |
| `NetworkHubLoss` | hub in memory, two SQLite clients, one change set of the hub, one fault | **violated**: `AtRestHubHoldsAll` |
| `RolesFollow` | one node, two other hubs, two addresses, one client of its own, three elections, two bind attempts, one lost connection, two failed initializations, fair | type invariant; one server or socket at a time (`OneRoleAtATime`); the transport ends in the last call (`EndsInLastCall`, `LastCallTakesEffect`); `StopIsFinal`; `AttachesToItsHub`; `HandshakeAnswered` |
| `RolesOwnId` | the same | **violated**: `OwnIdKnown` |
| `RepairExclusions` | two peers of which one restarts or changes its role once; a tick is a second: polls every 3 with a timeout of 2, checks every 1, restart grace 5, denial grace 19, discovery forgets after a silence of 8 and heals in 9, repairs every 8, exclusion for 12 | type invariant; nobody is excluded for a restart that discovery knows of (`OnlyStaleExcluded`) nor for a denial that heals by itself (`OnlyLastingDenialExcluded`); no gap while a condition lasts (`ExcludedWhileObserved`) |
| `StoreWrites` | two nodes, one with junction rows and one with multi-references, one entity of each kind, two edits, an upload and an invoice to choose calls from; both seeded with two calls and a fault, or one seeding itself beside the other with one call or one fault; a dependency bound of one and of two, two pulls at once | type invariant; a node's own writes never fork (`OwnWritesNeverFork`); a conflict is one that two nodes made (`ConflictsAreReal`); both relations answer alike for what is held (`HeldModesAgree`); an own version is written after its image (`ImageBeforeVersion`) |
| `PageFollows` | one page, nine starts over all of its views, one unread event, two filters, two texts, two pages of animals, and up to two changes of the node, a heartbeat, a break, a failed request and two moves of the person, fair | type invariant, with a stream that comes back and a feed that polls on; cards answer what is asked (`ShownIsAsked`); the status shown catches up (`StatusCatchesUp`); no deadlock |

Why the bounds are enough. The agent treats hashes alike, so three change sets
with two slots already have one pulled, one being pulled and one waiting, and
four show the queue behind full slots. Two attempts show the first, a repeated
and the last one. One announcement against one list and any number of retry
rounds gives a hash three ways into the queue. Two attaches give two lists that
share a change set, the second while the first is still being caught up with, and
a channel that goes away under a run of a comparison; two comparisons at once and
a second channel are left to the theorems. In the network one change set
is written, lost with the hub's store, and brought back by a client while the
other is at any point of joining; two faults allow a crash during the recovery
from a lost connection or answer. Two attempts are a failed pull that is tried
again and one that is given up, and so with lists; a pull also fails without a fault
while no node that has the rows can be reached. More change sets matter only to the
reference the bootstrap names, which is what `NetworkLateJoin` adds. Three
elections take a node through every pair of roles and back to the first, with
calls queued behind a teardown; one lost connection is one before or after the
`Client` exists; two failures let the retry fail as well, or a hub follow a
client that failed. Unbounded are retry rounds, reconnections and restarts.
Bounds are the constants `MaxChannels`, `MaxAttached`, `MaxHeard`, `MaxFaults`,
`MaxAttempts`, `MaxElections`, `MaxDrops` and `Tasks`, `MaxTroubles`, `Unsteady`,
the numbers in `Starts`, and in `PetShopStore` and `WebApp` the sets of calls,
filters and texts.

`RepairExclusions` keeps the intervals and the graces of the code, the timeout of
1.5 s rounded up to two ticks, except for the long ones, which are scaled:
discovery forgets after 8 ticks, just above the 7 an answer can be kept (15 s
against 6 s in the code), the denial grace still exceeds the healing time by ten
seconds, and the exclusion outlasts the repair interval by less than in the code,
which is stricter for `ExcludedWhileObserved`. One trouble is enough for a condition
to start and to end, since the state before it is any that the free discovery
allows; a poll held up by a second peer makes an answer as old as it can be.
In `StoreWrites` two calls are two edits on
one node or one on each, two nodes are a writer and one that follows, and a third
would only add a second source for a row; one fault is a crash between any two
writes, an answer that comes too late, or a crash in the middle of a seed. Node 1
reaches its dependency bound of one, node 2 follows two references in one pull. In `PageFollows` an unread bound of one
lets the hub drop the page between two events; two texts, two filters and two
pages make an answer to an earlier search, to another filter and to a shorter
list; each start gives its budget to what its view reacts to.

Deadlock is not checked except in `PageFollows`: an agent that stopped, a network
at rest, a node in its role and a store with nothing to write may stay as they
are. In `TopologyRepair` time stops only if somebody does not act when it is due, and
the node may be stopped for good. A page always has a timer to come.

### Fairness

`SyncAgent`: weak fairness of each pull's next step, each comparison's next step
and the retry round. Reads from peers run under a deadline (`within`), the
store's own reads return, and `retryPending` is on an interval. Nothing makes
announcements, peers, role changes or own writes happen. `CatchUpCompletes` is
checked without faults of the node's own store; `AgentStuckCatchUp` shows what one
does to it.

`SyncNetwork`: weak fairness of the disjunction `Progress` of deliveries,
answers, pulls, reconnections (socket.io reconnects on its own, and after a
disconnect by the server because the code calls `connect`), retry timers and
restarts (a restart policy is assumed). Faults and writes are not fair and
bounded, so only finitely many steps separate two of them and the disjunction
is as good as fairness of each step. `HubLearns` and `AttachedClientCatchesUp` are
excused when the connection is lost, when no try could read the list (`Uncompared`:
neither end's), and by a change set that is given up. `HeardIsSettled` is excused by
nothing but giving up.

`Roles`: weak fairness of `Transition`, of `Connect`, `ConnectTimeout` and
`HubReady`, and of `RetryFires`. Every await of a transition is a local call, a
timer or bounded by one; socket.io keeps trying; the hub that was elected can be
reached and runs its handshake, which is an assumption on the network. Elections,
lost connections and failures are not fair and bounded. `LastCallTakesEffect`
and `HandshakeAnswered` are excused by the next call and the next lost
connection.

`WebApp`: weak fairness of `Poll`, `EventRefresh`, `StatusArrives` and of
`StatusIsRead` or `StatusFails`: the timers of the status feed fire, and its
requests end one way or the other. `fetchJson` sets no timeout of its own
(`public/api.js:47`), so that is an assumption on the browser and the network: a
request that hangs for ever holds up its cycle. Nothing is assumed of the stream, of the
person or of the node: `StatusCatchesUp` speaks only of runs in which the node
can be reached for good, and holds without a single event.

`TopologyRepair` and `PetShopStore` have no liveness properties. The former has
its timers in the guard of `Tick`.

## What the runs found

* `NetworkLateJoin`. A received change set is never announced again
  (`store/petShopStore.ts:2968`), lists contain only what is held, and a joining
  client hears only the latest reference. A client that joins while the hub is
  still pulling `x` gets a list without `x`, hears of `y` only, and stays
  without `x` when everything has come to rest, with no fault at all and no pull
  given up. The README
  of the repository (line 39) promises that a node that joins late "holds
  everything the others wrote while it was away within moments of
  reconnecting". The next connection repairs it. What does hold is stated by
  `AtRestHubHoldsDurable` and `AttachedClientCatchesUp`.
* `NetworkHubLoss`. A client that pulls a change set has its rows before it has its
  record, and in between waits for dependencies and blobs, up to 15 s
  (`network/syncAgent.ts:938` to 941). When the hub that wrote it restarts without
  its store in that time, the client is back and both sides have compared before
  the record exists; nothing announces it afterwards, and the hub stays without a
  change set a client holds, where the README (line 39) says that "a hub that
  restarts learns what its clients hold". The next connection repairs it. The
  attempt to prove `AtRestHubHoldsAll` ran into it; `AtRestHubHoldsDurable` is what
  is left and is proved: nothing is missing at the hub that its author keeps.
* `AgentStuckCatchUp`. A rejected `localChangeSet` between `beginCatchUp` and
  `settleCatchUp` (`network/syncAgent.ts:699`, caught at 658) leaves the
  catch-up open with nothing outstanding: `lastCompletedAt` stays `null` until
  another comparison ends, where the comment (lines 103 to 104) says `null`
  means the catch-up is still going on.
* `RolesOwnId`. The timer that follows a failed initialization calls
  `becomeClient` with the address only (`network/hubTransport.ts:751`). The next
  client runs without the node ids, announces under a generated identity and
  answers the handshake without its id until the hub or the role changes, where
  the comment on `RoleContext` (lines 57 to 60) says that an id is `null` "when
  unknown, which only the tests do".
* `network/syncAgent.ts:869` reads the store outside the `try` of a pull nobody
  awaits; a rejection there ends the process (action `CheckFails`). No text of
  the repository says otherwise, so this is a remark and not a finding.

`RepairExclusions`, `StoreWrites` and `PageFollows` pass. These remarks say where
their properties end, and why:

* *Restarts within seconds.* A peer that is back at once keeps its entry in the
  peer table with the old start: that is a stale entry and the repair is for it.
  `OnlyStaleExcluded` is about the others and rests on the timeouts of discovery: what
  was kept of a peer's last answer may be six seconds old (a poll interval, a
  timeout and a round held up by another node) while the grace period is five, so
  a peer that could be forgotten and learned again within seconds would be excluded
  although discovery knows its new start. It cannot, because discovery forgets only
  after its broadcast timeout of 15 s (`SilenceAssumption`).
* *A hub that flips its role.* `denied` in the property counts how long the hub
  followed has had another role; the repair sees samples, one per poll. A hub that
  were the hub again between any two polls, for twenty seconds on end, would be
  excluded although no denial lasted. `OnlyLastingDenialExcluded` holds for the
  changes of a role the run allows and is not a theorem for any number of them.
* *Between an animal and its pairings.* An edit writes the animal and its
  history row before its pairings, one by one. Until the last one is written, and
  for versions that were pulled only because another one refers to them, the
  junction relation answers with fewer traits than the multi-reference one, where
  `store/traitRelation.ts:10` asks for identical answers. `HeldModesAgree` is therefore
  about change sets the store holds. After a crash in the middle of an edit, the
  next edit in junction mode keeps the traits of the pairings that were
  written.
* *Conflicts nobody made.* A node whose seed was interrupted does not seed again;
  its next edit begins an entity that elsewhere has a predecessor, and every node
  sees a conflict. A pull that leaves a dependency out (a peer that fails, the
  bound) shows one as well until the predecessor arrives. `leftOut` excuses
  exactly these. With predecessors missing, depth comes before `timeId` and the
  current version is not "the tip with the newest timeId" of
  `domain/entityVersions.ts:56`.
* *Invoice numbers of two nodes.* Two nodes issue the same number on one day
  before they have synchronised (`docs/findings/change-sets.md:151`); for the same
  customer the invoice rows are equal and the lines of both belong to it. Rows of
  invoices that were only cached, without a history row, count for the next
  number.
* *Views that left the document.* `LiveContent.show` and the first load of the
  animals list subscribe after their answer, also when the view was replaced
  meanwhile (`leaked`): it refetches on every event for as long as the page is open.
  A late answer to a save sets the hash wherever the person went, and a search
  typed just before leaving rewrites the hash of the next page.
* *Refreshes.* Two overlapping refreshes of `LiveContent` may come back in the
  wrong order, and one that fails is not repeated, so a view stays behind until
  the next event; `public/live-content.js:11` and `public/components/animals-list.js:543` say "at worst
  a moment old". A refresh of the list is dropped when a page was added
  meanwhile; pages loaded around a change of the list can repeat or skip a card.
  Even without a change they can: a refresh that is answered while the first page
  of a search is under way shows as many cards as there were before, "Load more"
  asks for what follows these (`public/components/animals-list.js:679`), the first
  page takes their place, and what was asked for is appended to it. The attempt to
  prove that no more pages are shown than the list has ran into it with three
  pages; `TypeOK` does not bound them.
  No property asks for more than what is stated: `ShownIsAsked` is about the
  question, not about the age of the answer.
* *Badges and dialogs.* A transfer badge stays active when the event of its end is
  lost with the connection; the dialog misses an event between the read of its
  list and the answer.

## What is proved

All proofs are checked by TLAPS for every value of the constants, from the
assumptions in the modules, which TLC evaluates in the runs:

* `SyncAgent`: `Local` and `Remote` are disjoint and finite, `Concurrency` and
  `MaxAttempts` are positive, the bounds are naturals. `Tasks` may be infinite.
* `SyncNetwork`: the hub is not a client, `Persistent` is a set of nodes, every
  change set has an author, there is at least one attempt. `Clients` and `ChangeSets`
  may be infinite.
* `Roles`: any nodes, addresses and bounds.
* `TopologyRepair`: the intervals are positive. `SilenceAssumption`: discovery keeps a
  silent peer longer (15 s) than a poll interval and two timeouts (6 s), which is
  how long an answer of it can be kept. `IntervalsAssumption`: graces and the repair
  interval are whole numbers of checks (5 s, 30 s and 60 s against 1 s) and an
  exclusion (90 s) outlasts the repair interval; all of them are the defaults of
  `TopologyRepairOptions` and `NodeDirectoryOptions`, which `main.ts` leaves as they
  are.
* `PetShopStore`: nodes are numbered from 1, so the unique part of a timeId tells
  them from the seed, and the seed has finitely many traits (`TraitAssumption`). The
  calls may be infinitely many, but each is an edit, an upload or an invoice.
* `WebApp`: there is the filter that selects nothing and the empty text, a list has a
  page, and the starts name pages and tables.

`SyncAgentProofs`. `TypeCorrect`, `OnePullPerChangeSet`, `QueueHasEntries`,
`ConcurrencyBounded`, `AttemptsBounded` and `EntriesAccounted` follow from one
inductive invariant `Inv`. None of them is inductive alone. Whether a slot may
be taken is decided in `drain` from the queue and the pulls in flight, so the core
is `Drainable`: a queue without repetitions, disjoint from the pulls in flight,
of which there are at most `Concurrency`. Lemmas show that what `drain` takes
from the front and what `enqueue` appends keep it (`PrefixSize`,
`RestOfDistinct`, `ConcatDistinct` and the lemmas on `Drain`), and every action
that touches the queue is reduced to them. To count entries, `Inv` further
relates the phase of a pull to the map (`EntriesAgree`): the pull of an entry
that is being fetched is the only one that can remove it, so every removal is
of an entry that is there and changes one counter and one cardinality by one.
`AttemptsBounded` needs that an entry at the last attempt is never queued again:
a failed last attempt removes it in the same step.

`SyncAgentCatchUpProofs` builds on that invariant. An agent that does not run has an
empty queue and no channel (`AtRest`), from which `RetriesOfCurrentChannel` and
`StoppedAgentRests` follow. `NothingReceivedTwice` needs that what is fetched is
another node's and not held (`FetchedIsNew`): the check of `pull` and the write are
steps apart, and only the pull itself may make the store hold the change set in
between. `NoSlotIsWasted` is a fact about `drain`: it ends with an empty queue or
full slots, and every step that frees a slot or adds to the queue runs it.
`CatchUpAddsUp` and `CatchUpWaitsForPending` go together (`CatchUpInv`): an entry
that leaves the map settles the catch-up in the same step, and one that the
catch-up waits for is never removed in another way.

`SyncNetworkProofs`. `HoldingMeansHavingRows` needs that a pull past its rows
keeps them (`Backed`): `fetched` ends with the process, as the rows of a store
in memory do, so no crash leaves one without the other.
`NetworkImplementsReplication` needs besides that whatever is on its way, an
announcement, a list, an entry, a reference, names a change set that was written
(`Traced`), so that recording it is a `TakeOver` of the abstract specification;
`Write` and `Crash` map to `Write` and `LoseStore` or a stutter, all other steps
stutter. `HubLearnsWhatIsKept` follows one change set of a client that keeps its store
(`Owing`): the hub knows it (it holds it, pulls it or gave it up), or its hash is on
its way, or both ends of the connection have still to compare, the client with a list
without it (`OwedByClient`) and the hub with a list that has it (`OwedByHub`), or
their tries are used up. At rest nothing is left to do. It needs that the hub drops a
repeated announcement only of a reference it knows (`Remembered`); giving up keeps it
known, and a store that is lost takes what was heard with it.

`RolesProofs`. `RolesTypeCorrect`, `OneRoleHoldsTheStores` and
`ClientsAttachToTheirHub` follow from an invariant that ties the await of the
running transition to the state (`JobFits`): while a teardown is awaited or a
port is being bound there is no role, so what is open is what is being closed
(`OpenFits`), and the next server or socket is made when that is empty. The store
is routed through the role in use or through none (`ServedFits`). The queue comes
in once (`QueueFits`): an attachment that waits there names a socket, so a late
one is never taken for the server this node has become. The other nodes, the
addresses, the clients and the number of bind attempts are arbitrary.

`TransportEndsInLastCall` follows the last call (`CallsInv`): it is
the last one that waits in the queue, or else the one that runs, or else what the
state shows. The hard part is the retry timer, which asks for a role on its own: it
is set only while nothing runs and the node is alone, and every call clears it
before it has a turn (`RetryFits`). `StopReleasesEverything` follows, since `stop` asks
for the last time.

`TopologyRepairProofs`. `ExclusionHasNoGap` needs `Repaired`: the age of a condition
and the time since its last repair end their intervals at a check, never between
two, because they are whole numbers of checks; so a condition that has lasted its
grace has been repaired within the last interval, and that exclusion lasts
longer. `NoneExcludedForKnownStart` needs `Heard`: in each phase of a round, how long a
peer that is down can still count with its last answer, in terms of the time
left to the round (`Silent`). When discovery forgets a peer the time is over, so
what it learns next is what the polls say.

`WebAppProofs`. `PageTypeCorrect` says of the stream that a sink is never fuller than
it may be and that a stream that is gone is due to be opened again.
`CardsAnswerTheSearch` follows every request in flight back to its view
(`RequestFits`): a load is out only while its view loads and asks for what is
selected; a refresh of a view that does not search asks for what is selected;
everything else is compared when it arrives. A field that waits belongs to a view
that has been shown (`FieldsFit`), so a search never meets a view that still loads. The picker, which keeps its rows,
has its latest question in flight until the answer to that very question
(`Keeps`): no other answer ends it.

`PetShopStoreProofs`. `StoreInv` says what the tables of a node can hold and what its
calls and pulls still write. A call reads its tables when it begins and writes
afterwards, row by row, while pulls write too; so the invariant speaks of every
place in the rest of a plan: what is true of the store when the write at that place
is done. `ImageBeforeItsVersion` is one such fact: a plan has the image before the row,
or the store has it, and only a crash empties the blob store, which ends the call
as well. For `OwnWritesNeverForkAlways` (`ForkInv`), what a plan is to supersede is in the
store and superseded by none of the node's versions. It is read from the current
version, which a pull may replace in between, but a pull brings only versions of
others (`OwnKnown`: a node has all it ever wrote, since what it pulls of its own it
had written). That the current version is superseded by none needs a version that
is: every set of versions has one that no other supersedes (`Acyclic`), because a
version supersedes only what was there before it. `HeldModesAgreeAlways` needs
`WholeInv`: an animal and its pairings are in one change set, though the pairings are
planned only when the animal row is written; for each place of a plan `Gathers` says
what will have been written for the change set by then. The proof found an error in
the model: a pull that fetched a dependency left its old self behind as a second
pull (`WithItems`), where the code has one walk that goes on.

`PetShopConflictProofs`. `ConflictsAreRealAlways` says that a store shows a conflict only
where two nodes parted. Nothing forbids that for a store that lacks a version
between two others: both would be tips. So the proof is about what a store cannot
lack. Suppose the versions of one entity in it hold no fork, though it left nothing out
and follows no reference. Each but one supersedes something (`BegunBySeed`: of the
tables whose conflicts the API lists, only the seed begins an entity); what it
supersedes is a version of the same entity (`SameEntity`) and in the store
(`NothingMissing`: what a version names is in the store or some pull is still going to
look for it, or the node is in `leftOut`: it came to the dependency bound, got no answer,
or crashed while it followed references);
and without a fork no two supersede the same version (`SiblingsFork`, which needs
`OwnWritesNeverFork` for two versions of one node). Then `n` versions have `n - 1` different
predecessors among them, and one is left that none supersedes
(`OneTip`); no induction over the versions is needed, only counting.

What makes this inductive (`LineageInv`) is the seed. Calls supersede what they
find, so they begin no entity of those tables only if the node has the seed's version of
it; it has that because a node serves no call before its seed is written (`SeedsWhole`),
and the seeds of all nodes are the same versions, told apart from all others by their
times (`TimesUnique`).
A crash in the middle of the seed breaks all of it at once: the store is then never
seeded again, its calls begin entities that others have, and such versions reach every
other node. The model sets `leftOut` to all nodes at that point, and the theorem says
nothing from there on. What a plan is going to supersede was read when the call began
(`PlansTraced`), and stays true because no version is ever deleted.

Model-checked only:

* liveness under fairness: the proof system does not reason about `ENABLED`;
* `OnlyLastingDenialExcluded`, which is not true for any number of changes of a role,
  as said above.

## Not modelled, and the plan

Every invariant and every action property of the runs is proved but the one named
above; nothing is left of the plan but what the proof system cannot reason about.

Left out for good:

* persons and breeders, the generator and the contents of the seed, sums and
  sorting of the API's answers: they follow the modelled tables or compute values
  no property tells apart;
* rendering, form validation, the diff of a change set, titles and focus: no state
  that another part reads;
* routes and configuration beyond the calls they pass on: stateless translation;
* the liveness of the stream and of the views: nothing in the code promises that a
  connection stays, and the remarks above say where a view stays behind;
* the list of transfers and its attribution, log lines, `lastError`;
* infrastructure and documents.
