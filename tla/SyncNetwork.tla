----------------------------- MODULE SyncNetwork -----------------------------
(***************************************************************************)
(* A hub and its clients synchronising change sets: the SyncAgent of every *)
(* node (syncAgent.ts), composed with the announcement channels and the    *)
(* ready handshake of the hub transport (announcementChannel.ts,           *)
(* hubTransport.ts) and the part of the store the pulls read and write     *)
(* (petShopStore.ts).                                                      *)
(*                                                                         *)
(* Roles are fixed here, connections and processes are not.  The agent of  *)
(* module SyncAgent is reduced to its effect: what is pending is pulled,   *)
(* in any order, as soon as a node that has it can be reached, and given   *)
(* up after MaxAttempts tries.  A comparison reads the node's own list and *)
(* announces in one step: both stores answer in microtasks, before the     *)
(* next socket event.                                                      *)
(*                                                                         *)
(* A definition called a variant is the definition below it with one       *)
(* plausible mistake; PROJECT.json names the property that rules it out.   *)
(***************************************************************************)
EXTENDS Naturals, FiniteSets

CONSTANTS
    Hub,
    Clients,
    ChangeSets,
    Author,      \* the node that writes a change set
    Persistent,  \* nodes whose store outlives the process (STORAGE=sqlite)
    NoChangeSet, \* server.latestRef before the first announcement
    MaxAttempts, \* tries of a pull and of reading a list (maxAttempts)
    MaxFaults    \* bound: lost connections, lost answers, crashes, failing nodes

Nodes == {Hub} \cup Clients

ASSUME NodesAssumption == Hub \notin Clients /\ Persistent \subseteq Nodes
ASSUME AuthorAssumption == Author \in [ChangeSets -> Nodes]
ASSUME NoChangeSetAssumption == NoChangeSet \notin ChangeSets
ASSUME AttemptsAssumption == MaxAttempts \in Nat \ {0}
ASSUME FaultsAssumption == MaxFaults \in Nat

VARIABLES
    up,        \* per node, whether its process runs
    link,      \* per client, how far its connection to the hub is
    written,   \* change sets written so far
    held,      \* per node, the change sets whose history row its store has
    rows,      \* per node, the change sets whose rows its store has, all of them
    cached,    \* change sets the hub's cascade cached while serving a client
    pending,   \* per node, SyncAgent.pending
    attempts,  \* per node and entry, the pulls that failed
    gaveUp,    \* per node, counted as failed and not received again since
    fetched,   \* per node, pulls past writeReceivedRows
    heard,     \* per node, the references its connector has received
    sent,      \* announcements of clients on their way to the hub
    relayed,   \* announcements of the hub's server on their way to clients
    latest,    \* server.latestRef
    asked,     \* <<n, m>>: n waits for the list of m
    delayed,   \* <<n, m>>: reading the list of m failed, n tries again later
    answered,  \* <<n, m, list>>: the list of m arrived at n
    tries,     \* per pair, failed reads of that list since it was asked for
    faults     \* faults so far

stores == <<written, held, rows, cached>>
entries == <<pending, attempts, gaveUp, fetched>>
comparisons == <<asked, delayed, answered, tries>>
agents == <<entries, heard, comparisons>>
mail == <<sent, relayed, latest>>
vars == <<up, link, stores, agents, mail, faults>>

Pairs == (Clients \X {Hub}) \cup ({Hub} \X Clients)

(* The client's Client exists and the hub reads its store: both read and *)
(* hear each other.                                                      *)
Linked(c) == link[c] \in {"answered", "ready"}
LinkedPair(n, m) == IF n = Hub THEN Linked(m) ELSE Linked(n)

-----------------------------------------------------------------------------
Init ==
    /\ up = [n \in Nodes |-> TRUE]
    /\ link = [c \in Clients |-> "down"]
    /\ written = {}
    /\ held = [n \in Nodes |-> {}]
    /\ rows = [n \in Nodes |-> {}]
    /\ cached = {}
    /\ pending = [n \in Nodes |-> {}]
    /\ attempts = [n \in Nodes |-> [x \in ChangeSets |-> 0]]
    /\ gaveUp = [n \in Nodes |-> {}]
    /\ fetched = [n \in Nodes |-> {}]
    /\ heard = [n \in Nodes |-> {}]
    /\ sent = {}
    /\ relayed = {}
    /\ latest = NoChangeSet
    /\ asked = {}
    /\ delayed = {}
    /\ answered = {}
    /\ tries = [p \in Pairs |-> 0]
    /\ faults = 0

(***************************************************************************)
(* Server._multicastRefs: what the hub's server gets goes to the clients   *)
(* connected at that moment; those whose Client is still being built hear  *)
(* it or not.  A reference equal to the latest one is dropped, which of    *)
(* several the latest one can only be when it comes first.                 *)
(***************************************************************************)
Multicast(xs, from) ==
    IF xs \subseteq {latest}
    THEN UNCHANGED <<relayed, latest>>
    ELSE /\ latest' \in xs
         /\ \E told \in {xs, xs \ {latest}},
               joining \in SUBSET {c \in Clients : link[c] = "joined"} :
              LET hearing == {c \in Clients : Linked(c)} \cup joining
              IN  relayed' = relayed \cup ((hearing \ {from}) \X told)

(* SyncAgent.send for every change set of xs on the channel of n. *)
Announce(n, xs) ==
    IF n = Hub
    THEN Multicast(xs, Hub) /\ UNCHANGED sent
    ELSE /\ sent' = IF Linked(n) THEN sent \cup ({n} \X xs) ELSE sent
         /\ UNCHANGED <<relayed, latest>>

(* The API of n writes x: rows, change set, history row, announcement. *)
Write(n, x) ==
    /\ up[n]
    /\ x \notin written
    /\ Author[x] = n
    /\ written' = written \cup {x}
    /\ rows' = [rows EXCEPT ![n] = @ \cup {x}]
    /\ held' = [held EXCEPT ![n] = @ \cup {x}]
    /\ Announce(n, {x})
    /\ UNCHANGED <<up, link, cached, agents, faults>>

-----------------------------------------------------------------------------
(* Connections *)

(* The socket connects and the hub's server adds it. *)
Connect(c) ==
    /\ up[c] /\ up[Hub]
    /\ link[c] = "down"
    /\ link' = [link EXCEPT ![c] = "joined"]
    /\ UNCHANGED <<up, stores, agents, mail, faults>>

(* catchUpWith begins: n asks m for its list, with every try left. *)
Ask(n, m) ==
    /\ asked' = asked \cup {<<n, m>>}
    /\ tries' = [tries EXCEPT ![<<n, m>>] = 0]

(* Variant: the bootstrap of a server without a reference yet. *)
ClientAttachedNull(c) ==
    /\ link[c] = "joined"
    /\ link' = [link EXCEPT ![c] = "answered"]
    /\ Ask(c, Hub)
    /\ relayed' = relayed \cup {<<c, latest>>}
    /\ UNCHANGED <<up, stores, entries, heard, delayed, answered, sent, latest, faults>>

(* The client's Client exists: it answers the handshake and asks the hub   *)
(* for its list.  The next repeat of the server's bootstrap tells it the   *)
(* latest reference.                                                       *)
ClientAttached(c) ==
    /\ link[c] = "joined"
    /\ link' = [link EXCEPT ![c] = "answered"]
    /\ Ask(c, Hub)
    /\ relayed' = relayed \cup ({c} \X ({latest} \ {NoChangeSet}))
    /\ UNCHANGED <<up, stores, entries, heard, delayed, answered, sent, latest, faults>>

(* The answer reaches the hub: it asks the client for its list. *)
HubAttached(c) ==
    /\ link[c] = "answered"
    /\ link' = [link EXCEPT ![c] = "ready"]
    /\ Ask(Hub, c)
    /\ UNCHANGED <<up, stores, entries, heard, delayed, answered, mail, faults>>

(* The answer does not arrive in time: the hub does not ask c for its list. *)
AnswerLost(c) ==
    /\ faults < MaxFaults
    /\ faults' = faults + 1
    /\ link[c] = "answered"
    /\ link' = [link EXCEPT ![c] = "ready"]
    /\ tries' = [tries EXCEPT ![<<Hub, c>>] = MaxAttempts]
    /\ UNCHANGED <<up, stores, entries, heard, asked, delayed, answered, mail>>

(* What is lost with the connections of the clients cs. *)
DropLinks(cs) ==
    /\ link' = [c \in Clients |-> IF c \in cs THEN "down" ELSE link[c]]
    /\ sent' = {m \in sent : m[1] \notin cs}
    /\ relayed' = {m \in relayed : m[1] \notin cs}
    /\ asked' = {p \in asked : p[1] \notin cs /\ p[2] \notin cs}
    /\ delayed' = {p \in delayed : p[1] \notin cs /\ p[2] \notin cs}

Disconnect(c) ==
    /\ faults < MaxFaults
    /\ faults' = faults + 1
    /\ link[c] # "down"
    /\ DropLinks({c})
    /\ UNCHANGED <<up, stores, entries, heard, answered, tries, latest>>

(* What the agent and the connector of n know ends with the process. *)
Forget(n) ==
    /\ pending' = [pending EXCEPT ![n] = {}]
    /\ attempts' = [attempts EXCEPT ![n] = [x \in ChangeSets |-> 0]]
    /\ gaveUp' = [gaveUp EXCEPT ![n] = {}]
    /\ fetched' = [fetched EXCEPT ![n] = {}]
    /\ heard' = [heard EXCEPT ![n] = {}]
    /\ answered' = {a \in answered : a[1] # n}

(* Variant: every store ends with its process. *)
CrashForgetting(n) ==
    /\ faults < MaxFaults
    /\ faults' = faults + 1
    /\ up[n]
    /\ up' = [up EXCEPT ![n] = FALSE]
    /\ Forget(n)
    /\ DropLinks(IF n = Hub THEN Clients ELSE {n})
    /\ latest' = IF n = Hub THEN NoChangeSet ELSE latest
    /\ held' = [held EXCEPT ![n] = {}]
    /\ rows' = [rows EXCEPT ![n] = {}]
    /\ cached' = IF n = Hub THEN {} ELSE cached
    /\ UNCHANGED <<written, tries>>

(* The process of n ends; a store in memory ends with it. *)
Crash(n) ==
    /\ faults < MaxFaults
    /\ faults' = faults + 1
    /\ up[n]
    /\ up' = [up EXCEPT ![n] = FALSE]
    /\ Forget(n)
    /\ DropLinks(IF n = Hub THEN Clients ELSE {n})
    /\ latest' = IF n = Hub THEN NoChangeSet ELSE latest
    /\ IF n \in Persistent
       THEN UNCHANGED <<held, rows, cached>>
       ELSE /\ held' = [held EXCEPT ![n] = {}]
            /\ rows' = [rows EXCEPT ![n] = {}]
            /\ cached' = IF n = Hub THEN {} ELSE cached
    /\ UNCHANGED <<written, tries>>

Restart(n) ==
    /\ ~up[n]
    /\ up' = [up EXCEPT ![n] = TRUE]
    /\ UNCHANGED <<link, stores, agents, mail, faults>>

-----------------------------------------------------------------------------
(* Announcements arrive *)

(* SyncAgent.receive: what n does not hold becomes pending, with no try so *)
(* far unless it is pending already.                                       *)
Receive(n, xs) ==
    /\ pending' = [pending EXCEPT ![n] = @ \cup (xs \ held[n])]
    /\ gaveUp' = [gaveUp EXCEPT ![n] = @ \ xs]

(* Connector._processIncoming drops a reference it has received before. *)
Hear(n, x) ==
    /\ heard' = [heard EXCEPT ![n] = @ \cup {x}]
    /\ IF x \in heard[n] THEN UNCHANGED <<pending, gaveUp>> ELSE Receive(n, {x})

Relay(c, x) ==
    /\ <<c, x>> \in sent
    /\ sent' = sent \ {<<c, x>>}
    /\ IF x = latest THEN UNCHANGED <<heard, pending, gaveUp>> ELSE Hear(Hub, x)
    /\ Multicast({x}, c)
    /\ UNCHANGED <<up, link, stores, attempts, fetched, comparisons, faults>>

Deliver(c, x) ==
    /\ <<c, x>> \in relayed
    /\ relayed' = relayed \ {<<c, x>>}
    /\ Hear(c, x)
    /\ UNCHANGED <<up, link, stores, attempts, fetched, comparisons, sent, latest,
                   faults>>

-----------------------------------------------------------------------------
(* Catch-up *)

(* heldChangeSetsOf: the peer's list as it is now, on its way to n.  A      *)
(* client asks right behind its answer to the handshake, on the same        *)
(* socket, so the hub serves its request before it has the client's list.   *)
ListPeer(n, m) ==
    /\ <<n, m>> \in asked
    /\ LinkedPair(n, m)
    /\ n = Hub => <<m, Hub>> \notin asked
    /\ asked' = asked \ {<<n, m>>}
    /\ answered' = answered \cup {<<n, m, held[m]>>}
    /\ tries' = [tries EXCEPT ![<<n, m>>] = 0]
    /\ UNCHANGED <<up, link, stores, entries, heard, delayed, mail, faults>>

(* The list could not be read in time; the retry timer asks again, but not *)
(* after MaxAttempts tries: then the comparison is left to the next attach. *)
ListFails(n, m) ==
    /\ faults < MaxFaults
    /\ faults' = faults + 1
    /\ <<n, m>> \in asked
    /\ asked' = asked \ {<<n, m>>}
    /\ tries' = [tries EXCEPT ![<<n, m>>] = @ + 1]
    /\ delayed' = IF tries'[<<n, m>>] < MaxAttempts THEN delayed \cup {<<n, m>>}
                                                    ELSE delayed
    /\ UNCHANGED <<up, link, stores, entries, heard, answered, mail>>

RetryList(n, m) ==
    /\ <<n, m>> \in delayed
    /\ delayed' = delayed \ {<<n, m>>}
    /\ asked' = asked \cup {<<n, m>>}
    /\ UNCHANGED <<up, link, stores, entries, heard, answered, tries, mail, faults>>

(* Variant: a comparison pulls and does not announce. *)
CompareSilently(n, m, list) ==
    /\ <<n, m, list>> \in answered
    /\ answered' = answered \ {<<n, m, list>>}
    /\ Receive(n, list \ held[n])
    /\ UNCHANGED <<up, link, stores, attempts, fetched, heard, asked, delayed, tries,
                   mail, faults>>

(* compareWith: queue what n lacks, announce what the peer lacks. *)
Compare(n, m, list) ==
    /\ <<n, m, list>> \in answered
    /\ answered' = answered \ {<<n, m, list>>}
    /\ Receive(n, list \ held[n])
    /\ Announce(n, held[n] \ list)
    /\ UNCHANGED <<up, link, stores, attempts, fetched, heard, asked, delayed, tries,
                   faults>>

-----------------------------------------------------------------------------
(* Pulls *)

(* Nodes whose store answers a pull of n: the hub serves a client through *)
(* its own cascade, its store and every other client.                     *)
Sources(n) ==
    {c \in Clients : Linked(c) /\ c # n} \cup (IF n = Hub THEN {} ELSE {Hub})

Fetchable(n, x) ==
    /\ n \in Clients => Linked(n)
    /\ \/ x \in cached
       \/ \E m \in Sources(n) : x \in held[m]

(* The rows of x arrive and are written in one write.  The hub's cascade *)
(* caches what it had to ask another client for.                         *)
Fetch(n, x) ==
    /\ up[n]
    /\ x \in pending[n] \ fetched[n]
    /\ Fetchable(n, x)
    /\ rows' = [rows EXCEPT ![n] = @ \cup {x}]
    /\ fetched' = [fetched EXCEPT ![n] = @ \cup {x}]
    /\ cached' = IF n # Hub /\ x \notin held[Hub] THEN cached \cup {x}
                                                  ELSE cached
    /\ UNCHANGED <<up, link, written, held, pending, attempts, gaveUp, heard,
                   comparisons, mail, faults>>

(* An entry that is settled: received, or given up. *)
Settle(n, x) ==
    /\ pending' = [pending EXCEPT ![n] = @ \ {x}]
    /\ attempts' = [attempts EXCEPT ![n][x] = 0]

(* Variant: the record is written before the rows arrived. *)
RecordFirst(n, x) ==
    /\ x \in pending[n]
    /\ held' = [held EXCEPT ![n] = @ \cup {x}]
    /\ fetched' = [fetched EXCEPT ![n] = @ \ {x}]
    /\ Settle(n, x)
    /\ UNCHANGED <<up, link, written, rows, cached, gaveUp, heard, comparisons, mail,
                   faults>>

(* recordReceivedChangeSet; a received change set is not announced. *)
Record(n, x) ==
    /\ x \in fetched[n]
    /\ held' = [held EXCEPT ![n] = @ \cup {x}]
    /\ fetched' = [fetched EXCEPT ![n] = @ \ {x}]
    /\ Settle(n, x)
    /\ UNCHANGED <<up, link, written, rows, cached, gaveUp, heard, comparisons, mail,
                   faults>>

(* No node within reach has x, or one does not answer in time or a write  *)
(* fails.                                                                 *)
PullBreaks(n, x) ==
    /\ x \in pending[n]
    /\ \/ x \notin fetched[n] /\ ~Fetchable(n, x) /\ UNCHANGED faults
       \/ faults < MaxFaults /\ faults' = faults + 1
    /\ fetched' = [fetched EXCEPT ![n] = @ \ {x}]
    /\ UNCHANGED <<up, link, stores, heard, comparisons, mail>>

(* Variant: a pull that failed is dropped and not counted. *)
PullFailsForGood(n, x) ==
    /\ PullBreaks(n, x)
    /\ Settle(n, x)
    /\ UNCHANGED gaveUp

(* settleFailedPull: the change set stays pending, until its last attempt *)
(* failed.                                                                *)
PullFails(n, x) ==
    /\ PullBreaks(n, x)
    /\ IF attempts[n][x] + 1 >= MaxAttempts
       THEN /\ Settle(n, x)
            /\ gaveUp' = [gaveUp EXCEPT ![n] = @ \cup {x}]
       ELSE /\ attempts' = [attempts EXCEPT ![n][x] = @ + 1]
            /\ UNCHANGED <<pending, gaveUp>>

-----------------------------------------------------------------------------
Fault ==
    \/ \E c \in Clients : AnswerLost(c) \/ Disconnect(c)
    \/ \E p \in Pairs : ListFails(p[1], p[2])
    \/ \E n \in Nodes : Crash(n)

Progress ==
    \/ \E n \in Nodes : Restart(n)
    \/ \E c \in Clients : Connect(c) \/ ClientAttached(c) \/ HubAttached(c)
    \/ \E c \in Clients, x \in ChangeSets : Relay(c, x) \/ Deliver(c, x)
    \/ \E p \in Pairs :
         \/ ListPeer(p[1], p[2]) \/ RetryList(p[1], p[2])
         \/ \E list \in SUBSET ChangeSets : Compare(p[1], p[2], list)
    \/ \E n \in Nodes, x \in ChangeSets : Fetch(n, x) \/ Record(n, x) \/ PullFails(n, x)

Next ==
    \/ \E n \in Nodes, x \in ChangeSets : Write(n, x)
    \/ Progress
    \/ Fault

Spec == Init /\ [][Next]_vars

(***************************************************************************)
(* Processes are restarted and sockets reconnect on their own (socket.io), *)
(* a reachable peer answers, what was sent arrives unless the connection   *)
(* is lost, and pending change sets are pulled again until they are held   *)
(* or given up.                                                            *)
(* One weak fairness over all of it is enough: without a write or a fault, *)
(* of which there are finitely many, only finitely many such steps follow. *)
(***************************************************************************)
Fairness == WF_vars(Progress)

FairSpec == Spec /\ Fairness

-----------------------------------------------------------------------------
TypeOK ==
    /\ up \in [Nodes -> BOOLEAN]
    /\ link \in [Clients -> {"down", "joined", "answered", "ready"}]
    /\ written \subseteq ChangeSets
    /\ held \in [Nodes -> SUBSET ChangeSets]
    /\ rows \in [Nodes -> SUBSET ChangeSets]
    /\ cached \subseteq ChangeSets
    /\ pending \in [Nodes -> SUBSET ChangeSets]
    /\ attempts \in [Nodes -> [ChangeSets -> 0 .. MaxAttempts - 1]]
    /\ gaveUp \in [Nodes -> SUBSET ChangeSets]
    /\ fetched \in [Nodes -> SUBSET ChangeSets]
    /\ heard \in [Nodes -> SUBSET ChangeSets]
    /\ sent \subseteq Clients \X ChangeSets
    /\ relayed \subseteq Clients \X ChangeSets
    /\ latest \in ChangeSets \cup {NoChangeSet}
    /\ asked \subseteq Pairs
    /\ delayed \subseteq Pairs
    /\ answered \subseteq {<<p[1], p[2], list>> :
                             p \in Pairs, list \in SUBSET ChangeSets}
    /\ tries \in [Pairs -> 0 .. MaxAttempts]
    /\ faults \in 0..MaxFaults

-----------------------------------------------------------------------------
(* Safety *)

(* Holding a change set means having its rows, at any moment a process can *)
(* end: the history row of a change set is written after all its rows      *)
(* (pullChangeSet, holdsChangeSet).                                        *)
HeldHasRows == \A n \in Nodes : held[n] \subseteq rows[n]

(* The network as the abstract replication sees it. *)
Replication == INSTANCE ChangeSetReplication WITH holds <- held

(* Every step is a write on one node, one node taking over a change set from *)
(* a node that holds it, or the loss of a store in memory; nothing else ever *)
(* changes what a node holds (recordReceivedChangeSet, recordChangeSet).     *)
ImplementsReplication == Replication!Spec

(* Every node is connected and nothing is left to do anywhere. *)
AtRest ==
    /\ \A n \in Nodes : up[n] /\ pending[n] = {}
    /\ \A c \in Clients : link[c] = "ready"
    /\ sent = {} /\ relayed = {}
    /\ asked = {} /\ delayed = {} /\ answered = {}

(* On this connection neither end compares its list with the other's: the *)
(* list of the other could not be read in any try, or the hub never asked. *)
Uncompared(c) ==
    /\ tries[<<c, Hub>>] = MaxAttempts
    /\ tries[<<Hub, c>>] = MaxAttempts

(* At rest the hub holds every change set whose author keeps it in a file, *)
(* or shows it as failed, unless both comparisons with the author failed,  *)
(* whatever stores, connections and processes were lost on the way:        *)
(* announcements and comparisons make up for each other (compareWith).  An *)
(* announcement may be dropped because the hub has heard of it before      *)
(* (Server._multicastRefs, Connector._processIncoming), which loses none   *)
(* that the hub did not pull or give up.                                   *)
AtRestHubHoldsDurable ==
    AtRest => \A x \in written :
        Author[x] \in Persistent =>
            \/ x \in held[Hub] \cup gaveUp[Hub]
            \/ Author[x] \in Clients /\ Uncompared(Author[x])

(* "a hub that restarts learns what its clients hold" (README.md, slice D4): *)
(* at rest the hub holds whatever a client holds, or shows it as failed.     *)
AtRestHubHoldsAll ==
    AtRest => \A c \in Clients : held[c] \subseteq held[Hub] \cup gaveUp[Hub]

(* "a node that restarts or joins late holds everything the others wrote"  *)
(* (README.md, slice D4): at rest every node holds what any of them holds, *)
(* or shows it as failed.                                                  *)
AtRestAllAgree ==
    AtRest => \A n, m \in Nodes : held[m] \subseteq held[n] \cup gaveUp[n]

-----------------------------------------------------------------------------
(* Liveness, under Fairness *)

(* The hub comes to hold what a connected client wrote, or gives it up,    *)
(* even when the hub's half of the handshake is lost: one comparison is    *)
(* enough (compareWith on both ends).                                      *)
HubLearns ==
    \A c \in Clients : \A x \in {y \in ChangeSets : Author[y] = c} :
        (link[c] = "ready" /\ x \in held[c])
            ~> \/ link[c] = "down"
               \/ Uncompared(c)
               \/ x \in held[Hub] \cup gaveUp[Hub]

(* A client that asks for the hub's list comes to hold everything the hub *)
(* holds by then, unless the connection is lost, the list cannot be read  *)
(* in any try, or the client gives the pull up (catchUpWith).             *)
AttachedClientCatchesUp ==
    \A c \in Clients, x \in ChangeSets :
        (<<c, Hub>> \in asked /\ x \in held[Hub])
            ~> \/ link[c] = "down"
               \/ tries[<<c, Hub>>] = MaxAttempts
               \/ x \in held[c] \cup gaveUp[c]

(* A change set on its way is settled everywhere in the end: no entry waits *)
(* for ever, whether the nodes that have it stay, go or come back, and who   *)
(* has heard of it holds it or shows it as failed, though its connector      *)
(* drops every repetition (receive, retryPending, settleFailedPull).         *)
HeardIsSettled ==
    \A x \in ChangeSets :
        (\E n \in Nodes : x \in pending[n])
            ~> \A n \in Nodes :
                 /\ x \notin pending[n]
                 /\ x \in heard[n] => x \in held[n] \cup gaveUp[n]
=============================================================================
