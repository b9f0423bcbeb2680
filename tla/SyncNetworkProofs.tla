-------------------------- MODULE SyncNetworkProofs --------------------------
(***************************************************************************)
(* Theorems about SyncNetwork, for every set of clients and of change      *)
(* sets, every author, every store and any number of attempts and faults:  *)
(* a node holds a change set only with its rows, the network implements    *)
(* ChangeSetReplication, and at rest the hub holds what was written on     *)
(* nodes that keep their store, or shows it as failed, unless neither end  *)
(* of the connection could read the list of the other.                     *)
(*                                                                         *)
(* The inductive invariant Inv says that whatever is on its way to a store *)
(* was written by some node (Traced), and that what a pull is about to     *)
(* record has its rows (Backed).  A second one, Durable, says that the hub *)
(* knows every reference it may drop an announcement of (Remembered), and  *)
(* who is still going to tell it of a change set it does not know (Owing). *)
(***************************************************************************)
EXTENDS SyncNetwork, TLAPS

(* Nothing invents a change set: messages, lists, entries and stores name *)
(* only what a node wrote.                                                *)
Traced ==
    /\ held \in [Nodes -> SUBSET written]
    /\ pending \in [Nodes -> SUBSET written]
    /\ sent \subseteq Clients \X written
    /\ relayed \subseteq Clients \X written
    /\ latest \in written \cup {NoChangeSet}
    /\ \A a \in answered : a[3] \subseteq written

(* Rows come before the record, and a pull past its rows is still pending. *)
Backed ==
    /\ rows \in [Nodes -> SUBSET written]
    /\ fetched \in [Nodes -> SUBSET written]
    /\ \A n \in Nodes : /\ held[n] \subseteq rows[n]
                        /\ fetched[n] \subseteq rows[n] \cap pending[n]

Inv == Traced /\ Backed

LEMMA InvInit == Init => Inv
BY DEF Init, Inv, Traced, Backed

-----------------------------------------------------------------------------
(* Announcements name only what was written *)

LEMMA AnnounceTraced ==
    ASSUME NEW n \in Nodes, NEW xs \in SUBSET written', Announce(n, xs),
           sent \subseteq Clients \X written', relayed \subseteq Clients \X written',
           latest \in written' \cup {NoChangeSet}
    PROVE  /\ sent' \subseteq Clients \X written'
           /\ relayed' \subseteq Clients \X written'
           /\ latest' \in written' \cup {NoChangeSet}
<1>1. CASE n = Hub
    BY <1>1 DEF Announce, Multicast
<1>2. CASE n # Hub
    BY <1>2 DEF Announce, Nodes
<1>3. QED
    BY <1>1, <1>2

-----------------------------------------------------------------------------
(* Every step keeps the invariant *)

LEMMA StoresAside ==
    ASSUME Inv, UNCHANGED stores, UNCHANGED <<pending, fetched>>,
           sent' \subseteq Clients \X written, relayed' \subseteq Clients \X written,
           latest' \in written \cup {NoChangeSet},
           \A a \in answered' : a[3] \subseteq written
    PROVE  Inv'
BY DEF Inv, Traced, Backed, stores

LEMMA WriteStep ==
    ASSUME Inv, NEW n \in Nodes, NEW x \in ChangeSets, Write(n, x)
    PROVE  Inv'
<1>1. written' = written \cup {x}
    BY DEF Write
<1>2. /\ held' \in [Nodes -> SUBSET written'] /\ rows' \in [Nodes -> SUBSET written']
      /\ pending' \in [Nodes -> SUBSET written']
      /\ fetched' \in [Nodes -> SUBSET written']
    BY <1>1 DEF Write, Inv, Traced, Backed, agents, entries
<1>3. /\ sent' \subseteq Clients \X written'
      /\ relayed' \subseteq Clients \X written'
      /\ latest' \in written' \cup {NoChangeSet}
    <2>1. Announce(n, {x}) /\ {x} \in SUBSET written'
        BY <1>1 DEF Write
    <2>2. /\ sent \subseteq Clients \X written'
          /\ relayed \subseteq Clients \X written'
          /\ latest \in written' \cup {NoChangeSet}
        BY <1>1 DEF Inv, Traced
    <2>3. QED
        BY <2>1, <2>2, AnnounceTraced
<1>4. \A a \in answered' : a[3] \subseteq written'
    BY <1>1 DEF Write, Inv, Traced, agents, comparisons
<1>5. \A m \in Nodes : /\ held'[m] \subseteq rows'[m]
                       /\ fetched'[m] \subseteq rows'[m] \cap pending'[m]
    BY DEF Write, Inv, Traced, Backed, agents, entries
<1>6. QED
    BY <1>2, <1>3, <1>4, <1>5 DEF Inv, Traced, Backed

LEMMA ConnectionSteps ==
    ASSUME Inv, NEW c \in Clients,
           \/ Connect(c) \/ ClientAttached(c) \/ HubAttached(c)
           \/ AnswerLost(c) \/ Disconnect(c)
    PROVE  Inv'
<1>1. CASE Connect(c)
    BY <1>1, StoresAside DEF Connect, Inv, Traced, agents, entries, comparisons, mail
<1>2. CASE ClientAttached(c)
    BY <1>2, StoresAside DEF ClientAttached, Inv, Traced, entries
<1>3. CASE HubAttached(c)
    BY <1>3, StoresAside DEF HubAttached, Inv, Traced, entries, mail
<1>4. CASE AnswerLost(c)
    BY <1>4, StoresAside DEF AnswerLost, Inv, Traced, entries, mail
<1>5. CASE Disconnect(c)
    BY <1>5, StoresAside DEF Disconnect, DropLinks, Inv, Traced, entries
<1>6. QED
    BY <1>1, <1>2, <1>3, <1>4, <1>5

LEMMA ProcessSteps ==
    ASSUME Inv, NEW n \in Nodes, Crash(n) \/ Restart(n)
    PROVE  Inv'
<1>1. CASE Crash(n)
    <2>1. /\ held' \in [Nodes -> SUBSET written'] /\ rows' \in [Nodes -> SUBSET written']
          /\ pending' \in [Nodes -> SUBSET written']
          /\ fetched' \in [Nodes -> SUBSET written']
        BY <1>1 DEF Crash, Forget, Inv, Traced, Backed
    <2>2. /\ sent' \subseteq Clients \X written'
          /\ relayed' \subseteq Clients \X written'
          /\ latest' \in written' \cup {NoChangeSet}
        BY <1>1 DEF Crash, DropLinks, Inv, Traced
    <2>3. \A a \in answered' : a[3] \subseteq written'
        BY <1>1 DEF Crash, Forget, Inv, Traced
    <2>4. \A m \in Nodes : /\ held'[m] \subseteq rows'[m]
                           /\ fetched'[m] \subseteq rows'[m] \cap pending'[m]
        BY <1>1 DEF Crash, Forget, Inv, Traced, Backed
    <2>5. QED
        BY <2>1, <2>2, <2>3, <2>4 DEF Inv, Traced, Backed
<1>2. CASE Restart(n)
    BY <1>2, StoresAside DEF Restart, Inv, Traced, agents, entries, comparisons, mail
<1>3. QED
    BY <1>1, <1>2

(* A step that only adds written change sets to what is pending. *)
LEMMA PendingGrows ==
    ASSUME Inv, UNCHANGED stores, UNCHANGED fetched,
           NEW n \in Nodes, NEW xs \in SUBSET written,
           Receive(n, xs),
           sent' \subseteq Clients \X written, relayed' \subseteq Clients \X written,
           latest' \in written \cup {NoChangeSet},
           \A a \in answered' : a[3] \subseteq written
    PROVE  Inv'
BY DEF Receive, Inv, Traced, Backed, stores

LEMMA MessageSteps ==
    ASSUME Inv, NEW c \in Clients, NEW x \in ChangeSets,
           Relay(c, x) \/ Deliver(c, x)
    PROVE  Inv'
<1>1. CASE Relay(c, x)
    <2>1. x \in written /\ Hub \in Nodes
        BY <1>1 DEF Relay, Inv, Traced, Nodes
    <2>2. /\ relayed' \subseteq Clients \X written
          /\ latest' \in written \cup {NoChangeSet}
        BY <1>1, <2>1 DEF Relay, Multicast, Inv, Traced, stores
    <2>3. sent' \subseteq Clients \X written
        BY <1>1 DEF Relay, Inv, Traced
    <2>4. \A a \in answered' : a[3] \subseteq written
        BY <1>1 DEF Relay, comparisons, Inv, Traced
    <2>5. CASE x = latest \/ x \in heard[Hub]
        BY <1>1, <2>2, <2>3, <2>4, <2>5, StoresAside DEF Relay, Hear
    <2>6. CASE x # latest /\ x \notin heard[Hub]
        BY <1>1, <2>1, <2>2, <2>3, <2>4, <2>6, PendingGrows DEF Relay, Hear
    <2>7. QED
        BY <2>5, <2>6
<1>2. CASE Deliver(c, x)
    <2>1. x \in written /\ c \in Nodes
        BY <1>2 DEF Deliver, Inv, Traced, Nodes
    <2>2. /\ sent' \subseteq Clients \X written /\ relayed' \subseteq Clients \X written
          /\ latest' \in written \cup {NoChangeSet}
          /\ \A a \in answered' : a[3] \subseteq written
        BY <1>2 DEF Deliver, comparisons, Inv, Traced
    <2>3. CASE x \in heard[c]
        BY <1>2, <2>2, <2>3, StoresAside DEF Deliver, Hear
    <2>4. CASE x \notin heard[c]
        BY <1>2, <2>1, <2>2, <2>4, PendingGrows DEF Deliver, Hear
    <2>5. QED
        BY <2>3, <2>4
<1>3. QED
    BY <1>1, <1>2

LEMMA CatchUpSteps ==
    ASSUME Inv, NEW n \in Nodes, NEW m \in Nodes,
           \/ ListPeer(n, m) \/ ListFails(n, m) \/ RetryList(n, m)
           \/ \E list \in SUBSET ChangeSets : Compare(n, m, list)
    PROVE  Inv'
<1>1. CASE ListPeer(n, m)
    <2>1. held[m] \subseteq written
        BY DEF Inv, Traced
    <2>2. \A a \in answered' : a[3] \subseteq written
        BY <1>1, <2>1 DEF ListPeer, Inv, Traced
    <2>3. QED
        BY <1>1, <2>2, StoresAside DEF ListPeer, Inv, Traced, entries, mail
<1>2. CASE ListFails(n, m)
    BY <1>2, StoresAside DEF ListFails, Inv, Traced, entries, mail
<1>3. CASE RetryList(n, m)
    BY <1>3, StoresAside DEF RetryList, Inv, Traced, entries, mail
<1>4. CASE \E list \in SUBSET ChangeSets : Compare(n, m, list)
    <2>1. PICK list \in SUBSET ChangeSets : Compare(n, m, list)
        BY <1>4
    <2>2. list \subseteq written /\ held[n] \subseteq written
        BY <2>1 DEF Compare, Inv, Traced
    <2>3. written' = written
        BY <2>1 DEF Compare, stores
    <2>4. /\ sent' \subseteq Clients \X written
          /\ relayed' \subseteq Clients \X written
          /\ latest' \in written \cup {NoChangeSet}
        BY <2>1, <2>2, <2>3, AnnounceTraced DEF Compare, Inv, Traced
    <2>5. \A a \in answered' : a[3] \subseteq written
        BY <2>1 DEF Compare, Inv, Traced
    <2>6. list \ held[n] \in SUBSET written
        BY <2>2
    <2>7. QED
        BY <2>1, <2>4, <2>5, <2>6, PendingGrows DEF Compare
<1>5. QED
    BY <1>1, <1>2, <1>3, <1>4

LEMMA PullSteps ==
    ASSUME Inv, NEW n \in Nodes, NEW x \in ChangeSets,
           Fetch(n, x) \/ Record(n, x) \/ PullFails(n, x)
    PROVE  Inv'
<1>1. CASE Fetch(n, x)
    BY <1>1 DEF Fetch, comparisons, Inv, Traced, Backed, mail
<1>2. CASE Record(n, x)
    BY <1>2 DEF Record, Settle, comparisons, Inv, Traced, Backed, mail
<1>3. CASE PullFails(n, x)
    BY <1>3 DEF PullFails, PullBreaks, Settle, comparisons, Inv, Traced, Backed, mail, stores
<1>4. QED
    BY <1>1, <1>2, <1>3

LEMMA PairsOfNodes == \A p \in Pairs : p[1] \in Nodes /\ p[2] \in Nodes
BY DEF Pairs, Nodes

LEMMA InvNext == Inv /\ [Next]_vars => Inv'
<1> SUFFICES ASSUME Inv, [Next]_vars PROVE Inv'
    OBVIOUS
<1>1. CASE \E n \in Nodes, x \in ChangeSets : Write(n, x)
    BY <1>1, WriteStep
<1>2. CASE Progress
    BY <1>2, ConnectionSteps, ProcessSteps, MessageSteps, CatchUpSteps,
       PullSteps, PairsOfNodes DEF Progress
<1>3. CASE Fault
    BY <1>3, ConnectionSteps, ProcessSteps, CatchUpSteps, PullSteps,
       PairsOfNodes DEF Fault
<1>4. CASE UNCHANGED vars
    BY <1>4 DEF vars, stores, agents, entries, comparisons, mail, Inv, Traced, Backed
<1>5. QED
    BY <1>1, <1>2, <1>3, <1>4 DEF Next

LEMMA InvAlways == Spec => []Inv
BY InvInit, InvNext, PTL DEF Spec

-----------------------------------------------------------------------------
(* What follows *)

(* At every moment, through lost connections, failed pulls and crashes, a  *)
(* node that holds a change set has all its rows (pullChangeSet).          *)
THEOREM HoldingMeansHavingRows == Spec => []HeldHasRows
<1>1. Inv => HeldHasRows
    BY DEF Inv, Backed, HeldHasRows
<1>2. QED
    BY <1>1, InvAlways, PTL

(* Every step of the network is one of the abstract replication, or none. *)
LEMMA StepSimulation ==
    ASSUME Inv, [Next]_vars
    PROVE  [Replication!Next]_<<written, held>>
<1> USE DEF Replication!Next, Replication!Write, Replication!TakeOver,
            Replication!LoseStore
<1>1. ASSUME NEW n \in Nodes, NEW x \in ChangeSets, Write(n, x)
      PROVE  Replication!Next
    BY <1>1 DEF Write
<1>2. ASSUME NEW n \in Nodes, NEW x \in ChangeSets, Record(n, x)
      PROVE  Replication!Next \/ UNCHANGED <<written, held>>
    <2>1. x \in written /\ held \in [Nodes -> SUBSET written]
        BY <1>2 DEF Record, Inv, Traced, Backed
    <2>2. CASE x \in held[n]
        BY <1>2, <2>1, <2>2 DEF Record
    <2>3. CASE x \notin held[n]
        BY <1>2, <2>1, <2>3 DEF Record
    <2>4. QED
        BY <2>2, <2>3
<1>3. ASSUME NEW n \in Nodes, Crash(n)
      PROVE  Replication!Next \/ UNCHANGED <<written, held>>
    BY <1>3 DEF Crash
<1>4. ASSUME NEW n \in Nodes, NEW x \in ChangeSets, Fetch(n, x) \/ PullFails(n, x)
      PROVE  UNCHANGED <<written, held>>
    BY <1>4 DEF Fetch, PullFails, PullBreaks, stores
<1>5. ASSUME NEW n \in Nodes, Restart(n)
      PROVE  UNCHANGED <<written, held>>
    BY <1>5 DEF Restart, stores
<1>6. ASSUME NEW c \in Clients,
             \/ Connect(c) \/ ClientAttached(c) \/ HubAttached(c)
             \/ AnswerLost(c) \/ Disconnect(c)
             \/ \E x \in ChangeSets : Relay(c, x) \/ Deliver(c, x)
      PROVE  UNCHANGED <<written, held>>
    BY <1>6 DEF Connect, ClientAttached, HubAttached, AnswerLost, Disconnect,
                Relay, Deliver, stores
<1>7. ASSUME NEW n, NEW m,
             \/ ListPeer(n, m) \/ ListFails(n, m) \/ RetryList(n, m)
             \/ \E list \in SUBSET ChangeSets : Compare(n, m, list)
      PROVE  UNCHANGED <<written, held>>
    BY <1>7 DEF ListPeer, ListFails, RetryList, Compare, stores
<1>8. CASE UNCHANGED vars
    BY <1>8 DEF vars, stores
<1>9. QED
    BY <1>1, <1>2, <1>3, <1>4, <1>5, <1>6, <1>7, <1>8 DEF Next, Progress, Fault

(* The network implements the abstract replication: what a node holds       *)
(* changes only by a write of its own, by taking over a whole change set    *)
(* somebody wrote, or by the loss of a store in memory.                     *)
THEOREM NetworkImplementsReplication == Spec => ImplementsReplication
<1>1. Init => Replication!Init
    BY DEF Init, Replication!Init
<1>2. Inv /\ [Next]_vars => [Replication!Next]_<<written, held>>
    BY StepSimulation
<1>3. QED
    BY <1>1, <1>2, InvAlways, PTL
    DEF Spec, ImplementsReplication, Replication!Spec, Replication!abstractVars

-----------------------------------------------------------------------------
(* Types *)

LinkTypes ==
    /\ up \in [Nodes -> BOOLEAN]
    /\ link \in [Clients -> {"down", "joined", "answered", "ready"}]
    /\ written \subseteq ChangeSets
    /\ cached \subseteq ChangeSets
    /\ asked \subseteq Pairs
    /\ delayed \subseteq Pairs
    /\ answered \subseteq {<<p[1], p[2], list>> :
                             p \in Pairs, list \in SUBSET ChangeSets}
    /\ faults \in 0..MaxFaults

LEMMA AnotherFault ==
    ASSUME LinkTypes, faults < MaxFaults, faults' = faults + 1
    PROVE  faults' \in 0..MaxFaults
BY FaultsAssumption DEF LinkTypes

LEMMA DropLinksTypes ==
    ASSUME LinkTypes, NEW cs, DropLinks(cs)
    PROVE  /\ link' \in [Clients -> {"down", "joined", "answered", "ready"}]
           /\ asked' \subseteq Pairs /\ delayed' \subseteq Pairs
<1>1. link' = [c \in Clients |-> IF c \in cs THEN "down" ELSE link[c]]
    BY DEF DropLinks
<1>2. link' \in [Clients -> {"down", "joined", "answered", "ready"}]
    BY <1>1 DEF LinkTypes
<1>3. QED
    BY <1>2 DEF DropLinks, LinkTypes

LEMMA ClientPairs == \A c \in Clients : <<c, Hub>> \in Pairs /\ <<Hub, c>> \in Pairs
BY DEF Pairs

LEMMA LinkTypesInit == Init => LinkTypes
BY FaultsAssumption DEF Init, LinkTypes

LEMMA LinkTypesNext == Inv /\ LinkTypes /\ [Next]_vars => LinkTypes'
<1> SUFFICES ASSUME Inv, LinkTypes, [Next]_vars PROVE LinkTypes'
    OBVIOUS
<1>1. held \in [Nodes -> SUBSET ChangeSets] /\ Hub \in Nodes
    BY DEF Inv, Traced, LinkTypes, Nodes
<1>2. CASE UNCHANGED vars
    BY <1>2 DEF vars, stores, agents, comparisons, LinkTypes
<1>3. CASE \E n \in Nodes, x \in ChangeSets :
              \/ Write(n, x) \/ Fetch(n, x) \/ Record(n, x) \/ PullFails(n, x)
    <2>1. PICK n \in Nodes, x \in ChangeSets :
              Write(n, x) \/ Fetch(n, x) \/ Record(n, x) \/ PullFails(n, x)
        BY <1>3
    <2>2. /\ UNCHANGED <<up, link, asked, delayed, answered>>
          /\ written' \in {written, written \cup {x}}
          /\ cached' \in {cached, cached \cup {x}}
          /\ faults' = faults \/ (faults < MaxFaults /\ faults' = faults + 1)
        BY <2>1 DEF Write, Fetch, Record, PullFails, PullBreaks, stores, agents, comparisons
    <2>3. faults' \in 0..MaxFaults
        BY <2>2, AnotherFault DEF LinkTypes
    <2>4. QED
        BY <2>2, <2>3 DEF LinkTypes
<1>4. CASE \E n \in Nodes : Restart(n)
    BY <1>4 DEF Restart, stores, agents, comparisons, LinkTypes
<1>5. CASE \E n \in Nodes : Crash(n)
    <2>1. PICK n \in Nodes : Crash(n)
        BY <1>5
    <2>2. /\ up' = [up EXCEPT ![n] = FALSE]
          /\ answered' \subseteq answered /\ UNCHANGED written
          /\ cached' \in {cached, {}}
          /\ DropLinks(IF n = Hub THEN Clients ELSE {n})
          /\ faults < MaxFaults /\ faults' = faults + 1
        BY <2>1 DEF Crash, Forget
    <2>3. faults' \in 0..MaxFaults
        BY <2>2, AnotherFault
    <2>4. QED
        BY <2>2, <2>3, DropLinksTypes DEF LinkTypes
<1>6. CASE \E c \in Clients :
              Connect(c) \/ ClientAttached(c) \/ HubAttached(c) \/ AnswerLost(c)
    <2>1. PICK c \in Clients :
              Connect(c) \/ ClientAttached(c) \/ HubAttached(c) \/ AnswerLost(c)
        BY <1>6
    <2>2. \E l \in {"joined", "answered", "ready"} : link' = [link EXCEPT ![c] = l]
        BY <2>1 DEF Connect, ClientAttached, HubAttached, AnswerLost
    <2>3. /\ UNCHANGED <<up, written, cached, delayed, answered>>
          /\ asked' \subseteq asked \cup {<<c, Hub>>, <<Hub, c>>}
          /\ faults' = faults \/ (faults < MaxFaults /\ faults' = faults + 1)
        BY <2>1 DEF Connect, ClientAttached, HubAttached, AnswerLost, Ask, stores, agents, comparisons
    <2>4. faults' \in 0..MaxFaults
        BY <2>3, AnotherFault DEF LinkTypes
    <2>5. link' \in [Clients -> {"down", "joined", "answered", "ready"}]
        <3>1. PICK l \in {"joined", "answered", "ready"} : link' = [link EXCEPT ![c] = l]
            BY <2>2
        <3>2. QED
            BY <3>1 DEF LinkTypes
    <2>6. asked' \subseteq Pairs
        <3>1. asked \subseteq Pairs /\ <<c, Hub>> \in Pairs /\ <<Hub, c>> \in Pairs
            BY ClientPairs DEF LinkTypes
        <3>2. QED
            BY <2>3, <3>1, Zenon
    <2>7. QED
        BY <2>3, <2>4, <2>5, <2>6 DEF LinkTypes
<1>7. CASE \E c \in Clients : Disconnect(c)
    <2>1. PICK c \in Clients : Disconnect(c)
        BY <1>7
    <2>2. /\ DropLinks({c}) /\ UNCHANGED <<up, written, cached, answered>>
          /\ faults < MaxFaults /\ faults' = faults + 1
        BY <2>1 DEF Disconnect, stores
    <2>3. QED
        BY <2>2, AnotherFault, DropLinksTypes DEF LinkTypes
<1>8. CASE \E c \in Clients, x \in ChangeSets : Relay(c, x) \/ Deliver(c, x)
    BY <1>8 DEF Relay, Deliver, stores, comparisons, LinkTypes
<1>9. CASE \E p \in Pairs :
              ListPeer(p[1], p[2]) \/ ListFails(p[1], p[2]) \/ RetryList(p[1], p[2])
    <2>1. PICK p \in Pairs :
              ListPeer(p[1], p[2]) \/ ListFails(p[1], p[2]) \/ RetryList(p[1], p[2])
        BY <1>9
    <2>2. <<p[1], p[2]>> \in Pairs
        BY DEF Pairs
    <2>3. held[p[2]] \in SUBSET ChangeSets
        BY <1>1, PairsOfNodes
    <2>4. /\ UNCHANGED <<up, link, written, cached>>
          /\ asked' \subseteq asked \cup {<<p[1], p[2]>>}
          /\ delayed' \subseteq delayed \cup {<<p[1], p[2]>>}
          /\ answered' \subseteq answered \cup {<<p[1], p[2], held[p[2]]>>}
          /\ faults' = faults \/ (faults < MaxFaults /\ faults' = faults + 1)
        BY <2>1 DEF ListPeer, ListFails, RetryList, stores
    <2>5. <<p[1], p[2], held[p[2]]>> \in {<<q[1], q[2], list>> :
                                            q \in Pairs, list \in SUBSET ChangeSets}
        BY <2>3
    <2>6. faults' \in 0..MaxFaults
        BY <2>4, AnotherFault DEF LinkTypes
    <2>7. QED
        BY <2>2, <2>4, <2>5, <2>6 DEF LinkTypes
<1>10. CASE \E p \in Pairs : \E list \in SUBSET ChangeSets : Compare(p[1], p[2], list)
    BY <1>10 DEF Compare, stores, LinkTypes
<1>11. QED
    BY <1>2, <1>3, <1>4, <1>5, <1>6, <1>7, <1>8, <1>9, <1>10
    DEF Next, Progress, Fault

-----------------------------------------------------------------------------
(* Types of the entries and of the references heard *)

EntryTypes ==
    /\ attempts \in [Nodes -> [ChangeSets -> 0 .. MaxAttempts - 1]]
    /\ gaveUp \in [Nodes -> SUBSET ChangeSets]
    /\ heard \in [Nodes -> SUBSET ChangeSets]

LEMMA NoAttempts == [x \in ChangeSets |-> 0] \in [ChangeSets -> 0 .. MaxAttempts - 1]
BY AttemptsAssumption

LEMMA EntryTypesInit == Init => EntryTypes
BY NoAttempts DEF Init, EntryTypes

LEMMA EntryTypesNext == EntryTypes /\ [Next]_vars => EntryTypes'
<1> SUFFICES ASSUME EntryTypes, [Next]_vars PROVE EntryTypes'
    OBVIOUS
<1>1. CASE UNCHANGED <<attempts, gaveUp, heard>>
    BY <1>1 DEF EntryTypes
<1>2. ASSUME NEW n \in Nodes, Crash(n)
      PROVE  EntryTypes'
    BY <1>2, NoAttempts DEF Crash, Forget, EntryTypes
<1>3. ASSUME NEW n \in Nodes, NEW x \in ChangeSets, Hear(n, x) \/ UNCHANGED <<heard, gaveUp>>,
             UNCHANGED attempts
      PROVE  EntryTypes'
    <2>1. /\ heard' = heard \/ heard' = [heard EXCEPT ![n] = @ \cup {x}]
          /\ gaveUp' = gaveUp \/ gaveUp' = [gaveUp EXCEPT ![n] = @ \ {x}]
        BY <1>3 DEF Hear, Receive
    <2>2. heard' \in [Nodes -> SUBSET ChangeSets]
        BY <2>1 DEF EntryTypes
    <2>3. gaveUp' \in [Nodes -> SUBSET ChangeSets]
        BY <2>1 DEF EntryTypes
    <2>4. QED
        BY <1>3, <2>2, <2>3 DEF EntryTypes
<1>4. ASSUME NEW p \in Pairs, NEW list \in SUBSET ChangeSets, Compare(p[1], p[2], list)
      PROVE  EntryTypes'
    BY <1>4 DEF Compare, Receive, EntryTypes
<1>5. ASSUME NEW n \in Nodes, NEW x \in ChangeSets, Settle(n, x),
             gaveUp' \in {gaveUp, [gaveUp EXCEPT ![n] = @ \cup {x}]}, UNCHANGED heard
      PROVE  EntryTypes'
    <2>1. attempts' \in [Nodes -> [ChangeSets -> 0 .. MaxAttempts - 1]]
        BY <1>5, AttemptsAssumption DEF Settle, EntryTypes
    <2>2. QED
        BY <1>5, <2>1 DEF EntryTypes
<1>6. ASSUME NEW n \in Nodes, NEW x \in ChangeSets, PullFails(n, x)
      PROVE  EntryTypes'
    <2>1. CASE attempts[n][x] + 1 >= MaxAttempts
        BY <1>5, <1>6, <2>1 DEF PullFails, PullBreaks
    <2>2. CASE ~(attempts[n][x] + 1 >= MaxAttempts)
        <3>1. attempts[n][x] + 1 \in 0 .. MaxAttempts - 1
            BY <2>2, AttemptsAssumption DEF EntryTypes
        <3>2. attempts' \in [Nodes -> [ChangeSets -> 0 .. MaxAttempts - 1]]
            BY <1>6, <2>2, <3>1 DEF PullFails, EntryTypes
        <3>3. QED
            BY <1>6, <2>2, <3>2 DEF PullFails, PullBreaks, EntryTypes
    <2>3. QED
        BY <2>1, <2>2
<1>7. ASSUME NEW n \in Nodes, NEW x \in ChangeSets, Record(n, x)
      PROVE  EntryTypes'
    BY <1>5, <1>7 DEF Record
<1>8. ASSUME NEW n \in Nodes, NEW x \in ChangeSets, Write(n, x) \/ Fetch(n, x)
      PROVE  EntryTypes'
    BY <1>1, <1>8 DEF Write, Fetch, agents, entries
<1>9. ASSUME NEW n \in Nodes, Restart(n)
      PROVE  EntryTypes'
    BY <1>1, <1>9 DEF Restart, agents, entries
<1>10. ASSUME NEW c \in Clients,
              \/ Connect(c) \/ ClientAttached(c) \/ HubAttached(c)
              \/ AnswerLost(c) \/ Disconnect(c)
       PROVE  EntryTypes'
    BY <1>1, <1>10 DEF Connect, ClientAttached, HubAttached, AnswerLost, Disconnect,
                       agents, entries
<1>11. ASSUME NEW c \in Clients, NEW x \in ChangeSets, Relay(c, x) \/ Deliver(c, x)
       PROVE  EntryTypes'
    BY <1>3, <1>11 DEF Relay, Deliver, Nodes
<1>12. ASSUME NEW n, NEW m, ListPeer(n, m) \/ ListFails(n, m) \/ RetryList(n, m)
       PROVE  EntryTypes'
    BY <1>1, <1>12 DEF ListPeer, ListFails, RetryList, entries
<1>13. CASE UNCHANGED vars
    BY <1>1, <1>13 DEF vars, agents, entries
<1>14. CASE Progress
    BY <1>4, <1>6, <1>7, <1>8, <1>9, <1>10, <1>11, <1>12, <1>14 DEF Progress
<1>15. CASE Fault
    BY <1>2, <1>10, <1>12, <1>15 DEF Fault
<1>16. QED
    BY <1>8, <1>13, <1>14, <1>15 DEF Next

-----------------------------------------------------------------------------
(* A list is asked for, or about to be asked for again, with a try left and *)
(* through a connection that is up: by a client once it is linked, by the   *)
(* hub once the client is ready.                                            *)

Asking ==
    /\ tries \in [Pairs -> 0 .. MaxAttempts]
    /\ \A p \in asked \cup delayed : p \in Pairs /\ tries[p] < MaxAttempts
    /\ asked \cap delayed = {}
    /\ \A c \in Clients : /\ <<Hub, c>> \in asked \cup delayed => link[c] = "ready"
                          /\ <<c, Hub>> \in asked \cup delayed => Linked(c)

LEMMA AskingInit == Init => Asking
BY AttemptsAssumption DEF Init, Asking

LEMMA AskingAnew ==
    ASSUME Asking, NEW p \in Pairs, tries' = [tries EXCEPT ![p] = 0]
    PROVE  /\ tries' \in [Pairs -> 0 .. MaxAttempts]
           /\ \A q \in asked \cup delayed \cup {p} : q \in Pairs /\ tries'[q] < MaxAttempts
BY AttemptsAssumption DEF Asking

LEMMA AskingNext == LinkTypes /\ Asking /\ [Next]_vars => Asking'
<1> SUFFICES ASSUME LinkTypes, Asking, [Next]_vars PROVE Asking'
    OBVIOUS
<1>1. ASSUME UNCHANGED tries, asked' \subseteq asked, delayed' \subseteq delayed,
             \A c \in Clients :
                 <<Hub, c>> \in asked' \cup delayed' \/ <<c, Hub>> \in asked' \cup delayed'
                     => link'[c] = link[c] \/ (Linked(c) /\ link'[c] = "ready")
      PROVE  Asking'
    BY <1>1 DEF Asking, Linked
<1>2. CASE UNCHANGED <<link, comparisons>>
    BY <1>1, <1>2 DEF comparisons
<1>3. ASSUME NEW c \in Clients, Connect(c)
      PROVE  Asking'
    <2>1. UNCHANGED comparisons /\ link[c] = "down" /\ link' = [link EXCEPT ![c] = "joined"]
        BY <1>3 DEF Connect, agents
    <2>2. \A d \in Clients : d # c => link'[d] = link[d]
        BY <2>1 DEF LinkTypes
    <2>3. QED
        BY <1>1, <2>1, <2>2 DEF Asking, Linked, comparisons
<1>4. ASSUME NEW c \in Clients, ClientAttached(c)
      PROVE  Asking'
    <2>1. /\ Ask(c, Hub) /\ UNCHANGED delayed /\ link[c] = "joined"
          /\ link' = [link EXCEPT ![c] = "answered"]
        BY <1>4 DEF ClientAttached
    <2>2. <<c, Hub>> \in Pairs /\ \A d \in Clients : <<c, Hub>> # <<Hub, d>>
        BY ClientPairs, NodesAssumption
    <2>3. <<c, Hub>> \notin delayed
        BY <2>1 DEF Asking, Linked
    <2>4. link'[c] = "answered" /\ \A d \in Clients : d # c => link'[d] = link[d]
        BY <2>1 DEF LinkTypes
    <2>5. \A d \in Clients : /\ <<Hub, d>> \in asked' \cup delayed' => link'[d] = "ready"
                             /\ <<d, Hub>> \in asked' \cup delayed' => Linked(d)'
        BY <2>1, <2>2, <2>4 DEF Ask, Asking, Linked
    <2>6. /\ tries' \in [Pairs -> 0 .. MaxAttempts]
          /\ \A p \in asked' \cup delayed' : p \in Pairs /\ tries'[p] < MaxAttempts
        BY <2>1, <2>2, AskingAnew DEF Ask
    <2>7. QED
        BY <2>1, <2>3, <2>5, <2>6 DEF Ask, Asking
<1>5. ASSUME NEW c \in Clients, HubAttached(c)
      PROVE  Asking'
    <2>1. /\ Ask(Hub, c) /\ UNCHANGED delayed /\ link[c] = "answered"
          /\ link' = [link EXCEPT ![c] = "ready"]
        BY <1>5 DEF HubAttached
    <2>2. <<Hub, c>> \in Pairs /\ \A d \in Clients : <<Hub, c>> # <<d, Hub>>
        BY ClientPairs, NodesAssumption
    <2>3. <<Hub, c>> \notin delayed
        BY <2>1 DEF Asking
    <2>4. link'[c] = "ready" /\ \A d \in Clients : d # c => link'[d] = link[d]
        BY <2>1 DEF LinkTypes
    <2>5. \A d \in Clients : /\ <<Hub, d>> \in asked' \cup delayed' => link'[d] = "ready"
                             /\ <<d, Hub>> \in asked' \cup delayed' => Linked(d)'
        BY <2>1, <2>2, <2>4 DEF Ask, Asking, Linked
    <2>6. /\ tries' \in [Pairs -> 0 .. MaxAttempts]
          /\ \A p \in asked' \cup delayed' : p \in Pairs /\ tries'[p] < MaxAttempts
        BY <2>1, <2>2, AskingAnew DEF Ask
    <2>7. QED
        BY <2>1, <2>3, <2>5, <2>6 DEF Ask, Asking
<1>6. ASSUME NEW c \in Clients, AnswerLost(c)
      PROVE  Asking'
    <2>1. /\ tries' = [tries EXCEPT ![<<Hub, c>>] = MaxAttempts]
          /\ UNCHANGED <<asked, delayed>> /\ link[c] = "answered"
          /\ link' = [link EXCEPT ![c] = "ready"]
        BY <1>6 DEF AnswerLost
    <2>2. <<Hub, c>> \notin asked \cup delayed /\ <<Hub, c>> \in Pairs
        BY <2>1, ClientPairs DEF Asking
    <2>3. link'[c] = "ready" /\ \A d \in Clients : d # c => link'[d] = link[d]
        BY <2>1 DEF LinkTypes
    <2>4. /\ tries' \in [Pairs -> 0 .. MaxAttempts]
          /\ \A p \in asked' \cup delayed' : p \in Pairs /\ tries'[p] < MaxAttempts
        BY <2>1, <2>2, AttemptsAssumption DEF Asking
    <2>5. QED
        BY <2>1, <2>3, <2>4 DEF Asking, Linked
<1>7. ASSUME NEW cs, DropLinks(cs), UNCHANGED tries
      PROVE  Asking'
    <2>1. /\ asked' \subseteq asked /\ delayed' \subseteq delayed
          /\ \A c \in Clients :
                 <<Hub, c>> \in asked' \cup delayed' \/ <<c, Hub>> \in asked' \cup delayed'
                     => c \notin cs
        BY <1>7 DEF DropLinks
    <2>2. QED
        BY <1>1, <1>7, <2>1 DEF DropLinks
<1>8. ASSUME NEW n \in Nodes, Crash(n)
      PROVE  Asking'
    BY <1>7, <1>8 DEF Crash
<1>9. ASSUME NEW c \in Clients, Disconnect(c)
      PROVE  Asking'
    BY <1>7, <1>9 DEF Disconnect
<1>10. ASSUME NEW p \in Pairs, ListPeer(p[1], p[2])
       PROVE  Asking'
    <2> DEFINE q == <<p[1], p[2]>>
    <2>1. /\ tries' = [tries EXCEPT ![q] = 0] /\ asked' \subseteq asked
          /\ UNCHANGED <<link, delayed>> /\ q \in Pairs
        BY <1>10 DEF ListPeer, Asking
    <2>2. QED
        BY <2>1, AskingAnew DEF Asking, Linked
<1>11. ASSUME NEW p \in Pairs, ListFails(p[1], p[2])
       PROVE  Asking'
    <2> DEFINE q == <<p[1], p[2]>>
    <2>1. /\ q \in asked /\ asked' = asked \ {q} /\ UNCHANGED link
          /\ tries' = [tries EXCEPT ![q] = @ + 1]
          /\ delayed' = IF tries'[q] < MaxAttempts THEN delayed \cup {q} ELSE delayed
        BY <1>11 DEF ListFails
    <2>2. q \in Pairs /\ tries[q] \in 0 .. MaxAttempts /\ tries[q] < MaxAttempts
        BY <2>1 DEF Asking
    <2>3. tries' \in [Pairs -> 0 .. MaxAttempts] /\ tries'[q] = tries[q] + 1
        BY <2>1, <2>2, AttemptsAssumption DEF Asking
    <2>4. \A r \in asked' \cup delayed' : r \in Pairs /\ tries'[r] < MaxAttempts
        <3>1. SUFFICES ASSUME NEW r \in asked' \cup delayed'
                       PROVE  r \in Pairs /\ tries'[r] < MaxAttempts
            OBVIOUS
        <3>2. q \notin delayed
            BY <2>1 DEF Asking
        <3>3. CASE r = q
            BY <2>1, <2>2, <3>2, <3>3
        <3>4. CASE r # q
            <4>1. r \in asked \cup delayed /\ tries'[r] = tries[r]
                BY <2>1, <3>1, <3>4 DEF Asking
            <4>2. QED
                BY <4>1 DEF Asking
        <3>5. QED
            BY <3>3, <3>4
    <2>5. asked' \cap delayed' = {} /\ asked' \cup delayed' \subseteq asked \cup delayed
        BY <2>1 DEF Asking
    <2>6. QED
        BY <2>1, <2>3, <2>4, <2>5 DEF Asking, Linked
<1>12. ASSUME NEW p \in Pairs, RetryList(p[1], p[2])
       PROVE  Asking'
    <2>1. /\ <<p[1], p[2]>> \in delayed /\ UNCHANGED <<link, tries>>
          /\ asked' = asked \cup {<<p[1], p[2]>>} /\ delayed' = delayed \ {<<p[1], p[2]>>}
        BY <1>12 DEF RetryList
    <2>2. asked' \cap delayed' = {} /\ asked' \cup delayed' \subseteq asked \cup delayed
        BY <2>1 DEF Asking
    <2>3. QED
        BY <2>1, <2>2 DEF Asking, Linked
<1>13. ASSUME NEW n \in Nodes, NEW x \in ChangeSets,
              \/ Write(n, x) \/ Fetch(n, x) \/ Record(n, x) \/ PullFails(n, x)
       PROVE  Asking'
    BY <1>2, <1>13 DEF Write, Fetch, Record, PullFails, PullBreaks, agents
<1>14. ASSUME NEW n \in Nodes, Restart(n)
       PROVE  Asking'
    BY <1>2, <1>14 DEF Restart, agents
<1>15. ASSUME NEW c \in Clients, NEW x \in ChangeSets, Relay(c, x) \/ Deliver(c, x)
       PROVE  Asking'
    BY <1>2, <1>15 DEF Relay, Deliver
<1>16. ASSUME NEW p \in Pairs, NEW list \in SUBSET ChangeSets, Compare(p[1], p[2], list)
       PROVE  Asking'
    BY <1>1, <1>16 DEF Compare
<1>17. CASE UNCHANGED vars
    BY <1>2, <1>17 DEF vars, agents
<1>18. CASE Progress
    BY <1>3, <1>4, <1>5, <1>10, <1>12, <1>13, <1>14, <1>15, <1>16, <1>18 DEF Progress
<1>19. CASE Fault
    BY <1>6, <1>8, <1>9, <1>11, <1>19 DEF Fault
<1>20. QED
    BY <1>13, <1>17, <1>18, <1>19 DEF Next

Types == LinkTypes /\ EntryTypes /\ Asking

LEMMA TypesInit == Init => Types
BY LinkTypesInit, EntryTypesInit, AskingInit DEF Types

LEMMA TypesNext == Inv /\ Types /\ [Next]_vars => Types'
BY LinkTypesNext, EntryTypesNext, AskingNext DEF Types

(* Every variable of the network keeps its type: messages, lists and       *)
(* questions go between a client and the hub only, whatever is lost, and a *)
(* bootstrap never names a missing reference.                              *)
THEOREM NetworkTypeCorrect == Spec => []TypeOK
<1>1. Init => Types
    BY TypesInit
<1>2. Inv /\ Types /\ [Next]_vars => Types'
    BY TypesNext
<1>3. Inv /\ Types => TypeOK
    <2> SUFFICES ASSUME Inv, Types PROVE TypeOK
        OBVIOUS
    <2>1. /\ held \in [Nodes -> SUBSET ChangeSets]
          /\ rows \in [Nodes -> SUBSET ChangeSets]
          /\ pending \in [Nodes -> SUBSET ChangeSets]
          /\ fetched \in [Nodes -> SUBSET ChangeSets]
        BY DEF Inv, Traced, Backed, Types, LinkTypes
    <2>2. /\ sent \subseteq Clients \X ChangeSets
          /\ relayed \subseteq Clients \X ChangeSets
          /\ latest \in ChangeSets \cup {NoChangeSet}
        BY DEF Inv, Traced, Types, LinkTypes
    <2>3. QED
        BY <2>1, <2>2 DEF Types, LinkTypes, EntryTypes, Asking, TypeOK
<1>4. QED
    BY <1>1, <1>2, <1>3, InvAlways, PTL DEF Spec

-----------------------------------------------------------------------------
(* At rest the hub holds what was written on nodes that keep their store *)

(* What the author of x keeps, it keeps for good. *)
Kept == \A x \in written : Author[x] \in Persistent => x \in held[Author[x]]

(* What the hub holds, pulls or gave up. *)
Known == held[Hub] \cup pending[Hub] \cup gaveUp[Hub]

(* The hub knows the reference its server names to clients and every one its *)
(* connector received; only of these may it drop an announcement.            *)
Remembered ==
    /\ latest \in ChangeSets => latest \in Known
    /\ heard[Hub] \subseteq Known

(* Client c is still going to compare its list with the one of the hub, or *)
(* was not able to read that one in any try.                               *)
OwedByClient(c, x) ==
    \/ link[c] \in {"down", "joined"}
    \/ <<c, Hub>> \in asked \cup delayed
    \/ \E a \in answered : a[1] = c /\ a[2] = Hub /\ x \notin a[3]
    \/ tries[<<c, Hub>>] = MaxAttempts

(* The hub is still going to compare its list with the one of c, or was not *)
(* able to read it.                                                         *)
OwedByHub(c, x) ==
    \/ link[c] # "ready"
    \/ <<Hub, c>> \in asked \cup delayed
    \/ \E a \in answered : a[1] = Hub /\ a[2] = c /\ x \in a[3]
    \/ tries[<<Hub, c>>] = MaxAttempts

(* The hub knows x, x is on its way to it, or both comparisons are to come. *)
Owed(c, x) ==
    \/ x \in Known
    \/ <<c, x>> \in sent
    \/ OwedByClient(c, x) /\ OwedByHub(c, x)

Owing == \A x \in written :
    Author[x] \in Persistent \cap Clients => Owed(Author[x], x)

Durable == Kept /\ Remembered /\ Owing

LEMMA AuthorOfWritten ==
    ASSUME Types, NEW x \in written
    PROVE  x \in ChangeSets /\ Author[x] \in Nodes
BY AuthorAssumption DEF Types, LinkTypes

LEMMA DurableInit == Init => Durable
BY NoChangeSetAssumption DEF Init, Durable, Kept, Remembered, Known, Owing, Nodes

(* The functions the steps below change, and where. *)
LEMMA Shapes ==
    ASSUME Inv, Types
    PROVE  /\ Hub \in Nodes /\ Hub \notin Clients /\ Nodes = {Hub} \cup Clients
           /\ held \in [Nodes -> SUBSET written] /\ pending \in [Nodes -> SUBSET written]
           /\ gaveUp \in [Nodes -> SUBSET ChangeSets]
           /\ heard \in [Nodes -> SUBSET ChangeSets]
           /\ link \in [Clients -> {"down", "joined", "answered", "ready"}]
           /\ sent \subseteq Clients \X written
BY NodesAssumption DEF Inv, Traced, Types, LinkTypes, EntryTypes, Nodes

(* What n receives it knows, and the hub forgets nothing by it. *)
LEMMA ReceivedIsKnown ==
    ASSUME Inv, Types, NEW n \in Nodes, NEW xs, Receive(n, xs), UNCHANGED held
    PROVE  Known \subseteq Known' /\ (n = Hub => xs \subseteq Known')
<1>1. pending'[n] = pending[n] \cup (xs \ held[n]) /\ gaveUp'[n] = gaveUp[n] \ xs
    BY Shapes DEF Receive
<1>2. ASSUME n # Hub PROVE UNCHANGED Known
    BY <1>2, Shapes DEF Receive, Known
<1>3. ASSUME n = Hub PROVE Known \subseteq Known' /\ xs \subseteq Known'
    BY <1>1, <1>3 DEF Known
<1>4. QED
    BY <1>2, <1>3

-----------------------------------------------------------------------------
(* A step after which every store, list and message that mattered is there. *)
LEMMA DurableStays ==
    ASSUME Inv, Types, Durable,
           written' = written, \A n \in Nodes : held[n] \subseteq held'[n],
           Known \subseteq Known',
           latest' = latest \/ latest' \in Known', heard'[Hub] \subseteq heard[Hub] \cup Known',
           \A c \in Clients : link[c] \in {"down", "joined"} =>
               link'[c] \in {"down", "joined"} \/ <<c, Hub>> \in asked',
           \A c \in Clients : link[c] # "ready" =>
               \/ link'[c] # "ready" \/ <<Hub, c>> \in asked'
               \/ tries'[<<Hub, c>>] = MaxAttempts,
           \A z \in sent : z \in sent' \/ z[2] \in Known',
           \A p \in asked \cup delayed :
               \/ p \in asked' \cup delayed' \/ <<p[1], p[2], held[p[2]]>> \in answered'
               \/ tries'[p] = MaxAttempts,
           answered \subseteq answered',
           \A p \in Pairs : tries[p] = MaxAttempts => tries'[p] = MaxAttempts \/ p \in asked'
    PROVE  Durable'
<1>1. Kept'
    BY AuthorOfWritten DEF Durable, Kept
<1>2. Remembered'
    BY DEF Durable, Remembered
<1>3. ASSUME NEW x \in written, Author[x] \in Persistent \cap Clients
      PROVE  Owed(Author[x], x)'
    <2> DEFINE c == Author[x]
    <2>1. c \in Clients /\ Owed(c, x) /\ x \in held[c]
        BY <1>3 DEF Durable, Owing, Kept
    <2>2. CASE x \in Known
        BY <2>2 DEF Owed
    <2>3. CASE <<c, x>> \in sent
        BY <2>3 DEF Owed
    <2>4. CASE x \notin Known /\ OwedByClient(c, x) /\ OwedByHub(c, x)
        <3>1. OwedByClient(c, x)'
            <4> DEFINE p == <<c, Hub>>
            <4>1. p \in Pairs /\ p[1] = c /\ p[2] = Hub
                BY <2>1, ClientPairs
            <4>2. CASE p \in asked \cup delayed
                <5>1. CASE <<c, Hub, held[Hub]>> \in answered'
                    <6> DEFINE a == <<c, Hub, held[Hub]>>
                    <6>1. a[1] = c /\ a[2] = Hub /\ x \notin a[3]
                        BY <2>4 DEF Known
                    <6>2. QED
                        BY <5>1, <6>1 DEF OwedByClient
                <5>2. CASE p \in asked' \cup delayed' \/ tries'[p] = MaxAttempts
                    BY <5>2 DEF OwedByClient
                <5>3. QED
                    BY <4>1, <4>2, <5>1, <5>2
            <4>3. CASE tries[p] = MaxAttempts
                BY <4>1, <4>3 DEF OwedByClient
            <4>4. CASE link[c] \in {"down", "joined"}
                BY <2>1, <4>4 DEF OwedByClient
            <4>5. CASE \E a \in answered : a[1] = c /\ a[2] = Hub /\ x \notin a[3]
                BY <4>5 DEF OwedByClient
            <4>6. QED
                BY <2>4, <4>2, <4>3, <4>4, <4>5 DEF OwedByClient
        <3>2. OwedByHub(c, x)'
            <4> DEFINE p == <<Hub, c>>
            <4>1. p \in Pairs /\ p[1] = Hub /\ p[2] = c
                BY <2>1, ClientPairs
            <4>2. CASE p \in asked \cup delayed
                <5>1. CASE <<Hub, c, held[c]>> \in answered'
                    <6> DEFINE a == <<Hub, c, held[c]>>
                    <6>1. a[1] = Hub /\ a[2] = c /\ x \in a[3]
                        BY <2>1
                    <6>2. QED
                        BY <5>1, <6>1 DEF OwedByHub
                <5>2. CASE p \in asked' \cup delayed' \/ tries'[p] = MaxAttempts
                    BY <5>2 DEF OwedByHub
                <5>3. QED
                    BY <4>1, <4>2, <5>1, <5>2
            <4>3. CASE tries[p] = MaxAttempts
                BY <4>1, <4>3 DEF OwedByHub
            <4>4. CASE link[c] # "ready"
                BY <2>1, <4>4 DEF OwedByHub
            <4>5. CASE \E a \in answered : a[1] = Hub /\ a[2] = c /\ x \in a[3]
                BY <4>5 DEF OwedByHub
            <4>6. QED
                BY <2>4, <4>2, <4>3, <4>4, <4>5 DEF OwedByHub
        <3>3. QED
            BY <3>1, <3>2 DEF Owed
    <2>5. QED
        BY <2>1, <2>2, <2>3, <2>4 DEF Owed
<1>4. QED
    BY <1>1, <1>2, <1>3 DEF Durable, Owing

(* A comparison of c with a list without x announces x, while connected; *)
(* one of the hub with a list that names x makes x known.                *)
LEMMA DurableCompare ==
    ASSUME Inv, Types, Durable, NEW p \in Pairs,
           NEW list \in SUBSET ChangeSets, Compare(p[1], p[2], list)
    PROVE  Durable'
<1> DEFINE n == p[1]
           m == p[2]
<1>1. n \in Nodes
    BY PairsOfNodes
<1>2. /\ answered' = answered \ {<<n, m, list>>}
      /\ Receive(n, list \ held[n])
      /\ Announce(n, held[n] \ list)
      /\ UNCHANGED <<link, written, held, heard, asked, delayed, tries>>
    BY DEF Compare, stores
<1>3. Known \subseteq Known' /\ (n = Hub => list \subseteq Known')
    <2>1. Known \subseteq Known' /\ (n = Hub => list \ held[n] \subseteq Known')
        BY <1>1, <1>2, ReceivedIsKnown
    <2>2. QED
        BY <1>2, <2>1 DEF Known
<1>4. Kept'
    BY <1>2 DEF Durable, Kept
<1>5. Remembered'
    <2>1. latest' = latest \/ latest' \in held[Hub]
        BY <1>2 DEF Announce, Multicast
    <2>2. held[Hub] \subseteq Known
        BY DEF Known
    <2>3. QED
        BY <1>2, <1>3, <2>1, <2>2 DEF Durable, Remembered
<1>6. sent \subseteq sent'
    BY <1>2 DEF Announce
<1>7. ASSUME NEW x \in written, Author[x] \in Persistent \cap Clients
      PROVE  Owed(Author[x], x)'
    <2> DEFINE c == Author[x]
    <2>1. Owed(c, x) /\ x \in held[c] /\ c \in Clients /\ c # Hub
        BY <1>7, Shapes DEF Durable, Owing, Kept
    <2>2. CASE c = n /\ m = Hub /\ x \notin list
        <3>1. CASE Linked(c)
            <4>1. <<c, x>> \in sent'
                BY <1>2, <2>1, <2>2, <3>1 DEF Announce
            <4>2. QED
                BY <4>1 DEF Owed
        <3>2. CASE ~Linked(c)
            <4>1. link[c] \in {"down", "joined"}
                BY <2>1, <3>2, Shapes DEF Linked
            <4>2. QED
                BY <1>2, <4>1 DEF Owed, OwedByClient, OwedByHub
        <3>3. QED
            BY <3>1, <3>2
    <2>3. CASE n = Hub /\ m = c /\ x \in list
        BY <1>3, <2>3 DEF Owed
    <2>4. CASE ~(c = n /\ m = Hub /\ x \notin list) /\ ~(n = Hub /\ m = c /\ x \in list)
        <3>1. ASSUME NEW a \in answered,
                     \/ a[1] = c /\ a[2] = Hub /\ x \notin a[3]
                     \/ a[1] = Hub /\ a[2] = c /\ x \in a[3]
              PROVE  a \in answered'
            BY <1>2, <2>4, <3>1
        <3>2. OwedByClient(c, x) => OwedByClient(c, x)'
            BY <1>2, <3>1 DEF OwedByClient
        <3>3. OwedByHub(c, x) => OwedByHub(c, x)'
            BY <1>2, <3>1 DEF OwedByHub
        <3>4. QED
            BY <1>3, <1>6, <2>1, <3>2, <3>3 DEF Owed
    <2>5. QED
        BY <2>2, <2>3, <2>4
<1>8. QED
    BY <1>2, <1>4, <1>5, <1>7 DEF Durable, Owing

(* A hub that lost its store lost its connections too; so did a client *)
(* whose process ended.                                                *)
LEMMA DurableDrop ==
    ASSUME Inv, Types, Durable, NEW n \in Nodes, Crash(n) \/ Disconnect(n),
           n \in Clients \/ Crash(n)
    PROVE  Durable'
<1> DEFINE cs == IF n = Hub THEN Clients ELSE {n}
<1>1. /\ Hub \in Nodes /\ Hub \notin Clients /\ Nodes = {Hub} \cup Clients
      /\ held \in [Nodes -> SUBSET written] /\ pending \in [Nodes -> SUBSET written]
      /\ gaveUp \in [Nodes -> SUBSET ChangeSets] /\ heard \in [Nodes -> SUBSET ChangeSets]
    BY Shapes
<1>2. /\ DropLinks(cs) /\ written' = written /\ tries' = tries
      /\ \A k \in Nodes : k # n \/ k \in Persistent => held'[k] = held[k]
      /\ \A k \in Nodes : k # n => /\ pending'[k] = pending[k] /\ gaveUp'[k] = gaveUp[k]
                                   /\ heard'[k] = heard[k]
      /\ n = Hub => heard'[Hub] = {}
      /\ answered' = answered \/ answered' = {a \in answered : a[1] # n}
      /\ latest' = IF n = Hub THEN NoChangeSet ELSE latest
    <2>1. CASE Crash(n)
        BY <1>1, <2>1 DEF Crash, Forget
    <2>2. CASE Disconnect(n) /\ n \in Clients
        BY <1>1, <2>2 DEF Disconnect, stores, entries
    <2>3. QED
        BY <2>1, <2>2
<1>3. Kept'
    BY <1>1, <1>2, AuthorOfWritten DEF Durable, Kept
<1>4. n # Hub => Known' = Known
    BY <1>1, <1>2 DEF Known
<1>5. Remembered'
    BY <1>1, <1>2, <1>4, NoChangeSetAssumption DEF Durable, Remembered
<1>6. ASSUME NEW x \in written, Author[x] \in Persistent \cap Clients
      PROVE  Owed(Author[x], x)'
    <2> DEFINE c == Author[x]
    <2>1. Owed(c, x) /\ c \in Clients /\ c # Hub
        BY <1>1, <1>6 DEF Durable, Owing
    <2>2. CASE c \in cs
        BY <1>2, <2>1, <2>2 DEF DropLinks, Owed, OwedByClient, OwedByHub
    <2>3. CASE c \notin cs
        <3>1. n # Hub /\ n # c
            BY <2>1, <2>3
        <3>2. /\ link'[c] = link[c]
              /\ <<c, x>> \in sent => <<c, x>> \in sent'
              /\ <<c, Hub>> \in asked \cup delayed => <<c, Hub>> \in asked' \cup delayed'
              /\ <<Hub, c>> \in asked \cup delayed => <<Hub, c>> \in asked' \cup delayed'
              /\ \A a \in answered : a[1] \in {c, Hub} => a \in answered'
            BY <1>1, <1>2, <2>1, <2>3, <3>1 DEF DropLinks
        <3>3. OwedByClient(c, x) => OwedByClient(c, x)'
            BY <1>2, <3>2 DEF OwedByClient
        <3>4. OwedByHub(c, x) => OwedByHub(c, x)'
            BY <1>2, <3>2 DEF OwedByHub
        <3>5. QED
            BY <1>4, <2>1, <3>1, <3>2, <3>3, <3>4 DEF Owed
    <2>4. QED
        BY <2>2, <2>3
<1>7. QED
    BY <1>2, <1>3, <1>5, <1>6 DEF Durable, Owing

(* A new change set of a connected client is on its way at once. *)
LEMMA DurableWrite ==
    ASSUME Inv, Types, Durable, NEW n \in Nodes, NEW x \in ChangeSets, Write(n, x)
    PROVE  Durable'
<1>1. /\ written' = written \cup {x} /\ Author[x] = n /\ Announce(n, {x})
      /\ held' = [held EXCEPT ![n] = @ \cup {x}]
      /\ UNCHANGED <<link, pending, gaveUp, heard, asked, delayed, answered, tries>>
    BY DEF Write, agents, entries, comparisons
<1>2. /\ \A k \in Nodes : held[k] \subseteq held'[k]
      /\ Known \subseteq Known' /\ (n = Hub => x \in Known')
    BY <1>1, Shapes DEF Known
<1>3. Kept'
    BY <1>1, <1>2, Shapes, AuthorOfWritten DEF Durable, Kept
<1>4. sent \subseteq sent' /\ (latest' = latest \/ (latest' = x /\ n = Hub))
    BY <1>1 DEF Announce, Multicast
<1>5. Remembered'
    BY <1>1, <1>2, <1>4 DEF Durable, Remembered
<1>6. ASSUME NEW y \in written', Author[y] \in Persistent \cap Clients
      PROVE  Owed(Author[y], y)'
    <2> DEFINE c == Author[y]
    <2>1. CASE y \in written
        <3>1. Owed(c, y)
            BY <1>6, <2>1 DEF Durable, Owing
        <3>2. /\ OwedByClient(c, y) => OwedByClient(c, y)'
              /\ OwedByHub(c, y) => OwedByHub(c, y)'
            BY <1>1 DEF OwedByClient, OwedByHub
        <3>3. QED
            BY <1>2, <1>4, <3>1, <3>2 DEF Owed
    <2>2. CASE y = x
        <3>1. c = n /\ c # Hub /\ c \in Clients
            BY <1>1, <1>6, <2>2, Shapes
        <3>2. CASE Linked(c)
            BY <1>1, <2>2, <3>1, <3>2 DEF Announce, Owed
        <3>3. CASE ~Linked(c)
            <4>1. link[c] \in {"down", "joined"}
                BY <3>1, <3>3, Shapes DEF Linked
            <4>2. QED
                BY <1>1, <4>1 DEF Owed, OwedByClient, OwedByHub
        <3>4. QED
            BY <3>2, <3>3
    <2>3. QED
        BY <1>1, <2>1, <2>2
<1>7. QED
    BY <1>3, <1>5, <1>6 DEF Durable, Owing

(* A pull ends with the change set held, pending as before or given up. *)
LEMMA DurablePull ==
    ASSUME Inv, Types, Durable, NEW n \in Nodes, NEW x \in ChangeSets,
           Fetch(n, x) \/ Record(n, x) \/ PullFails(n, x)
    PROVE  Durable'
<1>1. /\ UNCHANGED <<written, link, heard, sent, latest, asked, delayed, answered, tries>>
      /\ held' = held \/ held' = [held EXCEPT ![n] = @ \cup {x}]
      /\ pending' = pending \/ pending' = [pending EXCEPT ![n] = @ \ {x}]
      /\ gaveUp' = gaveUp \/ gaveUp' = [gaveUp EXCEPT ![n] = @ \cup {x}]
      /\ \/ pending' = pending
         \/ held' = [held EXCEPT ![n] = @ \cup {x}]
         \/ gaveUp' = [gaveUp EXCEPT ![n] = @ \cup {x}]
    BY DEF Fetch, Record, PullFails, PullBreaks, Settle, comparisons, mail, stores
<1>2. /\ \A k \in Nodes : held[k] \subseteq held'[k]
      /\ Known \subseteq Known'
    BY <1>1, Shapes DEF Known
<1>3. QED
    BY <1>1, <1>2, DurableStays

(* An announcement that arrives at the hub is dropped only if the hub knows *)
(* the change set.                                                          *)
LEMMA DurableMessage ==
    ASSUME Inv, Types, Durable, NEW c \in Clients, NEW x \in ChangeSets,
           Relay(c, x) \/ Deliver(c, x)
    PROVE  Durable'
<1>1. UNCHANGED <<link, written, held, asked, delayed, answered, tries>>
    BY DEF Relay, Deliver, comparisons, stores
<1>2. CASE Relay(c, x)
    <2>1. /\ sent' = sent \ {<<c, x>>} /\ (latest' = latest \/ latest' = x)
          /\ IF x = latest THEN UNCHANGED <<heard, pending, gaveUp>> ELSE Hear(Hub, x)
        BY <1>2 DEF Relay, Multicast
    <2>2. Known \subseteq Known' /\ x \in Known' /\ heard'[Hub] \subseteq heard[Hub] \cup {x}
        <3>1. CASE x = latest
            BY <1>1, <2>1, <3>1 DEF Durable, Remembered, Known
        <3>2. CASE x # latest /\ x \in heard[Hub]
            BY <1>1, <2>1, <3>2, Shapes DEF Durable, Remembered, Known, Hear
        <3>3. CASE x # latest /\ x \notin heard[Hub]
            <4>1. Receive(Hub, {x}) /\ heard' = [heard EXCEPT ![Hub] = @ \cup {x}]
                BY <2>1, <3>3 DEF Hear
            <4>2. Known \subseteq Known' /\ {x} \subseteq Known'
                BY <1>1, <4>1, Shapes, ReceivedIsKnown
            <4>3. QED
                BY <4>1, <4>2, Shapes
        <3>4. QED
            BY <3>1, <3>2, <3>3
    <2>3. \A z \in sent : z \in sent' \/ z[2] \in Known'
        BY <2>1, <2>2
    <2>4. QED
        BY <1>1, <2>1, <2>2, <2>3, DurableStays
<1>3. CASE Deliver(c, x)
    <2>1. UNCHANGED <<sent, latest>> /\ Hear(c, x)
        BY <1>3 DEF Deliver
    <2>2. UNCHANGED Known /\ heard'[Hub] = heard[Hub]
        BY <1>1, <2>1, Shapes DEF Hear, Receive, Known
    <2>3. QED
        BY <1>1, <2>1, <2>2, DurableStays
<1>4. QED
    BY <1>2, <1>3

(* A question is answered, asked again or given up after its last try. *)
LEMMA DurableLists ==
    ASSUME Inv, Types, Durable, NEW p \in Pairs,
           ListPeer(p[1], p[2]) \/ ListFails(p[1], p[2]) \/ RetryList(p[1], p[2])
    PROVE  Durable'
<1> DEFINE q == <<p[1], p[2]>>
<1>1. /\ UNCHANGED <<written, link, held, pending, gaveUp, heard, sent, latest>>
      /\ answered \subseteq answered'
    BY DEF ListPeer, ListFails, RetryList, stores, entries, mail
<1>2. /\ tries \in [Pairs -> 0 .. MaxAttempts] /\ q \in Pairs /\ MaxAttempts \in Nat \ {0}
      /\ \A r \in asked \cup delayed : r \in Pairs /\ tries[r] < MaxAttempts
    BY AttemptsAssumption DEF Types, Asking, Pairs
<1>3. \A r \in asked \cup delayed :
          \/ r \in asked' \cup delayed' \/ <<r[1], r[2], held[r[2]]>> \in answered'
          \/ tries'[r] = MaxAttempts
    <2>1. CASE ListPeer(p[1], p[2])
        BY <2>1 DEF ListPeer
    <2>2. CASE RetryList(p[1], p[2])
        BY <2>2 DEF RetryList
    <2>3. CASE ListFails(p[1], p[2])
        <3>1. /\ q \in asked /\ asked' = asked \ {q}
              /\ tries' = [tries EXCEPT ![q] = @ + 1]
              /\ delayed' = IF tries'[q] < MaxAttempts THEN delayed \cup {q} ELSE delayed
            BY <2>3 DEF ListFails
        <3>2. tries'[q] = tries[q] + 1 /\ tries[q] \in 0 .. MaxAttempts /\ tries[q] < MaxAttempts
            BY <1>2, <3>1
        <3>3. tries'[q] < MaxAttempts \/ tries'[q] = MaxAttempts
            BY <1>2, <3>2
        <3>4. QED
            BY <3>1, <3>3
    <2>4. QED
        BY <2>1, <2>2, <2>3
<1>4. \A r \in Pairs : tries[r] = MaxAttempts => tries'[r] = MaxAttempts
    <2>1. q \in asked \cup delayed
        BY DEF ListPeer, ListFails, RetryList
    <2>2. tries[q] # MaxAttempts
        BY <1>2, <2>1
    <2>3. \A r \in Pairs : r # q => tries'[r] = tries[r]
        BY <1>2 DEF ListPeer, ListFails, RetryList
    <2>4. QED
        BY <2>2, <2>3
<1>5. QED
    BY <1>1, <1>3, <1>4, DurableStays DEF Known

LEMMA DurableConnection ==
    ASSUME Inv, Types, Durable, NEW c \in Clients,
           Connect(c) \/ ClientAttached(c) \/ HubAttached(c) \/ AnswerLost(c)
    PROVE  Durable'
<1>1. /\ UNCHANGED <<written, held, pending, gaveUp, heard, sent, latest, delayed, answered>>
      /\ asked \subseteq asked'
    BY DEF Connect, ClientAttached, HubAttached, AnswerLost, Ask,
           stores, agents, entries, comparisons, mail
<1>2. /\ \A d \in Clients : link[d] \in {"down", "joined"} =>
             link'[d] \in {"down", "joined"} \/ <<d, Hub>> \in asked'
      /\ \A d \in Clients : link[d] # "ready" =>
             \/ link'[d] # "ready" \/ <<Hub, d>> \in asked'
             \/ tries'[<<Hub, d>>] = MaxAttempts
    <2>1. CASE Connect(c)
        BY <2>1, Shapes DEF Connect
    <2>2. CASE ClientAttached(c)
        BY <2>2, Shapes DEF ClientAttached, Ask
    <2>3. CASE HubAttached(c)
        BY <2>3, Shapes DEF HubAttached, Ask
    <2>4. CASE AnswerLost(c)
        BY <2>4, Shapes, ClientPairs DEF AnswerLost, Types, Asking
    <2>5. QED
        BY <2>1, <2>2, <2>3, <2>4
<1>3. \A p \in Pairs : tries[p] = MaxAttempts => tries'[p] = MaxAttempts \/ p \in asked'
    BY DEF Connect, ClientAttached, HubAttached, AnswerLost, Ask, agents, comparisons,
           Types, Asking
<1>4. QED
    BY <1>1, <1>2, <1>3, DurableStays DEF Known

LEMMA DurableNext == Inv /\ Types /\ Durable /\ [Next]_vars => Durable'
<1> SUFFICES ASSUME Inv, Types, Durable, [Next]_vars PROVE Durable'
    OBVIOUS
<1>1. CASE UNCHANGED <<stores, agents, mail, link>>
    BY <1>1, DurableStays DEF stores, agents, entries, comparisons, mail, Known
<1>2. CASE UNCHANGED vars
    BY <1>1, <1>2 DEF vars
<1>3. ASSUME NEW n \in Nodes, Restart(n)
      PROVE  Durable'
    BY <1>1, <1>3 DEF Restart
<1>4. ASSUME NEW c \in Clients, Disconnect(c)
      PROVE  Durable'
    BY <1>4, DurableDrop DEF Nodes
<1>5. CASE Progress
    BY <1>3, <1>5, DurableConnection, DurableMessage, DurableLists, DurableCompare,
       DurablePull DEF Progress
<1>6. CASE Fault
    BY <1>4, <1>6, DurableConnection, DurableDrop, DurableLists DEF Fault
<1>7. QED
    BY <1>2, <1>5, <1>6, DurableWrite DEF Next

(* Through any number of crashes, lost connections, lost answers and failed *)
(* pulls, and also when the hub's own store ends with its process: at rest  *)
(* the hub holds every change set whose author kept its store, or shows it  *)
(* as failed, unless the author could not read the hub's list in any try    *)
(* and the hub not that of the author (compareWith, receive,                *)
(* settleFailedPull, Server._multicastRefs, Connector._processIncoming).    *)
THEOREM HubLearnsWhatIsKept == Spec => []AtRestHubHoldsDurable
<1>1. Init => Types /\ Durable
    BY TypesInit, DurableInit
<1>2. Inv /\ Types /\ Durable /\ [Next]_vars => (Types /\ Durable)'
    BY TypesNext, DurableNext
<1>3. Inv /\ Types /\ Durable => AtRestHubHoldsDurable
    <2> SUFFICES ASSUME Inv, Types, Durable, AtRest,
                        NEW x \in written, Author[x] \in Persistent
                 PROVE  \/ x \in held[Hub] \cup gaveUp[Hub]
                        \/ Author[x] \in Clients /\ Uncompared(Author[x])
        BY DEF AtRestHubHoldsDurable
    <2>1. Author[x] \in Nodes /\ x \in held[Author[x]]
        BY AuthorOfWritten DEF Durable, Kept
    <2>2. CASE Author[x] \in Clients
        <3>1. Owed(Author[x], x)
            BY <2>2 DEF Durable, Owing
        <3>2. pending[Hub] = {} /\ link[Author[x]] = "ready"
            BY <2>2 DEF AtRest, Nodes
        <3>3. QED
            BY <2>2, <3>1, <3>2
            DEF Owed, OwedByClient, OwedByHub, Known, AtRest, Uncompared
    <2>3. QED
        BY <2>1, <2>2 DEF Nodes
<1>4. QED
    BY <1>1, <1>2, <1>3, InvAlways, PTL DEF Spec
=============================================================================
