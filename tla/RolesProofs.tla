----------------------------- MODULE RolesProofs -----------------------------
(***************************************************************************)
(* Theorems about Roles, for every set of nodes and addresses, every       *)
(* number of bind attempts and every bound.                                *)
(*                                                                         *)
(* The inductive invariant Inv says which await of the running transition  *)
(* goes with which state of the transport.  While a teardown is awaited    *)
(* there is no role; what was torn down is the only thing that can still   *)
(* be open, and nothing new is opened before it is closed.                 *)
(***************************************************************************)
EXTENDS Roles, SequenceTheorems, TLAPS

(* A role has a number, no role has none of the parts of one. *)
StateFits ==
    /\ state.role = "standalone" => state = Standalone
    /\ state.role # "standalone" => state.id # Nobody
    /\ state.role = "hub" => ~state.connected /\ state.handshake = "none"
    /\ state.id <= made

(* The await of the running transition tells whether there is a role. *)
JobFits ==
    /\ job.await \in {"teardown", "listening"} => state.role = "standalone"
    /\ job.await \in {"connecting", "init", "dropping"} => state.role = "client"
    /\ closing # {} => job.await = "teardown"

(* Open is what the role holds, or else what is being closed. *)
OpenFits ==
    /\ state.role # "standalone" => open = {state.id}
    /\ state.role = "standalone" => open = closing
    /\ \A i, j \in open : i = j

(* Whoever serves the store is the role in use; a hub always does. *)
ServedFits ==
    /\ served # Nobody => served = state.id
    /\ state.role = "hub" => served = state.id

(* An attachment waits for a socket that was made, never for a server. *)
AttachmentsOf(q) == {q[i].of : i \in {j \in DOMAIN q : q[j].kind = "attach"}}

QueueFits ==
    /\ AttachmentsOf(queue) \subseteq 1..made
    /\ state.role = "hub" => state.id \notin AttachmentsOf(queue)

Core == TypeOK /\ StateFits /\ JobFits /\ OpenFits /\ ServedFits

Inv == Core /\ QueueFits

-----------------------------------------------------------------------------
(* Types of what the actions build *)

LEMMA CallTypes ==
    /\ \A k \in Kinds, a \in Addresses \cup {Null} : Call(k, a) \in CallType
    /\ \A n \in Nat : Attachment(n) \in CallType
    /\ \A a \in Addresses \cup {Null} : Again(a) \in CallType
    /\ NoJob \in JobType
    /\ \A c \in CallType, w \in Awaits : Job(c, w) \in JobType
BY DEF Kinds, CallType, Call, Attachment, Again, NoJob, Job, JobType, Awaits,
       Nobody

LEMMA StateTypes ==
    /\ Standalone \in StateType
    /\ \A n \in Nat, c \in CallType :
        /\ HubState(n, c) \in StateType
        /\ HubState(n, c).role = "hub" /\ HubState(n, c).id = n
        /\ ClientState(n, c) \in StateType
        /\ ClientState(n, c).role = "client" /\ ClientState(n, c).id = n
<1>1. Standalone \in StateType
    BY DEF Standalone, StateType, Nobody
<1> SUFFICES ASSUME NEW n \in Nat, NEW c \in CallType
             PROVE  /\ HubState(n, c) \in StateType
                    /\ HubState(n, c).role = "hub" /\ HubState(n, c).id = n
                    /\ ClientState(n, c) \in StateType
                    /\ ClientState(n, c).role = "client"
                    /\ ClientState(n, c).id = n
    BY <1>1
<1>2. c.known \in BOOLEAN /\ c.address \in Addresses \cup {Null}
    BY DEF CallType
<1>3. QED
    BY <1>2 DEF HubState, ClientState, StateType

(* The first in the queue is a call, and what is left is a queue. *)
LEMMA QueueTypes ==
    /\ \A q \in Seq(CallType) : q # <<>> =>
            Head(q) \in CallType /\ Tail(q) \in Seq(CallType)
    /\ \A q \in Seq(CallType), c \in CallType : Append(q, c) \in Seq(CallType)
BY HeadTailProperties, AppendProperties

(* What the queue waits to attach grows by an attachment only. *)
LEMMA AttachmentsFit ==
    /\ AttachmentsOf(<<>>) = {}
    /\ \A q \in Seq(CallType), c \in CallType :
        AttachmentsOf(Append(q, c)) \subseteq
            AttachmentsOf(q) \cup (IF c.kind = "attach" THEN {c.of} ELSE {})
    /\ \A q \in Seq(CallType) : q # <<>> =>
        /\ AttachmentsOf(Tail(q)) \subseteq AttachmentsOf(q)
        /\ Head(q).kind = "attach" => Head(q).of \in AttachmentsOf(q)
<1>1. AttachmentsOf(<<>>) = {}
    BY DEF AttachmentsOf
<1>2. ASSUME NEW q \in Seq(CallType), NEW c \in CallType
      PROVE  AttachmentsOf(Append(q, c)) \subseteq
                AttachmentsOf(q) \cup (IF c.kind = "attach" THEN {c.of} ELSE {})
    <2>1. /\ DOMAIN Append(q, c) = 1..Len(q) + 1 /\ DOMAIN q = 1..Len(q)
          /\ Len(q) \in Nat
          /\ \A i \in 1..Len(q) : Append(q, c)[i] = q[i]
          /\ Append(q, c)[Len(q) + 1] = c
        BY AppendProperties, LenProperties
    <2>2. \A i \in 1..Len(q) + 1 : i \in 1..Len(q) \/ i = Len(q) + 1
        BY <2>1
    <2>3. QED
        BY <2>1, <2>2 DEF AttachmentsOf
<1>3. ASSUME NEW q \in Seq(CallType), q # <<>>
      PROVE  /\ AttachmentsOf(Tail(q)) \subseteq AttachmentsOf(q)
             /\ Head(q).kind = "attach" => Head(q).of \in AttachmentsOf(q)
    <2>1. /\ Head(q) = q[1] /\ Len(q) \in Nat /\ Len(q) >= 1
          /\ DOMAIN q = 1..Len(q)
          /\ Tail(q) \in Seq(CallType) /\ Len(Tail(q)) = Len(q) - 1
          /\ \A i \in 1..Len(q) - 1 : Tail(q)[i] = q[i + 1]
        BY <1>3, HeadTailProperties, LenProperties, EmptySeq
    <2>2. DOMAIN Tail(q) = 1..Len(q) - 1
        BY <2>1, LenProperties
    <2>3. \A i \in DOMAIN Tail(q) : i + 1 \in DOMAIN q /\ Tail(q)[i] = q[i + 1]
        BY <2>1, <2>2
    <2>4. 1 \in DOMAIN q
        BY <2>1
    <2>5. QED
        BY <2>1, <2>3, <2>4 DEF AttachmentsOf
<1>4. QED
    BY <1>1, <1>2, <1>3

(* A teardown leaves nothing but what is to be closed. *)
LEMMA TearDownFits ==
    ASSUME Inv, TearDown, UNCHANGED open, closing = {}
    PROVE  /\ state' = Standalone /\ state' \in StateType
           /\ closing' \subseteq open' /\ open' = closing'
           /\ \A i, j \in open' : i = j
           /\ served' = Nobody /\ retry' = Null
BY StateTypes DEF Inv, Core, TypeOK, StateFits, OpenFits, TearDown, Standalone

-----------------------------------------------------------------------------
(* The invariant *)

LEMMA InitInv == Init => Inv
<1> SUFFICES ASSUME Init PROVE Inv
    OBVIOUS
<1>1. TypeOK
    <2>1. asked \in CallType /\ job \in JobType /\ queue \in Seq(CallType)
        BY CallTypes DEF Init, Kinds
    <2>2. state \in StateType /\ joined \in [Clients -> JoinedType]
        BY StateTypes DEF Init, Out, JoinedType, Nobody
    <2>3. budget \in [elections : Nat, drops : Nat, faults : Nat]
        BY NumbersAssumption DEF Init
    <2>4. QED
        BY <2>1, <2>2, <2>3 DEF Init, TypeOK, Nobody
<1>2. StateFits /\ JobFits /\ OpenFits /\ ServedFits
    BY DEF Init, StateFits, JobFits, OpenFits, ServedFits, NoJob, Job,
           Standalone, Nobody
<1>3. QueueFits
    BY AttachmentsFit DEF Init, QueueFits, Standalone
<1>4. QED
    BY <1>1, <1>2, <1>3 DEF Inv, Core

(* The queue fits as long as no attachment is added and no hub made. *)
LEMMA QueueStays ==
    ASSUME Inv, made' = made,
           AttachmentsOf(queue') \subseteq AttachmentsOf(queue),
           state'.role = "hub" => state.role = "hub" /\ state'.id = state.id
    PROVE  QueueFits'
BY DEF Inv, QueueFits

(* A call of another kind, or none, adds no attachment. *)
LEMMA CallStays ==
    ASSUME Inv, UNCHANGED <<state, made>>,
           \/ UNCHANGED queue
           \/ \E c \in CallType : c.kind # "attach" /\ queue' = Append(queue, c)
    PROVE  QueueFits'
BY AttachmentsFit, QueueStays DEF Inv, Core, TypeOK

(* The manager and the clients of a hub touch none of what the transport *)
(* owns but its queue.                                                   *)
Owned == <<job, state, open, closing, served, made>>

LEMMA OwnedStays ==
    ASSUME Inv, UNCHANGED Owned
    PROVE  StateFits' /\ JobFits' /\ OpenFits' /\ ServedFits'
BY DEF Inv, Core, Owned, StateFits, JobFits, OpenFits, ServedFits

LEMMA ManagerInv ==
    ASSUME Inv, Manager
    PROVE  Core'
<1>1. CASE Start \/ Started \/ Stop
    BY <1>1, OwnedStays
       DEF Inv, Core, TypeOK, Start, Started, Stop, Owned
<1>2. CASE StopReturns
    <2>1. asked' \in CallType /\ queue' \in Seq(CallType)
        BY <1>2, CallTypes, QueueTypes DEF Inv, Core, TypeOK, StopReturns, Ask, Kinds
    <2>2. QED
        BY <1>2, <2>1, OwnedStays DEF Inv, Core, TypeOK, StopReturns, Owned
<1>3. ASSUME NEW o \in Outcomes, Elect(o[1], o[2])
      PROVE  Core'
    <2> DEFINE t == [hub |-> o[1], address |-> o[2], role |-> RoleOf(o[1])]
    <2>1. t \in [hub : Hubs \cup {Self, Null}, address : Addresses \cup {Null},
                 role : {"unassigned", "hub", "client"}]
        BY DEF Outcomes, RoleOf
    <2>2. topology' = t /\ budget' \in [elections : Nat, drops : Nat, faults : Nat]
        BY <1>3 DEF Elect, Spend, Inv, Core, TypeOK
    <2>3. /\ followed' \in {"unassigned", "hub", "client"}
          /\ asked' \in CallType /\ queue' \in Seq(CallType)
        <3>1. CASE FollowRole(t)
            <4>1. /\ Call("hub", Null) \in CallType
                  /\ Call("client", t.address) \in CallType
                  /\ Call("standalone", Null) \in CallType
                BY <2>1, CallTypes DEF Kinds
            <4>2. \A c \in CallType : Ask(c) =>
                        asked' \in CallType /\ queue' \in Seq(CallType)
                BY QueueTypes DEF Ask, Inv, Core, TypeOK
            <4>3. t.role \in {"unassigned", "hub", "client"}
                BY <2>1
            <4> HIDE DEF t
            <4>4. QED
                BY <3>1, <4>1, <4>2, <4>3 DEF FollowRole, Inv, Core, TypeOK
        <3>2. CASE UNCHANGED <<followed, asked, queue>>
            BY <3>2 DEF Inv, Core, TypeOK
        <3>3. QED
            BY <1>3, <3>1, <3>2 DEF Elect
    <2>4. QED
        BY <1>3, <2>1, <2>2, <2>3, OwnedStays DEF Elect, Inv, Core, TypeOK, Owned
<1>4. QED
    BY <1>1, <1>2, <1>3 DEF Manager

(* Every step of a client towards this hub changes that client's entry only. *)
LEMMA JoinInv ==
    ASSUME Inv, NEW c \in Clients, NEW entry \in JoinedType, Join(c, entry)
    PROVE  Core'
BY OwnedStays DEF Inv, Core, TypeOK, Join, Owned, orchestrator

LEMMA ClientsInv ==
    ASSUME Inv, NEW c \in Clients,
           \/ ClientConnects(c) \/ ClientAdded(c) \/ ClientGone(c)
           \/ ClientReady(c) \/ ClientSilent(c)
    PROVE  Core'
<1>1. PICK entry \in JoinedType : Join(c, entry)
    <2>1. joined[c] \in JoinedType /\ state.id \in Nat
        BY DEF Inv, Core, TypeOK, StateType
    <2>2. /\ Out \in JoinedType /\ [at |-> "adding", of |-> state.id] \in JoinedType
          /\ \A a \in {"asked", "attached", "unheard"} :
                [joined[c] EXCEPT !.at = a] \in JoinedType
        BY <2>1 DEF JoinedType, Out, Nobody
    <2>3. QED
        BY <2>2 DEF ClientConnects, ClientAdded, ClientGone, ClientReady,
                    ClientSilent
<1>2. QED
    BY <1>1, JoinInv

(* RunNext: a call that changes the role tears down first. *)
LEMMA RunNextInv ==
    ASSUME Inv, RunNext
    PROVE  Core'
<1> DEFINE call == Head(queue)
<1>1. call \in CallType /\ queue' \in Seq(CallType)
    BY QueueTypes DEF RunNext, Inv, Core, TypeOK
<1>2. job.await = "nothing" /\ closing = {} /\ UNCHANGED open
    BY DEF RunNext, NoJob, Inv, Core, JobFits
<1>3. /\ Job(call, "teardown") \in JobType
      /\ Job(call, "teardown").await = "teardown"
      /\ Job(call, "init") \in JobType /\ Job(call, "init").await = "init"
    BY <1>1, CallTypes DEF Job, Awaits
<1>4. /\ UNCHANGED <<orchestrator, asked, open, joined, made, budget>>
      /\ gaveUp' \in BOOLEAN
    BY DEF RunNext, BecomeHub, BecomeClient, BecomeStandalone, AttachClient,
           Inv, Core, TypeOK
<1> HIDE DEF call
<1>5. CASE TearDown /\ job' = Job(call, "teardown")
    <2>1. /\ state' = Standalone /\ state' \in StateType
          /\ closing' \subseteq open' /\ open' = closing'
          /\ \A i, j \in open' : i = j
          /\ served' = Nobody /\ retry' = Null
        BY <1>2, <1>5, TearDownFits
    <2>2. TypeOK'
        BY <1>1, <1>3, <1>4, <1>5, <2>1
           DEF Inv, Core, TypeOK, orchestrator, Nobody
    <2>3. state'.role = "standalone" /\ state'.id <= made'
        BY <1>4, <2>1 DEF Standalone, Nobody, Inv, Core, TypeOK
    <2>4. QED
        BY <1>3, <1>5, <2>1, <2>2, <2>3
           DEF Inv, Core, StateFits, JobFits, OpenFits, ServedFits
<1>6. CASE KeepRole /\ UNCHANGED job
    BY <1>1, <1>2, <1>4, <1>6
       DEF KeepRole, Inv, Core, TypeOK, orchestrator, StateFits, JobFits, OpenFits,
           ServedFits
<1>7. CASE KeepRole /\ job' = Job(call, "init") /\ state.role = "client"
    BY <1>1, <1>2, <1>3, <1>4, <1>7
       DEF KeepRole, Inv, Core, TypeOK, orchestrator, StateFits, JobFits, OpenFits,
           ServedFits
<1>8. ASSUME call.kind = "attach", state.id = call.of
      PROVE  state.role = "client"
    <2>1. call.of \in AttachmentsOf(queue)
        BY <1>8, AttachmentsFit DEF RunNext, Inv, Core, TypeOK, call
    <2>2. state.id \in 1..made /\ state.role # "hub"
        BY <1>8, <2>1 DEF Inv, QueueFits
    <2>3. state.role # "standalone"
        BY <2>2 DEF Inv, Core, StateFits, Standalone, Nobody
    <2>4. QED
        BY <2>2, <2>3 DEF Inv, Core, TypeOK, StateType
<1>9. QED
    BY <1>5, <1>6, <1>7, <1>8
       DEF RunNext, BecomeHub, BecomeClient, BecomeStandalone, AttachClient, call

(* What is closed is gone; nothing else was open. *)
LEMMA ClosedInv ==
    ASSUME Inv, NEW id \in closing, Closed(id)
    PROVE  Core'
<1>1. joined' \in [Clients -> JoinedType]
    BY DEF Closed, Inv, Core, TypeOK, Out, JoinedType, Nobody
<1>2. TypeOK'
    BY <1>1 DEF Closed, Inv, Core, TypeOK, orchestrator
<1>3. job.await = "teardown" /\ state.role = "standalone" /\ open = closing
    BY DEF Inv, Core, JobFits, OpenFits
<1>4. QED
    BY <1>2, <1>3
       DEF Closed, Inv, Core, StateFits, JobFits, OpenFits, ServedFits

(* The transition goes on once what was torn down is closed. *)
LEMMA AfterTearDownInv ==
    ASSUME Inv, BackAlone \/ StartHub \/ StartClient \/ SetRetry
    PROVE  Core'
<1>1. /\ job.await = "teardown" /\ closing = {} /\ open = {}
      /\ state = Standalone /\ state.role = "standalone"
    BY DEF BackAlone, StartHub, StartClient, SetRetry, TornDown, Inv, Core, JobFits,
           StateFits, OpenFits
<1>2. /\ job.call \in CallType /\ job.call.address \in Addresses \cup {Null}
      /\ made \in Nat
    BY DEF Inv, Core, TypeOK, JobType, CallType
<1>3. served = Nobody
    BY <1>1 DEF Inv, Core, ServedFits, Standalone
<1>4. /\ NoJob \in JobType /\ NoJob.await = "nothing"
      /\ \A w \in {"listening", "connecting"} :
            Job(job.call, w) \in JobType /\ Job(job.call, w).await = w
    BY <1>2, CallTypes DEF Job, NoJob, Awaits
<1>5. CASE BackAlone \/ SetRetry
    BY <1>1, <1>2, <1>3, <1>4, <1>5
       DEF BackAlone, SetRetry, Inv, Core, TypeOK, orchestrator, StateFits, JobFits,
           OpenFits, ServedFits
<1>6. CASE StartHub
    BY <1>1, <1>2, <1>3, <1>4, <1>6
       DEF StartHub, Inv, Core, TypeOK, orchestrator, StateFits, JobFits, OpenFits,
           ServedFits
<1>7. CASE StartClient
    <2>1. /\ made' \in Nat /\ made' # Nobody
          /\ state' \in StateType /\ state'.role = "client" /\ state'.id = made'
          /\ open' = {made'}
        BY <1>1, <1>2, <1>7, StateTypes DEF StartClient, Nobody
    <2>2. job' \in JobType /\ job'.await = "connecting"
        BY <1>4, <1>7 DEF StartClient
    <2>3. TypeOK'
        BY <1>1, <1>7, <2>1, <2>2 DEF StartClient, Inv, Core, TypeOK, orchestrator
    <2>4. QED
        BY <1>1, <1>3, <1>7, <2>1, <2>2, <2>3
           DEF StartClient, Inv, Core, StateFits, JobFits, OpenFits, ServedFits
<1>8. QED
    BY <1>5, <1>6, <1>7

(* The hub listens, or gives up. *)
LEMMA ListeningInv ==
    ASSUME Inv, HubListens \/ BindFails \/ ServerFails
    PROVE  Core'
<1>1. /\ job.await = "listening" /\ closing = {} /\ open = {}
      /\ state = Standalone /\ state.role = "standalone"
    BY DEF HubListens, BindFails, ServerFails, Inv, Core, JobFits, StateFits, OpenFits
<1>2. /\ job \in JobType /\ job.call \in CallType /\ job.attempt \in Nat
      /\ made \in Nat
    BY DEF Inv, Core, TypeOK, JobType
<1>3. served = Nobody
    BY <1>1 DEF Inv, Core, ServedFits, Standalone
<1>4. NoJob \in JobType /\ NoJob.await = "nothing"
    BY CallTypes DEF NoJob
<1>5. CASE HubListens
    <2>1. /\ made' \in Nat /\ made' # Nobody
          /\ state' \in StateType /\ state'.role = "hub" /\ state'.id = made'
          /\ ~state'.connected /\ state'.handshake = "none"
          /\ open' = {made'} /\ served' = made'
        BY <1>1, <1>2, <1>5, StateTypes DEF HubListens, HubState, Nobody
    <2>2. TypeOK'
        BY <1>1, <1>4, <1>5, <2>1 DEF HubListens, Inv, Core, TypeOK, orchestrator
    <2>3. QED
        BY <1>1, <1>4, <1>5, <2>1, <2>2
           DEF HubListens, Inv, Core, StateFits, JobFits, OpenFits, ServedFits
<1>6. CASE BindFails \/ ServerFails
    <2>1. job' \in JobType /\ job'.await \in {"nothing", "listening"}
        <3>1. [job EXCEPT !.attempt = @ + 1] \in JobType
            BY <1>2 DEF JobType
        <3>2. [job EXCEPT !.attempt = @ + 1].await = "listening"
            BY <1>1, <1>2 DEF JobType
        <3>3. QED
            BY <1>4, <1>6, <3>1, <3>2 DEF BindFails, ServerFails
    <2>2. gaveUp' \in BOOLEAN
          /\ budget' \in [elections : Nat, drops : Nat, faults : Nat]
        <3>1. budget \in [elections : Nat, drops : Nat, faults : Nat]
              /\ gaveUp \in BOOLEAN
            BY DEF Inv, Core, TypeOK
        <3>2. CASE BindFails
            BY <3>1, <3>2 DEF BindFails
        <3>3. CASE ServerFails
            BY <3>1, <3>3 DEF ServerFails, Spend
        <3>4. QED
            BY <1>6, <3>2, <3>3
    <2>3. UNCHANGED <<orchestrator, asked, queue, state, open, closing, served,
                      retry, joined, made>>
        BY <1>6 DEF BindFails, ServerFails
    <2>4. TypeOK'
        BY <2>1, <2>2, <2>3 DEF Inv, Core, TypeOK, orchestrator
    <2>5. QED
        BY <1>1, <1>3, <2>1, <2>3, <2>4
           DEF Inv, Core, StateFits, JobFits, OpenFits, ServedFits
<1>7. QED
    BY <1>5, <1>6

(* attachClient after its await: the client serves, or is torn down. *)
LEMMA AttachmentInv ==
    ASSUME Inv, Attached \/ AttachFails \/ DropClient
    PROVE  Core'
<1>1. /\ job.await \in {"init", "dropping"}
      /\ state.role = "client" /\ closing = {} /\ open = {state.id}
      /\ state.id # Nobody /\ state.id \in Nat
      /\ job \in JobType /\ job.call \in CallType /\ state \in StateType
    BY DEF Attached, AttachFails, DropClient, Inv, Core, TypeOK, JobType, StateType,
           StateFits, JobFits, OpenFits
<1>2. NoJob \in JobType /\ NoJob.await = "nothing"
    BY CallTypes DEF NoJob
<1>3. CASE Attached
    <2>1. /\ state' \in StateType /\ state'.role = "client"
          /\ state'.id = state.id
        BY <1>1, <1>3 DEF Attached, StateType
    <2>2. TypeOK'
        BY <1>1, <1>2, <1>3, <2>1 DEF Attached, Inv, Core, TypeOK, orchestrator
    <2>3. QED
        BY <1>1, <1>2, <1>3, <2>1, <2>2
           DEF Attached, Inv, Core, StateFits, JobFits, OpenFits, ServedFits
<1>4. CASE AttachFails
    <2>1. job' \in JobType /\ job'.await = "dropping"
        BY <1>1, <1>4 DEF AttachFails, JobType, Awaits
    <2>2. TypeOK'
        BY <1>4, <2>1 DEF AttachFails, Spend, Inv, Core, TypeOK, orchestrator
    <2>3. QED
        BY <1>1, <1>4, <2>1, <2>2
           DEF AttachFails, Inv, Core, StateFits, JobFits, OpenFits, ServedFits
<1>5. CASE DropClient
    <2>1. /\ state' = Standalone /\ state' \in StateType
          /\ closing' \subseteq open' /\ open' = closing'
          /\ \A i, j \in open' : i = j
          /\ served' = Nobody /\ retry' = Null
        BY <1>1, <1>5, TearDownFits DEF DropClient
    <2>2. [job.call EXCEPT !.address = state.address] \in CallType
        BY <1>1 DEF CallType, StateType
    <2>3. job' \in JobType /\ job'.await = "teardown"
        BY <1>5, <2>2, CallTypes DEF DropClient, Job, Awaits
    <2>4. TypeOK'
        BY <1>5, <2>1, <2>3 DEF DropClient, Inv, Core, TypeOK, orchestrator, Nobody
    <2>5. state'.role = "standalone" /\ state'.id <= made'
        BY <1>5, <2>1 DEF DropClient, Standalone, Nobody, Inv, Core, TypeOK
    <2>6. QED
        BY <2>1, <2>3, <2>4, <2>5
           DEF Inv, Core, StateFits, JobFits, OpenFits, ServedFits
<1>6. QED
    BY <1>3, <1>4, <1>5

(* The socket's events change the client's state, never its role or number. *)
LEMMA SocketInv ==
    ASSUME Inv, Connect \/ Disconnect \/ HubReady
    PROVE  Core'
<1>1. state \in StateType /\ state.id \in Nat /\ job \in JobType
    BY DEF Inv, Core, TypeOK, StateType
<1>2. state.role = "client"
    <2>1. state.role \in {"standalone", "hub", "client"}
        BY <1>1 DEF StateType
    <2>2. state.role # "client" => ~state.connected /\ state.handshake = "none"
        BY <2>1 DEF Inv, Core, StateFits, Standalone
    <2>3. QED
        BY <2>2 DEF Connect, Disconnect, HubReady
<1>3. /\ state' \in StateType /\ state'.role = state.role
      /\ state'.id = state.id
    BY <1>1 DEF Connect, Disconnect, HubReady, StateType
<1>4. /\ job' \in JobType
      /\ \/ job' = job
         \/ job'.await = "nothing" /\ job.await = "connecting"
    <2>1. NoJob \in JobType /\ NoJob.await = "nothing"
        BY CallTypes DEF NoJob
    <2>2. QED
        BY <1>1, <2>1 DEF Connect, Disconnect, HubReady
<1>5. queue' \in Seq(CallType)
    <2>1. queue \in Seq(CallType) /\ Attachment(state.id) \in CallType
        BY <1>1, CallTypes DEF Inv, Core, TypeOK
    <2>2. QED
        BY <2>1, QueueTypes DEF Connect, Disconnect, HubReady
<1>6. budget' \in [elections : Nat, drops : Nat, faults : Nat]
    BY DEF Connect, Disconnect, HubReady, Spend, Inv, Core, TypeOK
<1>7. UNCHANGED <<orchestrator, asked, open, closing, served, retry, gaveUp,
                  joined, made>>
    BY DEF Connect, Disconnect, HubReady
<1>8. TypeOK'
    BY <1>3, <1>4, <1>5, <1>6, <1>7 DEF Inv, Core, TypeOK, orchestrator
<1>9. QED
    BY <1>2, <1>3, <1>4, <1>7, <1>8
       DEF Inv, Core, StateFits, JobFits, OpenFits, ServedFits

LEMMA TimersInv ==
    ASSUME Inv, ConnectTimeout \/ RetryFires
    PROVE  Core'
<1>1. CASE ConnectTimeout
    <2>1. NoJob \in JobType /\ NoJob.await = "nothing"
        BY CallTypes DEF NoJob
    <2>2. QED
        BY <1>1, <2>1 DEF ConnectTimeout, Inv, Core, TypeOK, orchestrator, StateFits,
                          JobFits, OpenFits, ServedFits
<1>2. CASE RetryFires
    <2>1. queue' \in Seq(CallType)
        BY <1>2, CallTypes, QueueTypes DEF RetryFires, Inv, Core, TypeOK
    <2>2. QED
        BY <1>2, <2>1, OwnedStays
           DEF RetryFires, Inv, Core, TypeOK, orchestrator, Owned
<1>3. QED
    BY <1>1, <1>2

(* No step queues an attachment but of the client's own socket, and a new *)
(* server has a number that no attachment waits for.                      *)
LEMMA NextQueueFits ==
    ASSUME Inv, [Next]_vars
    PROVE  QueueFits'
<1>1. CASE UNCHANGED <<queue, state, made>>
    BY <1>1, CallStays
<1>2. CASE StopReturns
    BY <1>2, CallTypes, CallStays DEF StopReturns, Ask, Call, Kinds
<1>3. ASSUME NEW o \in Outcomes, Elect(o[1], o[2])
      PROVE  QueueFits'
    <2> DEFINE t == [hub |-> o[1], address |-> o[2], role |-> RoleOf(o[1])]
    <2>1. /\ t.address \in Addresses \cup {Null}
          /\ t.role \in {"unassigned", "hub", "client"}
        BY DEF Outcomes, RoleOf
    <2>2. CASE FollowRole(t)
        <3>1. \A k \in {"hub", "client", "standalone"},
                 a \in Addresses \cup {Null} :
                    /\ Call(k, a) \in CallType /\ Call(k, a).kind # "attach"
                    /\ Ask(Call(k, a)) => queue' = Append(queue, Call(k, a))
            BY CallTypes DEF Kinds, Call, Ask
        <3> HIDE DEF t
        <3>2. \/ UNCHANGED queue
              \/ \E c \in CallType :
                    c.kind # "attach" /\ queue' = Append(queue, c)
            BY <2>1, <2>2, <3>1 DEF FollowRole
        <3>3. QED
            BY <1>3, <3>2, CallStays DEF Elect
    <2>3. CASE UNCHANGED queue
        BY <1>3, <2>3, CallStays DEF Elect
    <2>4. QED
        BY <1>3, <2>2, <2>3 DEF Elect
<1>4. CASE RunNext
    <2>1. AttachmentsOf(queue') \subseteq AttachmentsOf(queue) /\ made' = made
        BY <1>4, AttachmentsFit DEF RunNext, Inv, Core, TypeOK
    <2>2. state' = state \/ state'.role = "standalone"
        BY <1>4 DEF RunNext, BecomeHub, BecomeClient, BecomeStandalone,
                    AttachClient, TearDown, KeepRole, Standalone
    <2>3. QED
        BY <2>1, <2>2, QueueStays
<1>5. CASE DropClient
    BY <1>5, QueueStays DEF DropClient, TearDown, Standalone
<1>6. CASE StartClient
    <2>1. /\ queue' = queue /\ made' = made + 1 /\ made \in Nat
          /\ state'.role = "client"
        BY <1>6 DEF StartClient, ClientState, Inv, Core, TypeOK
    <2>2. QED
        BY <2>1 DEF Inv, QueueFits
<1>7. CASE HubListens
    <2>1. /\ queue' = queue /\ made' = made + 1 /\ made \in Nat
          /\ state'.id = made + 1
        BY <1>7 DEF HubListens, HubState, Inv, Core, TypeOK
    <2>2. QED
        BY <2>1 DEF Inv, QueueFits
<1>8. CASE Attached \/ Disconnect \/ HubReady
    <2>1. state \in StateType /\ UNCHANGED <<queue, made>>
        BY <1>8 DEF Attached, Disconnect, HubReady, Inv, Core, TypeOK
    <2>2. state'.role = state.role /\ state'.id = state.id
        BY <1>8, <2>1 DEF Attached, Disconnect, HubReady, StateType
    <2>3. QED
        BY <2>1, <2>2, QueueStays
<1>9. CASE Connect
    <2>1. /\ state \in StateType /\ state.id \in Nat /\ made' = made
          /\ state.id <= made /\ state.id # Nobody
        BY <1>9 DEF Connect, Inv, Core, TypeOK, StateType, StateFits
    <2>2. Attachment(state.id) \in CallType /\ Attachment(state.id).of = state.id
        BY <2>1, CallTypes DEF Attachment
    <2>3. AttachmentsOf(queue') \subseteq AttachmentsOf(queue) \cup {state.id}
        BY <1>9, <2>2, AttachmentsFit DEF Connect, Inv, Core, TypeOK
    <2>4. state'.role = "client"
        BY <1>9, <2>1 DEF Connect, StateType
    <2>5. QED
        BY <2>1, <2>3, <2>4 DEF Inv, Core, TypeOK, QueueFits, Nobody
<1>10. CASE RetryFires
    <2>1. Again(retry) \in CallType /\ Again(retry).kind # "attach"
        BY CallTypes DEF Again, Inv, Core, TypeOK
    <2>2. QED
        BY <1>10, <2>1, CallStays DEF RetryFires
<1>11. ASSUME NEW id \in closing, Closed(id)
       PROVE  UNCHANGED <<queue, state, made>>
    BY <1>11 DEF Closed
<1>12. ASSUME NEW c \in Clients,
              \/ ClientConnects(c) \/ ClientAdded(c) \/ ClientGone(c)
              \/ ClientReady(c) \/ ClientSilent(c)
       PROVE  UNCHANGED <<queue, state, made>>
    BY <1>12 DEF ClientConnects, ClientAdded, ClientGone, ClientReady,
                 ClientSilent, Join
<1>13. CASE \/ Start \/ Started \/ Stop \/ BackAlone \/ StartHub \/ BindFails
            \/ ServerFails \/ AttachFails \/ SetRetry \/ ConnectTimeout
            \/ UNCHANGED vars
    BY <1>1, <1>13
       DEF Start, Started, Stop, BackAlone, StartHub, BindFails, ServerFails,
           AttachFails, SetRetry, ConnectTimeout, vars
<1>14. QED
    BY <1>1, <1>2, <1>3, <1>4, <1>5, <1>6, <1>7, <1>8, <1>9, <1>10, <1>11,
       <1>12, <1>13
       DEF Next, Manager, Transition, Sockets

LEMMA NextCore ==
    ASSUME Inv, [Next]_vars
    PROVE  Core'
<1>1. CASE Manager
    BY <1>1, ManagerInv
<1>2. CASE Transition
    BY <1>2, RunNextInv, ClosedInv, AfterTearDownInv, ListeningInv, AttachmentInv
       DEF Transition
<1>3. CASE Sockets
    BY <1>3, SocketInv, TimersInv, ClientsInv DEF Sockets
<1>4. CASE UNCHANGED vars
    BY <1>4, OwnedStays DEF vars, Inv, Core, TypeOK, Owned
<1>5. QED
    BY <1>1, <1>2, <1>3, <1>4 DEF Next

LEMMA NextInv ==
    ASSUME Inv, [Next]_vars
    PROVE  Inv'
BY NextCore, NextQueueFits DEF Inv

LEMMA Invariance == Spec => []Inv
BY InitInv, NextInv, PTL DEF Spec

-----------------------------------------------------------------------------
(* Theorems *)

(* The state of orchestrator and transport keeps its types. *)
THEOREM RolesTypeCorrect == Spec => []TypeOK
<1>1. Inv => TypeOK
    BY DEF Inv, Core
<1>2. QED
    BY <1>1, Invariance, PTL

(* However the election, the sockets and the timers interleave with the     *)
(* awaits of the transport, at most one server or socket is open, and only  *)
(* the role in use serves the store.                                        *)
THEOREM OneRoleHoldsTheStores == Spec => []OneRoleAtATime
<1>1. Inv => OneRoleAtATime
    BY DEF Inv, Core, StateFits, OpenFits, ServedFits, OneRoleAtATime, Standalone,
           Nobody
<1>2. QED
    BY <1>1, Invariance, PTL

(* A client is attached to the channel of the server it is connected to,    *)
(* whatever became of the role while its answer was under way.              *)
THEOREM ClientsAttachToTheirHub == Spec => AttachesToItsHub
<1> DEFINE A == \A c \in Clients :
        joined[c].at # "attached" /\ joined'[c].at = "attached"
            => served = joined'[c].of
<1>1. ASSUME Inv, [Next]_vars, NEW c \in Clients,
             joined[c].at # "attached", joined'[c].at = "attached"
      PROVE  served = joined'[c].of
    <2>1. joined \in [Clients -> JoinedType]
        BY <1>1 DEF Inv, Core, TypeOK
    <2>2. CASE UNCHANGED joined
        BY <1>1, <2>2
    <2>3. ASSUME NEW id \in closing, Closed(id)
          PROVE  FALSE
        <3>1. joined'[c] = Out \/ joined'[c] = joined[c]
            BY <2>1, <2>3 DEF Closed
        <3>2. QED
            BY <1>1, <3>1 DEF Out
    <2>4. ASSUME NEW d \in Clients,
                 \/ ClientConnects(d) \/ ClientAdded(d) \/ ClientGone(d)
                 \/ ClientSilent(d)
          PROVE  FALSE
        <3>1. CASE c # d
            BY <1>1, <2>1, <2>4, <3>1
               DEF ClientConnects, ClientAdded, ClientGone, ClientSilent, Join
        <3>2. CASE c = d
            <4>1. \/ joined'[d] = [at |-> "adding", of |-> state.id]
                  \/ joined'[d] = [joined[d] EXCEPT !.at = "asked"]
                  \/ joined'[d] = Out
                  \/ joined'[d] = [joined[d] EXCEPT !.at = "unheard"]
                BY <2>1, <2>4
                   DEF ClientConnects, ClientAdded, ClientGone, ClientSilent, Join
            <4>2. joined[d] \in JoinedType
                BY <2>1
            <4>3. QED
                BY <1>1, <3>2, <4>1, <4>2 DEF Out, JoinedType
        <3>3. QED
            BY <3>1, <3>2
    <2>5. ASSUME NEW d \in Clients, ClientReady(d)
          PROVE  served = joined'[c].of
        <3>1. c = d
            BY <1>1, <2>1, <2>5 DEF ClientReady, Join
        <3>2. joined[d] \in JoinedType
            BY <2>1
        <3>3. joined'[d] = [joined[d] EXCEPT
                    !.at = IF state.role = "hub" /\ state.id = joined[d].of
                           THEN "attached" ELSE "unheard"]
            BY <2>1, <2>5 DEF ClientReady, Join
        <3>4. state.role = "hub" /\ state.id = joined'[d].of
            BY <1>1, <3>1, <3>2, <3>3 DEF JoinedType
        <3>5. QED
            BY <1>1, <3>1, <3>4 DEF Inv, Core, ServedFits
    <2>6. CASE \/ Manager \/ RunNext
               \/ BackAlone \/ StartHub \/ StartClient
               \/ HubListens \/ BindFails \/ ServerFails
               \/ Attached \/ AttachFails \/ DropClient \/ SetRetry
               \/ Connect \/ ConnectTimeout \/ Disconnect \/ HubReady
               \/ RetryFires \/ UNCHANGED vars
        BY <2>2, <2>6
           DEF Manager, Start, Started, Stop, StopReturns, Elect, RunNext,
               BackAlone, StartHub, StartClient, HubListens, BindFails,
               ServerFails, Attached, AttachFails, DropClient, SetRetry,
               Connect, ConnectTimeout, Disconnect, HubReady, RetryFires, vars
    <2>7. QED
        BY <1>1, <2>3, <2>4, <2>5, <2>6 DEF Next, Transition, Sockets
<1>2. Inv /\ [Next]_vars => [A]_vars
    BY <1>1
<1> HIDE DEF A
<1>3. Spec => [][A]_vars
    BY <1>2, Invariance, PTL DEF Spec
<1>4. QED
    BY <1>3 DEF AttachesToItsHub, A

-----------------------------------------------------------------------------
(* The transport ends in the role that was asked for last.                 *)
(*                                                                         *)
(* Three things ask for a role: the orchestrator, the retry timer and an   *)
(* attachment that failed, which gives the role up.  The inductive         *)
(* invariant CallsInv follows the last call through the promise queue: it  *)
(* is the last one waiting, or else the one that runs, or else what the    *)
(* state shows.  The retry timer does not disturb it, because it is only   *)
(* set while no transition runs and the node is alone: any call that would *)
(* contradict it clears it before the timer has a turn.                    *)

(* Calls for the same role; only the context may differ. *)
Same(c, d) == c.kind = d.kind /\ c.address = d.address

(* Nothing in the queue asks for a role. *)
NoCalls(q) == \A i \in DOMAIN q : q[i].kind = "attach"

(* The last in the queue to ask for a role asks for the one of c. *)
LastIs(q, c) ==
    \E i \in DOMAIN q :
        /\ Same(q[i], c) /\ c.kind # "attach"
        /\ \A j \in DOMAIN q : j > i => q[j].kind = "attach"

(* What a transition awaits tells which call it carries out. *)
CallFits ==
    /\ job.await = "nothing" => job = NoJob
    /\ job.await = "listening" => job.call.kind = "hub"
    /\ job.await = "connecting" =>
          job.call.kind = "client" /\ job.call.address = state.address
    /\ job.await \in {"init", "dropping"} => job.call.kind = "attach"

RetryFits == retry # Null => job = NoJob /\ state = Standalone

(* No transition runs: the state is that of the last call. *)
Reached ==
    /\ asked.kind = "hub" =>
          state.role = "hub" \/ (gaveUp /\ state = Standalone)
    /\ asked.kind = "client" =>
          \/ state.role = "client" /\ state.address = asked.address
          \/ state = Standalone /\ retry = asked.address
    /\ asked.kind = "standalone" => state = Standalone
    /\ retry # Null => asked.kind = "client"

(* The transition that runs leads to the last call. *)
Underway ==
    IF job.call.kind # "attach" THEN Same(job.call, asked)
    ELSE /\ asked.kind = "client"
         /\ asked.address =
                IF job.await = "teardown" THEN job.call.address
                ELSE state.address

AskedFits ==
    /\ asked.kind # "attach"
    /\ manager = "stopped" => asked.kind = "standalone"

LastCallFits ==
    \/ LastIs(queue, asked)
    \/ NoCalls(queue) /\ IF job = NoJob THEN Reached ELSE Underway

CallsInv == CallFits /\ RetryFits /\ AskedFits /\ LastCallFits

-----------------------------------------------------------------------------
(* What the queue says of the last call, as it grows and shrinks *)

LEMMA EmptyCalls == NoCalls(<<>>)
BY DEF NoCalls

LEMMA AppendedCalls ==
    ASSUME NEW q \in Seq(CallType), NEW c \in CallType, NEW d \in CallType
    PROVE  /\ c.kind # "attach" /\ Same(c, d) => LastIs(Append(q, c), d)
           /\ c.kind = "attach" /\ NoCalls(q) => NoCalls(Append(q, c))
           /\ c.kind = "attach" /\ LastIs(q, d) => LastIs(Append(q, c), d)
<1>1. /\ DOMAIN Append(q, c) = 1..Len(q) + 1 /\ DOMAIN q = 1..Len(q)
      /\ Len(q) \in Nat
      /\ \A i \in 1..Len(q) : Append(q, c)[i] = q[i]
      /\ Append(q, c)[Len(q) + 1] = c
    BY AppendProperties, LenProperties
<1>2. \A i \in 1..Len(q) + 1 : i \in 1..Len(q) \/ i = Len(q) + 1
    BY <1>1
<1>3. ASSUME c.kind # "attach", Same(c, d)
      PROVE  LastIs(Append(q, c), d)
    <2>1. Len(q) + 1 \in DOMAIN Append(q, c)
          /\ \A j \in DOMAIN Append(q, c) : ~(j > Len(q) + 1)
        BY <1>1
    <2>2. QED
        BY <1>1, <1>3, <2>1 DEF LastIs, Same
<1>4. ASSUME c.kind = "attach", NoCalls(q)
      PROVE  NoCalls(Append(q, c))
    BY <1>1, <1>2, <1>4 DEF NoCalls
<1>5. ASSUME c.kind = "attach", LastIs(q, d)
      PROVE  LastIs(Append(q, c), d)
    <2>1. PICK i \in DOMAIN q :
            /\ Same(q[i], d) /\ d.kind # "attach"
            /\ \A j \in DOMAIN q : j > i => q[j].kind = "attach"
        BY <1>5 DEF LastIs
    <2>2. i \in DOMAIN Append(q, c) /\ Append(q, c)[i] = q[i]
        BY <1>1, <2>1
    <2>3. \A j \in DOMAIN Append(q, c) :
            j > i => Append(q, c)[j].kind = "attach"
        BY <1>1, <1>2, <1>5, <2>1
    <2>4. QED
        BY <2>1, <2>2, <2>3 DEF LastIs
<1>6. QED
    BY <1>3, <1>4, <1>5

LEMMA RemovedCall ==
    ASSUME NEW q \in Seq(CallType), q # <<>>, NEW d \in CallType
    PROVE  /\ NoCalls(q) => NoCalls(Tail(q)) /\ Head(q).kind = "attach"
           /\ LastIs(q, d) =>
                \/ LastIs(Tail(q), d)
                \/ NoCalls(Tail(q)) /\ Same(Head(q), d)
<1>1. /\ Head(q) = q[1] /\ Len(q) \in Nat /\ Len(q) >= 1
      /\ DOMAIN q = 1..Len(q)
      /\ Tail(q) \in Seq(CallType) /\ Len(Tail(q)) = Len(q) - 1
      /\ \A i \in 1..Len(q) - 1 : Tail(q)[i] = q[i + 1]
    BY HeadTailProperties, LenProperties, EmptySeq
<1>2. DOMAIN Tail(q) = 1..Len(q) - 1
    BY <1>1, LenProperties
<1>3. \A i \in DOMAIN Tail(q) : i + 1 \in DOMAIN q /\ Tail(q)[i] = q[i + 1]
    BY <1>1, <1>2
<1>4. 1 \in DOMAIN q
    BY <1>1
<1>5. ASSUME NoCalls(q)
      PROVE  NoCalls(Tail(q)) /\ Head(q).kind = "attach"
    BY <1>1, <1>3, <1>4, <1>5 DEF NoCalls
<1>6. ASSUME LastIs(q, d)
      PROVE  \/ LastIs(Tail(q), d)
             \/ NoCalls(Tail(q)) /\ Same(Head(q), d)
    <2>1. PICK i \in DOMAIN q :
            /\ Same(q[i], d) /\ d.kind # "attach"
            /\ \A j \in DOMAIN q : j > i => q[j].kind = "attach"
        BY <1>6 DEF LastIs
    <2>2. \A j \in DOMAIN Tail(q) : j + 1 > i => Tail(q)[j].kind = "attach"
        BY <1>3, <2>1
    <2>3. CASE i = 1
        <3>1. \A j \in DOMAIN Tail(q) : j + 1 > i
            BY <1>1, <1>2, <2>3
        <3>2. QED
            BY <1>1, <2>1, <2>2, <2>3, <3>1 DEF NoCalls
    <2>4. CASE i # 1
        <3>1. i - 1 \in DOMAIN Tail(q) /\ Tail(q)[i - 1] = q[i]
            <4>1. i - 1 \in 1..Len(q) - 1 /\ (i - 1) + 1 = i
                BY <1>1, <2>1, <2>4
            <4>2. QED
                BY <1>1, <1>2, <4>1
        <3>2. \A j \in DOMAIN Tail(q) : j > i - 1 => Tail(q)[j].kind = "attach"
            BY <1>1, <1>2, <2>1, <2>2
        <3>3. QED
            BY <2>1, <3>1, <3>2 DEF LastIs
    <2>5. QED
        BY <2>3, <2>4
<1>7. QED
    BY <1>5, <1>6

LEMMA NoLastInEmpty == \A c \in CallType : ~LastIs(<<>>, c)
BY DEF LastIs

-----------------------------------------------------------------------------
(* The invariant *)

LEMMA InitCalls == Init => CallsInv
BY EmptyCalls
   DEF Init, CallsInv, CallFits, RetryFits, AskedFits, LastCallFits, Reached,
       NoJob, Call

(* What the invariant says of what the transition leads to. *)
Heading == IF job = NoJob THEN Reached ELSE Underway

LEMMA CallsStay ==
    ASSUME CallsInv,
           UNCHANGED <<job, state, retry, asked, queue, gaveUp>>,
           manager' = "stopped" => manager = "stopped"
    PROVE  CallsInv'
BY DEF CallsInv, CallFits, RetryFits, AskedFits, LastCallFits, LastIs, NoCalls,
       Reached, Underway, Same

(* Whoever asks is the last to have asked. *)
LEMMA AskingCalls ==
    ASSUME Inv, CallsInv, NEW c \in CallType, c.kind # "attach", Ask(c),
           UNCHANGED <<job, state, retry>>,
           manager' = "stopped" => c.kind = "standalone"
    PROVE  CallsInv'
<1>1. LastIs(queue', asked')
    BY AppendedCalls DEF Ask, Same, Inv, Core, TypeOK
<1>2. CallFits' /\ RetryFits' /\ AskedFits'
    BY DEF Ask, CallsInv, CallFits, RetryFits, AskedFits
<1>3. QED
    BY <1>1, <1>2 DEF CallsInv, LastCallFits

(* A step of the transport adds no call: it only has to keep its heading. *)
LEMMA TransportCalls ==
    ASSUME Inv, CallsInv, UNCHANGED <<manager, asked>>,
           \/ UNCHANGED queue
           \/ \E n \in Nat : queue' = Append(queue, Attachment(n)),
           CallFits', RetryFits', Heading => Heading'
    PROVE  CallsInv'
<1>1. AskedFits'
    BY DEF CallsInv, AskedFits
<1>2. /\ LastIs(queue, asked) => LastIs(queue', asked')
      /\ NoCalls(queue) => NoCalls(queue')
    <2>1. CASE UNCHANGED queue
        BY <2>1
    <2>2. ASSUME NEW n \in Nat, queue' = Append(queue, Attachment(n))
          PROVE  /\ LastIs(queue, asked) => LastIs(queue', asked')
                 /\ NoCalls(queue) => NoCalls(queue')
        <3>1. Attachment(n) \in CallType /\ Attachment(n).kind = "attach"
            BY CallTypes DEF Attachment
        <3>2. QED
            BY <2>2, <3>1, AppendedCalls DEF Inv, Core, TypeOK
    <2>3. QED
        BY <2>1, <2>2
<1>3. QED
    BY <1>1, <1>2 DEF CallsInv, LastCallFits, Heading

LEMMA ManagerCalls ==
    ASSUME Inv, CallsInv, Manager
    PROVE  CallsInv'
<1>1. CASE Start \/ Started \/ Stop
    BY <1>1, CallsStay DEF Start, Started, Stop
<1>2. CASE StopReturns
    <2>1. Call("standalone", Null) \in CallType
          /\ Call("standalone", Null).kind = "standalone"
        BY CallTypes DEF Kinds, Call
    <2>2. QED
        BY <1>2, <2>1, AskingCalls DEF StopReturns
<1>3. ASSUME NEW o \in Outcomes, Elect(o[1], o[2])
      PROVE  CallsInv'
    <2> DEFINE t == [hub |-> o[1], address |-> o[2], role |-> RoleOf(o[1])]
    <2>1. /\ t.address \in Addresses \cup {Null}
          /\ t.role \in {"unassigned", "hub", "client"}
        BY DEF Outcomes, RoleOf
    <2>2. /\ UNCHANGED <<job, state, retry, gaveUp, manager>>
          /\ manager # "stopped"
        BY <1>3 DEF Elect
    <2>3. CASE FollowRole(t)
        <3>1. \A k \in {"hub", "client", "standalone"},
                 a \in Addresses \cup {Null} :
                    Call(k, a) \in CallType /\ Call(k, a).kind # "attach"
            BY CallTypes DEF Kinds, Call
        <3> HIDE DEF t
        <3>2. \/ UNCHANGED <<asked, queue>>
              \/ \E c \in CallType : c.kind # "attach" /\ Ask(c)
            BY <2>1, <2>3, <3>1 DEF FollowRole
        <3>3. QED
            BY <2>2, <3>2, CallsStay, AskingCalls
    <2>4. CASE UNCHANGED <<followed, asked, queue>>
        BY <2>2, <2>4, CallsStay
    <2>5. QED
        BY <1>3, <2>3, <2>4 DEF Elect
<1>4. QED
    BY <1>1, <1>2, <1>3 DEF Manager

(* RunNext: a call keeps the role it asks for or gives up the one there is. *)
LEMMA RunNextCalls ==
    ASSUME Inv, CallsInv, RunNext
    PROVE  CallsInv'
<1> DEFINE call == Head(queue)
<1>1. /\ call \in CallType /\ queue \in Seq(CallType) /\ queue # <<>>
      /\ queue' = Tail(queue) /\ job = NoJob /\ asked \in CallType
    BY QueueTypes DEF RunNext, Inv, Core, TypeOK
<1>2. UNCHANGED <<manager, asked>> /\ AskedFits'
    BY DEF RunNext, orchestrator, CallsInv, AskedFits
<1>3. /\ NoCalls(queue) => NoCalls(queue') /\ call.kind = "attach"
      /\ LastIs(queue, asked) =>
            LastIs(queue', asked) \/ (NoCalls(queue') /\ Same(call, asked))
    BY <1>1, RemovedCall
<1>4. /\ \A w \in {"teardown", "init"} :
            /\ Job(call, w) # NoJob /\ Job(call, w).await = w
            /\ Job(call, w).call = call
    BY DEF Job, NoJob
<1>5. \/ TearDown /\ job' = Job(call, "teardown") /\ call.kind # "attach"
      \/ /\ KeepRole /\ UNCHANGED job /\ call.kind # "attach"
         /\ \/ call.kind = "hub" /\ state.role = "hub"
            \/ /\ call.kind = "client" /\ state.role = "client"
               /\ state.address = call.address
      \/ KeepRole /\ UNCHANGED <<job, gaveUp>> /\ call.kind = "attach"
      \/ /\ KeepRole /\ UNCHANGED gaveUp /\ job' = Job(call, "init")
         /\ call.kind = "attach" /\ state.id = call.of
    BY DEF RunNext, BecomeHub, BecomeClient, BecomeStandalone, AttachClient
<1>6. ASSUME call.kind = "attach", state.id = call.of
      PROVE  state.role = "client"
    <2>1. call.of \in AttachmentsOf(queue)
        BY <1>1, <1>6, AttachmentsFit
    <2>2. state.id \in 1..made /\ state.role # "hub"
        BY <1>6, <2>1 DEF Inv, QueueFits
    <2>3. state.role # "standalone"
        BY <2>2 DEF Inv, Core, StateFits, Standalone, Nobody
    <2>4. QED
        BY <2>2, <2>3 DEF Inv, Core, TypeOK, StateType
<1> HIDE DEF call
<1>7. CASE TearDown /\ job' = Job(call, "teardown") /\ call.kind # "attach"
    <2>1. CallFits' /\ RetryFits'
        BY <1>4, <1>7 DEF TearDown, CallFits, RetryFits
    <2>2. Same(call, asked) => Underway'
        BY <1>2, <1>4, <1>7 DEF Underway, Same
    <2>3. QED
        BY <1>2, <1>3, <1>4, <1>7, <2>1, <2>2 DEF CallsInv, LastCallFits
<1>8. CASE /\ KeepRole /\ UNCHANGED job /\ call.kind # "attach"
           /\ \/ call.kind = "hub" /\ state.role = "hub"
              \/ /\ call.kind = "client" /\ state.role = "client"
                 /\ state.address = call.address
    <2>1. CallFits' /\ RetryFits'
        BY <1>8 DEF KeepRole, CallsInv, CallFits, RetryFits
    <2>2. retry = Null
        BY <1>8 DEF CallsInv, RetryFits, Standalone
    <2>3. Same(call, asked) => Reached'
        BY <1>2, <1>8, <2>2 DEF KeepRole, Reached, Same
    <2>4. QED
        BY <1>1, <1>2, <1>3, <1>8, <2>1, <2>3 DEF CallsInv, LastCallFits
<1>9. CASE KeepRole /\ UNCHANGED <<job, gaveUp>> /\ call.kind = "attach"
    <2>1. CallFits' /\ RetryFits'
        BY <1>9 DEF KeepRole, CallsInv, CallFits, RetryFits
    <2>2. Reached => Reached'
        BY <1>2, <1>9 DEF KeepRole, Reached
    <2>3. ~Same(call, asked)
        BY <1>9 DEF CallsInv, AskedFits, Same
    <2>4. QED
        BY <1>1, <1>2, <1>3, <1>9, <2>1, <2>2, <2>3 DEF CallsInv, LastCallFits
<1>10. CASE /\ KeepRole /\ UNCHANGED gaveUp /\ job' = Job(call, "init")
            /\ call.kind = "attach" /\ state.id = call.of
    <2>1. state.role = "client" /\ retry = Null
        BY <1>6, <1>10 DEF CallsInv, RetryFits, Standalone
    <2>2. CallFits' /\ RetryFits'
        BY <1>4, <1>10, <2>1 DEF KeepRole, CallFits, RetryFits
    <2>3. Reached => Underway'
        <3>1. asked.kind \in {"hub", "client", "standalone"}
            BY <1>1 DEF CallsInv, AskedFits, CallType, Kinds
        <3>2. QED
            BY <1>2, <1>4, <1>10, <2>1, <3>1
               DEF KeepRole, Reached, Underway, Standalone
    <2>4. ~Same(call, asked)
        BY <1>10 DEF CallsInv, AskedFits, Same
    <2>5. QED
        BY <1>1, <1>2, <1>3, <1>4, <1>10, <2>2, <2>3, <2>4
           DEF CallsInv, LastCallFits
<1>11. QED
    BY <1>5, <1>7, <1>8, <1>9, <1>10

(* What a transition that awaits something leaves for the other steps. *)
LEMMA WhileRunning ==
    ASSUME Inv, CallsInv, job.await # "nothing"
    PROVE  /\ job # NoJob /\ retry = Null
           /\ job.await \in {"teardown", "listening"} => state = Standalone
           /\ Heading => Underway
BY DEF NoJob, Job, CallsInv, RetryFits, Heading, Inv, Core, JobFits, StateFits

(* What was torn down is closed: the transition goes on or has ended. *)
LEMMA AfterTearDownCalls ==
    ASSUME Inv, CallsInv, BackAlone \/ StartHub \/ StartClient \/ SetRetry
    PROVE  CallsInv'
<1>1. /\ job # NoJob /\ retry = Null /\ state = Standalone
      /\ job.await = "teardown" /\ (Heading => Underway)
    BY WhileRunning
       DEF BackAlone, StartHub, StartClient, SetRetry, TornDown
<1>2. /\ UNCHANGED <<manager, asked, queue>>
    BY DEF BackAlone, StartHub, StartClient, SetRetry, orchestrator
<1>3. /\ NoJob.await = "nothing"
      /\ \A w \in {"listening", "connecting"} :
            /\ Job(job.call, w) # NoJob /\ Job(job.call, w).await = w
            /\ Job(job.call, w).call = job.call
    BY DEF NoJob, Job
<1>4. CASE BackAlone
    <2>1. /\ job' = NoJob /\ state' = Standalone /\ retry' = Null
          /\ job.call.kind = "standalone"
        BY <1>1, <1>4 DEF BackAlone, TornDown
    <2>2. CallFits' /\ RetryFits'
        BY <1>3, <2>1 DEF CallFits, RetryFits
    <2>3. Underway => Heading'
        BY <1>2, <2>1 DEF Underway, Same, Heading, Reached
    <2>4. QED
        BY <1>1, <1>2, <2>2, <2>3, TransportCalls
<1>5. CASE StartHub
    <2>1. /\ job' = Job(job.call, "listening") /\ retry' = Null
          /\ job.call.kind = "hub"
        BY <1>1, <1>5 DEF StartHub, TornDown
    <2>2. CallFits' /\ RetryFits'
        BY <1>3, <2>1 DEF CallFits, RetryFits
    <2>3. Underway => Heading'
        BY <1>2, <1>3, <2>1 DEF Underway, Same, Heading
    <2>4. QED
        BY <1>1, <1>2, <2>2, <2>3, TransportCalls
<1>6. CASE StartClient
    <2>1. /\ job' = Job(job.call, "connecting") /\ retry' = Null
          /\ job.call.kind = "client"
          /\ state'.address = job.call.address
        BY <1>1, <1>6 DEF StartClient, TornDown, ClientState
    <2>2. CallFits' /\ RetryFits'
        BY <1>3, <2>1 DEF CallFits, RetryFits
    <2>3. Underway => Heading'
        BY <1>2, <1>3, <2>1 DEF Underway, Same, Heading
    <2>4. QED
        BY <1>1, <1>2, <2>2, <2>3, TransportCalls
<1>7. CASE SetRetry
    <2>1. /\ job' = NoJob /\ state' = Standalone /\ retry' = job.call.address
          /\ job.call.kind = "attach"
        BY <1>1, <1>7 DEF SetRetry, TornDown
    <2>2. CallFits' /\ RetryFits'
        BY <1>3, <2>1 DEF CallFits, RetryFits
    <2>3. Underway => Heading'
        BY <1>1, <1>2, <2>1 DEF Underway, Heading, Reached
    <2>4. QED
        BY <1>1, <1>2, <2>2, <2>3, TransportCalls
<1>8. QED
    BY <1>4, <1>5, <1>6, <1>7

LEMMA ListeningCalls ==
    ASSUME Inv, CallsInv, HubListens \/ BindFails \/ ServerFails
    PROVE  CallsInv'
<1>1. /\ job # NoJob /\ retry = Null /\ state = Standalone
      /\ job.await = "listening" /\ job.call.kind = "hub"
      /\ (Heading => Underway)
    BY WhileRunning DEF HubListens, BindFails, ServerFails, CallsInv, CallFits
<1>2. UNCHANGED <<manager, asked, queue, retry>>
    BY DEF HubListens, BindFails, ServerFails, orchestrator
<1>3. Underway => asked.kind = "hub"
    BY <1>1 DEF Underway, Same
<1>4. NoJob.await = "nothing"
    BY DEF NoJob
<1>5. CASE job' = NoJob /\ (state'.role = "hub" \/ (gaveUp' /\ state' = Standalone))
    <2>1. CallFits' /\ RetryFits'
        BY <1>1, <1>2, <1>4, <1>5 DEF CallFits, RetryFits
    <2>2. Underway => Heading'
        BY <1>1, <1>2, <1>3, <1>5 DEF Heading, Reached
    <2>3. QED
        BY <1>1, <1>2, <2>1, <2>2, TransportCalls
<1>6. CASE job' = [job EXCEPT !.attempt = @ + 1]
    <2>1. /\ job'.await = "listening" /\ job'.call = job.call /\ job' # NoJob
        BY <1>1, <1>4, <1>6 DEF Inv, Core, TypeOK, JobType
    <2>2. CallFits' /\ RetryFits'
        BY <1>1, <1>2, <2>1 DEF CallFits, RetryFits
    <2>3. Underway => Heading'
        BY <1>1, <1>2, <2>1 DEF Heading, Underway, Same
    <2>4. QED
        BY <1>1, <1>2, <2>2, <2>3, TransportCalls
<1>7. QED
    BY <1>1, <1>5, <1>6 DEF HubListens, HubState, BindFails, ServerFails

(* attachClient after its await: the address outlives the role. *)
LEMMA AttachmentCalls ==
    ASSUME Inv, CallsInv, Attached \/ AttachFails \/ DropClient
    PROVE  CallsInv'
<1>1. /\ job # NoJob /\ retry = Null /\ state.role = "client"
      /\ job.await \in {"init", "dropping"} /\ job.call.kind = "attach"
      /\ (Heading => Underway) /\ job \in JobType /\ state \in StateType
    BY WhileRunning DEF Attached, AttachFails, DropClient, CallsInv, CallFits,
                        Inv, Core, TypeOK, JobFits
<1>2. UNCHANGED <<manager, asked, queue>> /\ retry' = Null
    BY <1>1 DEF Attached, AttachFails, DropClient, TearDown, orchestrator
<1>3. Underway => asked.kind = "client" /\ asked.address = state.address
    BY <1>1 DEF Underway
<1>4. NoJob.await = "nothing"
    BY DEF NoJob
<1>5. CASE Attached
    <2>1. /\ job' = NoJob /\ state'.role = "client"
          /\ state'.address = state.address
        BY <1>1, <1>5 DEF Attached, StateType
    <2>2. CallFits' /\ RetryFits'
        BY <1>2, <1>4, <2>1 DEF CallFits, RetryFits
    <2>3. Underway => Heading'
        BY <1>2, <1>3, <2>1 DEF Heading, Reached
    <2>4. QED
        BY <1>1, <1>2, <1>5, <2>2, <2>3, TransportCalls
<1>6. CASE AttachFails
    <2>1. /\ job'.await = "dropping" /\ job'.call = job.call /\ job' # NoJob
          /\ UNCHANGED state
        BY <1>1, <1>4, <1>6 DEF AttachFails, JobType
    <2>2. CallFits' /\ RetryFits'
        BY <1>1, <1>2, <2>1 DEF CallFits, RetryFits
    <2>3. Underway => Heading'
        BY <1>1, <1>2, <1>3, <2>1 DEF Heading, Underway
    <2>4. QED
        BY <1>1, <1>2, <2>2, <2>3, TransportCalls
<1>7. CASE DropClient
    <2>1. /\ job'.await = "teardown" /\ job' # NoJob
          /\ job'.call.kind = "attach" /\ job'.call.address = state.address
        BY <1>1, <1>4, <1>7 DEF DropClient, Job, JobType, CallType
    <2>2. CallFits' /\ RetryFits'
        BY <1>1, <1>2, <2>1 DEF CallFits, RetryFits
    <2>3. Underway => Heading'
        BY <1>2, <1>3, <2>1 DEF Heading, Underway
    <2>4. QED
        BY <1>1, <1>2, <2>2, <2>3, TransportCalls
<1>8. QED
    BY <1>5, <1>6, <1>7

(* The socket's events find a client and leave it one of the same address. *)
LEMMA SocketCalls ==
    ASSUME Inv, CallsInv, Connect \/ Disconnect \/ HubReady
    PROVE  CallsInv'
<1>1. state \in StateType /\ state.id \in Nat
    BY DEF Inv, Core, TypeOK, StateType
<1>2. state.role = "client"
    <2>1. state.role \in {"standalone", "hub", "client"}
        BY <1>1 DEF StateType
    <2>2. state.role # "client" => ~state.connected /\ state.handshake = "none"
        BY <2>1 DEF Inv, Core, StateFits, Standalone
    <2>3. QED
        BY <2>2 DEF Connect, Disconnect, HubReady
<1>3. /\ state'.role = "client" /\ state'.address = state.address
      /\ retry = Null
    <2>1. state'.role = "client" /\ state'.address = state.address
        BY <1>1, <1>2 DEF Connect, Disconnect, HubReady, StateType
    <2>2. retry = Null
        BY <1>2 DEF CallsInv, RetryFits, Standalone
    <2>3. QED
        BY <2>1, <2>2
<1>4. /\ UNCHANGED <<manager, asked, gaveUp>> /\ retry' = Null
      /\ \/ UNCHANGED queue
         \/ \E n \in Nat : queue' = Append(queue, Attachment(n))
    BY <1>1, <1>3 DEF Connect, Disconnect, HubReady, orchestrator
<1>5. NoJob.await = "nothing"
    BY DEF NoJob
<1>6. CASE UNCHANGED job
    <2>1. CallFits' /\ RetryFits'
        BY <1>3, <1>4, <1>6 DEF CallsInv, CallFits, RetryFits
    <2>2. Heading => Heading'
        BY <1>2, <1>3, <1>4, <1>6
           DEF Heading, Reached, Underway, Same, Standalone
    <2>3. QED
        BY <1>4, <2>1, <2>2, TransportCalls
<1>7. CASE job' = NoJob /\ job.await = "connecting"
    <2>1. CallFits' /\ RetryFits'
        BY <1>4, <1>5, <1>7 DEF CallFits, RetryFits
    <2>2. /\ job # NoJob /\ job.call.kind = "client"
          /\ job.call.address = state.address
        BY <1>5, <1>7 DEF CallsInv, CallFits
    <2>3. Heading => Heading'
        BY <1>3, <1>4, <1>7, <2>2 DEF Heading, Underway, Same, Reached
    <2>4. QED
        BY <1>4, <2>1, <2>3, TransportCalls
<1>8. QED
    BY <1>6, <1>7 DEF Connect, Disconnect, HubReady

LEMMA ConnectTimeoutCalls ==
    ASSUME Inv, CallsInv, ConnectTimeout
    PROVE  CallsInv'
<1>1. /\ job # NoJob /\ retry = Null /\ state.role = "client"
      /\ job.call.kind = "client" /\ job.call.address = state.address
      /\ (Heading => Underway)
    BY WhileRunning DEF ConnectTimeout, CallsInv, CallFits, Inv, Core, JobFits
<1>2. /\ UNCHANGED <<manager, asked, queue, state, retry>>
      /\ job' = NoJob /\ NoJob.await = "nothing"
    BY DEF ConnectTimeout, orchestrator, NoJob
<1>3. CallFits' /\ RetryFits'
    BY <1>1, <1>2 DEF CallFits, RetryFits
<1>4. Underway => Heading'
    BY <1>1, <1>2 DEF Underway, Same, Heading, Reached
<1>5. QED
    BY <1>1, <1>2, <1>3, <1>4, TransportCalls

(* The retry timer asks again for what was asked last. *)
LEMMA RetryFiresCalls ==
    ASSUME Inv, CallsInv, RetryFires
    PROVE  CallsInv'
<1>1. /\ retry # Null /\ job = NoJob /\ state = Standalone /\ queue = <<>>
      /\ retry' = Null /\ queue' = Append(queue, Again(retry))
      /\ UNCHANGED <<manager, asked, job, state>>
    BY DEF RetryFires, MicrotasksDone, CallsInv, RetryFits, orchestrator
<1>2. /\ asked \in CallType /\ queue \in Seq(CallType)
      /\ Again(retry) \in CallType
      /\ Again(retry).kind = "client" /\ Again(retry).address = retry
    BY CallTypes DEF Again, Inv, Core, TypeOK
<1>3. Reached
    BY <1>1, <1>2, NoLastInEmpty DEF CallsInv, LastCallFits
<1>4. Same(Again(retry), asked)
    BY <1>1, <1>2, <1>3 DEF Reached, Same, Standalone
<1>5. LastIs(queue', asked')
    BY <1>1, <1>2, <1>4, AppendedCalls
<1>6. CallFits' /\ RetryFits' /\ AskedFits'
    BY <1>1 DEF CallsInv, CallFits, RetryFits, AskedFits
<1>7. QED
    BY <1>5, <1>6 DEF CallsInv, LastCallFits

LEMMA NextCalls ==
    ASSUME Inv, CallsInv, [Next]_vars
    PROVE  CallsInv'
<1>1. ASSUME NEW id \in closing, Closed(id)
      PROVE  CallsInv'
    BY <1>1, CallsStay DEF Closed, orchestrator
<1>2. ASSUME NEW c \in Clients,
             \/ ClientConnects(c) \/ ClientAdded(c) \/ ClientGone(c)
             \/ ClientReady(c) \/ ClientSilent(c)
      PROVE  CallsInv'
    BY <1>2, CallsStay DEF ClientConnects, ClientAdded, ClientGone,
                           ClientReady, ClientSilent, Join, orchestrator
<1>3. CASE UNCHANGED vars
    BY <1>3, CallsStay DEF vars
<1>4. CASE Manager
    BY <1>4, ManagerCalls
<1>5. CASE Transition
    BY <1>1, <1>5, RunNextCalls, AfterTearDownCalls, ListeningCalls,
       AttachmentCalls
       DEF Transition
<1>6. CASE Sockets
    BY <1>2, <1>6, SocketCalls, ConnectTimeoutCalls, RetryFiresCalls
       DEF Sockets
<1>7. QED
    BY <1>3, <1>4, <1>5, <1>6 DEF Next

LEMMA CallsInvariance == Spec => [](Inv /\ CallsInv)
<1>1. Init => Inv /\ CallsInv
    BY InitInv, InitCalls
<1>2. (Inv /\ CallsInv) /\ [Next]_vars => (Inv /\ CallsInv)'
    BY NextInv, NextCalls
<1>3. QED
    BY <1>1, <1>2, PTL DEF Spec

-----------------------------------------------------------------------------
(* Theorems *)

(* However fast the role flaps and whatever fails on the way, a transport   *)
(* that has nothing left to do is in the role that was asked for last       *)
(* (transition, tearDown and the retry timer of hubTransport.ts).           *)
THEOREM TransportEndsInLastCall == Spec => []EndsInLastCall
<1>1. Inv /\ CallsInv => EndsInLastCall
    <2> SUFFICES ASSUME Inv, CallsInv, Settled
                 PROVE  Reached
        BY DEF EndsInLastCall, Reached
    <2>1. asked \in CallType /\ queue = <<>> /\ job = NoJob
        BY DEF Settled, Inv, Core, TypeOK
    <2>2. QED
        BY <2>1, NoLastInEmpty DEF CallsInv, LastCallFits
<1>2. QED
    BY <1>1, CallsInvariance, PTL

(* After stop no election, timer or event of a socket brings a role back:   *)
(* the stores are no longer served, the port and the socket are released    *)
(* and no retry is left (stop of roleOrchestrator.ts).                      *)
THEOREM StopReleasesEverything == Spec => []StopIsFinal
<1>1. Inv /\ CallsInv => StopIsFinal
    <2> SUFFICES ASSUME Inv, CallsInv, manager = "stopped", Settled
                 PROVE  /\ state = Standalone /\ open = {}
                        /\ served = Nobody /\ retry = Null
        BY DEF StopIsFinal
    <2>1. asked \in CallType /\ queue = <<>> /\ job = NoJob
          /\ asked.kind = "standalone"
        BY DEF Settled, Inv, Core, TypeOK, CallsInv, AskedFits
    <2>2. Reached
        BY <2>1, NoLastInEmpty DEF CallsInv, LastCallFits
    <2>3. state = Standalone /\ retry = Null
        BY <2>1, <2>2 DEF Reached
    <2>4. job.await = "nothing" /\ state.role = "standalone"
          /\ state.id = Nobody
        BY <2>1, <2>3 DEF NoJob, Standalone
    <2>5. closing = {} /\ open = {} /\ served = Nobody
        BY <2>4 DEF Inv, Core, JobFits, OpenFits, ServedFits
    <2>6. QED
        BY <2>3, <2>5
<1>2. QED
    BY <1>1, CallsInvariance, PTL
=============================================================================
