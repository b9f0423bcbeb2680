------------------------ MODULE SyncAgentCatchUpProofs ------------------------
(***************************************************************************)
(* More theorems about SyncAgent: no slot is wasted, nothing is received   *)
(* twice, the catch-up adds up and waits for what is pending, the timers   *)
(* of failed lists belong to the current channel, and a stopped agent      *)
(* starts nothing.                                                         *)
(*                                                                         *)
(* They rest on the invariant Inv of SyncAgentProofs and on four more      *)
(* parts, each inductive beside the ones before it: an agent that does not *)
(* run has an empty queue and no channel (AtRest), whatever is pending or  *)
(* listed is known to another node and what is being fetched is not held   *)
(* (FetchedIsNew), and the figures of the catch-up (CatchUpInv).           *)
(***************************************************************************)
EXTENDS SyncAgentProofs

(* Before it runs and after its stop, the agent has no queue, no channel   *)
(* and, before, nothing to catch up with; a comparison has a channel.      *)
AtRest ==
    /\ lifecycle \in {"new", "stopped"} => queue = <<>> /\ channel = NoChannel
    /\ lifecycle = "new" =>
          catchUp.outstanding = {} /\ \A t \in Tasks : task[t].phase = "free"
    /\ \A t \in Tasks : task[t].phase # "free" => task[t].channel # NoChannel

(* What is pending or was listed is a change set of another node, or one   *)
(* of this node that it holds; what is fetched is new to the store.        *)
FetchedIsNew ==
    /\ pending \subseteq Known
    /\ \A t \in Tasks : task[t].theirs \subseteq Known
    /\ \A h \in Hashes :
        /\ pull[h] \in {"fetching", "written"} => h \in Remote \ held
        /\ pull[h] = "recorded" => h \in Remote \cap held

CatchUpInv == CatchUpFits /\ OutstandingIsPending

-----------------------------------------------------------------------------
(* An agent that does not run, and its channel *)

(* A step of a comparison ends it or keeps its channel, a new one has the *)
(* current channel; a list is one of known change sets, and only a run on *)
(* the current channel will retry.                                        *)
LEMMA ComparisonMoves ==
    ASSUME NEW t \in Tasks, Inv, PeerAttached(t) \/ TaskStep(t) \/ CompareFails(t)
    PROVE  \E x : /\ task' = [task EXCEPT ![t] = x]
                  /\ \/ x = Free
                     \/ x.channel = task[t].channel /\ task[t].phase # "free"
                     \/ x.channel = channel /\ channel # NoChannel
                  /\ x.theirs \subseteq Known \/ x.theirs = task[t].theirs
                  /\ x.phase = "retrying" => channel = x.channel
<1> DEFINE Moved(x) ==
        /\ \/ x = Free
           \/ x.channel = task[t].channel /\ task[t].phase # "free"
           \/ x.channel = channel /\ channel # NoChannel
        /\ x.theirs \subseteq Known \/ x.theirs = task[t].theirs
        /\ x.phase = "retrying" => channel = x.channel
<1>1. task[t] \in TaskType(published) /\ task \in [Tasks -> TaskType(published)]
    BY DEF Inv, TypeOK, TaskType
<1>2. CASE PeerAttached(t)
    <2> DEFINE x == [Free EXCEPT !.phase = "listing", !.channel = channel, !.attempt = 1]
    <2>1. task' = [task EXCEPT ![t] = x] /\ Moved(x)
        BY <1>2 DEF PeerAttached, Free
    <2>2. QED
        BY <2>1
<1>3. CASE CompareFails(t)
    <2>1. task' = [task EXCEPT ![t] = Free] /\ Moved(Free)
        BY <1>3 DEF CompareFails, Free
    <2>2. QED
        BY <2>1
<1>4. CASE \E theirs \in SUBSET Known : PeerListed(t, theirs)
    <2>1. PICK theirs \in SUBSET Known : PeerListed(t, theirs)
        BY <1>4
    <2> DEFINE x == IF Current(t)
                    THEN [task[t] EXCEPT !.phase = "reading", !.theirs = theirs]
                    ELSE Free
    <2>2. task' = [task EXCEPT ![t] = x] /\ Moved(x)
        BY <1>1, <2>1 DEF PeerListed, TaskType, Free
    <2>3. QED
        BY <2>2
<1>5. CASE PeerListFailed(t)
    <2> DEFINE x == IF task[t].attempt < MaxAttempts /\ channel = task[t].channel
                    THEN [task[t] EXCEPT !.phase = "retrying"]
                    ELSE Free
    <2>1. task' = [task EXCEPT ![t] = x] /\ Moved(x)
        BY <1>1, <1>5 DEF PeerListFailed, TaskType, Free
    <2>2. QED
        BY <2>1
<1>6. CASE RetryListing(t)
    <2> DEFINE x == IF Current(t)
                    THEN [task[t] EXCEPT !.phase = "listing",
                                         !.attempt = task[t].attempt + 1]
                    ELSE Free
    <2>1. task' = [task EXCEPT ![t] = x]
        BY <1>6 DEF RetryListing
    <2>2. Moved(x)
        BY <1>1, <1>6 DEF RetryListing, TaskType, Free
    <2>3. QED
        BY <2>1, <2>2
<1>7. CASE ReadOwnList(t)
    <2> DEFINE x == [task[t] EXCEPT !.phase = "comparing", !.mine = held]
    <2>1. task' = [task EXCEPT ![t] = x] /\ Moved(x)
        BY <1>1, <1>7 DEF ReadOwnList, TaskType
    <2>2. QED
        BY <2>1
<1>8. CASE Compare(t)
    <2> DEFINE lacking == task[t].mine \ task[t].theirs
               x == IF lacking # {} /\ Current(t)
                    THEN [task[t] EXCEPT !.phase = "announcing",
                                         !.theirs = {}, !.mine = lacking]
                    ELSE Free
    <2>1. task' = [task EXCEPT ![t] = x]
        BY <1>8 DEF Compare
    <2>2. Moved(x)
        BY <1>1, <1>8 DEF Compare, TaskType, Free
    <2>3. QED
        BY <2>1, <2>2
<1>9. CASE \E h \in Hashes : AnnounceLacking(t, h)
    <2>1. PICK h \in Hashes : AnnounceLacking(t, h)
        BY <1>9
    <2> DEFINE rest == task[t].mine \ {h}
               x == IF rest # {} /\ Current(t) THEN [task[t] EXCEPT !.mine = rest]
                    ELSE Free
    <2>2. task' = [task EXCEPT ![t] = x] /\ Moved(x)
        BY <1>1, <2>1 DEF AnnounceLacking, TaskType, Free
    <2>3. QED
        BY <2>2
<1>10. QED
    BY <1>2, <1>3, <1>4, <1>5, <1>6, <1>7, <1>8, <1>9 DEF TaskStep

LEMMA AtRestInit == Init => AtRest
BY DEF Init, AtRest, NoChannel, Free

(* The first step of an agent is its start: nothing else runs before. *)
LEMMA AtRestNext == Inv /\ AtRest /\ [Next]_vars => AtRest'
<1> SUFFICES ASSUME Inv, AtRest, [Next]_vars PROVE AtRest'
    OBVIOUS
<1>1. /\ lifecycle \in {"new", "running", "stopped", "crashed"}
      /\ task \in [Tasks -> TaskType(published)]
      /\ pull \in [Hashes -> PullPhases]
    BY DEF Inv, TypeOK, TaskType
<1>2. CASE Start
    BY <1>2 DEF Start, AtRest
<1>3. CASE Stop \/ PublishChannel \/ WithdrawChannel
    <2>1. task' = WithoutRetries /\ Running /\ catchUp' = catchUp
        BY <1>3 DEF Stop, PublishChannel, WithdrawChannel
    <2>2. \A t \in Tasks : task'[t].phase # "free" => task'[t].channel # NoChannel
        BY <2>1 DEF AtRest, WithoutRetries, Free
    <2>3. \/ lifecycle' = "running"
          \/ lifecycle' = "stopped" /\ queue' = <<>> /\ channel' = NoChannel
        BY <1>3 DEF Stop, PublishChannel, WithdrawChannel, Running
    <2>4. QED
        BY <2>2, <2>3 DEF AtRest
<1>4. CASE RetryPending \/ \E h \in Hashes : Hear(h) \/ WriteOwn(h)
    <2>1. lifecycle' = "running" /\ task' = task
        BY <1>4 DEF RetryPending, Hear, WriteOwn, Running
    <2>2. QED
        BY <2>1 DEF AtRest
<1>5. CASE \E h \in Hashes : PullStep(h) \/ CheckFails(h)
    <2>1. PICK h \in Hashes : PullStep(h) \/ CheckFails(h)
        BY <1>5
    <2>2. /\ UNCHANGED <<channel, task>>
          /\ ~Running => UNCHANGED queue
          /\ lifecycle' = lifecycle \/ lifecycle' = "crashed"
        BY <2>1
        DEF PullStep, Skip, Attempt, RowsWritten, Record, Completed, PullFails,
            PullSettles, CheckFails
    <2>3. catchUp' = catchUp \/ catchUp' = Settled(h, TRUE) \/ catchUp' = Settled(h, FALSE)
        BY <2>1
        DEF PullStep, Skip, Attempt, RowsWritten, Record, Completed, PullFails,
            PullSettles, CheckFails
    <2>4. catchUp \in CatchUpType
        BY DEF Inv, TypeOK, CatchUpType
    <2>5. catchUp'.outstanding \subseteq catchUp.outstanding
        BY <2>3, <2>4 DEF Settled, SettleCatchUp, CatchUpType
    <2>6. QED
        BY <2>2, <2>5 DEF AtRest, Running
<1>6. CASE \E t \in Tasks : PeerAttached(t) \/ TaskStep(t) \/ CompareFails(t)
    <2>1. PICK t \in Tasks : PeerAttached(t) \/ TaskStep(t) \/ CompareFails(t)
        BY <1>6
    <2>2. /\ UNCHANGED <<lifecycle, channel>>
          /\ ~Running => UNCHANGED queue
        BY <2>1
        DEF PeerAttached, TaskStep, CompareFails, PeerListed, PeerListFailed,
            RetryListing, ReadOwnList, Compare, AnnounceLacking, Receive, pulls
    <2>3. lifecycle # "new"
        BY <2>1
        DEF PeerAttached, TaskStep, CompareFails, PeerListed, PeerListFailed,
            RetryListing, ReadOwnList, Compare, AnnounceLacking, AtRest, Running
    <2>4. \A u \in Tasks : task'[u].phase # "free" => task'[u].channel # NoChannel
        <3>1. PICK x : /\ task' = [task EXCEPT ![t] = x]
                       /\ \/ x = Free
                          \/ x.channel = task[t].channel /\ task[t].phase # "free"
                          \/ x.channel = channel /\ channel # NoChannel
            BY <2>1, ComparisonMoves
        <3>2. QED
            BY <1>1, <3>1 DEF AtRest, Free
    <2>5. QED
        BY <2>2, <2>3, <2>4 DEF AtRest, Running
<1>7. CASE UNCHANGED vars
    BY <1>7 DEF vars, pulls, AtRest
<1>8. QED
    BY <1>2, <1>3, <1>4, <1>5, <1>6, <1>7 DEF Next

LEMMA AtRestAlways == Spec => [](Inv /\ AtRest)
<1>1. Init => Inv /\ AtRest
    BY InvInit, AtRestInit
<1>2. Inv /\ AtRest /\ [Next]_vars => (Inv /\ AtRest)'
    BY InvNext, AtRestNext
<1>3. QED
    BY <1>1, <1>2, PTL DEF Spec

-----------------------------------------------------------------------------
(* No slot is wasted *)

(* As many elements of a queue without repetitions fill as many slots. *)
LEMMA DistinctPrefixSize ==
    ASSUME NEW q \in Seq(Hashes), Distinct(q), NEW n \in 0..Len(q)
    PROVE  Cardinality({q[i] : i \in 1..n}) = n
<1> DEFINE T == {q[i] : i \in 1..n}
           f == [i \in 1..n |-> q[i]]
<1>1. DOMAIN q = 1..Len(q) /\ Len(q) \in Nat
    BY LenProperties
<1>2. f \in Surjection(1..n, T)
    BY DEF Surjection
<1>3. f \in Injection(1..n, T)
    BY <1>1 DEF Injection, IsInjective, Distinct
<1>4. IsFiniteSet(1..n) /\ Cardinality(1..n) = n
    BY FS_Interval
<1>5. QED
    BY <1>2, <1>3, <1>4, FS_Surjection

(* What drain leaves in the queue has no slot to go to. *)
LEMMA DrainConserves ==
    ASSUME NEW q, NEW p, Drainable(q, p), Drain(q, p), queue' # <<>>
    PROVE  Cardinality(Busy(pull')) = Concurrency
<1> DEFINE room == Concurrency - Cardinality(Busy(p))
           n == IF room < Len(q) THEN room ELSE Len(q)
           started == {q[i] : i \in 1..n}
<1> q \in Seq(Hashes) /\ p \in [Hashes -> PullPhases] /\ Distinct(q)
    BY DEF Drainable
<1>1. Busy(p) \in SUBSET Hashes
    BY DEF Busy
<1>2. IsFiniteSet(Busy(p)) /\ Cardinality(Busy(p)) \in Nat
    BY <1>1, HashesFinite
<1>3. room \in Nat /\ Concurrency \in Nat
    BY <1>2, OptionsAssumption DEF Drainable
<1>4. Len(q) \in Nat /\ DOMAIN q = 1..Len(q)
    BY LenProperties
<1>5. n \in 0..Len(q)
    BY <1>3, <1>4
<1>6. /\ queue' = SubSeq(q, n + 1, Len(q))
      /\ pull' = [h \in Hashes |->
                    CASE h \notin started -> p[h]
                      [] h \in started /\ h \in pending' -> "checking"
                      [] h \in started /\ h \notin pending' -> "settling"]
    BY DEF Drain, Busy
<1>7. n = room
    <2>1. SUFFICES ASSUME n = Len(q) PROVE FALSE
        BY <1>3, <1>4
    <2>2. Len(q) + 1 > Len(q)
        BY <1>4
    <2>3. queue' = SubSeq(q, Len(q) + 1, Len(q))
        BY <1>6, <2>1
    <2>4. queue' = <<>>
        BY <2>2, <2>3, <1>4, SubSeqEmpty
    <2>5. QED
        BY <2>4
<1> HIDE DEF n, room
<1>8. started \in SUBSET Hashes /\ started \subseteq Elements(q)
    BY <1>4, <1>5, ElementOfSeq DEF Elements
<1>9. started \cap Busy(p) = {}
    BY <1>8 DEF Drainable
<1>10. Cardinality(started) = room
    BY <1>5, <1>7, DistinctPrefixSize
<1>11. IsFiniteSet(started)
    BY <1>8, HashesFinite
<1> HIDE DEF started
<1>12. Busy(pull') = Busy(p) \cup started
    BY <1>6, <1>8 DEF Busy
<1>13. Busy(p) \cap started = {}
    BY <1>9
<1>14. Cardinality(Busy(p) \cap started) = 0
    BY <1>13, FS_EmptySet
<1>15. Cardinality(Busy(p) \cup started)
         = Cardinality(Busy(p)) + Cardinality(started) - Cardinality(Busy(p) \cap started)
    BY <1>2, <1>11, FS_Union
<1>16. QED
    BY <1>2, <1>3, <1>10, <1>12, <1>14, <1>15 DEF room

LEMMA EnqueueConserves ==
    ASSUME NEW batch \in SUBSET Hashes, Drainable(queue, pull), Enqueue(batch),
           queue' # <<>>
    PROVE  Cardinality(Busy(pull')) = Concurrency
<1> DEFINE new == batch \ (Busy(pull) \cup Elements(queue))
<1>1. PICK order \in Orders(new) : Drain(queue \o order, pull)
    BY DEF Enqueue, Active, Queued, Busy, Elements
<1>2. queue \in Seq(Hashes) /\ Distinct(queue)
    BY DEF Drainable
<1>3. new \in SUBSET Hashes /\ new \cap Elements(queue) = {}
    OBVIOUS
<1> HIDE DEF new
<1>4. /\ queue \o order \in Seq(Hashes)
      /\ Distinct(queue \o order)
      /\ Elements(queue \o order) \subseteq Elements(queue) \cup new
    BY <1>2, <1>3, ConcatDistinct
<1>5. Drainable(queue \o order, pull)
    BY <1>4 DEF Drainable, new
<1>6. QED
    BY <1>1, <1>5, DrainConserves

(* The pull that settled leaves a slot free. *)
LEMMA SlotFreed ==
    ASSUME NEW h \in Hashes, Drainable(queue, pull)
    PROVE  Drainable(queue, [pull EXCEPT ![h] = "idle"])
<1> DEFINE p == [pull EXCEPT ![h] = "idle"]
<1>1. Busy(p) \subseteq Busy(pull) /\ p \in [Hashes -> PullPhases]
    BY DEF Drainable, Busy, PullPhases
<1>2. Busy(pull) \in SUBSET Hashes /\ Busy(p) \in SUBSET Busy(pull)
    BY <1>1 DEF Busy
<1>3. /\ IsFiniteSet(Busy(pull)) /\ Cardinality(Busy(pull)) \in Nat
      /\ Cardinality(Busy(p)) \in Nat
    BY <1>2, HashesFinite
<1>4. Cardinality(Busy(p)) <= Cardinality(Busy(pull))
    BY <1>2, <1>3, FS_Subset
<1>5. Cardinality(Busy(p)) <= Concurrency
    BY <1>3, <1>4, OptionsAssumption DEF Drainable
<1>6. QED
    BY <1>1, <1>5 DEF Drainable

LEMMA WorkConservingNext ==
    Inv /\ AtRest /\ WorkConserving /\ [Next]_vars => WorkConserving'
<1> SUFFICES ASSUME Inv, AtRest, WorkConserving, [Next]_vars, Running', queue' # <<>>
             PROVE  Cardinality(Busy(pull')) = Concurrency
    BY DEF WorkConserving, Active, Busy
<1>1. /\ Drainable(queue, pull)
      /\ task \in [Tasks -> TaskType(published)]
      /\ pending \in SUBSET Hashes
      /\ pull \in [Hashes -> PullPhases]
    BY DEF Inv, TypeOK, PullsInv, TaskType
<1>2. Running /\ queue # <<>> => Cardinality(Busy(pull)) = Concurrency
    BY DEF WorkConserving, Active, Busy
<1>3. CASE Start \/ Stop
    BY <1>3 DEF Start, Stop, AtRest, pulls, Running
<1>4. CASE PublishChannel \/ WithdrawChannel \/ UNCHANGED vars
    BY <1>2, <1>4 DEF PublishChannel, WithdrawChannel, vars, pulls, Running
<1>5. CASE RetryPending
    BY <1>1, <1>5, EnqueueConserves DEF RetryPending
<1>6. ASSUME NEW batch \in SUBSET Hashes, Receive(batch), UNCHANGED lifecycle
      PROVE  Cardinality(Busy(pull')) = Concurrency
    BY <1>1, <1>6, EnqueueConserves DEF Receive, Running
<1>7. CASE \E h \in Hashes : Hear(h)
    <2>1. PICK h \in Hashes : Hear(h)
        BY <1>7
    <2>2. {h} \in SUBSET Hashes
        OBVIOUS
    <2>3. QED
        BY <2>1, <2>2, <1>6 DEF Hear
<1>8. CASE \E h \in Hashes : WriteOwn(h)
    BY <1>2, <1>8 DEF WriteOwn, pulls, Running
<1>9. CASE \E h \in Hashes : PullStep(h) \/ CheckFails(h)
    <2>1. PICK h \in Hashes : PullStep(h) \/ CheckFails(h)
        BY <1>9
    <2>2. CASE PullSettles(h)
        <3> DEFINE p == [pull EXCEPT ![h] = "idle"]
        <3>1. Running /\ Drain(queue, p)
            BY <2>2 DEF PullSettles, Running
        <3>2. Drainable(queue, p)
            BY <1>1, SlotFreed
        <3> HIDE DEF p
        <3>3. QED
            BY <3>1, <3>2, DrainConserves
    <2>3. CASE ~PullSettles(h)
        <3>1. /\ queue' = queue /\ Running
              /\ pull[h] # "idle"
              /\ \E phase \in PullPhases \ {"idle"} : pull' = [pull EXCEPT ![h] = phase]
            BY <2>1, <2>3
            DEF PullStep, Skip, Attempt, RowsWritten, Record, Completed, PullFails,
                CheckFails, Forget, Running, PullPhases
        <3>2. Busy(pull') = Busy(pull)
            BY <1>1, <3>1 DEF Busy
        <3>3. QED
            BY <1>2, <3>1, <3>2
    <2>4. QED
        BY <2>2, <2>3
<1>10. CASE \E t \in Tasks : PeerAttached(t) \/ TaskStep(t) \/ CompareFails(t)
    <2>1. PICK t \in Tasks : PeerAttached(t) \/ TaskStep(t) \/ CompareFails(t)
        BY <1>10
    <2>2. CASE Compare(t)
        <3>1. task[t].theirs \ task[t].mine \in SUBSET Hashes
            BY <1>1 DEF TaskType
        <3>2. Receive(task[t].theirs \ task[t].mine) /\ UNCHANGED lifecycle
            BY <2>2 DEF Compare
        <3>3. QED
            BY <1>6, <3>1, <3>2
    <2>3. CASE ~Compare(t)
        <3>1. UNCHANGED <<lifecycle, queue, pull>>
            BY <2>1, <2>3
            DEF PeerAttached, TaskStep, CompareFails, PeerListed, PeerListFailed,
                RetryListing, ReadOwnList, AnnounceLacking, pulls
        <3>2. QED
            BY <1>2, <3>1 DEF Running
    <2>4. QED
        BY <2>2, <2>3
<1>11. QED
    BY <1>3, <1>4, <1>5, <1>7, <1>8, <1>9, <1>10 DEF Next

(* A hash waits in the queue only while all slots are taken, whatever ends *)
(* or queues a pull (drain in the finally callback, enqueue).              *)
THEOREM NoSlotIsWasted == Spec => []WorkConserving
<1>1. Init => WorkConserving
    BY DEF Init, WorkConserving, Running
<1>2. Inv /\ AtRest /\ WorkConserving /\ [Next]_vars => WorkConserving'
    BY WorkConservingNext
<1>3. QED
    BY <1>1, <1>2, AtRestAlways, PTL DEF Spec

-----------------------------------------------------------------------------
(* What is received is new *)

LEMMA FetchedInit == Init => FetchedIsNew
BY DEF Init, FetchedIsNew, Free

(* What is known stays known, and a list of known change sets stays one. *)
LEMMA KnownGrows ==
    ASSUME held \subseteq held'
    PROVE  Known \subseteq Known'
BY DEF Known

LEMMA FetchedNext == Inv /\ FetchedIsNew /\ [Next]_vars => FetchedIsNew'
<1> SUFFICES ASSUME Inv, FetchedIsNew, [Next]_vars PROVE FetchedIsNew'
    OBVIOUS
<1>1. /\ Drainable(queue, pull) /\ pending \in SUBSET Hashes
      /\ task \in [Tasks -> TaskType(published)]
      /\ pull \in [Hashes -> PullPhases] /\ held \subseteq Hashes
    BY DEF Inv, TypeOK, PullsInv, TaskType
<1> DEFINE New(p, s, h) == /\ p[h] \in {"fetching", "written"} => h \in Remote \ s
                           /\ p[h] = "recorded" => h \in Remote \cap s
<1>2. \A h \in Hashes : New(pull, held, h)
    BY DEF FetchedIsNew
<1>3. ASSUME UNCHANGED <<held, pending>>, \A t \in Tasks : task'[t].theirs \subseteq Known,
             \A h \in Hashes : pull'[h] = pull[h] \/ pull'[h] \in {"idle", "checking", "settling"}
      PROVE  FetchedIsNew'
    BY <1>2, <1>3 DEF FetchedIsNew, Known
<1>4. ASSUME NEW batch \in SUBSET Known, Receive(batch), UNCHANGED held
      PROVE  /\ pending' \subseteq Known'
             /\ \A h \in Hashes : New(pull', held', h)
    <2>1. CASE Running
        <3>1. batch \in SUBSET Hashes
            BY DEF Known, Hashes
        <3>2. Enqueue(batch) /\ pending' = pending \cup batch
            BY <1>4, <2>1 DEF Receive
        <3>3. \A h \in Hashes : pull'[h] = pull[h] \/ pull'[h] \in {"checking", "settling"}
            BY <1>1, <3>1, <3>2, EnqueueSafe
        <3>4. QED
            BY <1>2, <1>4, <3>2, <3>3 DEF FetchedIsNew, Known
    <2>2. CASE ~Running
        BY <1>2, <1>4, <2>2 DEF Receive, pulls, FetchedIsNew, Known
    <2>3. QED
        BY <2>1, <2>2
<1>5. CASE Start \/ UNCHANGED vars
    BY <1>5 DEF Start, pulls, vars, FetchedIsNew, Known
<1>6. CASE Stop \/ PublishChannel \/ WithdrawChannel
    <2>1. task' = WithoutRetries /\ UNCHANGED <<held, pending, pull>>
        BY <1>6 DEF Stop, PublishChannel, WithdrawChannel, pulls
    <2>2. \A t \in Tasks : task'[t].theirs \subseteq Known
        BY <2>1 DEF FetchedIsNew, WithoutRetries, Free
    <2>3. QED
        BY <1>3, <2>1, <2>2
<1>7. CASE RetryPending
    <2>1. UNCHANGED <<held, pending, task>> /\ Enqueue(pending)
        BY <1>7 DEF RetryPending
    <2>2. \A h \in Hashes : pull'[h] = pull[h] \/ pull'[h] \in {"checking", "settling"}
        BY <1>1, <2>1, EnqueueSafe
    <2>3. QED
        BY <1>3, <2>1, <2>2 DEF FetchedIsNew
<1>8. CASE \E h \in Hashes : Hear(h)
    <2>1. PICK h \in Hashes : Hear(h)
        BY <1>8
    <2>2. {h} \in SUBSET Known /\ Receive({h}) /\ UNCHANGED <<held, task>>
        BY <2>1 DEF Hear
    <2>3. QED
        BY <1>4, <2>2 DEF FetchedIsNew, Known
<1>9. CASE \E h \in Hashes : WriteOwn(h)
    <2>1. PICK h \in Hashes : WriteOwn(h)
        BY <1>9
    <2>2. held' = held \cup {h} /\ h \in Local /\ UNCHANGED <<pending, pull, task>>
        BY <2>1 DEF WriteOwn, pulls
    <2>3. h \notin Remote
        BY <2>2, SetsAssumption
    <2>4. QED
        BY <2>2, <2>3, KnownGrows DEF FetchedIsNew
<1>10. CASE \E h \in Hashes : PullStep(h) \/ CheckFails(h)
    <2>1. PICK h \in Hashes : PullStep(h) \/ CheckFails(h)
        BY <1>10
    <2>2. UNCHANGED task
        BY <2>1
        DEF PullStep, Skip, Attempt, RowsWritten, Record, Completed, PullFails,
            PullSettles, CheckFails
    <2>3. pull[h] \in InFlight => h \in pending
        BY DEF Inv, PullsInv, EntriesAgree
    <2>4. CASE Skip(h) \/ Completed(h) \/ (\E rejected \in BOOLEAN : PullFails(h, rejected))
               \/ CheckFails(h)
        <3>1. /\ held' = held /\ pending' \subseteq pending
              /\ pull' = [pull EXCEPT ![h] = "settling"]
            BY <2>4 DEF Skip, Completed, PullFails, CheckFails, Forget
        <3>2. QED
            BY <1>1, <1>2, <2>2, <3>1 DEF FetchedIsNew, Known
    <2>5. CASE Attempt(h)
        <3>1. h \in Remote \ held
            BY <2>3, <2>5 DEF Attempt, InFlight, FetchedIsNew, Known
        <3>2. UNCHANGED <<held, pending>> /\ pull' = [pull EXCEPT ![h] = "fetching"]
            BY <2>5 DEF Attempt
        <3>3. QED
            BY <1>1, <1>2, <2>2, <3>1, <3>2 DEF FetchedIsNew, Known
    <2>6. CASE RowsWritten(h)
        <3>1. /\ UNCHANGED <<held, pending>> /\ pull' = [pull EXCEPT ![h] = "written"]
              /\ pull[h] = "fetching"
            BY <2>6 DEF RowsWritten
        <3>2. QED
            BY <1>1, <1>2, <2>2, <3>1 DEF FetchedIsNew, Known
    <2>7. CASE Record(h)
        <3>1. /\ held' = held \cup {h} /\ UNCHANGED pending
              /\ pull' = [pull EXCEPT ![h] = "recorded"] /\ pull[h] = "written"
            BY <2>7 DEF Record
        <3>2. \A g \in Hashes : New(pull', held', g)
            BY <1>1, <1>2, <3>1
        <3>3. QED
            BY <2>2, <3>1, <3>2, KnownGrows DEF FetchedIsNew
    <2>8. CASE PullSettles(h)
        <3> DEFINE p == [pull EXCEPT ![h] = "idle"]
        <3>1. UNCHANGED <<held, pending>>
            BY <2>8 DEF PullSettles
        <3>2. Drainable(queue, p)
            BY <1>1, SlotFreed
        <3>3. pull' = p \/ Drain(queue, p)
            BY <2>8 DEF PullSettles
        <3>4. \A g \in Hashes : p[g] = pull[g] \/ p[g] = "idle"
            BY <1>1
        <3> HIDE DEF p
        <3>5. \A g \in Hashes : pull'[g] = p[g] \/ pull'[g] \in {"checking", "settling"}
            BY <3>2, <3>3, DrainSafe
        <3>6. QED
            BY <1>3, <2>2, <3>1, <3>4, <3>5 DEF FetchedIsNew
    <2>9. QED
        BY <2>1, <2>4, <2>5, <2>6, <2>7, <2>8 DEF PullStep
<1>11. CASE \E t \in Tasks : PeerAttached(t) \/ TaskStep(t) \/ CompareFails(t)
    <2>1. PICK t \in Tasks : PeerAttached(t) \/ TaskStep(t) \/ CompareFails(t)
        BY <1>11
    <2>2. held' = held
        BY <2>1
        DEF PeerAttached, TaskStep, CompareFails, PeerListed, PeerListFailed,
            RetryListing, ReadOwnList, Compare, AnnounceLacking
    <2>3. \A u \in Tasks : task'[u].theirs \subseteq Known'
        <3>1. PICK x : task' = [task EXCEPT ![t] = x] /\ x.theirs \subseteq Known
            <4>1. PICK x : /\ task' = [task EXCEPT ![t] = x]
                           /\ x.theirs \subseteq Known \/ x.theirs = task[t].theirs
                BY <2>1, ComparisonMoves
            <4>2. QED
                BY <4>1 DEF FetchedIsNew
        <3>2. QED
            BY <1>1, <2>2, <3>1 DEF FetchedIsNew, Known
    <2>4. CASE Compare(t)
        <3>1. task[t].theirs \ task[t].mine \in SUBSET Known
            BY DEF FetchedIsNew
        <3>2. Receive(task[t].theirs \ task[t].mine)
            BY <2>4 DEF Compare
        <3>3. QED
            BY <1>4, <2>2, <2>3, <3>1, <3>2 DEF FetchedIsNew
    <2>5. CASE ~Compare(t)
        <3>1. UNCHANGED <<pending, pull>>
            BY <2>1, <2>5
            DEF PeerAttached, TaskStep, CompareFails, PeerListed, PeerListFailed,
                RetryListing, ReadOwnList, AnnounceLacking, pulls
        <3>2. QED
            BY <2>2, <2>3, <3>1 DEF FetchedIsNew, Known
    <2>6. QED
        BY <2>4, <2>5
<1>12. QED
    BY <1>5, <1>6, <1>7, <1>8, <1>9, <1>10, <1>11 DEF Next

LEMMA ReceivedOnceNext ==
    Inv /\ FetchedIsNew /\ ReceivedOnce /\ [Next]_vars => ReceivedOnce'
<1> DEFINE Recorded(p) == {h \in Hashes : p[h] = "recorded"}
           Foreign == held \cap Remote
<1> SUFFICES ASSUME Inv, FetchedIsNew, ReceivedOnce, [Next]_vars PROVE ReceivedOnce'
    OBVIOUS
<1>1. /\ Drainable(queue, pull) /\ pending \in SUBSET Hashes
      /\ task \in [Tasks -> TaskType(published)]
      /\ pull \in [Hashes -> PullPhases] /\ held \subseteq Hashes
      /\ counters \in [received : Nat, skipped : Nat, failed : Nat]
    BY DEF Inv, TypeOK, PullsInv, TaskType
<1>2. Recorded(pull) \in SUBSET Hashes /\ Foreign \in SUBSET Hashes
    BY <1>1
<1>3. /\ IsFiniteSet(Recorded(pull)) /\ Cardinality(Recorded(pull)) \in Nat
      /\ IsFiniteSet(Foreign) /\ Cardinality(Foreign) \in Nat
    BY <1>2, HashesFinite
<1>4. counters.received + Cardinality(Recorded(pull)) <= Cardinality(Foreign)
    BY DEF ReceivedOnce
<1>5. SUFFICES counters'.received + Cardinality(Recorded(pull')) <= Cardinality(Foreign')
    BY DEF ReceivedOnce
<1>6. ASSUME counters'.received = counters.received, Recorded(pull') = Recorded(pull),
             Foreign' = Foreign
      PROVE  counters'.received + Cardinality(Recorded(pull')) <= Cardinality(Foreign')
    BY <1>4, <1>6
<1>7. ASSUME \A h \in Hashes : \/ pull'[h] = pull[h]
                                \/ /\ pull[h] \notin {"recorded"}
                                   /\ pull'[h] \notin {"recorded"}
      PROVE  Recorded(pull') = Recorded(pull)
    BY <1>7
<1>8. ASSUME NEW batch \in SUBSET Hashes, Enqueue(batch)
      PROVE  Recorded(pull') = Recorded(pull)
    BY <1>1, <1>7, <1>8, EnqueueSafe
<1>9. CASE Start \/ Stop \/ PublishChannel \/ WithdrawChannel \/ UNCHANGED vars
    <2>1. UNCHANGED <<counters, pull, held>>
        BY <1>9 DEF Start, Stop, PublishChannel, WithdrawChannel, vars, pulls
    <2>2. QED
        BY <1>6, <2>1
<1>10. CASE RetryPending
    BY <1>1, <1>6, <1>8, <1>10 DEF RetryPending
<1>11. CASE \E h \in Hashes : Hear(h)
    <2>1. PICK h \in Hashes : Hear(h)
        BY <1>11
    <2>2. Receive({h}) /\ UNCHANGED <<counters, held>>
        BY <2>1 DEF Hear
    <2>3. Recorded(pull') = Recorded(pull)
        BY <1>8, <2>2 DEF Receive, pulls
    <2>4. QED
        BY <1>6, <2>2, <2>3
<1>12. CASE \E h \in Hashes : WriteOwn(h)
    <2>1. PICK h \in Hashes : WriteOwn(h)
        BY <1>12
    <2>2. /\ held' = held \cup {h} /\ h \in Local /\ UNCHANGED <<counters, pull>>
        BY <2>1 DEF WriteOwn, pulls
    <2>3. Foreign' = Foreign
        BY <2>2, SetsAssumption
    <2>4. QED
        BY <1>6, <2>2, <2>3
<1>13. CASE \E h \in Hashes : PullStep(h) \/ CheckFails(h)
    <2>1. PICK h \in Hashes : PullStep(h) \/ CheckFails(h)
        BY <1>13
    <2>2. CASE Record(h)
        <3>1. /\ held' = held \cup {h} /\ UNCHANGED counters
              /\ pull' = [pull EXCEPT ![h] = "recorded"] /\ pull[h] = "written"
            BY <2>2 DEF Record
        <3>2. h \in Remote \ held
            BY <3>1 DEF FetchedIsNew
        <3>3. Recorded(pull') = Recorded(pull) \cup {h} /\ h \notin Recorded(pull)
            BY <1>1, <3>1
        <3>4. Foreign' = Foreign \cup {h} /\ h \notin Foreign
            BY <3>1, <3>2
        <3>5. Cardinality(Recorded(pull')) = Cardinality(Recorded(pull)) + 1
            BY <1>3, <3>3, FS_AddElement
        <3>6. Cardinality(Foreign') = Cardinality(Foreign) + 1
            BY <1>3, <3>4, FS_AddElement
        <3>7. QED
            BY <1>1, <1>3, <1>4, <3>1, <3>5, <3>6
    <2>3. CASE Completed(h)
        <3>1. /\ held' = held /\ counters' = [counters EXCEPT !.received = @ + 1]
              /\ pull' = [pull EXCEPT ![h] = "settling"] /\ pull[h] = "recorded"
            BY <2>3 DEF Completed, Forget
        <3>2. Recorded(pull') = Recorded(pull) \ {h} /\ h \in Recorded(pull)
            BY <1>1, <3>1
        <3>3. Cardinality(Recorded(pull')) = Cardinality(Recorded(pull)) - 1
            BY <1>3, <3>2, FS_RemoveElement
        <3> HIDE DEF Recorded
        <3>4. counters'.received = counters.received + 1
            BY <1>1, <3>1
        <3>5. Foreign' = Foreign
            BY <3>1
        <3>6. Cardinality(Foreign') = Cardinality(Foreign) /\ counters.received \in Nat
            BY <1>1, <3>5
        <3>7. QED
            BY <1>3, <1>4, <3>3, <3>4, <3>6
    <2>4. CASE PullSettles(h)
        <3> DEFINE p == [pull EXCEPT ![h] = "idle"]
        <3>1. UNCHANGED <<held, counters>> /\ pull[h] = "settling"
            BY <2>4 DEF PullSettles
        <3>2. Drainable(queue, p)
            BY <1>1, SlotFreed
        <3>3. pull' = p \/ Drain(queue, p)
            BY <2>4 DEF PullSettles
        <3>4. \A g \in Hashes : p[g] = IF g = h THEN "idle" ELSE pull[g]
            BY <1>1
        <3> HIDE DEF p
        <3>5. \A g \in Hashes :
                \/ pull'[g] = p[g]
                \/ p[g] = "idle" /\ pull'[g] \in {"checking", "settling"}
            BY <3>2, <3>3, DrainSafe
        <3>6. Recorded(pull') = Recorded(pull)
            BY <1>7, <3>1, <3>4, <3>5
        <3>7. QED
            BY <1>6, <3>1, <3>6
    <2>5. CASE Skip(h) \/ Attempt(h) \/ RowsWritten(h) \/ CheckFails(h)
               \/ \E rejected \in BOOLEAN : PullFails(h, rejected)
        <3>1. /\ UNCHANGED held /\ counters'.received = counters.received
              /\ pull[h] # "recorded"
              /\ \E phase \in {"settling", "fetching", "written"} :
                    pull' = [pull EXCEPT ![h] = phase]
            BY <1>1, <2>5 DEF Skip, Attempt, RowsWritten, CheckFails, PullFails, Forget
        <3>2. Recorded(pull') = Recorded(pull)
            BY <1>1, <3>1
        <3>3. QED
            BY <1>6, <3>1, <3>2
    <2>6. QED
        BY <2>1, <2>2, <2>3, <2>4, <2>5 DEF PullStep
<1>14. CASE \E t \in Tasks : PeerAttached(t) \/ TaskStep(t) \/ CompareFails(t)
    <2>1. PICK t \in Tasks : PeerAttached(t) \/ TaskStep(t) \/ CompareFails(t)
        BY <1>14
    <2>2. UNCHANGED <<held, counters>>
        BY <2>1
        DEF PeerAttached, TaskStep, CompareFails, PeerListed, PeerListFailed,
            RetryListing, ReadOwnList, Compare, AnnounceLacking
    <2>3. CASE Compare(t)
        <3>1. task[t].theirs \ task[t].mine \in SUBSET Hashes
            BY <1>1 DEF TaskType
        <3>2. Receive(task[t].theirs \ task[t].mine)
            BY <2>3 DEF Compare
        <3>3. Recorded(pull') = Recorded(pull)
            BY <1>8, <3>1, <3>2 DEF Receive, pulls
        <3>4. QED
            BY <1>6, <2>2, <3>3
    <2>4. CASE ~Compare(t)
        <3>1. UNCHANGED pull
            BY <2>1, <2>4
            DEF PeerAttached, TaskStep, CompareFails, PeerListed, PeerListFailed,
                RetryListing, ReadOwnList, AnnounceLacking, pulls
        <3>2. QED
            BY <1>6, <2>2, <3>1
    <2>5. QED
        BY <2>3, <2>4
<1>15. QED
    BY <1>9, <1>10, <1>11, <1>12, <1>13, <1>14 DEF Next

(* A change set of another node counts as received at most once, however   *)
(* often it is announced, listed or retried (pull, pullChangeSet).         *)
THEOREM NothingReceivedTwice == Spec => []ReceivedOnce
<1>1. Init => ReceivedOnce
    <2> SUFFICES ASSUME Init PROVE ReceivedOnce
        OBVIOUS
    <2>1. {h \in Hashes : pull[h] = "recorded"} = {} /\ counters.received = 0
        BY DEF Init
    <2>2. held \cap Remote \in SUBSET Hashes
        BY DEF Init, Hashes
    <2>3. Cardinality(held \cap Remote) \in Nat
        BY <2>2, HashesFinite
    <2>4. QED
        BY <2>1, <2>3, FS_EmptySet DEF ReceivedOnce
<1>2. Init => Inv /\ FetchedIsNew
    BY InvInit, FetchedInit
<1>3. Inv /\ FetchedIsNew /\ [Next]_vars => (Inv /\ FetchedIsNew)'
    BY InvNext, FetchedNext
<1>4. Inv /\ FetchedIsNew /\ ReceivedOnce /\ [Next]_vars => ReceivedOnce'
    BY ReceivedOnceNext
<1>5. QED
    BY <1>1, <1>2, <1>3, <1>4, PTL DEF Spec

-----------------------------------------------------------------------------
(* The figures of the catch-up *)

Fits(c) == /\ c.pulled + Cardinality(c.outstanding) <= c.missing
           /\ ~c.open => c.outstanding = {}

LEMMA SettleFits ==
    ASSUME NEW c \in CatchUpType, Fits(c)
    PROVE  Fits(SettleCatchUp(c))
BY DEF Fits, SettleCatchUp, CatchUpType

(* What a comparison finds missing is counted once, also when another *)
(* comparison found it missing before (beginCatchUp).                 *)
LEMMA BeginFits ==
    ASSUME catchUp \in CatchUpType, Fits(catchUp), NEW missing \in SUBSET Hashes
    PROVE  Fits(BeginCatchUp(missing))
<1> DEFINE before == catchUp.outstanding
           new == missing \ before
<1>1. before \in SUBSET Hashes /\ catchUp.missing \in Nat /\ catchUp.pulled \in Nat
    BY DEF CatchUpType
<1>2. /\ IsFiniteSet(before) /\ Cardinality(before) \in Nat
      /\ IsFiniteSet(new) /\ Cardinality(new) \in Nat /\ Cardinality(missing) \in Nat
    BY <1>1, HashesFinite
<1>3. Cardinality(before \cup missing) = Cardinality(before) + Cardinality(new)
    <2>1. before \cap new = {} /\ before \cup new = before \cup missing
        OBVIOUS
    <2> HIDE DEF before, new
    <2>2. Cardinality(before \cap new) = 0
        BY <2>1, FS_EmptySet
    <2>3. Cardinality(before \cup new)
            = Cardinality(before) + Cardinality(new) - Cardinality(before \cap new)
        BY <1>2, FS_Union
    <2>4. Cardinality(before \cup missing) = Cardinality(before \cup new)
        BY <2>1, Zenon
    <2>5. QED
        BY <1>2, <2>2, <2>3, <2>4
<1>4. CASE catchUp.open
    <2> DEFINE c == BeginCatchUp(missing)
    <2>1. /\ c.pulled = catchUp.pulled /\ c.open
          /\ c.missing = catchUp.missing + Cardinality(new)
          /\ c.outstanding = before \cup missing
        BY <1>4 DEF BeginCatchUp, CatchUpType
    <2>2. catchUp.pulled + Cardinality(before) <= catchUp.missing
        BY DEF Fits
    <2> HIDE DEF c, before, new
    <2>3. c.pulled + Cardinality(c.outstanding) <= c.missing
        BY <1>1, <1>2, <1>3, <2>1, <2>2
    <2>4. QED
        BY <2>1, <2>3 DEF Fits, c
<1>5. CASE ~catchUp.open
    BY <1>2, <1>5 DEF BeginCatchUp, Fits
<1>6. QED
    BY <1>4, <1>5

(* A change set that settles leaves `outstanding` and counts as pulled or *)
(* not at all (settled); one that nothing waits for changes nothing.      *)
LEMMA SettledFits ==
    ASSUME catchUp \in CatchUpType, Fits(catchUp), NEW h \in Hashes,
           NEW wasPulled \in BOOLEAN
    PROVE  /\ Fits(Settled(h, wasPulled))
           /\ Settled(h, wasPulled).outstanding \subseteq catchUp.outstanding \ {h}
<1> DEFINE c == [catchUp EXCEPT !.outstanding = @ \ {h},
                                !.pulled = IF wasPulled THEN @ + 1 ELSE @]
<1>1. /\ catchUp.outstanding \in SUBSET Hashes
      /\ catchUp.missing \in Nat /\ catchUp.pulled \in Nat
      /\ catchUp.pulled + Cardinality(catchUp.outstanding) <= catchUp.missing
    BY DEF CatchUpType, Fits
<1>2. CASE catchUp.open /\ h \in catchUp.outstanding
    <2>1. /\ c.outstanding = catchUp.outstanding \ {h} /\ c.open
          /\ c.missing = catchUp.missing
          /\ c.pulled = IF wasPulled THEN catchUp.pulled + 1 ELSE catchUp.pulled
        BY <1>2 DEF CatchUpType
    <2>2. c \in CatchUpType
        <3>1. c.outstanding \in SUBSET Hashes /\ c.pulled \in Nat
            BY <1>1, <2>1
        <3>2. QED
            BY <3>1 DEF CatchUpType
    <2> HIDE DEF c
    <2>3. IsFiniteSet(catchUp.outstanding) /\ Cardinality(catchUp.outstanding) \in Nat
        BY <1>1, HashesFinite
    <2>4. Cardinality(c.outstanding) = Cardinality(catchUp.outstanding) - 1
        <3>1. Cardinality(catchUp.outstanding \ {h}) = Cardinality(catchUp.outstanding) - 1
            BY <1>2, <2>3, FS_RemoveElement
        <3>2. QED
            BY <2>1, <3>1, Zenon
    <2>5. c.pulled + Cardinality(c.outstanding) <= c.missing
        BY <1>1, <2>1, <2>3, <2>4
    <2>6. Fits(c)
        BY <2>1, <2>5 DEF Fits
    <2>7. Fits(SettleCatchUp(c)) /\ SettleCatchUp(c).outstanding = c.outstanding
        BY <2>2, <2>6, SettleFits DEF SettleCatchUp, CatchUpType
    <2>8. Settled(h, wasPulled) = SettleCatchUp(c)
        BY <1>2 DEF Settled, c
    <2>9. QED
        BY <2>1, <2>7, <2>8
<1>3. CASE ~(catchUp.open /\ h \in catchUp.outstanding)
    BY <1>3 DEF Settled, Fits
<1>4. QED
    BY <1>2, <1>3

LEMMA CatchUpInit == Init => CatchUpInv
BY FS_EmptySet DEF Init, CatchUpInv, CatchUpFits, OutstandingIsPending

LEMMA CatchUpNext == Inv /\ AtRest /\ CatchUpInv /\ [Next]_vars => CatchUpInv'
<1> SUFFICES ASSUME Inv, AtRest, CatchUpInv, [Next]_vars PROVE CatchUpInv'
    OBVIOUS
<1>1. /\ catchUp \in CatchUpType /\ Fits(catchUp)
      /\ Running => catchUp.outstanding \subseteq pending
      /\ task \in [Tasks -> TaskType(published)]
    BY DEF Inv, TypeOK, CatchUpType, CatchUpInv, CatchUpFits, Fits,
           OutstandingIsPending, TaskType
<1>2. ASSUME Fits(catchUp'),
             \/ ~Running'
             \/ catchUp'.outstanding \subseteq pending'
      PROVE  CatchUpInv'
    BY <1>2 DEF CatchUpInv, CatchUpFits, OutstandingIsPending, Fits
<1>3. CASE Start
    <2>1. UNCHANGED catchUp /\ catchUp.outstanding = {}
        BY <1>3 DEF Start, AtRest
    <2>2. QED
        BY <1>1, <1>2, <2>1
<1>4. CASE Stop \/ PublishChannel \/ WithdrawChannel \/ UNCHANGED vars
    <2>1. UNCHANGED <<catchUp, pending>> /\ (Running' => Running)
        BY <1>4 DEF Stop, PublishChannel, WithdrawChannel, vars, pulls, Running
    <2>2. QED
        BY <1>1, <1>2, <2>1
<1>5. CASE RetryPending \/ \E h \in Hashes : Hear(h) \/ WriteOwn(h)
    <2>1. UNCHANGED catchUp /\ Running /\ pending \subseteq pending'
        BY <1>5 DEF RetryPending, Hear, WriteOwn, Receive, pulls
    <2>2. QED
        BY <1>1, <1>2, <2>1
<1>6. CASE \E h \in Hashes : PullStep(h) \/ CheckFails(h)
    <2>1. PICK h \in Hashes : PullStep(h) \/ CheckFails(h)
        BY <1>6
    <2>2. Running' => Running
        BY <2>1
        DEF PullStep, Skip, Attempt, RowsWritten, Record, Completed, PullFails,
            PullSettles, CheckFails, Running
    <2>3. CASE UNCHANGED <<catchUp, pending>>
        BY <1>1, <1>2, <2>2, <2>3
    <2>4. CASE /\ pending' = pending \ {h}
               /\ \E wasPulled \in BOOLEAN : catchUp' = Settled(h, wasPulled)
        <3>1. PICK wasPulled \in BOOLEAN : catchUp' = Settled(h, wasPulled)
            BY <2>4
        <3>2. /\ Fits(catchUp')
              /\ catchUp'.outstanding \subseteq catchUp.outstanding \ {h}
            BY <1>1, <3>1, SettledFits
        <3>3. QED
            BY <1>1, <1>2, <2>2, <2>4, <3>2
    <2>5. QED
        BY <2>1, <2>3, <2>4
        DEF PullStep, Skip, Attempt, RowsWritten, Record, Completed, PullFails,
            PullSettles, CheckFails, Forget
<1>7. CASE \E t \in Tasks : PeerAttached(t) \/ TaskStep(t) \/ CompareFails(t)
    <2>1. PICK t \in Tasks : PeerAttached(t) \/ TaskStep(t) \/ CompareFails(t)
        BY <1>7
    <2>2. CASE Compare(t)
        <3> DEFINE missing == task[t].theirs \ task[t].mine
                   opened == BeginCatchUp(missing)
        <3>1. missing \in SUBSET Hashes
            BY <1>1 DEF TaskType
        <3>2. /\ catchUp' \in {opened, SettleCatchUp(opened)}
              /\ Receive(missing) /\ UNCHANGED lifecycle
            BY <2>2 DEF Compare
        <3>3. opened.outstanding \subseteq catchUp.outstanding \cup missing
            BY <1>1 DEF BeginCatchUp, CatchUpType
        <3> HIDE DEF missing
        <3>4. opened \in CatchUpType /\ Fits(opened)
            BY <1>1, <3>1, BeginFits, CatchUpTypes
        <3> HIDE DEF opened
        <3>5. /\ Fits(SettleCatchUp(opened))
              /\ SettleCatchUp(opened).outstanding = opened.outstanding
            BY <3>4, SettleFits DEF SettleCatchUp, CatchUpType
        <3>6. Running => pending' = pending \cup missing
            BY <3>2 DEF Receive
        <3>7. QED
            BY <1>1, <1>2, <3>2, <3>3, <3>4, <3>5, <3>6 DEF Running
    <2>3. CASE ~Compare(t)
        <3>1. UNCHANGED <<pending, lifecycle>>
            BY <2>1, <2>3
            DEF PeerAttached, TaskStep, CompareFails, PeerListed, PeerListFailed,
                RetryListing, ReadOwnList, AnnounceLacking, pulls
        <3>2. catchUp' \in {catchUp, SettleCatchUp(catchUp)}
            BY <2>1, <2>3
            DEF PeerAttached, TaskStep, CompareFails, PeerListed, PeerListFailed,
                RetryListing, ReadOwnList, AnnounceLacking
        <3>3. /\ Fits(SettleCatchUp(catchUp))
              /\ SettleCatchUp(catchUp).outstanding = catchUp.outstanding
            BY <1>1, SettleFits DEF SettleCatchUp, CatchUpType
        <3>4. QED
            BY <1>1, <1>2, <3>1, <3>2, <3>3 DEF Running
    <2>4. QED
        BY <2>2, <2>3
<1>8. QED
    BY <1>3, <1>4, <1>5, <1>6, <1>7 DEF Next

LEMMA CatchUpAlways == Spec => []CatchUpInv
<1>1. Init => CatchUpInv
    BY CatchUpInit
<1>2. Inv /\ AtRest /\ CatchUpInv /\ [Next]_vars => CatchUpInv'
    BY CatchUpNext
<1>3. QED
    BY <1>1, <1>2, AtRestAlways, PTL DEF Spec

(* Whatever comparisons overlap, what was pulled and what is outstanding   *)
(* was found missing, and a catch-up that completed waits for nothing      *)
(* (beginCatchUp, settled, settleCatchUp).                                 *)
THEOREM CatchUpAddsUp == Spec => []CatchUpFits
BY CatchUpAlways, PTL DEF CatchUpInv

(* A running agent never waits for a change set that left `pending`: each  *)
(* way an entry is dropped settles it (settled, settleFailedPull).         *)
THEOREM CatchUpWaitsForPending == Spec => []OutstandingIsPending
BY CatchUpAlways, PTL DEF CatchUpInv

-----------------------------------------------------------------------------
(* Role changes and the stop *)

LEMMA RetriesNext ==
    Inv /\ AtRest /\ RetriesAreCurrent /\ [Next]_vars => RetriesAreCurrent'
<1> SUFFICES ASSUME Inv, AtRest, RetriesAreCurrent, [Next]_vars
             PROVE  RetriesAreCurrent'
    OBVIOUS
<1>1. /\ lifecycle \in {"new", "running", "stopped", "crashed"}
      /\ task \in [Tasks -> TaskType(published)]
    BY DEF Inv, TypeOK, TaskType
<1>2. CASE Start
    BY <1>2 DEF Start, AtRest, RetriesAreCurrent
<1>3. CASE Stop \/ PublishChannel \/ WithdrawChannel
    <2>1. task' = WithoutRetries
        BY <1>3 DEF Stop, PublishChannel, WithdrawChannel
    <2>2. QED
        BY <2>1 DEF RetriesAreCurrent, WithoutRetries, Free
<1>4. CASE RetryPending \/ UNCHANGED vars \/ \E h \in Hashes : Hear(h) \/ WriteOwn(h)
    <2>1. UNCHANGED <<lifecycle, channel, task>>
        BY <1>4 DEF RetryPending, Hear, WriteOwn, vars
    <2>2. QED
        BY <2>1 DEF RetriesAreCurrent, Current, Running
<1>5. CASE \E h \in Hashes : PullStep(h) \/ CheckFails(h)
    <2>1. /\ UNCHANGED <<channel, task>>
          /\ lifecycle' = lifecycle \/ lifecycle' = "crashed"
        BY <1>5
        DEF PullStep, Skip, Attempt, RowsWritten, Record, Completed, PullFails,
            PullSettles, CheckFails
    <2>2. QED
        BY <2>1 DEF RetriesAreCurrent, Current, Running
<1>6. CASE \E t \in Tasks : PeerAttached(t) \/ TaskStep(t) \/ CompareFails(t)
    <2>1. PICK t \in Tasks : PeerAttached(t) \/ TaskStep(t) \/ CompareFails(t)
        BY <1>6
    <2>2. UNCHANGED <<lifecycle, channel>> /\ lifecycle \notin {"new", "crashed"}
        BY <2>1
        DEF PeerAttached, TaskStep, CompareFails, PeerListed, PeerListFailed,
            RetryListing, ReadOwnList, Compare, AnnounceLacking, AtRest, Running
    <2>3. PICK x : /\ task' = [task EXCEPT ![t] = x]
                   /\ \/ x = Free
                      \/ x.channel = task[t].channel /\ task[t].phase # "free"
                      \/ x.channel = channel /\ channel # NoChannel
                   /\ x.phase = "retrying" => channel = x.channel
        BY <2>1, ComparisonMoves
    <2>4. x.phase = "retrying" => Running /\ channel = x.channel
        BY <1>1, <2>2, <2>3 DEF AtRest, Running, Free
    <2>5. QED
        BY <1>1, <2>2, <2>3, <2>4 DEF RetriesAreCurrent, Current, Running
<1>7. QED
    BY <1>2, <1>3, <1>4, <1>5, <1>6 DEF Next

(* The timer of a failed list never outlives the channel it was started on *)
(* (clearCatchUpRetries, the guard of catchUpWith).                        *)
THEOREM RetriesOfCurrentChannel == Spec => []RetriesAreCurrent
<1>1. Init => RetriesAreCurrent
    BY DEF Init, RetriesAreCurrent, Free
<1>2. Inv /\ AtRest /\ RetriesAreCurrent /\ [Next]_vars => RetriesAreCurrent'
    BY RetriesNext
<1>3. QED
    BY <1>1, <1>2, AtRestAlways, PTL DEF Spec

(* Once stopped, the agent queues nothing, begins no pull, takes no channel *)
(* and makes nothing pending, whatever was under way (stop, receive, drain).*)
THEOREM StoppedAgentRests == Spec => StoppedStartsNothing
<1> DEFINE Rests == lifecycle = "stopped" =>
              /\ queue' = <<>>
              /\ channel' = NoChannel
              /\ pending' \subseteq pending
              /\ \A h \in Hashes : pull[h] = "idle" => pull'[h] = "idle"
<1>1. Inv /\ AtRest /\ [Next]_vars => [Rests]_vars
    <2> SUFFICES ASSUME Inv, AtRest, Next, lifecycle = "stopped"
                 PROVE  /\ queue' = queue /\ channel' = channel
                        /\ pending' \subseteq pending
                        /\ \A h \in Hashes : pull[h] = "idle" => pull'[h] = "idle"
        BY DEF AtRest
    <2>1. pull \in [Hashes -> PullPhases]
        BY DEF Inv, TypeOK
    <2>2. ~Running
        BY DEF Running
    <2>3. CASE Start \/ Stop \/ PublishChannel \/ WithdrawChannel \/ RetryPending
        BY <2>2, <2>3
        DEF Start, Stop, PublishChannel, WithdrawChannel, RetryPending
    <2>4. CASE \E h \in Hashes : Hear(h) \/ WriteOwn(h) \/ PullStep(h) \/ CheckFails(h)
        <3>1. PICK h \in Hashes : Hear(h) \/ WriteOwn(h) \/ PullStep(h) \/ CheckFails(h)
            BY <2>4
        <3>2. /\ UNCHANGED <<queue, channel>> /\ pending' \subseteq pending
              /\ pull[h] # "idle"
              /\ \E phase : pull' = [pull EXCEPT ![h] = phase]
            BY <2>2, <3>1
            DEF Hear, WriteOwn, PullStep, Skip, Attempt, RowsWritten, Record,
                Completed, PullFails, PullSettles, CheckFails, Forget
        <3>3. QED
            BY <2>1, <3>2
    <2>5. CASE \E t \in Tasks : PeerAttached(t) \/ TaskStep(t) \/ CompareFails(t)
        BY <2>2, <2>5
        DEF PeerAttached, TaskStep, CompareFails, PeerListed, PeerListFailed,
            RetryListing, ReadOwnList, Compare, AnnounceLacking, Receive, pulls
    <2>6. QED
        BY <2>3, <2>4, <2>5 DEF Next
<1>2. QED
    BY <1>1, AtRestAlways, PTL DEF Spec, StoppedStartsNothing
=============================================================================
