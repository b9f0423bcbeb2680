------------------------------ MODULE SyncAgent ------------------------------
(***************************************************************************)
(* The change set synchronisation of one node: class SyncAgent of          *)
(* packages/node-service/src/network/syncAgent.ts.                         *)
(*                                                                         *)
(* The agent hears hashes of change sets on the announcement channel of    *)
(* the node's current role, compares its store with the store of every     *)
(* peer that attaches (the catch-up), pulls what it lacks, Concurrency     *)
(* change sets at a time, and retries what it could not pull.              *)
(*                                                                         *)
(* The model is one agent; peers, transport and store are its environment. *)
(* An action is one synchronous stretch of the agent's code: from an event *)
(* or the end of an await to the next await.  A change set is a member of  *)
(* Hashes: Local ones are written by this node, Remote ones by others.     *)
(* Left out: what is logged, the list of transfers and its listeners, the  *)
(* node ids a transfer names, clock readings.                              *)
(*                                                                         *)
(* A definition called a variant is the definition below it with one       *)
(* plausible mistake; PROJECT.json names the property that rules it out.   *)
(***************************************************************************)
EXTENDS Integers, Sequences, FiniteSets

CONSTANTS
    Local,        \* change sets this node's own API and seed write
    Remote,       \* change sets other nodes write
    Concurrency,  \* SyncAgentOptions.concurrency
    MaxAttempts,  \* SyncAgentOptions.maxAttempts
    Tasks,        \* bound: comparisons with a peer that may be going on at once
    MaxChannels,  \* bound: channels the transport publishes
    MaxAttached,  \* bound: peers that attach
    MaxHeard,     \* bound: announcements the channel delivers
    MaxFaults     \* bound: reads of the node's own store that fail

ASSUME SetsAssumption ==
    /\ Local \cap Remote = {}
    /\ IsFiniteSet(Local \cup Remote)
ASSUME OptionsAssumption ==
    /\ Concurrency \in Nat \ {0}
    /\ MaxAttempts \in Nat \ {0}
ASSUME BoundsAssumption ==
    /\ MaxChannels \in Nat /\ MaxAttached \in Nat
    /\ MaxHeard \in Nat /\ MaxFaults \in Nat

Hashes == Local \cup Remote

VARIABLES
    lifecycle,  \* `running`, and whether an unhandled rejection ended the process
    channel,    \* the current channel, 0 for null; numbered in the order published
    published,  \* how many channels the transport published so far
    pending,    \* keys of the map `pending`
    attempts,   \* PendingChangeSet.attempts, 0 for a hash that is not pending
    queue,      \* hashes waiting for a pull
    pull,       \* how far the pull of a hash is; `active` is where it is not idle
    held,       \* what holdsChangeSet answers true for, the node's store
    announced,  \* `announcedHashes`; counters.announced is its size
    counters,   \* counters.received, skipped and failed
    created,    \* ghost: entries ever put into `pending`
    catchUp,    \* the catch-up in progress or the last one
    task,       \* the runs of catchUpWith and compareWith
    budget      \* what is left of the bounds: announcements, attaches, faults

vars == <<lifecycle, channel, published, pending, attempts, queue, pull, held,
          announced, counters, created, catchUp, task, budget>>

pulls == <<pending, attempts, queue, pull, created>>

NoChannel == 0

Free == [phase |-> "free", channel |-> NoChannel, attempt |-> 0,
         theirs |-> {}, mine |-> {}]

Queued == {queue[i] : i \in DOMAIN queue}
Active == {h \in Hashes : pull[h] # "idle"}
Running == lifecycle = "running"

(***************************************************************************)
(* A pull that returned leaves `active` in a `finally` callback of its own *)
(* microtask.  Timers and socket events are macrotasks: they never run     *)
(* between the two, the continuation of a local store read may.            *)
(***************************************************************************)
MicrotasksDone == \A h \in Hashes : pull[h] # "settling"

-----------------------------------------------------------------------------
(* The catch-up snapshot: beginCatchUp, settleCatchUp, settled *)

(* Variant: a second comparison overwrites the count of the first. *)
BeginCatchUpOverwriting(missing) ==
    [catchUp EXCEPT
        !.open = TRUE,
        !.missing = Cardinality(missing),
        !.pulled = IF catchUp.open THEN @ ELSE 0,
        !.outstanding = @ \cup missing]

BeginCatchUp(missing) ==
    IF catchUp.open
    THEN [catchUp EXCEPT
            !.missing = @ + Cardinality(missing \ catchUp.outstanding),
            !.outstanding = @ \cup missing]
    ELSE [open |-> TRUE, missing |-> Cardinality(missing), pulled |-> 0,
          outstanding |-> missing]

SettleCatchUp(c) ==
    IF c.open /\ c.outstanding = {} THEN [c EXCEPT !.open = FALSE] ELSE c

Settled(h, wasPulled) ==
    IF catchUp.open /\ h \in catchUp.outstanding
    THEN SettleCatchUp([catchUp EXCEPT
            !.outstanding = @ \ {h},
            !.pulled = IF wasPulled THEN @ + 1 ELSE @])
    ELSE catchUp

-----------------------------------------------------------------------------
(* The queue: enqueue, drain, receive, retryPending *)

Orders(S) ==
    {s \in [1..Cardinality(S) -> S] :
        \A i, j \in 1..Cardinality(S) : s[i] = s[j] => i = j}

(* Variant: one pull too many (<= for < in the loop of drain). *)
DrainOneTooMany(q, p) ==
    LET room == Concurrency + 1 - Cardinality({h \in Hashes : p[h] # "idle"})
        n == IF room < Len(q) THEN room ELSE Len(q)
        started == {q[i] : i \in 1..n}
    IN  /\ queue' = SubSeq(q, n + 1, Len(q))
        /\ pull' = [h \in Hashes |->
                      IF h \in started THEN "checking" ELSE p[h]]

(* drain: starts pulls from the front of q while one of the slots is free. *)
Drain(q, p) ==
    LET room == Concurrency - Cardinality({h \in Hashes : p[h] # "idle"})
        n == IF room < Len(q) THEN room ELSE Len(q)
        started == {q[i] : i \in 1..n}
    IN  /\ queue' = SubSeq(q, n + 1, Len(q))
        /\ pull' = [h \in Hashes |->
                      CASE h \notin started -> p[h]
                        [] h \in started /\ h \in pending' -> "checking"
                        [] h \in started /\ h \notin pending' -> "settling"]

(* Variants: a hash that is queued, or that is being pulled, is queued again. *)
EnqueueUnlessActive(batch) ==
    \E order \in Orders(batch \ Active) : Drain(queue \o order, pull)

EnqueueUnlessQueued(batch) ==
    \E order \in Orders(batch \ Queued) : Drain(queue \o order, pull)

(* enqueue for every hash of a batch; the order is that of a peer's list or *)
(* of the map, any order here.                                              *)
Enqueue(batch) ==
    \E order \in Orders(batch \ (Active \cup Queued)) :
        Drain(queue \o order, pull)

(* Variant: without the guard on `running`. *)
ReceiveAlways(batch) ==
    /\ pending' = pending \cup batch
    /\ created' = created + Cardinality(batch \ pending)
    /\ Enqueue(batch)
    /\ UNCHANGED attempts

(* receive for every hash of a batch. *)
Receive(batch) ==
    IF Running
    THEN /\ pending' = pending \cup batch
         /\ created' = created + Cardinality(batch \ pending)
         /\ Enqueue(batch)
         /\ UNCHANGED attempts
    ELSE UNCHANGED pulls

-----------------------------------------------------------------------------
Init ==
    /\ lifecycle = "new"
    /\ channel = NoChannel
    /\ published = 0
    /\ pending = {}
    /\ attempts = [h \in Hashes |-> 0]
    /\ queue = <<>>
    /\ pull = [h \in Hashes |-> "idle"]
    /\ held \in SUBSET Remote
    /\ announced = {}
    /\ counters = [received |-> 0, skipped |-> 0, failed |-> 0]
    /\ created = 0
    /\ catchUp = [open |-> FALSE, missing |-> 0, pulled |-> 0,
                  outstanding |-> {}]
    /\ task = [t \in Tasks |-> Free]
    /\ budget = [heard |-> MaxHeard, attached |-> MaxAttached,
                 faults |-> MaxFaults]

(* start: the process starts the agent before the node has a role, so the *)
(* channel subscribe hands over at once is null.                          *)
Start ==
    /\ lifecycle = "new"
    /\ lifecycle' = "running"
    /\ UNCHANGED <<channel, published, pulls, held, announced, counters,
                   catchUp, task, budget>>

WithoutRetries == [t \in Tasks |->
                     IF task[t].phase = "retrying" THEN Free ELSE task[t]]

(* stop: pending entries stay in the map, nothing reads them again. *)
Stop ==
    /\ Running
    /\ MicrotasksDone
    /\ lifecycle' = "stopped"
    /\ channel' = NoChannel
    /\ queue' = <<>>
    /\ task' = WithoutRetries
    /\ UNCHANGED <<published, pending, attempts, pull, created, held,
                   announced, counters, catchUp, budget>>

(* attach with the channel of a new role. *)
PublishChannel ==
    /\ Running
    /\ MicrotasksDone
    /\ published < MaxChannels
    /\ published' = published + 1
    /\ channel' = published + 1
    /\ task' = WithoutRetries
    /\ UNCHANGED <<lifecycle, pulls, held, announced, counters, catchUp,
                   budget>>

(* attach with null: the transport tears a role down. *)
WithdrawChannel ==
    /\ Running
    /\ MicrotasksDone
    /\ channel # NoChannel
    /\ channel' = NoChannel
    /\ task' = WithoutRetries
    /\ UNCHANGED <<lifecycle, published, pulls, held, announced, counters,
                   catchUp, budget>>

-----------------------------------------------------------------------------
(* Announcements *)

(* What another node may name or list: its own change sets, and those of *)
(* this node it can have pulled from here.                               *)
Known == Remote \cup (Local \cap held)

(* The channel delivers an announcement: receive.  A channel that outlives *)
(* the agent still calls it, and receive returns at once.                  *)
Hear(h) ==
    /\ Running
    /\ channel # NoChannel
    /\ MicrotasksDone
    /\ budget.heard > 0
    /\ h \in Known
    /\ Receive({h})
    /\ budget' = [budget EXCEPT !.heard = @ - 1]
    /\ UNCHANGED <<lifecycle, channel, published, held, announced, counters,
                   catchUp, task>>

(* The store wrote a change set of its own and calls announce. *)
WriteOwn(h) ==
    /\ Running
    /\ h \in Local \ held
    /\ held' = held \cup {h}
    /\ announced' = IF channel = NoChannel THEN announced
                                           ELSE announced \cup {h}
    /\ UNCHANGED <<lifecycle, channel, published, pulls, counters, catchUp,
                   task, budget>>

-----------------------------------------------------------------------------
(* The catch-up with a peer: catchUpWith and compareWith *)

PeerAttached(t) ==
    /\ Running
    /\ channel # NoChannel
    /\ MicrotasksDone
    /\ budget.attached > 0
    /\ task[t] = Free
    /\ task' = [task EXCEPT ![t] = [Free EXCEPT !.phase = "listing",
                                                !.channel = channel,
                                                !.attempt = 1]]
    /\ budget' = [budget EXCEPT !.attached = @ - 1]
    /\ UNCHANGED <<lifecycle, channel, published, pulls, held, announced,
                   counters, catchUp>>

Current(t) == Running /\ channel = task[t].channel

(* The peer's list arrived; a run whose channel is gone ends here. *)
PeerListed(t, theirs) ==
    /\ task[t].phase = "listing"
    /\ MicrotasksDone
    /\ lifecycle # "crashed"
    /\ theirs \subseteq Known
    /\ task' = [task EXCEPT ![t] =
                  IF Current(t)
                  THEN [@ EXCEPT !.phase = "reading", !.theirs = theirs]
                  ELSE Free]
    /\ UNCHANGED <<lifecycle, channel, published, pulls, held, announced,
                   counters, catchUp, budget>>

(* Variant: the list is asked for again on whatever channel is current. *)
PeerListFailedUnchecked(t) ==
    /\ task[t].phase = "listing"
    /\ MicrotasksDone
    /\ lifecycle # "crashed"
    /\ task' = [task EXCEPT ![t] =
                  IF task[t].attempt < MaxAttempts
                  THEN [@ EXCEPT !.phase = "retrying"]
                  ELSE Free]
    /\ UNCHANGED <<lifecycle, channel, published, pulls, held, announced,
                   counters, catchUp, budget>>

(* The list could not be read within pullTimeoutMs. *)
PeerListFailed(t) ==
    /\ task[t].phase = "listing"
    /\ MicrotasksDone
    /\ lifecycle # "crashed"
    /\ task' = [task EXCEPT ![t] =
                  IF task[t].attempt < MaxAttempts /\ channel = task[t].channel
                  THEN [@ EXCEPT !.phase = "retrying"]
                  ELSE Free]
    /\ UNCHANGED <<lifecycle, channel, published, pulls, held, announced,
                   counters, catchUp, budget>>

(* The retry timer of a failed list: catchUpWith with attempt + 1. *)
RetryListing(t) ==
    /\ task[t].phase = "retrying"
    /\ MicrotasksDone
    /\ lifecycle # "crashed"
    /\ task' = [task EXCEPT ![t] =
                  IF Current(t)
                  THEN [@ EXCEPT !.phase = "listing",
                                 !.attempt = task[t].attempt + 1]
                  ELSE Free]
    /\ UNCHANGED <<lifecycle, channel, published, pulls, held, announced,
                   counters, catchUp, budget>>

(* heldChangeSets reads the node's own list; the run resumes later. *)
ReadOwnList(t) ==
    /\ task[t].phase = "reading"
    /\ lifecycle # "crashed"
    /\ task' = [task EXCEPT ![t].phase = "comparing", ![t].mine = held]
    /\ UNCHANGED <<lifecycle, channel, published, pulls, held, announced,
                   counters, catchUp, budget>>

(* The body of compareWith up to the first localChangeSet.  Whether the    *)
(* agent still runs and still has the channel is asked again only per      *)
(* change set it is about to announce.                                     *)
Compare(t) ==
    /\ task[t].phase = "comparing"
    /\ lifecycle # "crashed"
    /\ LET missing == task[t].theirs \ task[t].mine
           lacking == task[t].mine \ task[t].theirs
           opened == BeginCatchUp(missing)
           announces == lacking # {} /\ Current(t)
       IN  /\ catchUp' = IF announces THEN opened ELSE SettleCatchUp(opened)
           /\ Receive(missing)
           /\ task' = [task EXCEPT ![t] =
                         IF announces
                         THEN [@ EXCEPT !.phase = "announcing",
                                        !.theirs = {}, !.mine = lacking]
                         ELSE Free]
    /\ UNCHANGED <<lifecycle, channel, published, held, announced, counters,
                   budget>>

(* localChangeSet answered for h: send, then the guard of the next round. *)
AnnounceLacking(t, h) ==
    /\ task[t].phase = "announcing"
    /\ lifecycle # "crashed"
    /\ h \in task[t].mine
    /\ announced' = announced \cup {h}
    /\ LET rest == task[t].mine \ {h}
           announces == rest # {} /\ Current(t)
       IN  /\ catchUp' = IF announces THEN catchUp ELSE SettleCatchUp(catchUp)
           /\ task' = [task EXCEPT ![t] = IF announces
                                          THEN [@ EXCEPT !.mine = rest]
                                          ELSE Free]
    /\ UNCHANGED <<lifecycle, channel, published, pulls, held, counters,
                   budget>>

(* A read of the node's own store fails: caught by catchUpWith, logged. *)
CompareFails(t) ==
    /\ task[t].phase \in {"reading", "announcing"}
    /\ lifecycle # "crashed"
    /\ budget.faults > 0
    /\ budget' = [budget EXCEPT !.faults = @ - 1]
    /\ task' = [task EXCEPT ![t] = Free]
    /\ UNCHANGED <<lifecycle, channel, published, pulls, held, announced,
                   counters, catchUp>>

-----------------------------------------------------------------------------
(* One pull: pull, pullChangeSet, settleFailedPull *)

(* The entry of h leaves the map. *)
Forget(h) ==
    /\ pending' = pending \ {h}
    /\ attempts' = [attempts EXCEPT ![h] = 0]
    /\ pull' = [pull EXCEPT ![h] = "settling"]

(* Variants: a skipped change set is not counted, or leaves the catch-up *)
(* waiting for it.                                                       *)
SkipUncounted(h) ==
    /\ pull[h] = "checking"
    /\ lifecycle # "crashed"
    /\ h \in held
    /\ Forget(h)
    /\ catchUp' = Settled(h, FALSE)
    /\ UNCHANGED <<lifecycle, channel, published, queue, held, announced,
                   counters, created, task, budget>>

SkipUnsettled(h) ==
    /\ pull[h] = "checking"
    /\ lifecycle # "crashed"
    /\ h \in held
    /\ Forget(h)
    /\ counters' = [counters EXCEPT !.skipped = @ + 1]
    /\ UNCHANGED <<lifecycle, channel, published, queue, held, announced,
                   created, catchUp, task, budget>>

(* holdsChangeSet answered true. *)
Skip(h) ==
    /\ pull[h] = "checking"
    /\ lifecycle # "crashed"
    /\ h \in held
    /\ Forget(h)
    /\ counters' = [counters EXCEPT !.skipped = @ + 1]
    /\ catchUp' = Settled(h, FALSE)
    /\ UNCHANGED <<lifecycle, channel, published, queue, held, announced,
                   created, task, budget>>

(* Variants: what is held is pulled again; an attempt does not count. *)
AttemptUnchecked(h) ==
    /\ pull[h] = "checking"
    /\ lifecycle # "crashed"
    /\ attempts' = [attempts EXCEPT ![h] = @ + 1]
    /\ pull' = [pull EXCEPT ![h] = "fetching"]
    /\ UNCHANGED <<lifecycle, channel, published, pending, queue, held,
                   announced, counters, created, catchUp, task, budget>>

AttemptUncounted(h) ==
    /\ pull[h] = "checking"
    /\ lifecycle # "crashed"
    /\ h \notin held
    /\ pull' = [pull EXCEPT ![h] = "fetching"]
    /\ UNCHANGED <<lifecycle, channel, published, pending, attempts, queue,
                   held, announced, counters, created, catchUp, task, budget>>

(* holdsChangeSet answered false: the attempt counts from here. *)
Attempt(h) ==
    /\ pull[h] = "checking"
    /\ lifecycle # "crashed"
    /\ h \notin held
    /\ attempts' = [attempts EXCEPT ![h] = @ + 1]
    /\ pull' = [pull EXCEPT ![h] = "fetching"]
    /\ UNCHANGED <<lifecycle, channel, published, pending, queue, held,
                   announced, counters, created, catchUp, task, budget>>

(* holdsChangeSet rejects, outside the try of pull: nobody awaits the pull *)
(* while the agent runs, and Node ends the process on an unhandled         *)
(* rejection; stop awaits the pulls in flight with allSettled.             *)
CheckFails(h) ==
    /\ pull[h] = "checking"
    /\ lifecycle # "crashed"
    /\ budget.faults > 0
    /\ budget' = [budget EXCEPT !.faults = @ - 1]
    /\ lifecycle' = IF Running THEN "crashed" ELSE lifecycle
    /\ pull' = [pull EXCEPT ![h] = "settling"]
    /\ UNCHANGED <<channel, published, pending, attempts, queue, held,
                   announced, counters, created, catchUp, task>>

(* Every row arrived and writeReceivedRows wrote them in one write; what *)
(* they depend on and their blobs are best effort.                       *)
RowsWritten(h) ==
    /\ pull[h] = "fetching"
    /\ lifecycle # "crashed"
    /\ pull' = [pull EXCEPT ![h] = "written"]
    /\ UNCHANGED <<lifecycle, channel, published, pending, attempts, queue,
                   held, announced, counters, created, catchUp, task, budget>>

(* recordReceivedChangeSet wrote the history row: the change set is held. *)
Record(h) ==
    /\ pull[h] = "written"
    /\ lifecycle # "crashed"
    /\ held' = held \cup {h}
    /\ pull' = [pull EXCEPT ![h] = "recorded"]
    /\ UNCHANGED <<lifecycle, channel, published, pending, attempts, queue,
                   announced, counters, created, catchUp, task, budget>>

(* pullChangeSet returned to pull. *)
Completed(h) ==
    /\ pull[h] = "recorded"
    /\ lifecycle # "crashed"
    /\ Forget(h)
    /\ counters' = [counters EXCEPT !.received = @ + 1]
    /\ catchUp' = Settled(h, TRUE)
    /\ UNCHANGED <<lifecycle, channel, published, queue, held, announced,
                   created, task, budget>>

(* Variants: one attempt more than maxAttempts; giving up leaves the *)
(* catch-up waiting.                                                 *)
PullFailsOneTooMany(h, rejected) ==
    /\ pull[h] \in {"fetching", "written"}
    /\ lifecycle # "crashed"
    /\ IF rejected \/ attempts[h] > MaxAttempts
       THEN /\ Forget(h)
            /\ counters' = [counters EXCEPT !.failed = @ + 1]
            /\ catchUp' = Settled(h, FALSE)
       ELSE /\ pull' = [pull EXCEPT ![h] = "settling"]
            /\ UNCHANGED <<pending, attempts, counters, catchUp>>
    /\ UNCHANGED <<lifecycle, channel, published, queue, held, announced,
                   created, task, budget>>

PullFailsUnsettled(h, rejected) ==
    /\ pull[h] \in {"fetching", "written"}
    /\ lifecycle # "crashed"
    /\ IF rejected \/ attempts[h] >= MaxAttempts
       THEN /\ Forget(h)
            /\ counters' = [counters EXCEPT !.failed = @ + 1]
       ELSE /\ pull' = [pull EXCEPT ![h] = "settling"]
            /\ UNCHANGED <<pending, attempts, counters>>
    /\ UNCHANGED <<lifecycle, channel, published, queue, held, announced,
                   created, catchUp, task, budget>>

(* settleFailedPull: a rejected change set and the last allowed attempt are *)
(* given up, anything else stays pending.                                   *)
PullFails(h, rejected) ==
    /\ pull[h] \in {"fetching", "written"}
    /\ lifecycle # "crashed"
    /\ IF rejected \/ attempts[h] >= MaxAttempts
       THEN /\ Forget(h)
            /\ counters' = [counters EXCEPT !.failed = @ + 1]
            /\ catchUp' = Settled(h, FALSE)
       ELSE /\ pull' = [pull EXCEPT ![h] = "settling"]
            /\ UNCHANGED <<pending, attempts, counters, catchUp>>
    /\ UNCHANGED <<lifecycle, channel, published, queue, held, announced,
                   created, task, budget>>

(* Variant: the end of a pull does not start the next one. *)
PullSettlesWithoutDrain(h) ==
    /\ pull[h] = "settling"
    /\ lifecycle # "crashed"
    /\ pull' = [pull EXCEPT ![h] = "idle"]
    /\ UNCHANGED <<lifecycle, channel, published, pending, attempts, queue,
                   held, announced, counters, created, catchUp, task, budget>>

(* The finally callback of drain: the slot is free, the next pull starts. *)
PullSettles(h) ==
    /\ pull[h] = "settling"
    /\ lifecycle # "crashed"
    /\ UNCHANGED pending
    /\ IF Running
       THEN Drain(queue, [pull EXCEPT ![h] = "idle"])
       ELSE pull' = [pull EXCEPT ![h] = "idle"] /\ UNCHANGED queue
    /\ UNCHANGED <<lifecycle, channel, published, attempts, held, announced,
                   counters, created, catchUp, task, budget>>

(* The retry timer: retryPending. *)
RetryPending ==
    /\ Running
    /\ MicrotasksDone
    /\ UNCHANGED pending
    /\ Enqueue(pending)
    /\ UNCHANGED <<lifecycle, channel, published, attempts, held, announced,
                   counters, created, catchUp, task, budget>>

-----------------------------------------------------------------------------
PullStep(h) ==
    \/ Skip(h) \/ Attempt(h) \/ RowsWritten(h) \/ Record(h) \/ Completed(h)
    \/ \E rejected \in BOOLEAN : PullFails(h, rejected)
    \/ PullSettles(h)

TaskStep(t) ==
    \/ \E theirs \in SUBSET Known : PeerListed(t, theirs)
    \/ PeerListFailed(t) \/ RetryListing(t)
    \/ ReadOwnList(t) \/ Compare(t)
    \/ \E h \in Hashes : AnnounceLacking(t, h)

Next ==
    \/ Start \/ Stop \/ PublishChannel \/ WithdrawChannel \/ RetryPending
    \/ \E h \in Hashes : Hear(h) \/ WriteOwn(h) \/ PullStep(h) \/ CheckFails(h)
    \/ \E t \in Tasks : PeerAttached(t) \/ TaskStep(t) \/ CompareFails(t)

Spec == Init /\ [][Next]_vars

(***************************************************************************)
(* Every await of a pull or a comparison ends: the reads from peers run    *)
(* under a deadline, the store answers, and the retry interval ticks.      *)
(***************************************************************************)
Fairness ==
    /\ \A h \in Hashes : WF_vars(PullStep(h))
    /\ \A t \in Tasks : WF_vars(TaskStep(t))
    /\ WF_vars(RetryPending)

FairSpec == Spec /\ Fairness

-----------------------------------------------------------------------------
(* Type invariant *)

Phases == {"free", "listing", "retrying", "reading", "comparing",
           "announcing"}
PullPhases == {"idle", "checking", "fetching", "written", "recorded",
               "settling"}

TypeOK ==
    /\ lifecycle \in {"new", "running", "stopped", "crashed"}
    /\ published \in 0..MaxChannels
    /\ channel \in 0..published
    /\ pending \subseteq Hashes
    /\ attempts \in [Hashes -> 0..MaxAttempts]
    /\ queue \in Seq(Hashes)
    /\ pull \in [Hashes -> PullPhases]
    /\ held \subseteq Hashes
    /\ announced \subseteq Hashes
    /\ counters \in [received : Nat, skipped : Nat, failed : Nat]
    /\ created \in Nat
    /\ catchUp \in [open : BOOLEAN, missing : Nat, pulled : Nat,
                    outstanding : SUBSET Hashes]
    /\ task \in [Tasks -> [phase : Phases, channel : 0..published,
                           attempt : 0..MaxAttempts,
                           theirs : SUBSET Hashes, mine : SUBSET Hashes]]
    /\ budget \in [heard : 0..MaxHeard, attached : 0..MaxAttached,
                   faults : 0..MaxFaults]

-----------------------------------------------------------------------------
(* Safety *)

(* A change set is pulled by one pull at a time: nothing is queued twice, *)
(* and nothing is queued while its pull runs (enqueue, drain).            *)
NoDoublePull ==
    /\ \A i, j \in DOMAIN queue : queue[i] = queue[j] => i = j
    /\ Queued \cap Active = {}

(* Whatever is queued has its entry in `pending` until its pull ran, so a *)
(* pull never finds nothing to do (the first return of pull).             *)
QueuedIsPending == Queued \subseteq pending

(* Never more than `concurrency` pulls at a time, whatever mix of channel *)
(* announcements, comparisons and retry rounds fills the queue (drain).   *)
ConcurrencyBound == Cardinality(Active) <= Concurrency

(* A hash waits in the queue only while every slot is taken: the end of a *)
(* pull always starts the next one (drain in the finally callback).       *)
WorkConserving ==
    Running /\ queue # <<>> => Cardinality(Active) = Concurrency

(* What /status counts adds up: every entry ever made pending was         *)
(* received, skipped or failed, once, or is pending still (SyncSnapshot). *)
EveryEntryAccounted ==
    created = counters.received + counters.skipped + counters.failed
              + Cardinality(pending)

(* A change set counts as received at most once, whatever is announced     *)
(* again, listed again or retried: the received ones are in the store, and *)
(* the pull past its record is not counted yet.                            *)
ReceivedOnce ==
    counters.received + Cardinality({h \in Hashes : pull[h] = "recorded"})
        <= Cardinality(held \cap Remote)

(* maxAttempts is a bound: an entry that used its last attempt is being *)
(* pulled for that attempt or is gone (settleFailedPull).               *)
ExhaustedIsGone ==
    \A h \in pending : attempts[h] = MaxAttempts =>
        pull[h] \in {"fetching", "written", "recorded"}

(* The catch-up figures of /status fit: what was pulled and what is still *)
(* outstanding was found missing, and a completed catch-up waits for      *)
(* nothing (CatchUpSnapshot).                                             *)
CatchUpFits ==
    /\ catchUp.pulled + Cardinality(catchUp.outstanding) <= catchUp.missing
    /\ ~catchUp.open => catchUp.outstanding = {}

(* An open catch-up waits only for change sets whose pull can still settle *)
(* them: each is pending (settled is called wherever an entry is dropped). *)
OutstandingIsPending == Running => catchUp.outstanding \subseteq pending

(* The timers of failed lists belong to the current channel: a role change *)
(* and a stop clear them (clearCatchUpRetries, the guard in catchUpWith).  *)
RetriesAreCurrent ==
    lifecycle # "crashed" =>
        \A t \in Tasks : task[t].phase = "retrying" => Current(t)

(* While a catch-up is reported as going on (lastCompletedAt null), a     *)
(* change set it found missing is not settled yet, or the run that opened *)
(* it is still announcing (CatchUpSnapshot, settleCatchUp).               *)
OpenCatchUpHasWork ==
    catchUp.open => \/ catchUp.outstanding # {}
                    \/ \E t \in Tasks : task[t].phase = "announcing"

-----------------------------------------------------------------------------
(* Action properties *)

(* A stopped agent starts nothing: no pull begins, nothing is queued, no  *)
(* channel is taken, no entry is made pending; what is in flight only     *)
(* settles (stop).                                                        *)
StoppedStartsNothing ==
    [][lifecycle = "stopped" =>
          /\ queue' = <<>>
          /\ channel' = NoChannel
          /\ pending' \subseteq pending
          /\ \A h \in Hashes : pull[h] = "idle" => pull'[h] = "idle"]_vars

-----------------------------------------------------------------------------
(* Liveness, under Fairness *)

(* A pending change set is settled, received, skipped or given up, while *)
(* the agent runs: retries go on until maxAttempts (retryPending).       *)
PendingSettles ==
    \A h \in Hashes :
        (Running /\ h \in pending) ~> (~Running \/ h \notin pending)

(* A catch-up completes, whatever fails, attaches or changes role meanwhile *)
(* (settled, settleCatchUp).                                                *)
CatchUpCompletes == (Running /\ catchUp.open) ~> (~Running \/ ~catchUp.open)
=============================================================================
