--------------------------- MODULE SyncAgentProofs ---------------------------
(***************************************************************************)
(* Theorems about SyncAgent, for every set of change sets, every           *)
(* concurrency, every number of attempts and every bound.                  *)
(*                                                                         *)
(* One inductive invariant carries them all: Inv.  Its core is what drain  *)
(* needs to hold and gives back (DrainSafe): a queue without repetitions,  *)
(* disjoint from the pulls in flight, of which there are not more than     *)
(* Concurrency.                                                            *)
(***************************************************************************)
EXTENDS SyncAgent, SequenceTheorems, FiniteSetTheorems, TLAPS

Busy(p) == {h \in Hashes : p[h] # "idle"}
Elements(q) == {q[i] : i \in DOMAIN q}
Distinct(q) == \A i, j \in DOMAIN q : q[i] = q[j] => i = j

(* What drain needs of a queue and the pulls in flight, and gives back. *)
Drainable(q, p) ==
    /\ q \in Seq(Hashes)
    /\ p \in [Hashes -> PullPhases]
    /\ Distinct(q)
    /\ Elements(q) \cap Busy(p) = {}
    /\ Cardinality(Busy(p)) <= Concurrency

-----------------------------------------------------------------------------
(* Finite sets of hashes *)

(* Every set of change sets is finite and has a size. *)
LEMMA HashesFinite ==
    ASSUME NEW S \in SUBSET Hashes
    PROVE  IsFiniteSet(S) /\ Cardinality(S) \in Nat
BY SetsAssumption, FS_Subset, FS_CardinalityType DEF Hashes

(* A prefix of n elements holds at most n different ones. *)
LEMMA PrefixSize ==
    ASSUME NEW q \in Seq(Hashes), NEW n \in 0..Len(q)
    PROVE  Cardinality({q[i] : i \in 1..n}) <= n
<1> DEFINE T == {q[i] : i \in 1..n}
           f == [i \in 1..n |-> q[i]]
<1>1. f \in Surjection(1..n, T)
    BY DEF Surjection
<1>2. IsFiniteSet(1..n) /\ Cardinality(1..n) = n
    BY FS_Interval
<1>3. QED
    BY <1>1, <1>2, FS_Surjection

(* What is left of a sequence without repetitions shares nothing with the *)
(* part that was taken from its front.                                    *)
LEMMA RestOfDistinct ==
    ASSUME NEW q \in Seq(Hashes), Distinct(q), NEW n \in 0..Len(q)
    PROVE  LET rest == SubSeq(q, n + 1, Len(q))
           IN  /\ rest \in Seq(Hashes)
               /\ Distinct(rest)
               /\ Elements(rest) \subseteq Elements(q)
               /\ Elements(rest) \cap {q[i] : i \in 1..n} = {}
<1> DEFINE rest == SubSeq(q, n + 1, Len(q))
<1>1. \A i \in 1..Len(q) : q[i] \in Hashes
    BY LenProperties
<1>2. /\ rest \in Seq(Hashes)
      /\ Len(rest) = Len(q) - n
      /\ \A i \in 1..Len(q) - n : rest[i] = q[n + i]
    BY <1>1, SubSeqProperties, LenProperties
<1>3. DOMAIN rest = 1..Len(q) - n /\ DOMAIN q = 1..Len(q)
    BY <1>2, LenProperties
<1> HIDE DEF rest
<1>4. \A i \in DOMAIN rest : n + i \in DOMAIN q /\ rest[i] = q[n + i]
    BY <1>2, <1>3, LenProperties
<1>5. Distinct(rest)
    BY <1>3, <1>4 DEF Distinct
<1>6. Elements(rest) \subseteq Elements(q)
    BY <1>4 DEF Elements
<1>7. Elements(rest) \cap {q[i] : i \in 1..n} = {}
    <2> SUFFICES ASSUME NEW i \in DOMAIN rest, NEW j \in 1..n, rest[i] = q[j]
                 PROVE  FALSE
        BY DEF Elements
    <2>1. q[n + i] = q[j] /\ j \in DOMAIN q /\ n + i \in DOMAIN q
        BY <1>3, <1>4, LenProperties
    <2>2. n + i = j
        BY <2>1 DEF Distinct
    <2>3. QED
        BY <2>2, <1>3
<1>8. QED
    BY <1>2, <1>5, <1>6, <1>7 DEF rest

(* Appending hashes that are not in the queue, each once, keeps it free of *)
(* repetitions (enqueue).                                                  *)
LEMMA ConcatDistinct ==
    ASSUME NEW q \in Seq(Hashes), Distinct(q),
           NEW S \in SUBSET Hashes, S \cap Elements(q) = {},
           NEW s \in Orders(S)
    PROVE  /\ q \o s \in Seq(Hashes)
           /\ Distinct(q \o s)
           /\ Elements(q \o s) \subseteq Elements(q) \cup S
<1>1. Cardinality(S) \in Nat
    BY HashesFinite
<1>2. /\ s \in Seq(Hashes) /\ Len(s) = Cardinality(S)
      /\ \A i \in 1..Len(s) : s[i] \in S
      /\ \A i, j \in 1..Len(s) : s[i] = s[j] => i = j
    BY <1>1 DEF Orders
<1> s \in Seq(Hashes)
    BY <1>2
<1>3. /\ q \o s \in Seq(Hashes)
      /\ Len(q \o s) = Len(q) + Len(s)
      /\ \A i \in 1..Len(q) + Len(s) :
            (q \o s)[i] = IF i <= Len(q) THEN q[i] ELSE s[i - Len(q)]
    BY ConcatProperties
<1>4. DOMAIN (q \o s) = 1..Len(q) + Len(s) /\ DOMAIN q = 1..Len(q)
    BY <1>3, LenProperties
<1>5. Len(q) \in Nat /\ Len(s) \in Nat
    BY <1>2, LenProperties
<1> DEFINE r == q \o s
<1>6. \A i \in DOMAIN r :
        \/ i \in DOMAIN q /\ r[i] = q[i]
        \/ i - Len(q) \in 1..Len(s) /\ r[i] = s[i - Len(q)]
    BY <1>3, <1>4, <1>5
<1> HIDE DEF r
<1>7. Elements(r) \subseteq Elements(q) \cup S
    BY <1>6, <1>2 DEF Elements
<1>8. Distinct(r)
    <2> SUFFICES ASSUME NEW i \in DOMAIN r, NEW j \in DOMAIN r, r[i] = r[j]
                 PROVE  i = j
        BY DEF Distinct
    <2>1. i \in Int /\ j \in Int
        BY <1>4, <1>5 DEF r
    <2>2. \A k \in DOMAIN q : q[k] \notin S
        BY DEF Elements
    <2>3. CASE i \in DOMAIN q /\ r[i] = q[i] /\ j \in DOMAIN q /\ r[j] = q[j]
        BY <2>3 DEF Distinct
    <2>4. CASE i \in DOMAIN q /\ r[i] = q[i]
               /\ j - Len(q) \in 1..Len(s) /\ r[j] = s[j - Len(q)]
        BY <2>2, <2>4, <1>2
    <2>5. CASE j \in DOMAIN q /\ r[j] = q[j]
               /\ i - Len(q) \in 1..Len(s) /\ r[i] = s[i - Len(q)]
        BY <2>2, <2>5, <1>2
    <2>6. CASE /\ i - Len(q) \in 1..Len(s) /\ r[i] = s[i - Len(q)]
               /\ j - Len(q) \in 1..Len(s) /\ r[j] = s[j - Len(q)]
        <3>1. i - Len(q) = j - Len(q)
            BY <2>6, <1>2
        <3>2. QED
            BY <3>1, <2>1, <1>5
    <2>7. QED
        BY <1>6, <2>3, <2>4, <2>5, <2>6
<1>9. QED
    BY <1>3, <1>7, <1>8 DEF r

-----------------------------------------------------------------------------
(* The queue: drain, enqueue, receive *)

(* drain takes hashes from the front of the queue into free slots: it keeps *)
(* the queue free of repetitions and of what is being pulled, starts no     *)
(* more pulls than there are slots, and touches no pull in flight.          *)
LEMMA DrainSafe ==
    ASSUME NEW q, NEW p, Drainable(q, p), Drain(q, p)
    PROVE  /\ Drainable(queue', pull')
           /\ Elements(queue') \subseteq Elements(q)
           /\ \A h \in Hashes :
                \/ pull'[h] = p[h]
                \/ /\ p[h] = "idle" /\ h \in Elements(q)
                   /\ pull'[h] = IF h \in pending' THEN "checking"
                                                  ELSE "settling"
<1> DEFINE room == Concurrency - Cardinality(Busy(p))
           n == IF room < Len(q) THEN room ELSE Len(q)
           started == {q[i] : i \in 1..n}
<1> q \in Seq(Hashes) /\ p \in [Hashes -> PullPhases] /\ Distinct(q)
    BY DEF Drainable
<1>1. Busy(p) \in SUBSET Hashes
    BY DEF Busy
<1>2. IsFiniteSet(Busy(p)) /\ Cardinality(Busy(p)) \in Nat
    BY <1>1, HashesFinite
<1>3. room \in Nat /\ Concurrency \in Nat
    BY <1>2, OptionsAssumption DEF Drainable
<1>4. Len(q) \in Nat /\ DOMAIN q = 1..Len(q)
    BY LenProperties
<1>5. n \in 0..Len(q) /\ n <= room
    BY <1>3, <1>4
<1>6. /\ queue' = SubSeq(q, n + 1, Len(q))
      /\ pull' = [h \in Hashes |->
                    CASE h \notin started -> p[h]
                      [] h \in started /\ h \in pending' -> "checking"
                      [] h \in started /\ h \notin pending' -> "settling"]
    BY DEF Drain, Busy
<1> HIDE DEF n, room
<1>7. started \subseteq Elements(q)
    BY <1>4, <1>5 DEF Elements
<1>8. started \in SUBSET Hashes
    BY <1>7, <1>4, ElementOfSeq DEF Elements
<1>9. IsFiniteSet(started) /\ Cardinality(started) \in Nat
    BY <1>8, HashesFinite
<1>10. Cardinality(started) <= n
    BY <1>5, PrefixSize
<1>11. /\ queue' \in Seq(Hashes)
       /\ Distinct(queue')
       /\ Elements(queue') \subseteq Elements(q)
       /\ Elements(queue') \cap started = {}
    BY <1>5, <1>6, RestOfDistinct
<1>12. started \cap Busy(p) = {}
    BY <1>7 DEF Drainable
<1> HIDE DEF started
<1>13. pull' \in [Hashes -> PullPhases]
    BY <1>6 DEF PullPhases
<1>14. Busy(pull') = Busy(p) \cup started
    BY <1>6, <1>8 DEF Busy
<1>15. Cardinality(Busy(pull')) <= Concurrency
    <2>1. Busy(p) \cap started = {}
        BY <1>12
    <2>2. Cardinality(Busy(p) \cap started) = 0
        BY <2>1, FS_EmptySet
    <2>3. Cardinality(Busy(p) \cup started)
            = Cardinality(Busy(p)) + Cardinality(started)
                - Cardinality(Busy(p) \cap started)
        BY <1>2, <1>9, FS_Union
    <2>4. QED
        BY <2>2, <2>3, <1>2, <1>3, <1>5, <1>9, <1>10, <1>14 DEF room
<1>16. Elements(queue') \cap Busy(pull') = {}
    BY <1>11, <1>14 DEF Drainable
<1>17. \A h \in Hashes :
         \/ pull'[h] = p[h]
         \/ /\ p[h] = "idle" /\ h \in Elements(q)
            /\ pull'[h] = IF h \in pending' THEN "checking" ELSE "settling"
    BY <1>6, <1>7, <1>12 DEF Busy
<1>18. QED
    BY <1>11, <1>13, <1>15, <1>16, <1>17 DEF Drainable

(* enqueue keeps what drain needs and adds nothing but the batch. *)
LEMMA EnqueueSafe ==
    ASSUME NEW batch \in SUBSET Hashes, Drainable(queue, pull), Enqueue(batch)
    PROVE  /\ Drainable(queue', pull')
           /\ Elements(queue') \subseteq Elements(queue) \cup batch
           /\ \A h \in Hashes :
                \/ pull'[h] = pull[h]
                \/ /\ pull[h] = "idle" /\ h \in Elements(queue) \cup batch
                   /\ pull'[h] = IF h \in pending' THEN "checking"
                                                  ELSE "settling"
<1> DEFINE new == batch \ (Busy(pull) \cup Elements(queue))
<1>1. PICK order \in Orders(new) : Drain(queue \o order, pull)
    BY DEF Enqueue, Active, Queued, Busy, Elements
<1>2. queue \in Seq(Hashes) /\ Distinct(queue)
    BY DEF Drainable
<1>3. new \in SUBSET Hashes /\ new \cap Elements(queue) = {}
    OBVIOUS
<1> HIDE DEF new
<1>4. /\ queue \o order \in Seq(Hashes)
      /\ Distinct(queue \o order)
      /\ Elements(queue \o order) \subseteq Elements(queue) \cup new
    BY <1>2, <1>3, ConcatDistinct
<1>5. Drainable(queue \o order, pull)
    BY <1>4 DEF Drainable, new
<1>6. QED
    BY <1>1, <1>4, <1>5, DrainSafe DEF new

-----------------------------------------------------------------------------
(* The inductive invariant *)

InFlight == {"checking", "fetching", "written", "recorded"}

(* Per change set: a pull that runs has an entry, only entries count       *)
(* attempts, and the last attempt of an entry is under way or has settled. *)
EntriesAgree ==
    /\ \A h \in Hashes : pull[h] \in InFlight => h \in pending
    /\ \A h \in Hashes : h \notin pending => attempts[h] = 0
    /\ ExhaustedIsGone

PullsInv ==
    /\ pending \subseteq Hashes
    /\ attempts \in [Hashes -> 0..MaxAttempts]
    /\ Drainable(queue, pull)
    /\ QueuedIsPending
    /\ EntriesAgree

(* A list is asked for again only while attempts are left. *)
RetryHasAttempts ==
    \A t \in Tasks : task[t].phase = "retrying" => task[t].attempt < MaxAttempts

Inv ==
    /\ TypeOK
    /\ PullsInv
    /\ RetryHasAttempts
    /\ EveryEntryAccounted

CatchUpType == [open : BOOLEAN, missing : Nat, pulled : Nat,
                outstanding : SUBSET Hashes]

TaskType(p) == [phase : Phases, channel : 0..p, attempt : 0..MaxAttempts,
                theirs : SUBSET Hashes, mine : SUBSET Hashes]

LEMMA PullsUnchanged ==
    ASSUME PullsInv, UNCHANGED pulls
    PROVE  PullsInv' /\ UNCHANGED Cardinality(pending)
BY DEF pulls, PullsInv, Drainable, QueuedIsPending, Queued, EntriesAgree,
       ExhaustedIsGone, Busy, Elements, Distinct

(* Queueing pending change sets for another pull keeps the invariant: what *)
(* retryPending does with all of them, receive with those of a batch.      *)
LEMMA EnqueueInv ==
    ASSUME PullsInv, NEW batch \in SUBSET Hashes, Enqueue(batch),
           pending \subseteq pending', batch \subseteq pending',
           pending' \subseteq Hashes, UNCHANGED attempts
    PROVE  PullsInv'
<1>1. /\ Drainable(queue', pull')
      /\ Elements(queue') \subseteq Elements(queue) \cup batch
      /\ \A h \in Hashes :
           \/ pull'[h] = pull[h]
           \/ /\ pull[h] = "idle" /\ h \in Elements(queue) \cup batch
              /\ pull'[h] = IF h \in pending' THEN "checking" ELSE "settling"
    BY EnqueueSafe DEF PullsInv
<1>2. Elements(queue) \subseteq pending
    BY DEF PullsInv, QueuedIsPending, Queued, Elements
<1>3. QueuedIsPending'
    BY <1>1, <1>2 DEF QueuedIsPending, Queued, Elements
<1>4. \A h \in Hashes :
        \/ pull'[h] = pull[h]
        \/ pull[h] = "idle" /\ h \in pending' /\ pull'[h] = "checking"
    BY <1>1, <1>2
<1>5. EntriesAgree'
    <2>1. \A h \in Hashes : pull'[h] \in InFlight => h \in pending'
        BY <1>4 DEF PullsInv, EntriesAgree
    <2>2. \A h \in Hashes : h \notin pending' => attempts'[h] = 0
        BY DEF PullsInv, EntriesAgree
    <2>3. \A h \in pending' : attempts'[h] = MaxAttempts =>
             pull'[h] \in {"fetching", "written", "recorded"}
        BY <1>4, OptionsAssumption DEF PullsInv, EntriesAgree, ExhaustedIsGone
    <2>4. QED
        BY <2>1, <2>2, <2>3 DEF EntriesAgree, ExhaustedIsGone
<1>6. QED
    BY <1>1, <1>3, <1>5 DEF PullsInv

(* receive keeps the invariant and counts every entry it creates. *)
LEMMA ReceiveInv ==
    ASSUME PullsInv, created \in Nat,
           NEW batch \in SUBSET Hashes, Receive(batch)
    PROVE  /\ PullsInv'
           /\ created' \in Nat
           /\ created' + Cardinality(pending) = created + Cardinality(pending')
<1>1. pending \in SUBSET Hashes
    BY DEF PullsInv
<1>2. IsFiniteSet(pending) /\ Cardinality(pending) \in Nat
    BY <1>1, HashesFinite
<1>3. CASE Running
    <2>1. /\ pending' = pending \cup batch
          /\ created' = created + Cardinality(batch \ pending)
          /\ Enqueue(batch) /\ UNCHANGED attempts
        BY <1>3 DEF Receive
    <2>2. PullsInv'
        BY <1>1, <2>1, EnqueueInv
    <2>3. IsFiniteSet(batch \ pending) /\ Cardinality(batch \ pending) \in Nat
        BY HashesFinite
    <2>4. Cardinality(pending \cup (batch \ pending))
            = Cardinality(pending) + Cardinality(batch \ pending)
                - Cardinality(pending \cap (batch \ pending))
        BY <1>2, <2>3, FS_Union
    <2>5. Cardinality(pending \cap (batch \ pending)) = 0
        BY FS_EmptySet, pending \cap (batch \ pending) = {}
    <2>6. pending \cup (batch \ pending) = pending'
        BY <2>1
    <2>7. Cardinality(pending') = Cardinality(pending) + Cardinality(batch \ pending)
        BY <2>3, <2>4, <2>5, <2>6, <1>2
    <2>8. created' = created + Cardinality(batch \ pending)
        BY <2>1
    <2>9. /\ created' \in Nat
          /\ created' + Cardinality(pending) = created + Cardinality(pending')
        BY <1>2, <2>3, <2>7, <2>8
    <2>10. QED
        BY <2>2, <2>9
<1>4. CASE ~Running
    BY <1>4, <1>2, PullsUnchanged DEF Receive, pulls
<1>5. QED
    BY <1>3, <1>4

(* An entry that leaves the map leaves one fewer, and its pull settles. *)
LEMMA ForgetInv ==
    ASSUME PullsInv, NEW h \in Hashes, pull[h] \in InFlight,
           Forget(h), UNCHANGED queue
    PROVE  PullsInv' /\ Cardinality(pending') = Cardinality(pending) - 1
<1>1. h \in pending /\ pending \in SUBSET Hashes
    BY DEF PullsInv, EntriesAgree
<1>2. Cardinality(pending') = Cardinality(pending) - 1
    BY <1>1, HashesFinite, FS_RemoveElement DEF Forget
<1>3. Busy(pull') = Busy(pull) /\ pull' \in [Hashes -> PullPhases]
    BY DEF Forget, Busy, PullsInv, Drainable, PullPhases, InFlight
<1>4. Drainable(queue', pull')
    BY <1>3 DEF PullsInv, Drainable
<1>5. h \notin Elements(queue)
    BY DEF PullsInv, Drainable, Busy, InFlight
<1>6. QueuedIsPending'
    BY <1>5 DEF PullsInv, QueuedIsPending, Queued, Elements, Forget
<1>7. EntriesAgree'
    BY OptionsAssumption
    DEF PullsInv, EntriesAgree, ExhaustedIsGone, Forget, InFlight, Drainable
<1>8. attempts' \in [Hashes -> 0..MaxAttempts] /\ pending' \subseteq Hashes
    BY OptionsAssumption DEF PullsInv, Forget
<1>9. QED
    BY <1>2, <1>4, <1>6, <1>7, <1>8 DEF PullsInv

(* A pull goes from one phase to another and keeps its entry. *)
LEMMA PhaseInv ==
    ASSUME PullsInv, NEW h \in Hashes, NEW phase \in PullPhases \ {"idle"},
           pull[h] # "idle", pull' = [pull EXCEPT ![h] = phase],
           UNCHANGED <<pending, attempts, queue>>,
           phase \in InFlight => h \in pending,
           \/ phase \in {"fetching", "written", "recorded"}
           \/ attempts[h] # MaxAttempts
           \/ h \notin pending
    PROVE  PullsInv'
<1>1. Busy(pull') = Busy(pull) /\ pull' \in [Hashes -> PullPhases]
    BY DEF Busy, PullsInv, Drainable
<1>2. Drainable(queue', pull')
    BY <1>1 DEF PullsInv, Drainable
<1>3. EntriesAgree'
    BY DEF PullsInv, EntriesAgree, ExhaustedIsGone, Drainable
<1>4. QED
    BY <1>2, <1>3 DEF PullsInv, QueuedIsPending, Queued

(* The catch-up snapshot keeps its type. *)
LEMMA SettledType ==
    ASSUME NEW c \in CatchUpType
    PROVE  SettleCatchUp(c) \in CatchUpType
BY DEF SettleCatchUp, CatchUpType

LEMMA CatchUpTypes ==
    ASSUME catchUp \in CatchUpType, NEW h, NEW wasPulled \in BOOLEAN,
           NEW missing \in SUBSET Hashes
    PROVE  /\ Settled(h, wasPulled) \in CatchUpType
           /\ BeginCatchUp(missing) \in CatchUpType
<1>1. Settled(h, wasPulled) \in CatchUpType
    <2> DEFINE c == [catchUp EXCEPT
                       !.outstanding = @ \ {h},
                       !.pulled = IF wasPulled THEN @ + 1 ELSE @]
    <2>1. c \in CatchUpType
        <3>1. catchUp.outstanding \ {h} \in SUBSET Hashes
            BY DEF CatchUpType
        <3>2. (IF wasPulled THEN catchUp.pulled + 1 ELSE catchUp.pulled) \in Nat
            BY DEF CatchUpType
        <3>3. QED
            BY <3>1, <3>2 DEF CatchUpType
    <2> HIDE DEF c
    <2>2. SettleCatchUp(c) \in CatchUpType
        BY <2>1, SettledType
    <2>3. QED
        BY <2>2 DEF Settled, c
<1>2. BeginCatchUp(missing) \in CatchUpType
    <2>1. Cardinality(missing) \in Nat
        BY HashesFinite
    <2>2. Cardinality(missing \ catchUp.outstanding) \in Nat
        BY HashesFinite
    <2>3. CASE catchUp.open
        <3>1. catchUp.missing + Cardinality(missing \ catchUp.outstanding) \in Nat
            BY <2>2 DEF CatchUpType
        <3>2. catchUp.outstanding \cup missing \in SUBSET Hashes
            BY DEF CatchUpType
        <3>3. QED
            BY <2>3, <3>1, <3>2 DEF BeginCatchUp, CatchUpType
    <2>4. CASE ~catchUp.open
        BY <2>1, <2>4 DEF BeginCatchUp, CatchUpType
    <2>5. QED
        BY <2>3, <2>4
<1>3. QED
    BY <1>1, <1>2

-----------------------------------------------------------------------------
(* The invariant holds initially *)

LEMMA InvInit == Init => Inv
<1> SUFFICES ASSUME Init PROVE Inv
    OBVIOUS
<1>1. <<>> \in Seq(Hashes) /\ DOMAIN <<>> = {}
    BY EmptySeq, LenProperties
<1>2. Cardinality({}) = 0
    BY FS_EmptySet
<1>3. TypeOK
    BY <1>1, OptionsAssumption, BoundsAssumption
    DEF Init, TypeOK, Free, Phases, PullPhases, NoChannel, Hashes
<1>4. PullsInv
    <2>1. Busy(pull) = {} /\ Elements(queue) = {} /\ Distinct(queue)
        BY <1>1 DEF Init, Busy, Elements, Distinct
    <2>2. Drainable(queue, pull)
        BY <2>1, <1>2, <1>3, OptionsAssumption DEF Drainable, TypeOK
    <2>3. QueuedIsPending
        BY <2>1 DEF QueuedIsPending, Queued, Elements
    <2>4. EntriesAgree
        BY DEF Init, EntriesAgree, ExhaustedIsGone, InFlight
    <2>5. QED
        BY <1>3, <2>2, <2>3, <2>4 DEF PullsInv, TypeOK
<1>5. RetryHasAttempts
    BY DEF Init, RetryHasAttempts, Free
<1>6. EveryEntryAccounted
    BY <1>2 DEF Init, EveryEntryAccounted
<1>7. QED
    BY <1>3, <1>4, <1>5, <1>6 DEF Inv

-----------------------------------------------------------------------------
(* Every step keeps the invariant *)

(* A step that touches neither the pulls nor the counters. *)
LEMMA PullsAside ==
    ASSUME Inv, UNCHANGED <<pulls, counters>>, TypeOK', RetryHasAttempts'
    PROVE  Inv'
<1>1. PullsInv' /\ Cardinality(pending)' = Cardinality(pending)
    BY PullsUnchanged DEF Inv
<1>2. EveryEntryAccounted'
    BY <1>1 DEF Inv, EveryEntryAccounted, pulls
<1>3. QED
    BY <1>1, <1>2 DEF Inv

(* A step that keeps the entries, their count and the counters, whatever *)
(* it does to the queue and the pulls.                                   *)
LEMMA EntriesAside ==
    ASSUME Inv, UNCHANGED <<pending, created, counters>>,
           TypeOK', PullsInv', RetryHasAttempts'
    PROVE  Inv'
BY DEF Inv, EveryEntryAccounted

(* The role changes: start, stop and attach. *)
LEMMA RoleSteps ==
    ASSUME Inv, Start \/ Stop \/ PublishChannel \/ WithdrawChannel
    PROVE  Inv'
<1>1. CASE Start
    <2>1. TypeOK' /\ RetryHasAttempts'
        BY <1>1 DEF Inv, Start, TypeOK, RetryHasAttempts, pulls
    <2>2. QED
        BY <1>1, <2>1, PullsAside DEF Start
<1> DEFINE dropped == [t \in Tasks |->
                         IF task[t].phase = "retrying" THEN Free ELSE task[t]]
<1>2. /\ \A p \in Nat : p >= published => dropped \in [Tasks -> TaskType(p)]
      /\ \A t \in Tasks : dropped[t].phase # "retrying"
    <2> SUFFICES ASSUME NEW t \in Tasks
                 PROVE  /\ \A p \in Nat : p >= published =>
                                            dropped[t] \in TaskType(p)
                        /\ dropped[t].phase # "retrying"
        OBVIOUS
    <2>1. /\ task[t] \in TaskType(published)
          /\ published \in Nat
        BY BoundsAssumption DEF Inv, TypeOK, TaskType
    <2>2. \A p \in Nat : Free \in TaskType(p)
        BY OptionsAssumption DEF Free, TaskType, Phases, NoChannel
    <2>3. \A p \in Nat : p >= published => task[t] \in TaskType(p)
        BY <2>1 DEF TaskType
    <2>4. QED
        BY <2>2, <2>3 DEF Free
<1>3. CASE Stop
    <2>1. Drainable(queue', pull') /\ Elements(queue') = {}
        BY <1>3, EmptySeq, LenProperties
        DEF Stop, Inv, PullsInv, Drainable, Elements, Distinct, Busy
    <2>2. PullsInv'
        BY <1>3, <2>1
        DEF Stop, Inv, PullsInv, QueuedIsPending, Queued, Elements,
            EntriesAgree, ExhaustedIsGone
    <2>3. TypeOK'
        BY <1>2, <1>3, <2>1, BoundsAssumption
        DEF Stop, Inv, TypeOK, WithoutRetries, NoChannel, Drainable, TaskType
    <2>4. RetryHasAttempts'
        BY <1>2, <1>3 DEF Stop, WithoutRetries, RetryHasAttempts
    <2>5. QED
        BY <1>3, <2>2, <2>3, <2>4, EntriesAside DEF Stop
<1>4. CASE PublishChannel
    <2>1. TypeOK'
        BY <1>2, <1>4, BoundsAssumption
        DEF PublishChannel, Inv, TypeOK, WithoutRetries, TaskType, pulls
    <2>2. RetryHasAttempts'
        BY <1>2, <1>4 DEF PublishChannel, WithoutRetries, RetryHasAttempts
    <2>3. QED
        BY <1>4, <2>1, <2>2, PullsAside DEF PublishChannel
<1>5. CASE WithdrawChannel
    <2>1. TypeOK'
        BY <1>2, <1>5, BoundsAssumption
        DEF WithdrawChannel, Inv, TypeOK, WithoutRetries, TaskType, NoChannel,
            pulls
    <2>2. RetryHasAttempts'
        BY <1>2, <1>5 DEF WithdrawChannel, WithoutRetries, RetryHasAttempts
    <2>3. QED
        BY <1>5, <2>1, <2>2, PullsAside DEF WithdrawChannel
<1>6. QED
    BY <1>1, <1>3, <1>4, <1>5

(* A comparison moves on to a well-typed state, retrying only with attempts *)
(* left.                                                                    *)
LEMMA TaskMoves ==
    ASSUME Inv, NEW t \in Tasks, NEW x \in TaskType(published),
           task' = [task EXCEPT ![t] = x], UNCHANGED published,
           x.phase = "retrying" => x.attempt < MaxAttempts
    PROVE  /\ task' \in [Tasks -> TaskType(published')]
           /\ RetryHasAttempts'
BY DEF Inv, TypeOK, TaskType, RetryHasAttempts

(* A step of a comparison that leaves the pulls alone. *)
LEMMA ComparisonAside ==
    ASSUME Inv, UNCHANGED <<lifecycle, channel, published, pulls, held, counters>>,
           announced' \subseteq Hashes, catchUp' \in CatchUpType,
           budget' \in [heard : 0..MaxHeard, attached : 0..MaxAttached,
                        faults : 0..MaxFaults],
           task' \in [Tasks -> TaskType(published')], RetryHasAttempts'
    PROVE  Inv'
<1>1. TypeOK'
    BY DEF Inv, TypeOK, TaskType, CatchUpType, pulls
<1>2. QED
    BY <1>1, PullsAside

(* The comparisons with a peer, up to the one that queues change sets. *)
LEMMA ComparisonSteps ==
    ASSUME Inv, NEW t \in Tasks,
           \/ PeerAttached(t) \/ CompareFails(t)
           \/ \E theirs \in SUBSET Known : PeerListed(t, theirs)
           \/ PeerListFailed(t) \/ RetryListing(t) \/ ReadOwnList(t)
           \/ \E h \in Hashes : AnnounceLacking(t, h)
    PROVE  Inv'
<1> DEFINE BudgetType == [heard : 0..MaxHeard, attached : 0..MaxAttached,
                          faults : 0..MaxFaults]
<1>1. /\ task[t] \in TaskType(published) /\ task \in [Tasks -> TaskType(published)]
      /\ channel \in 0..published /\ published \in Nat
      /\ catchUp \in CatchUpType /\ announced \subseteq Hashes
      /\ held \subseteq Hashes /\ budget \in BudgetType
    BY BoundsAssumption DEF Inv, TypeOK, TaskType, CatchUpType
<1>2. Free \in TaskType(published) /\ Free.phase = "free"
    BY <1>1, OptionsAssumption DEF Free, TaskType, Phases, NoChannel
<1>3. CASE PeerAttached(t)
    <2> DEFINE x == [Free EXCEPT !.phase = "listing", !.channel = channel,
                                 !.attempt = 1]
    <2>1. x \in TaskType(published) /\ x.phase = "listing"
        <3>1. 1 \in 0..MaxAttempts
            BY OptionsAssumption
        <3>2. Free \in TaskType(published)
            BY <1>2
        <3>3. QED
            BY <1>1, <3>1, <3>2 DEF TaskType, Phases
    <2>2. task' = [task EXCEPT ![t] = x]
        BY <1>3 DEF PeerAttached
    <2> HIDE DEF x
    <2>3. budget' \in BudgetType
        BY <1>1, <1>3, BoundsAssumption DEF PeerAttached
    <2>4. task' \in [Tasks -> TaskType(published')] /\ RetryHasAttempts'
        BY <1>3, <2>1, <2>2, TaskMoves DEF PeerAttached
    <2>5. QED
        BY <1>1, <1>3, <2>3, <2>4, ComparisonAside DEF PeerAttached
<1>4. CASE CompareFails(t)
    <2>1. budget' \in BudgetType
        BY <1>1, <1>4, BoundsAssumption DEF CompareFails
    <2>2. task' \in [Tasks -> TaskType(published')] /\ RetryHasAttempts'
        BY <1>2, <1>4, TaskMoves DEF CompareFails
    <2>3. QED
        BY <1>1, <1>4, <2>1, <2>2, ComparisonAside DEF CompareFails
<1>5. CASE \E theirs \in SUBSET Known : PeerListed(t, theirs)
    <2>1. PICK theirs \in SUBSET Known : PeerListed(t, theirs)
        BY <1>5
    <2>2. theirs \in SUBSET Hashes
        BY DEF Known, Hashes
    <2> DEFINE x == IF Current(t)
                    THEN [task[t] EXCEPT !.phase = "reading", !.theirs = theirs]
                    ELSE Free
    <2>3. x \in TaskType(published) /\ x.phase # "retrying"
        BY <1>1, <1>2, <2>2 DEF TaskType, Phases
    <2>4. task' = [task EXCEPT ![t] = x]
        BY <2>1 DEF PeerListed
    <2> HIDE DEF x
    <2>5. task' \in [Tasks -> TaskType(published')] /\ RetryHasAttempts'
        BY <2>1, <2>3, <2>4, TaskMoves DEF PeerListed
    <2>6. QED
        BY <1>1, <2>1, <2>5, ComparisonAside DEF PeerListed
<1>6. CASE PeerListFailed(t)
    <2> DEFINE x == IF task[t].attempt < MaxAttempts /\ channel = task[t].channel
                    THEN [task[t] EXCEPT !.phase = "retrying"]
                    ELSE Free
    <2>1. /\ x \in TaskType(published)
          /\ x.phase = "retrying" => x.attempt < MaxAttempts
        BY <1>1, <1>2 DEF TaskType, Phases
    <2>2. task' = [task EXCEPT ![t] = x]
        BY <1>6 DEF PeerListFailed
    <2> HIDE DEF x
    <2>3. task' \in [Tasks -> TaskType(published')] /\ RetryHasAttempts'
        BY <1>6, <2>1, <2>2, TaskMoves DEF PeerListFailed
    <2>4. QED
        BY <1>1, <1>6, <2>3, ComparisonAside DEF PeerListFailed
<1>7. CASE RetryListing(t)
    <2> DEFINE x == IF Current(t)
                    THEN [task[t] EXCEPT !.phase = "listing",
                                         !.attempt = task[t].attempt + 1]
                    ELSE Free
    <2>1. task[t].attempt \in Nat /\ task[t].attempt < MaxAttempts
        BY <1>1, <1>7 DEF RetryListing, Inv, RetryHasAttempts, TaskType
    <2>2. x \in TaskType(published) /\ x.phase # "retrying"
        <3>1. task[t].attempt + 1 \in 0..MaxAttempts
            BY <2>1, OptionsAssumption
        <3>2. QED
            BY <1>1, <1>2, <3>1 DEF TaskType, Phases
    <2>3. task' = [task EXCEPT ![t] = x]
        <3>1. CASE Current(t)
            BY <1>7, <3>1 DEF RetryListing
        <3>2. CASE ~Current(t)
            BY <1>7, <3>2 DEF RetryListing
        <3>3. QED
            BY <3>1, <3>2
    <2> HIDE DEF x
    <2>4. task' \in [Tasks -> TaskType(published')] /\ RetryHasAttempts'
        BY <1>7, <2>2, <2>3, TaskMoves DEF RetryListing
    <2>5. QED
        BY <1>1, <1>7, <2>4, ComparisonAside DEF RetryListing
<1>8. CASE ReadOwnList(t)
    <2> DEFINE x == [task[t] EXCEPT !.phase = "comparing", !.mine = held]
    <2>1. x \in TaskType(published) /\ x.phase # "retrying"
        BY <1>1 DEF TaskType, Phases
    <2>2. task' = [task EXCEPT ![t] = x]
        BY <1>1, <1>8 DEF ReadOwnList, TaskType
    <2> HIDE DEF x
    <2>3. task' \in [Tasks -> TaskType(published')] /\ RetryHasAttempts'
        BY <1>8, <2>1, <2>2, TaskMoves DEF ReadOwnList
    <2>4. QED
        BY <1>1, <1>8, <2>3, ComparisonAside DEF ReadOwnList
<1>9. CASE \E h \in Hashes : AnnounceLacking(t, h)
    <2>1. PICK h \in Hashes : AnnounceLacking(t, h)
        BY <1>9
    <2> DEFINE rest == task[t].mine \ {h}
               announces == rest # {} /\ Current(t)
               x == IF announces THEN [task[t] EXCEPT !.mine = rest] ELSE Free
    <2>2. x \in TaskType(published) /\ x.phase # "retrying"
        BY <1>1, <1>2, <2>1 DEF TaskType, Phases, AnnounceLacking
    <2>3. task' = [task EXCEPT ![t] = x]
        BY <2>1 DEF AnnounceLacking
    <2>4. catchUp' \in CatchUpType
        BY <1>1, <2>1, SettledType DEF AnnounceLacking
    <2> HIDE DEF x
    <2>5. task' \in [Tasks -> TaskType(published')] /\ RetryHasAttempts'
        BY <2>1, <2>2, <2>3, TaskMoves DEF AnnounceLacking
    <2>6. QED
        BY <1>1, <2>1, <2>4, <2>5, ComparisonAside DEF AnnounceLacking
<1>10. QED
    BY <1>3, <1>4, <1>5, <1>6, <1>7, <1>8, <1>9

(* What queues change sets: an announcement, a comparison, the retry timer. *)
LEMMA QueueingSteps ==
    ASSUME Inv,
           \/ \E h \in Hashes : Hear(h)
           \/ \E t \in Tasks : Compare(t)
           \/ RetryPending
    PROVE  Inv'
<1>1. /\ PullsInv /\ created \in Nat /\ catchUp \in CatchUpType
      /\ task \in [Tasks -> TaskType(published)] /\ published \in Nat
      /\ counters \in [received : Nat, skipped : Nat, failed : Nat]
      /\ budget \in [heard : 0..MaxHeard, attached : 0..MaxAttached,
                     faults : 0..MaxFaults]
    BY BoundsAssumption DEF Inv, TypeOK, TaskType, CatchUpType
<1>2. pending \in SUBSET Hashes /\ Cardinality(pending) \in Nat
    BY <1>1, HashesFinite DEF PullsInv
<1>3. CASE \E h \in Hashes : Hear(h)
    <2>1. PICK h \in Hashes : Hear(h)
        BY <1>3
    <2>2. {h} \in SUBSET Hashes /\ Receive({h})
        BY <2>1 DEF Hear
    <2>3. /\ PullsInv' /\ created' \in Nat
          /\ created' + Cardinality(pending) = created + Cardinality(pending')
        BY <1>1, <2>2, ReceiveInv
    <2>4. pending' \in SUBSET Hashes
        BY <2>3 DEF PullsInv
    <2>5. Cardinality(pending') \in Nat
        BY <2>4, HashesFinite
    <2>6. budget' \in [heard : 0..MaxHeard, attached : 0..MaxAttached,
                       faults : 0..MaxFaults]
        BY <1>1, <2>1, BoundsAssumption DEF Hear
    <2>7. TypeOK'
        BY <2>1, <2>3, <2>6 DEF Hear, Inv, TypeOK, PullsInv, Drainable
    <2>8. EveryEntryAccounted'
        <3>1. UNCHANGED counters
            BY <2>1 DEF Hear
        <3>2. QED
            BY <1>1, <1>2, <2>3, <2>5, <3>1 DEF Inv, EveryEntryAccounted
    <2>9. RetryHasAttempts'
        BY <2>1 DEF Hear, Inv, RetryHasAttempts
    <2>10. QED
        BY <2>3, <2>7, <2>8, <2>9 DEF Inv
<1>4. CASE \E t \in Tasks : Compare(t)
    <2>1. PICK t \in Tasks : Compare(t)
        BY <1>4
    <2> DEFINE missing == task[t].theirs \ task[t].mine
               lacking == task[t].mine \ task[t].theirs
               announces == lacking # {} /\ Current(t)
               x == IF announces
                    THEN [task[t] EXCEPT !.phase = "announcing",
                                         !.theirs = {}, !.mine = lacking]
                    ELSE Free
    <2>2. task[t] \in TaskType(published) /\ missing \in SUBSET Hashes
        BY <1>1 DEF TaskType
    <2>3. Free \in TaskType(published) /\ Free.phase = "free"
        BY <1>1, OptionsAssumption DEF Free, TaskType, Phases, NoChannel
    <2>4. x \in TaskType(published) /\ x.phase # "retrying"
        BY <2>2, <2>3 DEF TaskType, Phases
    <2>5. Receive(missing) /\ UNCHANGED published
        BY <2>1 DEF Compare
    <2>6. task' = [task EXCEPT ![t] = x]
        BY <2>1 DEF Compare
    <2>7. catchUp' \in CatchUpType
        <3>1. BeginCatchUp(missing) \in CatchUpType
            BY <1>1, <2>2, CatchUpTypes
        <3>2. SettleCatchUp(BeginCatchUp(missing)) \in CatchUpType
            BY <3>1, SettledType
        <3>3. QED
            BY <2>1, <3>1, <3>2 DEF Compare
    <2> HIDE DEF missing, x
    <2>8. task' \in [Tasks -> TaskType(published')] /\ RetryHasAttempts'
        BY <2>4, <2>5, <2>6, TaskMoves
    <2>9. /\ PullsInv' /\ created' \in Nat
          /\ created' + Cardinality(pending) = created + Cardinality(pending')
        BY <1>1, <2>2, <2>5, ReceiveInv
    <2>10. pending' \in SUBSET Hashes
        BY <2>9 DEF PullsInv
    <2>11. Cardinality(pending') \in Nat
        BY <2>10, HashesFinite
    <2>12. UNCHANGED <<lifecycle, channel, published, held, announced, counters,
                       budget>>
        BY <2>1 DEF Compare
    <2>13. TypeOK'
        BY <2>7, <2>8, <2>9, <2>12
        DEF Inv, TypeOK, PullsInv, Drainable, TaskType, CatchUpType
    <2>14. EveryEntryAccounted'
        BY <1>1, <1>2, <2>9, <2>11, <2>12 DEF Inv, EveryEntryAccounted
    <2>15. QED
        BY <2>8, <2>9, <2>13, <2>14 DEF Inv
<1>5. CASE RetryPending
    <2>1. PullsInv'
        BY <1>1, <1>2, <1>5, EnqueueInv DEF RetryPending
    <2>2. TypeOK'
        BY <1>5, <2>1 DEF RetryPending, Inv, TypeOK, PullsInv, Drainable
    <2>3. RetryHasAttempts'
        BY <1>5 DEF RetryPending, Inv, RetryHasAttempts
    <2>4. QED
        BY <1>5, <2>1, <2>2, <2>3, EntriesAside DEF RetryPending
<1>6. QED
    BY <1>3, <1>4, <1>5

(* A pull that ends with its entry: skipped, received or given up.  The *)
(* entry moves from `pending` to one of the counters.                   *)
LEMMA EntrySettles ==
    ASSUME Inv, NEW h \in Hashes, pull[h] \in InFlight, Forget(h),
           NEW c \in {"received", "skipped", "failed"},
           counters' = [counters EXCEPT ![c] = @ + 1],
           NEW wasPulled \in BOOLEAN, catchUp' = Settled(h, wasPulled),
           UNCHANGED <<lifecycle, channel, published, queue, held, announced,
                       created, task, budget>>
    PROVE  Inv'
<1>1. /\ PullsInv /\ created \in Nat /\ catchUp \in CatchUpType
      /\ counters \in [received : Nat, skipped : Nat, failed : Nat]
    BY DEF Inv, TypeOK, CatchUpType
<1>2. PullsInv' /\ Cardinality(pending') = Cardinality(pending) - 1
    BY <1>1, ForgetInv
<1>3. pending \in SUBSET Hashes
    BY <1>1 DEF PullsInv
<1>4. Cardinality(pending) \in Nat
    BY <1>3, HashesFinite
<1>5. catchUp' \in CatchUpType
    BY <1>1, CatchUpTypes
<1>6. /\ counters' \in [received : Nat, skipped : Nat, failed : Nat]
      /\ counters'.received + counters'.skipped + counters'.failed
           = counters.received + counters.skipped + counters.failed + 1
    <2>1. CASE c = "received"
        BY <1>1, <2>1
    <2>2. CASE c = "skipped"
        BY <1>1, <2>2
    <2>3. CASE c = "failed"
        BY <1>1, <2>3
    <2>4. QED
        BY <2>1, <2>2, <2>3
<1>7. TypeOK'
    BY <1>2, <1>5, <1>6
    DEF Inv, TypeOK, PullsInv, Drainable, CatchUpType
<1>8. EveryEntryAccounted'
    BY <1>1, <1>2, <1>4, <1>6 DEF Inv, EveryEntryAccounted
<1>9. RetryHasAttempts'
    BY DEF Inv, RetryHasAttempts
<1>10. QED
    BY <1>2, <1>7, <1>8, <1>9 DEF Inv

(* A pull that goes on: its entry stays. *)
LEMMA PullGoesOn ==
    ASSUME Inv, PullsInv', UNCHANGED <<pending, created, counters>>,
           UNCHANGED <<channel, published, announced, catchUp, task>>,
           lifecycle' \in {lifecycle, "crashed"}, held' \subseteq Hashes,
           budget' \in [heard : 0..MaxHeard, attached : 0..MaxAttached,
                        faults : 0..MaxFaults]
    PROVE  Inv'
<1>1. TypeOK'
    BY DEF Inv, TypeOK, PullsInv, Drainable
<1>2. RetryHasAttempts'
    BY DEF Inv, RetryHasAttempts
<1>3. QED
    BY <1>1, <1>2, EntriesAside

(* The steps of a pull, and the write of a change set of this node's own. *)
LEMMA PullSteps ==
    ASSUME Inv, NEW h \in Hashes, PullStep(h) \/ CheckFails(h) \/ WriteOwn(h)
    PROVE  Inv'
<1>1. /\ PullsInv /\ held \subseteq Hashes
      /\ pull \in [Hashes -> PullPhases] /\ attempts \in [Hashes -> 0..MaxAttempts]
      /\ budget \in [heard : 0..MaxHeard, attached : 0..MaxAttached,
                     faults : 0..MaxFaults]
    BY DEF Inv, TypeOK
<1>2. /\ pull[h] \in InFlight => h \in pending
      /\ h \in pending /\ attempts[h] = MaxAttempts =>
           pull[h] \in {"fetching", "written", "recorded"}
    BY <1>1 DEF PullsInv, EntriesAgree, ExhaustedIsGone
<1>3. CASE Skip(h)
    BY <1>3, EntrySettles DEF Skip, InFlight
<1>4. CASE Attempt(h)
    <2>1. h \in pending /\ attempts[h] \in 0..MaxAttempts /\ attempts[h] # MaxAttempts
        BY <1>1, <1>2, <1>4 DEF Attempt, InFlight
    <2>2. /\ attempts' = [attempts EXCEPT ![h] = attempts[h] + 1]
          /\ attempts[h] + 1 \in 0..MaxAttempts
        BY <1>4, <2>1, OptionsAssumption DEF Attempt
    <2>3. attempts' \in [Hashes -> 0..MaxAttempts]
        BY <1>1, <2>2
    <2>4. Busy(pull') = Busy(pull) /\ pull' \in [Hashes -> PullPhases]
        BY <1>1, <1>4 DEF Attempt, Busy, PullPhases
    <2>5. Drainable(queue', pull')
        BY <1>1, <1>4, <2>4 DEF Attempt, PullsInv, Drainable
    <2>6. EntriesAgree'
        BY <1>1, <1>4, <2>1, <2>2
        DEF Attempt, PullsInv, EntriesAgree, ExhaustedIsGone
    <2>7. PullsInv'
        BY <1>1, <1>4, <2>3, <2>5, <2>6
        DEF Attempt, PullsInv, QueuedIsPending, Queued
    <2>8. QED
        BY <1>1, <1>4, <2>7, PullGoesOn DEF Attempt
<1>5. CASE RowsWritten(h)
    <2>1. PullsInv'
        BY <1>1, <1>2, <1>5, PhaseInv DEF RowsWritten, InFlight, PullPhases
    <2>2. QED
        BY <1>1, <1>5, <2>1, PullGoesOn DEF RowsWritten
<1>6. CASE Record(h)
    <2>1. PullsInv'
        BY <1>1, <1>2, <1>6, PhaseInv DEF Record, InFlight, PullPhases
    <2>2. QED
        BY <1>1, <1>6, <2>1, PullGoesOn DEF Record
<1>7. CASE Completed(h)
    BY <1>7, EntrySettles DEF Completed, InFlight
<1>8. CASE \E rejected \in BOOLEAN : PullFails(h, rejected)
    <2>1. PICK rejected \in BOOLEAN : PullFails(h, rejected)
        BY <1>8
    <2>2. CASE rejected \/ attempts[h] >= MaxAttempts
        BY <2>1, <2>2, EntrySettles DEF PullFails, InFlight
    <2>3. CASE ~(rejected \/ attempts[h] >= MaxAttempts)
        <3>1. attempts[h] # MaxAttempts
            BY <1>1, <2>3, OptionsAssumption
        <3>2. PullsInv'
            BY <1>1, <2>1, <2>3, <3>1, PhaseInv
            DEF PullFails, InFlight, PullPhases
        <3>3. QED
            BY <1>1, <2>1, <2>3, <3>2, PullGoesOn DEF PullFails
    <2>4. QED
        BY <2>2, <2>3
<1>9. CASE PullSettles(h)
    <2> DEFINE p == [pull EXCEPT ![h] = "idle"]
    <2>1. Busy(p) = Busy(pull) \ {h} /\ p \in [Hashes -> PullPhases]
        BY <1>1 DEF Busy, PullPhases
    <2>2. Busy(pull) \in SUBSET Hashes /\ Busy(p) \in SUBSET Busy(pull)
        BY <2>1 DEF Busy
    <2>3. /\ IsFiniteSet(Busy(pull)) /\ Cardinality(Busy(pull)) \in Nat
          /\ Cardinality(Busy(p)) \in Nat
        BY <2>2, HashesFinite
    <2>4. Cardinality(Busy(p)) <= Cardinality(Busy(pull))
        BY <2>2, <2>3, FS_Subset
    <2>5. Cardinality(Busy(p)) <= Concurrency
        BY <2>3, <2>4, <1>1, OptionsAssumption DEF PullsInv, Drainable
    <2>6. Drainable(queue, p)
        BY <1>1, <2>1, <2>5 DEF PullsInv, Drainable
    <2>7. CASE Running
        <3>1. Drain(queue, p) /\ UNCHANGED <<pending, attempts>>
            BY <1>9, <2>7 DEF PullSettles
        <3> HIDE DEF p
        <3>2. /\ Drainable(queue', pull')
              /\ Elements(queue') \subseteq Elements(queue)
              /\ \A g \in Hashes :
                   \/ pull'[g] = p[g]
                   \/ /\ p[g] = "idle" /\ g \in Elements(queue)
                      /\ pull'[g] = IF g \in pending' THEN "checking"
                                                     ELSE "settling"
            BY <2>6, <3>1, DrainSafe
        <3>3. Elements(queue) \subseteq pending
            BY <1>1 DEF PullsInv, QueuedIsPending, Queued, Elements
        <3>4. QueuedIsPending'
            BY <3>1, <3>2, <3>3 DEF QueuedIsPending, Queued, Elements
        <3>5. \A g \in Hashes :
                \/ pull'[g] = pull[g] /\ g # h
                \/ pull'[g] = "idle" /\ g = h
                \/ pull'[g] = "checking" /\ g \in pending
                     /\ pull[g] \in {"idle", "settling"}
            BY <1>1, <1>9, <3>1, <3>2, <3>3 DEF p, PullSettles
        <3>6. EntriesAgree'
            <4>1. \A g \in Hashes : pull'[g] \in InFlight => g \in pending'
                BY <1>1, <3>1, <3>5 DEF PullsInv, EntriesAgree, InFlight
            <4>2. \A g \in Hashes : g \notin pending' => attempts'[g] = 0
                BY <1>1, <3>1 DEF PullsInv, EntriesAgree
            <4>3. \A g \in pending' : attempts'[g] = MaxAttempts =>
                     pull'[g] \in {"fetching", "written", "recorded"}
                BY <1>1, <1>9, <3>1, <3>5
                DEF PullsInv, EntriesAgree, ExhaustedIsGone, PullSettles
            <4>4. QED
                BY <4>1, <4>2, <4>3 DEF EntriesAgree, ExhaustedIsGone
        <3>7. PullsInv'
            BY <1>1, <3>1, <3>2, <3>4, <3>6 DEF PullsInv
        <3>8. QED
            BY <1>1, <1>9, <3>7, PullGoesOn DEF PullSettles
    <2>8. CASE ~Running
        <3>1. UNCHANGED <<pending, attempts, queue>> /\ pull' = p
            BY <1>9, <2>8 DEF PullSettles
        <3>2. EntriesAgree'
            BY <1>1, <1>9, <3>1
            DEF PullsInv, EntriesAgree, ExhaustedIsGone, InFlight, PullSettles
        <3>3. PullsInv'
            BY <1>1, <2>6, <3>1, <3>2 DEF PullsInv, QueuedIsPending, Queued
        <3>4. QED
            BY <1>1, <1>9, <3>3, PullGoesOn DEF PullSettles
    <2>9. QED
        BY <2>7, <2>8
<1>10. CASE CheckFails(h)
    <2>1. budget' \in [heard : 0..MaxHeard, attached : 0..MaxAttached,
                       faults : 0..MaxFaults]
        BY <1>1, <1>10, BoundsAssumption DEF CheckFails
    <2>2. attempts[h] # MaxAttempts
        BY <1>2, <1>10 DEF CheckFails, InFlight
    <2>3. PullsInv'
        BY <1>1, <1>10, <2>2, PhaseInv DEF CheckFails, InFlight, PullPhases
    <2>4. QED
        BY <1>1, <1>10, <2>1, <2>3, PullGoesOn DEF CheckFails
<1>11. CASE WriteOwn(h)
    <2>1. TypeOK' /\ RetryHasAttempts'
        BY <1>11 DEF WriteOwn, Inv, TypeOK, RetryHasAttempts, pulls
    <2>2. QED
        BY <1>11, <2>1, PullsAside DEF WriteOwn
<1>12. QED
    BY <1>3, <1>4, <1>5, <1>6, <1>7, <1>8, <1>9, <1>10, <1>11 DEF PullStep

LEMMA InvNext == Inv /\ [Next]_vars => Inv'
<1> SUFFICES ASSUME Inv, [Next]_vars PROVE Inv'
    OBVIOUS
<1>1. CASE Start \/ Stop \/ PublishChannel \/ WithdrawChannel
    BY <1>1, RoleSteps
<1>2. CASE RetryPending
    BY <1>2, QueueingSteps
<1>3. CASE \E h \in Hashes : Hear(h) \/ WriteOwn(h) \/ PullStep(h) \/ CheckFails(h)
    BY <1>3, QueueingSteps, PullSteps
<1>4. CASE \E t \in Tasks : PeerAttached(t) \/ TaskStep(t) \/ CompareFails(t)
    BY <1>4, ComparisonSteps, QueueingSteps DEF TaskStep
<1>5. CASE UNCHANGED vars
    <2>1. TypeOK' /\ RetryHasAttempts'
        BY <1>5 DEF vars, pulls, Inv, TypeOK, RetryHasAttempts
    <2>2. UNCHANGED <<pulls, counters>>
        BY <1>5 DEF vars, pulls
    <2>3. QED
        BY <2>1, <2>2, PullsAside
<1>6. QED
    BY <1>1, <1>2, <1>3, <1>4, <1>5 DEF Next

LEMMA InvAlways == Spec => []Inv
BY InvInit, InvNext, PTL DEF Spec

-----------------------------------------------------------------------------
(* What follows *)

(* The state of the agent has its type: no counter of attempts passes *)
(* maxAttempts, no task or pull is in a phase the code does not have. *)
THEOREM TypeCorrect == Spec => []TypeOK
BY InvAlways, PTL DEF Inv

(* A change set is never queued twice nor queued while it is being pulled, *)
(* for any number of change sets, slots, peers and channels (enqueue).     *)
THEOREM OnePullPerChangeSet == Spec => []NoDoublePull
<1>1. Inv => NoDoublePull
    BY DEF Inv, PullsInv, Drainable, NoDoublePull, Queued, Active, Elements,
           Busy, Distinct
<1>2. QED
    BY <1>1, InvAlways, PTL

(* Whatever is queued still has its entry in `pending` (drain, pull). *)
THEOREM QueueHasEntries == Spec => []QueuedIsPending
<1>1. Inv => QueuedIsPending
    BY DEF Inv, PullsInv
<1>2. QED
    BY <1>1, InvAlways, PTL

(* Never more than `concurrency` pulls run at a time (drain). *)
THEOREM ConcurrencyBounded == Spec => []ConcurrencyBound
<1>1. Inv => ConcurrencyBound
    BY DEF Inv, PullsInv, Drainable, ConcurrencyBound, Active, Busy
<1>2. QED
    BY <1>1, InvAlways, PTL

(* No entry is pulled more than maxAttempts times: one that used its last *)
(* attempt is being pulled for it or is gone (settleFailedPull).          *)
THEOREM AttemptsBounded == Spec => []ExhaustedIsGone
<1>1. Inv => ExhaustedIsGone
    BY DEF Inv, PullsInv, EntriesAgree
<1>2. QED
    BY <1>1, InvAlways, PTL

(* The figures of /status add up: every entry ever made pending was *)
(* received, skipped or failed exactly once, or is pending still.   *)
THEOREM EntriesAccounted == Spec => []EveryEntryAccounted
<1>1. Inv => EveryEntryAccounted
    BY DEF Inv
<1>2. QED
    BY <1>1, InvAlways, PTL
=============================================================================
