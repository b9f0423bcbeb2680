------------------------- MODULE TopologyRepairProofs -------------------------
(***************************************************************************)
(* Theorems about TopologyRepair, for every set of peers, every number of  *)
(* restarts and changes of a role, and all intervals that keep the order   *)
(* of the code's defaults (SilenceAssumption, IntervalsAssumption).        *)
(*                                                                         *)
(* Two invariants carry them.  Repaired follows one condition through its  *)
(* checks: its age and the time since its last repair end their intervals  *)
(* at a check, never between two, so a condition that has lasted its grace *)
(* has been repaired, and within the last interval.  Heard says how long a *)
(* peer that is silent can still count with its last answer, in each phase *)
(* of the polls; what discovery has forgotten meanwhile is later than that.*)
(***************************************************************************)
EXTENDS TopologyRepair, TLAPS

(* What restarts has a next run; no start time is from the future. *)
RunsFit ==
    \A p \in Unsteady :
        /\ ~peer[p].up => peer[p].startedAt + 1 \in Starts
        /\ table[p] <= peer[p].startedAt

(* Checks run while there are polls, and timers are within their intervals. *)
PollsFit ==
    /\ Polling => left <= PollTimeout
    /\ round = "waiting" =>
          left <= PollInterval /\ \A p \in Peers : asked[p] = NoRequest
    /\ check # Never => round \in {"next", "waiting"}

Types == TypeOK /\ RunsFit /\ PollsFit

Since(k) == repairedAt[k] \in 0 .. RepairInterval - 1

Repaired ==
    /\ check = Never =>
          \A k \in Keys : conditions[k] = Never /\ repairedAt[k] = Never
    /\ \A k \in Keys :
        /\ check # Never /\ conditions[k] \in 0 .. graceOf(k[2]) - 1 =>
                Aligned(conditions[k] + check)
        /\ check # Never /\ Since(k) => Aligned(repairedAt[k] + check)
        /\ Since(k) => excluded[k[1]] >= Exclusion - repairedAt[k]
        /\ conditions[k] = graceOf(k[2]) /\ check # 0 => Since(k)

(* The last answer of the peer is one the repair goes by. *)
Counts(p) ==
    /\ p \in reports /\ ~Off
    /\ round = "first" => asked[p] = NoRequest

Back(p) == ~Off /\ asked[p].at = "back" /\ asked[p].said # NoReport

(* How long a peer that is down may still be heard of. *)
Silent(p) ==
    /\ Back(p) => peer[p].down + left <= PollTimeout
    /\ Counts(p) /\ Polling /\ asked[p] = NoRequest =>
            peer[p].down + left <= PollTimeout
    /\ Counts(p) /\ round = "waiting" =>
            peer[p].down + left <= PollTimeout + PollInterval
    /\ Counts(p) /\ round = "next" /\ asked[p] # NoRequest =>
            peer[p].down + left <= 2 * PollTimeout + PollInterval

(* Discovery holds the run the peer is in, or nothing of it. *)
Unstale(p) == table[p] = Absent \/ (peer[p].up /\ table[p] = peer[p].startedAt)

HeardOf(p) ==
    /\ ~peer[p].up => Silent(p)
    /\ Unstale(p) /\ Counts(p) =>
            peer[p].up /\ polled[p].said.startedAt = peer[p].startedAt
    /\ Unstale(p) /\ Back(p) =>
            peer[p].up /\ asked[p].said.startedAt = peer[p].startedAt

Heard == \A p \in Unsteady : HeardOf(p)

-----------------------------------------------------------------------------
(* Whole numbers of checks *)

LEMMA Constants ==
    /\ CheckInterval \in Nat /\ CheckInterval > 0
    /\ RestartGrace \in Nat /\ RestartGrace > 0
    /\ DenialGrace \in Nat /\ DenialGrace > 0
    /\ RepairInterval \in Nat /\ RepairInterval > 0
    /\ Exclusion \in Nat /\ Exclusion > 0 /\ Exclusion >= RepairInterval
    /\ Silence \in Nat /\ Silence > 0 /\ HealTime \in Nat
    /\ PollInterval \in Nat /\ PollTimeout \in Nat /\ PollTimeout > 0
    /\ MaxTroubles \in Nat /\ Starts \subseteq Nat
BY RepairAssumption, PollAssumption, IntervalsAssumption

LEMMA NextAligned ==
    /\ Aligned(CheckInterval)
    /\ \A t \in Nat : Aligned(t) => Aligned(t + CheckInterval)
<1>1. CheckInterval \in Nat /\ CheckInterval > 0
    BY Constants
<1>2. Aligned(CheckInterval)
    <2>1. 1 \in 0 .. CheckInterval /\ CheckInterval = 1 * CheckInterval
        BY <1>1
    <2>2. QED
        BY <2>1 DEF Aligned
<1>3. ASSUME NEW t \in Nat, Aligned(t)
      PROVE  Aligned(t + CheckInterval)
    <2>1. PICK n \in 0 .. t : t = n * CheckInterval
        BY <1>3 DEF Aligned
    <2>2. n + 1 \in 0 .. t + CheckInterval
        BY <1>1, <2>1
    <2>3. t + CheckInterval = (n + 1) * CheckInterval
        BY <1>1, <2>1
    <2>4. QED
        BY <2>2, <2>3 DEF Aligned
<1>4. QED
    BY <1>2, <1>3

(* No whole number of checks ends between two checks. *)
LEMMA AlignedEnds ==
    ASSUME NEW a \in Nat, NEW b \in Nat, Aligned(a), Aligned(a + b),
           b < CheckInterval
    PROVE  b = 0
<1>1. CheckInterval \in Nat /\ CheckInterval > 0
    BY Constants
<1>2. PICK n \in 0 .. a : a = n * CheckInterval
    BY DEF Aligned
<1>3. PICK m \in 0 .. a + b : a + b = m * CheckInterval
    BY DEF Aligned
<1>4. CASE m <= n
    <2>1. m * CheckInterval <= n * CheckInterval
        BY <1>1, <1>2, <1>3, <1>4
    <2>2. QED
        BY <1>2, <1>3, <2>1
<1>5. CASE m >= n + 1
    <2>1. m * CheckInterval >= (n + 1) * CheckInterval
        BY <1>1, <1>2, <1>3, <1>5
    <2>2. (n + 1) * CheckInterval = n * CheckInterval + CheckInterval
        BY <1>1, <1>2
    <2>3. QED
        BY <1>1, <1>2, <1>3, <2>1, <2>2
<1>6. QED
    BY <1>2, <1>3, <1>4, <1>5

LEMMA Graces ==
    \A c \in RepairCause :
        graceOf(c) \in Nat /\ graceOf(c) > 0 /\ Aligned(graceOf(c))
BY Constants, IntervalsAssumption DEF graceOf

LEMMA KeyParts ==
    \A k \in Keys : k[1] \in Unsteady /\ k[2] \in RepairCause
BY DEF Keys

-----------------------------------------------------------------------------
(* Types *)

LEMMA Reports ==
    /\ NoReport \in NodeReport /\ NoRequest \in Request
    /\ [at |-> "out", said |-> NoReport] \in Request
    /\ unknownStatus \in PolledStatus
    /\ \A r \in NodeReport : [at |-> "back", said |-> r] \in Request
    /\ \A s \in Starts, r \in Roles : [startedAt |-> s, role |-> r] \in NodeReport
BY DEF NodeReport, NoReport, Request, NoRequest, unknownStatus, PolledStatus

LEMMA TypesInit == Init => Types
<1> SUFFICES ASSUME Init PROVE Types
    OBVIOUS
<1>1. DirectoryTypeOK
    <2>1. polled \in [Peers -> PolledStatus] /\ asked \in [Peers -> Request]
        BY Reports DEF Init, DirectoryInit
    <2>2. round = "off" /\ left = 0
        BY DEF Init, DirectoryInit
    <2>3. QED
        BY <2>1, <2>2, Constants DEF DirectoryTypeOK
<1>2. TypeOK
    <2>1. /\ conditions \in [Keys -> Int] /\ \A k \in Keys : conditions[k] = Never
          /\ repairedAt \in [Keys -> {Never} \cup 0 .. RepairInterval]
          /\ check = Never
        BY DEF Init, Never
    <2>2. excluded \in [Unsteady -> 0 .. Exclusion]
        BY Constants DEF Init
    <2>3. table \in [Unsteady -> {Absent} \cup Starts] /\ hub = NoHub /\ denied = 0
        BY RepairAssumption DEF Init
    <2>4. peer \in [Unsteady -> [startedAt : Starts, role : Roles,
                                 down : 0 .. Silence, up : BOOLEAN]]
        <3>1. {0} \subseteq Starts /\ {0} \subseteq 0 .. Silence
            BY Constants, RepairAssumption
        <3>2. [startedAt : {0}, role : Roles, down : {0}, up : {TRUE}]
                \subseteq [startedAt : Starts, role : Roles,
                           down : 0 .. Silence, up : BOOLEAN]
            BY <3>1
        <3>3. QED
            BY <3>2 DEF Init
    <2>5. troubles \in 0 .. MaxTroubles
        BY Constants DEF Init
    <2>6. QED
        BY <1>1, <2>1, <2>2, <2>3, <2>4, <2>5, Constants DEF TypeOK
<1>3. RunsFit
    <2>1. \A p \in Unsteady :
            peer[p] \in [startedAt : {0}, role : Roles, down : {0}, up : {TRUE}]
        BY DEF Init
    <2>2. \A p \in Unsteady : peer[p].up /\ peer[p].startedAt = 0
        BY <2>1
    <2>3. QED
        BY <2>2 DEF Init, RunsFit
<1>4. PollsFit
    BY DEF Init, DirectoryInit, PollsFit, Polling
<1>5. QED
    BY <1>2, <1>3, <1>4 DEF Types

(* What a node says of itself. *)
LEMMA SaysReport ==
    ASSUME Types, NEW p \in Peers
    PROVE  StatusOf(p) \in NodeReport
BY Reports DEF Types, TypeOK, StatusOf

(* A step of the polls keeps the types and the phases. *)
LEMMA PollTypes ==
    ASSUME Types,
           \/ DirectoryStarts \/ NextRound
           \/ \E p \in Peers :
                \/ NodeAnswers(p, StatusOf(p)) \/ PollSucceeds(p) \/ PollFails(p)
    PROVE  /\ DirectoryTypeOK'
           /\ Polling' => left' <= PollTimeout
           /\ round' = "waiting" =>
                left' <= PollInterval /\ \A p \in Peers : asked'[p] = NoRequest
           /\ round \in {"next", "waiting"} => round' \in {"next", "waiting"}
<1>1. DirectoryTypeOK /\ PollsFit
    BY DEF Types, TypeOK
<1>2. CASE DirectoryStarts \/ NextRound
    BY <1>1, <1>2, Reports, Constants
       DEF DirectoryTypeOK, PollsFit, DirectoryStarts, NextRound, pollAll, Polling
<1>3. ASSUME NEW p \in Peers, NodeAnswers(p, StatusOf(p))
      PROVE  /\ DirectoryTypeOK' /\ UNCHANGED <<round, left>>
             /\ asked[p] # NoRequest
             /\ \A q \in Peers \ {p} : asked'[q] = asked[q]
    BY <1>1, <1>3, Reports, SaysReport
       DEF DirectoryTypeOK, NodeAnswers, NoRequest
<1>4. ASSUME NEW p \in Peers, PollSucceeds(p)
      PROVE  /\ DirectoryTypeOK' /\ UNCHANGED <<round, left>>
             /\ asked[p] # NoRequest
    <2>1. asked[p] \in Request /\ asked[p].at = "back"
        BY <1>1, <1>4 DEF DirectoryTypeOK, PollSucceeds
    <2>2. [reachable |-> TRUE, said |-> asked[p].said] \in PolledStatus
        BY <2>1 DEF Request, PolledStatus
    <2>3. DirectoryTypeOK'
        BY <1>1, <1>4, <2>2, Reports DEF DirectoryTypeOK, PollSucceeds
    <2>4. QED
        BY <1>4, <2>1, <2>3 DEF PollSucceeds, NoRequest
<1>5. ASSUME NEW p \in Peers, PollFails(p)
      PROVE  /\ DirectoryTypeOK' /\ UNCHANGED <<round, left>>
             /\ asked[p] # NoRequest
    <2>1. [polled[p] EXCEPT !.reachable = FALSE] \in PolledStatus
        BY <1>1 DEF DirectoryTypeOK, PolledStatus
    <2>2. DirectoryTypeOK'
        BY <1>1, <1>5, <2>1, Reports DEF DirectoryTypeOK, PollFails
    <2>3. QED
        BY <1>5, <2>2 DEF PollFails
<1>6. ASSUME NEW p \in Peers, asked[p] # NoRequest, UNCHANGED <<round, left>>
      PROVE  /\ round # "waiting" /\ round' # "waiting"
             /\ Polling' => left' <= PollTimeout
    BY <1>1, <1>6 DEF PollsFit, Polling
<1>7. QED
    BY <1>2, <1>3, <1>4, <1>5, <1>6

(* The polls of the directory, but for the end of the first round. *)
PollStep ==
    /\ \/ DirectoryStarts \/ NextRound
       \/ \E p \in Peers :
            \/ NodeAnswers(p, StatusOf(p)) \/ PollSucceeds(p) \/ PollFails(p)
    /\ UNCHANGED <<repairVars, discoveryVars, peer, troubles>>

(* The peers and discovery. *)
Outside ==
    \/ Unfollows
    \/ \E p \in Unsteady :
        \/ GoesDown(p) \/ ComesUp(p) \/ ChangesRole(p)
        \/ TableForgets(p) \/ TableLearns(p) \/ Follows(p)

LEMMA StepCases ==
    [Next]_vars =>
        \/ PollStep \/ FirstRoundEnds \/ RoundEnds \/ Shutdown
        \/ Check \/ Tick \/ Outside
        \/ UNCHANGED vars
BY DEF Next, PollStep, Outside, StartDirectory, StartRound, Answers, AnswerArrives,
       RequestFails

(* Outside, only peer, table and what the node follows change. *)
LEMMA OutsideTypes ==
    ASSUME Types, Outside
    PROVE  Types'
<1> DEFINE Peer == [startedAt : Starts, role : Roles, down : 0 .. Silence,
                    up : BOOLEAN]
<1> DEFINE Fits == /\ peer \in [Unsteady -> Peer]
                   /\ table \in [Unsteady -> {Absent} \cup Starts]
                   /\ troubles \in 0 .. MaxTroubles
                   /\ hub \in Unsteady \cup {NoHub, FormerHub}
                   /\ denied \in 0 .. HealTime
                   /\ RunsFit
<1>1. Fits
    BY DEF Types, TypeOK
<1>2. 0 \in 0 .. Silence /\ 0 \in 0 .. HealTime /\ Starts \subseteq Nat
    BY Constants
<1>3. UNCHANGED <<directoryVars, repairVars>>
    BY DEF Outside, Unfollows, GoesDown, ComesUp, ChangesRole, TableForgets,
           TableLearns, Follows
<1>4. Fits'
    <2>1. CASE Unfollows \/ \E p \in Unsteady : Follows(p)
        BY <1>1, <1>2, <2>1 DEF Unfollows, Follows, Types, RunsFit
    <2>2. ASSUME NEW p \in Unsteady, GoesDown(p)
          PROVE  Fits'
        <3>1. /\ peer' = [peer EXCEPT ![p] =
                    [peer[p] EXCEPT !.up = FALSE, !.down = 0]]
              /\ [peer[p] EXCEPT !.up = FALSE, !.down = 0] \in Peer
              /\ peer'[p].startedAt = peer[p].startedAt
              /\ peer[p].startedAt + 1 \in Starts
            BY <1>1, <1>2, <2>2 DEF GoesDown
        <3>2. /\ troubles' \in 0 .. MaxTroubles /\ UNCHANGED <<table, hub, denied>>
            BY <1>1, <2>2, Constants DEF GoesDown, discoveryVars
        <3> HIDE DEF Peer
        <3>3. QED
            BY <1>1, <3>1, <3>2 DEF Types, RunsFit
    <2>3. ASSUME NEW p \in Unsteady, ComesUp(p)
          PROVE  Fits'
        <3>1. peer[p] \in Peer /\ table[p] \in {Absent} \cup Starts
            BY <1>1
        <3>5. ~peer[p].up
            BY <2>3 DEF ComesUp
        <3>6. table[p] \in Int /\ peer[p].startedAt \in Nat
            <4>1. peer[p].startedAt \in Starts
                BY <3>1
            <4>2. table[p] = -1 \/ table[p] \in Starts
                BY <3>1 DEF Absent
            <4>3. Starts \subseteq Nat
                BY Constants
            <4> HIDE DEF Fits, Peer
            <4>4. peer[p].startedAt \in Nat
                BY <4>1, <4>3
            <4>5. CASE table[p] = -1
                BY <4>4, <4>5
            <4>6. CASE table[p] \in Starts
                <5>1. table[p] \in Nat
                    BY <4>3, <4>6
                <5>2. QED
                    BY <4>4, <5>1
            <4>7. QED
                BY <4>2, <4>5, <4>6
        <3>7. peer[p].startedAt + 1 \in Starts /\ table[p] <= peer[p].startedAt
            BY <1>1, <3>5 DEF RunsFit
        <3>2. PICK r \in Roles :
                peer' = [peer EXCEPT ![p] = [startedAt |-> peer[p].startedAt + 1,
                                             role |-> r, down |-> 0, up |-> TRUE]]
            BY <2>3 DEF ComesUp
        <3>3. [startedAt |-> peer[p].startedAt + 1, role |-> r, down |-> 0,
               up |-> TRUE] \in Peer
            BY <1>2, <3>1, <3>7
        <3>4. UNCHANGED <<table, hub, denied, troubles>>
            BY <2>3 DEF ComesUp, discoveryVars
        <3> HIDE DEF Peer
        <3>8. QED
            BY <1>1, <3>1, <3>2, <3>3, <3>4, <3>6, <3>7 DEF RunsFit
    <2>4. ASSUME NEW p \in Unsteady, ChangesRole(p)
          PROVE  Fits'
        <3>1. PICK r \in Roles : peer' = [peer EXCEPT ![p] = [peer[p] EXCEPT !.role = r]]
            BY <2>4 DEF ChangesRole
        <3>2. /\ [peer[p] EXCEPT !.role = r] \in Peer
              /\ peer'[p].startedAt = peer[p].startedAt /\ peer'[p].up = peer[p].up
            BY <1>1, <3>1
        <3>3. /\ troubles' \in 0 .. MaxTroubles /\ UNCHANGED <<table, hub, denied>>
            BY <1>1, <2>4, Constants DEF ChangesRole, discoveryVars
        <3> HIDE DEF Peer
        <3>4. QED
            BY <1>1, <3>1, <3>2, <3>3 DEF Types, RunsFit
    <2>5. ASSUME NEW p \in Unsteady, TableForgets(p) \/ TableLearns(p)
          PROVE  Fits'
        <3>1. peer[p].startedAt \in Nat /\ peer[p].startedAt \in Starts
            BY <1>1, <1>2
        <3>2. PICK t \in {Absent, peer[p].startedAt} : table' = [table EXCEPT ![p] = t]
            BY <2>5 DEF TableForgets, TableLearns
        <3>3. t <= peer[p].startedAt /\ t \in {Absent} \cup Starts
            BY <3>1, <3>2 DEF Absent
        <3>4. UNCHANGED <<peer, hub, denied, troubles>>
            BY <2>5 DEF TableForgets, TableLearns
        <3> HIDE DEF Peer
        <3>5. QED
            BY <1>1, <3>2, <3>3, <3>4 DEF Types, RunsFit
    <2>6. QED
        BY <2>1, <2>2, <2>3, <2>4, <2>5 DEF Outside
<1>5. TypeOK' /\ PollsFit'
    BY <1>3, <1>4
       DEF Types, TypeOK, PollsFit, directoryVars, repairVars, DirectoryTypeOK, Polling
<1>6. QED
    BY <1>4, <1>5 DEF Types

(* An age stays within its interval. *)
LEMMA OlderWithin ==
    ASSUME NEW most \in Nat, most > 0, NEW t \in {Never} \cup 0 .. most
    PROVE  /\ Older(t, most) \in {Never} \cup 0 .. most
           /\ t \in 0 .. most => Older(t, most) \in 0 .. most
           /\ t = Never => Older(t, most) = Never
           /\ t = most => Older(t, most) = most
           /\ t \in 0 .. most - 1 => Older(t, most) = t + 1
BY DEF Older, Never

LEMMA SoonerWithin ==
    ASSUME NEW most \in Nat, NEW t \in {Never} \cup 0 .. most
    PROVE  /\ Sooner(t) \in {Never} \cup 0 .. most
           /\ t \in 0 .. most => Sooner(t) \in 0 .. most
           /\ t = Never => Sooner(t) = Never
           /\ t \in 1 .. most => Sooner(t) = t - 1
           /\ Sooner(t) >= t - 1
BY DEF Sooner, Never

LEMMA TickTypes ==
    ASSUME Types, Tick
    PROVE  Types'
<1>1. DirectoryTypeOK' /\ (Polling' => left' <= PollTimeout)
      /\ (round' = "waiting" =>
            left' <= PollInterval /\ \A p \in Peers : asked'[p] = NoRequest)
      /\ round' = round
    BY Constants
       DEF Tick, DirectoryTick, Types, TypeOK, DirectoryTypeOK, PollsFit, Polling, Off
<1>2. check' \in {Never} \cup 0 .. CheckInterval
      /\ (check = Never => check' = Never)
    BY Constants, SoonerWithin DEF Tick, Types, TypeOK
<1>3. /\ conditions' \in [Keys -> Int]
      /\ \A k \in Keys : conditions'[k] \in {Never} \cup 0 .. graceOf(k[2])
    <2>1. \A k \in Keys : /\ conditions[k] \in {Never} \cup 0 .. graceOf(k[2])
                          /\ graceOf(k[2]) \in Nat /\ graceOf(k[2]) > 0
        BY Graces, KeyParts DEF Types, TypeOK
    <2>2. \A k \in Keys :
            Older(conditions[k], graceOf(k[2])) \in {Never} \cup 0 .. graceOf(k[2])
        BY <2>1, OlderWithin
    <2>3. \A k \in Keys : Older(conditions[k], graceOf(k[2])) \in Int
        BY <2>1, <2>2 DEF Never
    <2>4. QED
        BY <2>2, <2>3 DEF Tick
<1>4. repairedAt' \in [Keys -> {Never} \cup 0 .. RepairInterval]
    BY Constants, OlderWithin DEF Tick, Types, TypeOK
<1>5. excluded' \in [Unsteady -> 0 .. Exclusion]
    <2>1. \A p \in Unsteady : Sooner(excluded[p]) \in 0 .. Exclusion
        BY Constants, SoonerWithin DEF Types, TypeOK
    <2>2. QED
        BY <2>1 DEF Tick
<1>6. /\ peer' \in [Unsteady -> [startedAt : Starts, role : Roles,
                                 down : 0 .. Silence, up : BOOLEAN]]
      /\ RunsFit'
    <2> DEFINE Peer == [startedAt : Starts, role : Roles, down : 0 .. Silence,
                        up : BOOLEAN]
    <2>1. \A p \in Unsteady :
            /\ peer[p] \in Peer
            /\ Older(peer[p].down, Silence) \in 0 .. Silence
        BY Constants, OlderWithin DEF Types, TypeOK
    <2>2. \A p \in Unsteady :
            LET later == [peer[p] EXCEPT !.down = Older(@, Silence)]
            IN  later \in Peer /\ later.startedAt = peer[p].startedAt
                /\ later.up = peer[p].up
        BY <2>1
    <2> HIDE DEF Peer
    <2>3. peer' \in [Unsteady -> Peer]
          /\ \A p \in Unsteady : peer'[p].startedAt = peer[p].startedAt
                                 /\ peer'[p].up = peer[p].up
        BY <2>1, <2>2 DEF Tick
    <2>4. table' = table
        BY DEF Tick
    <2>5. QED
        BY <2>3, <2>4 DEF Types, RunsFit, Peer
<1>7. denied' \in 0 .. HealTime
    BY Constants, OlderWithin, RepairAssumption DEF Tick, Types, TypeOK
<1>8. UNCHANGED <<table, hub, troubles>>
    BY DEF Tick
<1>9. TypeOK'
    BY <1>1, <1>2, <1>3, <1>4, <1>5, <1>6, <1>7, <1>8 DEF Types, TypeOK
<1>10. PollsFit'
    BY <1>1, <1>2 DEF Types, PollsFit
<1>11. QED
    BY <1>6, <1>9, <1>10 DEF Types

LEMMA CheckTypes ==
    ASSUME Types, Check
    PROVE  Types'
<1>1. \A k \in Keys : /\ conditions[k] \in {Never} \cup 0 .. graceOf(k[2])
                      /\ graceOf(k[2]) \in Nat
    BY Graces, KeyParts DEF Types, TypeOK
<1>2. /\ ages \in [Keys -> Int]
      /\ \A k \in Keys : ages[k] \in {Never} \cup 0 .. graceOf(k[2])
    <2>1. \A k \in Keys : ages[k] \in {Never, 0, conditions[k]}
        BY DEF ages
    <2>2. \A k \in Keys : ages[k] \in {Never} \cup 0 .. graceOf(k[2])
        BY <1>1, <2>1
    <2>3. \A k \in Keys : ages[k] \in Int
        BY <1>1, <2>2 DEF Never
    <2>4. QED
        BY <2>2, <2>3 DEF ages
<1>3. repairedAt' \in [Keys -> {Never} \cup 0 .. RepairInterval]
    BY Constants DEF Check, Types, TypeOK
<1>4. excluded' \in [Unsteady -> 0 .. Exclusion]
    BY Constants DEF Check, Types, TypeOK
<1>5. check = 0 /\ check' = CheckInterval /\ conditions' = ages
      /\ UNCHANGED <<directoryVars, discoveryVars, peer, troubles>>
    BY DEF Check
<1>6. TypeOK'
    BY <1>2, <1>3, <1>4, <1>5, Constants
       DEF Types, TypeOK, DirectoryTypeOK, directoryVars, discoveryVars
<1>7. RunsFit' /\ PollsFit'
    BY <1>5 DEF Types, RunsFit, PollsFit, directoryVars, discoveryVars, Polling, Never
<1>8. QED
    BY <1>6, <1>7 DEF Types

LEMMA TypesNext ==
    ASSUME Types, [Next]_vars
    PROVE  Types'
<1>1. CASE PollStep
    <2>1. UNCHANGED <<repairVars, discoveryVars, peer, troubles>>
        BY <1>1 DEF PollStep
    <2>2. /\ DirectoryTypeOK' /\ (Polling' => left' <= PollTimeout)
          /\ (round' = "waiting" =>
                left' <= PollInterval /\ \A p \in Peers : asked'[p] = NoRequest)
          /\ (round \in {"next", "waiting"} => round' \in {"next", "waiting"})
        BY <1>1, PollTypes DEF PollStep
    <2>3. QED
        BY <2>1, <2>2 DEF Types, TypeOK, RunsFit, PollsFit, repairVars, discoveryVars
<1>2. CASE FirstRoundEnds \/ RoundEnds
    <2>1. /\ round' = "waiting" /\ left' = PollInterval /\ UNCHANGED <<polled, asked>>
          /\ \A p \in Peers : asked[p] = NoRequest
        BY <1>2 DEF FirstRoundEnds, RoundEnds, scheduleNext, RoundIsOver
    <2>2. /\ check' \in {check, CheckInterval}
          /\ UNCHANGED <<conditions, repairedAt, excluded, discoveryVars, peer, troubles>>
        BY <1>2 DEF FirstRoundEnds, RoundEnds, repairVars
    <2>3. DirectoryTypeOK' /\ check' \in {Never} \cup 0 .. CheckInterval
        BY <2>1, <2>2, Constants DEF Types, TypeOK, DirectoryTypeOK
    <2>4. TypeOK' /\ RunsFit'
        BY <2>2, <2>3 DEF Types, TypeOK, RunsFit, discoveryVars
    <2>5. PollsFit'
        BY <2>1, Constants DEF PollsFit, Polling
    <2>6. QED
        BY <2>4, <2>5 DEF Types
<1>3. CASE Shutdown
    <2>1. /\ round' = "stopped" /\ left' = 0 /\ UNCHANGED <<polled, asked>>
          /\ check' = Never /\ UNCHANGED <<excluded, discoveryVars, peer, troubles>>
          /\ conditions' = [k \in Keys |-> Never]
          /\ repairedAt' = [k \in Keys |-> Never]
        BY <1>3 DEF Shutdown, DirectoryStops
    <2>2. DirectoryTypeOK'
        BY <2>1, Constants DEF Types, TypeOK, DirectoryTypeOK
    <2>3. /\ conditions' \in [Keys -> Int]
          /\ \A k \in Keys : conditions'[k] \in {Never} \cup 0 .. graceOf(k[2])
          /\ repairedAt' \in [Keys -> {Never} \cup 0 .. RepairInterval]
        BY <2>1 DEF Never
    <2>4. TypeOK' /\ RunsFit'
        BY <2>1, <2>2, <2>3 DEF Types, TypeOK, RunsFit, discoveryVars
    <2>5. PollsFit'
        BY <2>1 DEF PollsFit, Polling
    <2>6. QED
        BY <2>4, <2>5 DEF Types
<1>4. CASE UNCHANGED vars
    BY <1>4 DEF vars, Types, TypeOK, RunsFit, PollsFit, DirectoryTypeOK, Polling,
                directoryVars, repairVars, discoveryVars
<1>5. QED
    BY <1>1, <1>2, <1>3, <1>4, StepCases, CheckTypes, TickTypes, OutsideTypes

-----------------------------------------------------------------------------
(* A condition that has lasted its grace has been repaired *)

LEMMA RepairedInit == Init => Repaired
<1> SUFFICES ASSUME Init PROVE Repaired
    OBVIOUS
<1>1. check = Never /\ \A k \in Keys : conditions[k] = Never /\ repairedAt[k] = Never
    BY DEF Init
<1>2. \A k \in Keys : graceOf(k[2]) \in Nat
    BY Graces, KeyParts
<1>3. QED
    BY <1>1, <1>2 DEF Repaired, Since, Never

LEMMA RepairedStays ==
    ASSUME Repaired, UNCHANGED repairVars
    PROVE  Repaired'
BY DEF Repaired, Since, repairVars

LEMMA RepairedChecked ==
    ASSUME Types, Repaired, Check
    PROVE  Repaired'
<1>1. /\ check = 0 /\ check' = CheckInterval /\ conditions' = ages
      /\ repairedAt' = [k \in Keys |->
            IF k \in due THEN 0
            ELSE IF repairedAt[k] = RepairInterval /\ k \notin observed THEN Never
            ELSE repairedAt[k]]
      /\ excluded' = [p \in Unsteady |->
            IF \E c \in RepairCause : <<p, c>> \in due THEN Exclusion ELSE excluded[p]]
    BY DEF Check
<1>2. check' # Never /\ check # Never
    BY <1>1, Constants DEF Never
<1>3. ASSUME NEW k \in Keys
      PROVE  /\ check' # Never /\ conditions'[k] \in 0 .. graceOf(k[2]) - 1 =>
                    Aligned(conditions'[k] + check')
             /\ check' # Never /\ Since(k)' => Aligned(repairedAt'[k] + check')
             /\ Since(k)' => excluded'[k[1]] >= Exclusion - repairedAt'[k]
             /\ conditions'[k] = graceOf(k[2]) /\ check' # 0 => Since(k)'
    <2> DEFINE grace == graceOf(k[2])
    <2>1. /\ k[1] \in Unsteady /\ k[2] \in RepairCause /\ k = <<k[1], k[2]>>
          /\ grace \in Nat /\ grace > 0
          /\ conditions[k] \in {Never} \cup 0 .. grace
          /\ repairedAt[k] \in {Never} \cup 0 .. RepairInterval
          /\ excluded[k[1]] \in 0 .. Exclusion
        BY Graces, KeyParts DEF Types, TypeOK, Keys
    <2>2. ages[k] \in {Never, 0, conditions[k]}
        BY DEF ages
    <2> HIDE DEF grace
    <2>3. conditions'[k] \in 0 .. grace - 1 => Aligned(conditions'[k] + check')
        <3> SUFFICES ASSUME conditions'[k] \in 0 .. grace - 1
                     PROVE  Aligned(conditions'[k] + check')
            OBVIOUS
        <3>1. conditions'[k] \in {0, conditions[k]}
            BY <1>1, <2>1, <2>2 DEF Never
        <3>2. CASE conditions'[k] = 0
            BY <1>1, <3>2, NextAligned, Constants
        <3>3. CASE conditions'[k] = conditions[k]
            <4>1. Aligned(conditions[k] + check)
                BY <1>2, <3>3 DEF Repaired, grace
            <4>2. conditions[k] \in Nat /\ conditions[k] + check = conditions[k]
                BY <1>1, <2>1, <3>3
            <4>3. QED
                BY <1>1, <3>3, <4>1, <4>2, NextAligned
        <3>4. QED
            BY <3>1, <3>2, <3>3
    <2>4. CASE k \in due
        <3>1. repairedAt'[k] = 0 /\ excluded'[k[1]] = Exclusion
            BY <1>1, <2>1, <2>4
        <3>2. Since(k)'
            BY <3>1, Constants DEF Since
        <3>3. Aligned(repairedAt'[k] + check')
            BY <1>1, <3>1, NextAligned, Constants
        <3>4. QED
            BY <2>3, <3>1, <3>2, <3>3, Constants DEF grace
    <2>5. CASE k \notin due
        <3>1. Since(k)' => repairedAt'[k] = repairedAt[k] /\ Since(k)
            BY <1>1, <2>1, <2>5, Constants DEF Since, Never
        <3>2. excluded'[k[1]] >= excluded[k[1]]
            BY <1>1, <2>1, Constants
        <3>3. Since(k)' => Aligned(repairedAt'[k] + check')
            <4> SUFFICES ASSUME Since(k)'
                         PROVE  Aligned(repairedAt'[k] + check')
                OBVIOUS
            <4>1. Aligned(repairedAt[k] + check)
                BY <1>2, <3>1 DEF Repaired
            <4>2. repairedAt[k] \in Nat /\ repairedAt[k] + check = repairedAt[k]
                BY <1>1, <3>1, Constants DEF Since
            <4>3. QED
                BY <1>1, <3>1, <4>1, <4>2, NextAligned
        <3>4. Since(k)' => excluded'[k[1]] >= Exclusion - repairedAt'[k]
            <4> SUFFICES ASSUME Since(k)'
                         PROVE  excluded'[k[1]] >= Exclusion - repairedAt'[k]
                OBVIOUS
            <4>1. excluded[k[1]] >= Exclusion - repairedAt[k]
                BY <3>1 DEF Repaired
            <4>2. repairedAt[k] \in Nat /\ excluded'[k[1]] \in Nat
                BY <1>1, <2>1, <3>1, Constants DEF Since
            <4>3. QED
                BY <2>1, <3>1, <3>2, <4>1, <4>2, Constants
        <3>5. conditions'[k] = grace => Since(k)'
            <4> SUFFICES ASSUME ages[k] = grace
                         PROVE  Since(k)'
                BY <1>1
            <4>1. repairedAt[k] \notin {Never, RepairInterval}
                BY <2>1, <2>5 DEF due, isDue, grace
            <4>2. repairedAt'[k] = repairedAt[k]
                BY <1>1, <2>5, <4>1
            <4>3. QED
                BY <2>1, <4>1, <4>2, Constants DEF Since
        <3>6. QED
            BY <2>3, <3>3, <3>4, <3>5 DEF grace
    <2>6. QED
        BY <2>4, <2>5
<1>4. QED
    BY <1>2, <1>3 DEF Repaired

LEMMA RepairedTick ==
    ASSUME Types, Repaired, Tick
    PROVE  Repaired'
<1>1. /\ check # 0 /\ check' = Sooner(check)
      /\ conditions' = [k \in Keys |-> Older(conditions[k], graceOf(k[2]))]
      /\ repairedAt' = [k \in Keys |-> Older(repairedAt[k], RepairInterval)]
      /\ excluded' = [p \in Unsteady |-> Sooner(excluded[p])]
    BY DEF Tick
<1>2. check \in {Never} \cup 0 .. CheckInterval
    BY DEF Types, TypeOK
<1>3. CASE check = Never
    <2>1. check' = Never
        BY <1>1, <1>2, <1>3, SoonerWithin, Constants
    <2>2. ASSUME NEW k \in Keys
          PROVE  conditions'[k] = Never /\ repairedAt'[k] = Never
        <3>1. graceOf(k[2]) \in Nat /\ graceOf(k[2]) > 0
            BY Graces, KeyParts
        <3>2. conditions[k] = Never /\ repairedAt[k] = Never
            BY <1>3 DEF Repaired
        <3>3. QED
            BY <1>1, <3>1, <3>2, OlderWithin, Constants
    <2>3. \A k \in Keys : graceOf(k[2]) \in Nat
        BY Graces, KeyParts
    <2>4. QED
        BY <2>1, <2>2, <2>3 DEF Repaired, Since, Never
<1>4. CASE check # Never
    <2>1. /\ check \in 1 .. CheckInterval /\ check' = check - 1
          /\ check' \in Nat /\ check' < CheckInterval /\ check' # Never
        BY <1>1, <1>2, <1>4, SoonerWithin, Constants DEF Never
    <2>2. ASSUME NEW k \in Keys
          PROVE  /\ conditions'[k] \in 0 .. graceOf(k[2]) - 1 =>
                        Aligned(conditions'[k] + check')
                 /\ Since(k)' => Aligned(repairedAt'[k] + check')
                 /\ Since(k)' => excluded'[k[1]] >= Exclusion - repairedAt'[k]
                 /\ conditions'[k] = graceOf(k[2]) /\ check' # 0 => Since(k)'
        <3> DEFINE grace == graceOf(k[2])
        <3>1. /\ k[1] \in Unsteady /\ grace \in Nat /\ grace > 0 /\ Aligned(grace)
              /\ conditions[k] \in {Never} \cup 0 .. grace
              /\ repairedAt[k] \in {Never} \cup 0 .. RepairInterval
              /\ excluded[k[1]] \in 0 .. Exclusion
            BY Graces, KeyParts DEF Types, TypeOK
        <3>2. conditions'[k] = Older(conditions[k], grace)
              /\ repairedAt'[k] = Older(repairedAt[k], RepairInterval)
              /\ excluded'[k[1]] = Sooner(excluded[k[1]])
            BY <1>1, <3>1
        <3>3. /\ conditions[k] \in 0 .. grace - 1 => Aligned(conditions[k] + check)
              /\ Since(k) => Aligned(repairedAt[k] + check)
              /\ Since(k) => excluded[k[1]] >= Exclusion - repairedAt[k]
              /\ conditions[k] = grace => Since(k)
            BY <1>1, <1>4 DEF Repaired
        <3> HIDE DEF grace
        <3>4. /\ conditions[k] = Never => conditions'[k] = Never
              /\ conditions[k] = grace => conditions'[k] = grace
              /\ conditions[k] \in 0 .. grace - 1 =>
                    conditions'[k] = conditions[k] + 1
            BY <3>1, <3>2, OlderWithin
        <3>5. /\ repairedAt[k] = Never => repairedAt'[k] = Never
              /\ repairedAt[k] = RepairInterval => repairedAt'[k] = RepairInterval
              /\ Since(k) => repairedAt'[k] = repairedAt[k] + 1
            BY <3>1, <3>2, OlderWithin, Constants DEF Since
        <3>6. ASSUME conditions[k] \in 0 .. grace - 1
              PROVE  Aligned(conditions'[k] + check')
            <4>1. conditions'[k] + check' = conditions[k] + check
                BY <2>1, <3>4, <3>6
            <4>2. QED
                BY <3>3, <3>6, <4>1
        <3>7. ASSUME Since(k)
              PROVE  Aligned(repairedAt'[k] + check')
            <4>1. repairedAt'[k] + check' = repairedAt[k] + check
                BY <2>1, <3>5, <3>7, Constants DEF Since
            <4>2. QED
                BY <3>3, <3>7, <4>1
        <3>8. Since(k)' => Since(k)
            BY <3>1, <3>5, Constants DEF Since, Never
        <3>9. Since(k) => excluded'[k[1]] >= Exclusion - repairedAt'[k]
            <4> SUFFICES ASSUME Since(k)
                         PROVE  excluded'[k[1]] >= Exclusion - repairedAt'[k]
                OBVIOUS
            <4>1. excluded'[k[1]] >= excluded[k[1]] - 1 /\ excluded'[k[1]] \in Nat
                BY <3>1, <3>2, SoonerWithin, Constants
            <4>2. QED
                BY <3>1, <3>3, <3>5, <4>1, Constants DEF Since
        <3>10. conditions'[k] \in 0 .. grace - 1 => conditions[k] \in 0 .. grace - 1
            BY <3>1, <3>4 DEF Never
        <3>11. ASSUME conditions'[k] = grace, check' # 0
               PROVE  Since(k)'
            <4>1. CASE conditions[k] \in 0 .. grace - 1
                BY <2>1, <3>1, <3>6, <3>11, <4>1, AlignedEnds
            <4>2. CASE conditions[k] = grace
                <5>1. Since(k) /\ repairedAt'[k] = repairedAt[k] + 1
                    BY <3>3, <3>5, <4>2
                <5>2. repairedAt'[k] # RepairInterval
                    BY <2>1, <3>7, <3>11, <5>1, AlignedEnds, Constants,
                       IntervalsAssumption
                <5>3. QED
                    BY <5>1, <5>2, Constants DEF Since
            <4>3. QED
                BY <3>1, <3>4, <3>11, <4>1, <4>2 DEF Never
        <3>12. QED
            BY <3>6, <3>7, <3>8, <3>9, <3>10, <3>11 DEF grace
    <2>3. QED
        BY <2>1, <2>2 DEF Repaired
<1>5. QED
    BY <1>3, <1>4

LEMMA RepairedNext ==
    ASSUME Types, Repaired, [Next]_vars
    PROVE  Repaired'
<1>1. CASE PollStep \/ RoundEnds \/ Outside \/ UNCHANGED vars
    <2>1. UNCHANGED repairVars
        BY <1>1 DEF PollStep, RoundEnds, Outside, Unfollows, GoesDown, ComesUp,
                    ChangesRole, TableForgets, TableLearns, Follows, vars
    <2>2. QED
        BY <2>1, RepairedStays
<1>2. CASE FirstRoundEnds
    <2>1. /\ check = Never /\ check' = CheckInterval
          /\ UNCHANGED <<conditions, repairedAt, excluded>>
        BY <1>2 DEF FirstRoundEnds, Types, PollsFit
    <2>2. \A k \in Keys : /\ conditions'[k] = Never /\ repairedAt'[k] = Never
                          /\ graceOf(k[2]) \in Nat
        BY <2>1, Graces, KeyParts DEF Repaired
    <2>3. check' # Never
        BY <2>1, Constants DEF Never
    <2>4. QED
        BY <2>2, <2>3 DEF Repaired, Since, Never
<1>3. CASE Shutdown
    <2>1. \A k \in Keys : /\ conditions'[k] = Never /\ repairedAt'[k] = Never
                          /\ graceOf(k[2]) \in Nat
        BY <1>3, Graces, KeyParts DEF Shutdown
    <2>2. QED
        BY <2>1 DEF Repaired, Since, Never
<1>4. QED
    BY <1>1, <1>2, <1>3, StepCases, RepairedChecked, RepairedTick

-----------------------------------------------------------------------------
(* What discovery has forgotten counts with no answer any more *)

LEMMA HeardInit == Init => Heard
BY DEF Init, DirectoryInit, Heard, HeardOf, Silent, Counts, Back, Unstale, Off

LEMMA PeerTypes ==
    ASSUME Types, NEW p \in Unsteady
    PROVE  /\ p \in Peers /\ peer[p].down \in Nat /\ peer[p].up \in BOOLEAN
           /\ peer[p].startedAt \in Nat /\ left \in Nat
           /\ table[p] = Absent \/ table[p] \in Nat
           /\ polled[p] \in PolledStatus /\ asked[p] \in Request
           /\ round \in {"off", "first", "next", "waiting", "stopped"}
           /\ p \in reports <=> polled[p].reachable /\ polled[p].said # NoReport
<1>1. p \in Peers
    BY RepairAssumption
<1>2. peer[p] \in [startedAt : Starts, role : Roles, down : 0 .. Silence, up : BOOLEAN]
    BY DEF Types, TypeOK
<1>3. peer[p].startedAt \in Starts /\ peer[p].down \in 0 .. Silence /\ peer[p].up \in BOOLEAN
    BY <1>2
<1>4. peer[p].startedAt \in Nat /\ peer[p].down \in Nat
    <2>1. Starts \subseteq Nat /\ Silence \in Nat
        BY Constants
    <2>2. peer[p].startedAt \in Nat
        BY <1>3, <2>1
    <2>3. \A d \in 0 .. Silence : d \in Nat
        BY <2>1
    <2>4. QED
        BY <1>3, <2>2, <2>3
<1>5. table[p] = Absent \/ table[p] \in Nat
    <2>1. table[p] = Absent \/ table[p] \in Starts
        BY DEF Types, TypeOK
    <2>2. QED
        BY <2>1, Constants
<1>6. /\ polled[p] \in PolledStatus /\ asked[p] \in Request
      /\ round \in {"off", "first", "next", "waiting", "stopped"} /\ left \in Nat
    BY <1>1, Constants DEF Types, TypeOK, DirectoryTypeOK
<1>7. p \in reports <=> polled[p].reachable /\ polled[p].said # NoReport
    BY <1>1 DEF reports
<1>8. QED
    BY <1>1, <1>3, <1>4, <1>5, <1>6, <1>7

(* Nothing about this peer, its answers or the phase of the polls changes. *)
LEMMA HeardStays ==
    ASSUME Types, NEW p \in Unsteady, HeardOf(p),
           polled'[p] = polled[p], asked'[p] = asked[p], UNCHANGED <<round, left>>,
           peer'[p].up = peer[p].up, peer'[p].down = peer[p].down,
           peer'[p].startedAt = peer[p].startedAt, table'[p] = table[p]
    PROVE  HeardOf(p)'
<1>1. p \in reports' <=> p \in reports
    BY PeerTypes DEF reports
<1>2. /\ Counts(p)' <=> Counts(p)
      /\ Back(p)' <=> Back(p)
      /\ Unstale(p)' <=> Unstale(p)
    BY <1>1 DEF Counts, Back, Unstale, Off
<1>3. Silent(p)' <=> Silent(p)
    BY <1>2 DEF Silent, Polling
<1>4. QED
    BY <1>2, <1>3 DEF HeardOf

(* A request that is out or due says nothing by itself. *)
LEMMA HeardPolls ==
    ASSUME Types, Heard, PollStep
    PROVE  Heard'
<1> SUFFICES ASSUME NEW p \in Unsteady
             PROVE  HeardOf(p)'
    BY DEF Heard
<1>1. HeardOf(p) /\ UNCHANGED <<peer, table>>
    BY DEF Heard, PollStep, discoveryVars
<1>2. /\ p \in Peers /\ peer[p].down \in Nat /\ left \in Nat
      /\ peer[p].up \in BOOLEAN /\ peer[p].startedAt \in Nat
      /\ polled[p] \in PolledStatus /\ asked[p] \in Request
      /\ round \in {"off", "first", "next", "waiting", "stopped"}
      /\ p \in reports <=> polled[p].reachable /\ polled[p].said # NoReport
      /\ p \in reports' <=> polled'[p].reachable /\ polled'[p].said # NoReport
    BY PeerTypes DEF reports
<1>3. round = "waiting" => asked[p] = NoRequest
    BY <1>2 DEF Types, PollsFit
<1>4. CASE DirectoryStarts
    <2>1. round' = "first" /\ asked'[p] = [at |-> "out", said |-> NoReport]
        BY <1>2, <1>4 DEF DirectoryStarts, pollAll
    <2>2. ~Counts(p)' /\ ~Back(p)'
        BY <2>1 DEF Counts, Back, NoRequest
    <2>3. QED
        BY <2>2 DEF HeardOf, Silent
<1>5. CASE NextRound
    <2>1. /\ round = "waiting" /\ left = 0 /\ round' = "next" /\ left' = PollTimeout
          /\ asked'[p] = [at |-> "out", said |-> NoReport] /\ UNCHANGED polled
        BY <1>2, <1>5 DEF NextRound, pollAll
    <2>2. /\ ~Back(p)' /\ (Counts(p)' => Counts(p)) /\ (Unstale(p)' => Unstale(p))
        BY <1>1, <1>2, <2>1 DEF Counts, Back, Unstale, Off
    <2>3. ~peer'[p].up => Silent(p)'
        <3>1. ~peer[p].up /\ Counts(p) =>
                peer[p].down <= PollTimeout + PollInterval
            BY <1>1, <1>2, <2>1, Constants DEF HeardOf, Silent
        <3>2. asked'[p] # NoRequest
            BY <2>1 DEF NoRequest
        <3>3. QED
            BY <1>1, <1>2, <2>1, <2>2, <3>1, <3>2, Constants DEF Silent, Polling
    <2>4. QED
        BY <1>1, <2>1, <2>2, <2>3 DEF HeardOf
<1>6. ASSUME NEW q \in Peers, q # p,
             NodeAnswers(q, StatusOf(q)) \/ PollSucceeds(q) \/ PollFails(q)
      PROVE  HeardOf(p)'
    <2>1. polled'[p] = polled[p] /\ asked'[p] = asked[p] /\ UNCHANGED <<round, left>>
        BY <1>2, <1>6
           DEF NodeAnswers, PollSucceeds, PollFails, Types, TypeOK, DirectoryTypeOK
    <2>2. QED
        BY <1>1, <2>1, HeardStays
<1>7. CASE NodeAnswers(p, StatusOf(p))
    <2>1. /\ asked[p].at = "out" /\ UNCHANGED <<polled, round, left>>
          /\ asked'[p] = [at |-> "back", said |-> StatusOf(p)]
        BY <1>2, <1>7 DEF NodeAnswers, Types, TypeOK, DirectoryTypeOK
    <2>2. asked[p] # NoRequest /\ asked'[p] # NoRequest /\ round # "waiting"
        BY <1>3, <2>1 DEF NoRequest
    <2>3. Counts(p)' => Counts(p) /\ round = "next"
        BY <1>2, <2>1, <2>2 DEF Counts, Off
    <2>4. Back(p)' => peer[p].up /\ asked'[p].said.startedAt = peer[p].startedAt
        BY <2>1 DEF Back, StatusOf
    <2>5. ~peer'[p].up => Silent(p)'
        BY <1>1, <2>1, <2>2, <2>3, <2>4 DEF HeardOf, Silent, Polling
    <2>6. Unstale(p)' => Unstale(p)
        BY <1>1 DEF Unstale
    <2>7. QED
        BY <1>1, <2>1, <2>3, <2>4, <2>5, <2>6 DEF HeardOf
<1>8. CASE PollSucceeds(p)
    <2>1. /\ asked[p].at = "back" /\ UNCHANGED <<round, left>>
          /\ polled'[p] = [reachable |-> TRUE, said |-> asked[p].said]
          /\ asked'[p] = NoRequest
        BY <1>2, <1>8 DEF PollSucceeds, Types, TypeOK, DirectoryTypeOK
    <2>2. round # "waiting"
        BY <1>3, <2>1 DEF NoRequest
    <2>3. ~Back(p)' /\ (Counts(p)' => Back(p)) /\ (Unstale(p)' => Unstale(p))
        BY <1>1, <1>2, <2>1 DEF Counts, Back, Unstale, Off, NoRequest
    <2>4. ~peer'[p].up => Silent(p)'
        BY <1>1, <2>1, <2>2, <2>3 DEF HeardOf, Silent, Polling
    <2>5. QED
        BY <1>1, <2>1, <2>3, <2>4 DEF HeardOf
<1>9. CASE PollFails(p)
    <2>1. polled'[p].reachable = FALSE /\ asked'[p] = NoRequest
        BY <1>2, <1>9 DEF PollFails, Types, TypeOK, DirectoryTypeOK, PolledStatus
    <2>2. ~Counts(p)' /\ ~Back(p)'
        BY <1>2, <2>1 DEF Counts, Back, NoRequest
    <2>3. QED
        BY <2>2 DEF HeardOf, Silent
<1>10. QED
    BY <1>4, <1>5, <1>6, <1>7, <1>8, <1>9 DEF PollStep

LEMMA HeardRoundEnds ==
    ASSUME Types, Heard, scheduleNext, UNCHANGED <<peer, table>>
    PROVE  Heard'
<1> SUFFICES ASSUME NEW p \in Unsteady
             PROVE  HeardOf(p)'
    BY DEF Heard
<1>1. HeardOf(p)
    BY DEF Heard
<1>2. p \in Peers /\ peer[p].down \in Nat /\ left \in Nat
    BY PeerTypes
<1>3. /\ Polling /\ asked[p] = NoRequest /\ round' = "waiting"
      /\ left' = PollInterval /\ UNCHANGED <<polled, asked>>
    BY <1>2 DEF scheduleNext, RoundIsOver
<1>4. /\ (Counts(p)' => Counts(p)) /\ ~Back(p)' /\ (Unstale(p)' => Unstale(p))
    BY <1>3 DEF Counts, Back, Unstale, Off, Polling, NoRequest, reports
<1>5. ~peer'[p].up => Silent(p)'
    <2>1. ~peer[p].up /\ Counts(p) => peer[p].down <= PollTimeout
        BY <1>1, <1>2, <1>3, Constants DEF HeardOf, Silent
    <2>2. QED
        BY <1>2, <1>3, <1>4, <2>1, Constants DEF Silent, Polling
<1>6. QED
    BY <1>1, <1>3, <1>4, <1>5 DEF HeardOf

(* No answer of a peer is kept for as long as discovery keeps it. *)
LEMMA ForgottenLast ==
    ASSUME Types, NEW p \in Unsteady, HeardOf(p), ~peer[p].up,
           peer[p].down = Silence
    PROVE  ~Counts(p) /\ ~Back(p)
<1>1. Silent(p)
    BY DEF HeardOf
<1>2. /\ left \in Nat /\ Silence > PollInterval + 2 * PollTimeout
      /\ round \in {"off", "first", "next", "waiting", "stopped"}
    BY PeerTypes, SilenceAssumption
<1>3. ~Back(p)
    BY <1>1, <1>2, Constants DEF Silent
<1>4. ~Counts(p)
    BY <1>1, <1>2, Constants DEF Silent, Counts, Off, Polling
<1>5. QED
    BY <1>3, <1>4

LEMMA HeardOutside ==
    ASSUME Types, Heard, Outside
    PROVE  Heard'
<1> SUFFICES ASSUME NEW p \in Unsteady
             PROVE  HeardOf(p)'
    BY DEF Heard
<1>1. HeardOf(p) /\ UNCHANGED <<polled, asked, round, left>>
    BY DEF Heard, Outside, Unfollows, GoesDown, ComesUp, ChangesRole, TableForgets,
           TableLearns, Follows, directoryVars
<1>2. /\ p \in Peers /\ peer[p].down \in Nat /\ left \in Nat
      /\ peer[p].up \in BOOLEAN /\ peer[p].startedAt \in Nat
      /\ asked[p] \in Request
      /\ table[p] = Absent \/ table[p] \in Nat
      /\ round \in {"off", "first", "next", "waiting", "stopped"}
    BY PeerTypes
<1>3. (Counts(p)' <=> Counts(p)) /\ (Back(p)' <=> Back(p))
    BY <1>1 DEF Counts, Back, reports, Off
<1>4. peer \in [Unsteady -> [startedAt : Starts, role : Roles, down : 0 .. Silence,
                             up : BOOLEAN]]
      /\ table \in [Unsteady -> {Absent} \cup Starts]
    BY DEF Types, TypeOK
<1>5. CASE Unfollows \/ \E q \in Unsteady : Follows(q)
    <2>1. UNCHANGED <<peer, table>>
        BY <1>5 DEF Unfollows, Follows
    <2>2. QED
        BY <1>1, <2>1, HeardStays
<1>6. ASSUME NEW q \in Unsteady, q # p,
             \/ GoesDown(q) \/ ComesUp(q) \/ ChangesRole(q)
             \/ TableForgets(q) \/ TableLearns(q)
      PROVE  HeardOf(p)'
    <2>1. peer'[p] = peer[p] /\ table'[p] = table[p]
        BY <1>4, <1>6
           DEF GoesDown, ComesUp, ChangesRole, TableForgets, TableLearns,
               discoveryVars
    <2>2. QED
        BY <1>1, <2>1, HeardStays
<1>7. CASE GoesDown(p)
    <2>1. /\ ~peer'[p].up /\ peer'[p].down = 0 /\ table[p] # Absent
          /\ table' = table
        BY <1>4, <1>7 DEF GoesDown, discoveryVars
    <2>2. /\ Polling => left <= PollTimeout
          /\ round = "waiting" => left <= PollInterval /\ asked[p] = NoRequest
        BY <1>2 DEF Types, PollsFit
    <2>3. Back(p) => Polling
        BY <1>2, <2>2 DEF Back, Off, Polling, NoRequest
    <2>4. Silent(p)'
        BY <1>1, <1>2, <1>3, <2>1, <2>2, <2>3, Constants DEF Silent, Polling
    <2>5. ~Unstale(p)'
        BY <2>1 DEF Unstale
    <2>6. QED
        BY <2>4, <2>5 DEF HeardOf
<1>8. CASE ComesUp(p)
    <2>1. /\ ~peer[p].up /\ peer'[p].up /\ table' = table
          /\ peer'[p].startedAt = peer[p].startedAt + 1
        BY <1>4, <1>8 DEF ComesUp, discoveryVars
    <2>2. table[p] <= peer[p].startedAt
        BY DEF Types, RunsFit
    <2>3. Unstale(p)' => table[p] = Absent
        BY <1>2, <2>1, <2>2 DEF Unstale
    <2>4. Unstale(p)' => ~Counts(p) /\ ~Back(p)
        BY <1>1, <2>1, <2>3 DEF HeardOf, Unstale
    <2>5. QED
        BY <1>3, <2>1, <2>4 DEF HeardOf
<1>9. CASE ChangesRole(p)
    <2>1. /\ peer'[p].up = peer[p].up /\ peer'[p].down = peer[p].down
          /\ peer'[p].startedAt = peer[p].startedAt /\ table' = table
        BY <1>4, <1>9 DEF ChangesRole, discoveryVars
    <2>2. QED
        BY <1>1, <2>1, HeardStays
<1>10. CASE TableForgets(p)
    <2>1. ~peer[p].up /\ peer[p].down = Silence /\ peer' = peer
        BY <1>10 DEF TableForgets
    <2>2. ~Counts(p)' /\ ~Back(p)'
        BY <1>1, <1>3, <2>1, ForgottenLast
    <2>3. QED
        BY <2>2 DEF HeardOf, Silent
<1>11. CASE TableLearns(p)
    <2>1. peer[p].up /\ table[p] = Absent /\ peer' = peer
        BY <1>11 DEF TableLearns
    <2>2. Unstale(p)
        BY <2>1 DEF Unstale
    <2>3. QED
        BY <1>1, <1>3, <2>1, <2>2 DEF HeardOf
<1>12. QED
    BY <1>5, <1>6, <1>7, <1>8, <1>9, <1>10, <1>11 DEF Outside

(* What time takes from the polls it adds to the silence. *)
LEMMA HeardTick ==
    ASSUME Types, Heard, Tick
    PROVE  Heard'
<1> SUFFICES ASSUME NEW p \in Unsteady
             PROVE  HeardOf(p)'
    BY DEF Heard
<1>1. HeardOf(p) /\ UNCHANGED <<polled, asked, round, table>>
    BY DEF Heard, Tick, DirectoryTick
<1>2. /\ p \in Peers /\ peer[p].down \in Nat /\ left \in Nat
      /\ peer[p].up \in BOOLEAN /\ peer[p].startedAt \in Nat
    BY PeerTypes
<1>3. (Counts(p)' <=> Counts(p)) /\ (Back(p)' <=> Back(p))
    BY <1>1 DEF Counts, Back, reports, Off
<1>4. /\ peer'[p].up = peer[p].up /\ peer'[p].startedAt = peer[p].startedAt
      /\ ~peer[p].up => peer'[p].down \in {peer[p].down, peer[p].down + 1}
    <2>1. peer[p] \in [startedAt : Starts, role : Roles, down : 0 .. Silence,
                       up : BOOLEAN]
        BY DEF Types, TypeOK
    <2>2. Older(peer[p].down, Silence) \in {peer[p].down, peer[p].down + 1}
        BY DEF Older
    <2>3. peer'[p] = IF peer[p].up THEN peer[p]
                     ELSE [peer[p] EXCEPT !.down = Older(peer[p].down, Silence)]
        BY DEF Tick
    <2>4. QED
        BY <2>1, <2>2, <2>3
<1>5. CASE Off
    <2>1. ~Counts(p) /\ ~Back(p)
        BY <1>5 DEF Counts, Back
    <2>2. QED
        BY <1>3, <2>1 DEF HeardOf, Silent
<1>6. CASE ~Off
    <2>1. left > 0 /\ left' = left - 1
        BY <1>6 DEF Tick, DirectoryTick
    <2>2. ~peer[p].up => peer'[p].down + left' <= peer[p].down + left
        BY <1>2, <1>4, <2>1
    <2>3. ~peer'[p].up => Silent(p)'
        <3> SUFFICES ASSUME ~peer[p].up
                     PROVE  Silent(p)'
            BY <1>4
        <3>1. Silent(p) /\ peer'[p].down + left' <= peer[p].down + left
            BY <1>1, <2>2 DEF HeardOf
        <3>2. peer'[p].down + left' \in Int /\ peer[p].down + left \in Int
            BY <1>2, <1>4, <2>1
        <3>3. QED
            BY <1>1, <1>3, <3>1, <3>2, Constants DEF Silent, Polling
    <2>4. Unstale(p)' <=> Unstale(p)
        BY <1>1, <1>4 DEF Unstale
    <2>5. QED
        BY <1>1, <1>3, <1>4, <2>3, <2>4 DEF HeardOf
<1>7. QED
    BY <1>5, <1>6

LEMMA HeardNext ==
    ASSUME Types, Heard, [Next]_vars
    PROVE  Heard'
<1>1. CASE FirstRoundEnds \/ RoundEnds
    <2>1. scheduleNext /\ UNCHANGED <<peer, table>>
        BY <1>1 DEF FirstRoundEnds, RoundEnds, discoveryVars
    <2>2. QED
        BY <2>1, HeardRoundEnds
<1>2. CASE Shutdown
    <2>1. \A p \in Unsteady : ~Counts(p)' /\ ~Back(p)'
        BY <1>2 DEF Shutdown, DirectoryStops, Counts, Back, Off
    <2>2. QED
        BY <2>1 DEF Heard, HeardOf, Silent
<1>3. CASE Check \/ UNCHANGED vars
    <2>1. UNCHANGED <<directoryVars, peer, table>>
        BY <1>3 DEF Check, vars, discoveryVars
    <2>2. \A p \in Unsteady : HeardOf(p)'
        BY <2>1, HeardStays DEF Heard, directoryVars
    <2>3. QED
        BY <2>2 DEF Heard
<1>4. QED
    BY <1>1, <1>2, <1>3, StepCases, HeardPolls, HeardOutside, HeardTick

-----------------------------------------------------------------------------
(* Theorems *)

LEMMA RepairInvariance == Spec => [](Types /\ Repaired /\ Heard)
<1>1. Init => Types /\ Repaired /\ Heard
    BY TypesInit, RepairedInit, HeardInit
<1>2. (Types /\ Repaired /\ Heard) /\ [Next]_vars => (Types /\ Repaired /\ Heard)'
    BY TypesNext, RepairedNext, HeardNext
<1>3. QED
    BY <1>1, <1>2, PTL DEF Spec

(* The ages, timers and kept answers of repair and directory keep their     *)
(* types and intervals, however peers, discovery and time go on.            *)
THEOREM RepairTypeCorrect == Spec => []TypeOK
<1>1. Types => TypeOK
    BY DEF Types
<1>2. QED
    BY <1>1, RepairInvariance, PTL

(* A peer whose condition has outlived its grace period is out of the       *)
(* election until the condition ends: check() renews the exclusion before   *)
(* it is over (isDue and repair of topologyRepair.ts).                      *)
THEOREM ExclusionHasNoGap == Spec => []ExcludedWhileObserved
<1>1. Types /\ Repaired => ExcludedWhileObserved
    <2> SUFFICES ASSUME Types, Repaired, NEW k \in Keys,
                        conditions[k] = graceOf(k[2]), check # 0
                 PROVE  excluded[k[1]] > 0
        BY DEF ExcludedWhileObserved
    <2>1. Since(k) /\ excluded[k[1]] >= Exclusion - repairedAt[k]
        BY DEF Repaired
    <2>2. excluded[k[1]] \in 0 .. Exclusion
        BY KeyParts DEF Types, TypeOK
    <2>3. QED
        BY <2>1, <2>2, Constants DEF Since
<1>2. QED
    BY <1>1, RepairInvariance, PTL

(* A peer whose present start discovery knows is never excluded as          *)
(* restarted, however often it and its peers restart and however late the   *)
(* polls are: the answer compared is of the run discovery holds             *)
(* (observeRestarts of topologyRepair.ts, reports of nodeDirectory.ts).     *)
THEOREM NoneExcludedForKnownStart == Spec => OnlyStaleExcluded
<1> DEFINE A == \A p \in Unsteady :
        Repairs(p, "peer-restarted") /\ peer[p].up => table[p] # peer[p].startedAt
<1>1. ASSUME Types, Heard, [Next]_vars, NEW p \in Unsteady,
             Repairs(p, "peer-restarted"), peer[p].up, table[p] = peer[p].startedAt
      PROVE  FALSE
    <2> DEFINE k == <<p, "peer-restarted">>
    <2>1. k \in Keys /\ repairedAt[k] # 0 /\ repairedAt'[k] = 0
        BY <1>1 DEF Repairs, Keys, RepairCause
    <2> HIDE DEF k
    <2>2. CASE Check
        <3>1. k \in due /\ check = 0
            BY <2>1, <2>2 DEF Check, Never
        <3>2. k \in observed
            <4>1. ages[k] >= graceOf(k[2]) /\ graceOf(k[2]) \in Nat
                BY <3>1, Graces, KeyParts DEF due, isDue
            <4>2. ages[k] # Never
                BY <4>1 DEF Never
            <4>3. QED
                BY <2>1, <4>2 DEF ages
        <3>3. p \in reports /\ polled[p].said.startedAt # table[p]
            BY <3>2 DEF observed, observeRestarts, observeHubDenial, k
        <3>4. round \in {"next", "waiting"}
            BY <1>1, <3>1 DEF Types, PollsFit, Never
        <3>5. Counts(p) /\ Unstale(p)
            BY <1>1, <3>3, <3>4 DEF Counts, Off, Unstale
        <3>6. QED
            BY <1>1, <3>3, <3>5 DEF Heard, HeardOf
    <2>3. CASE Tick
        <3>1. repairedAt[k] \in {Never} \cup 0 .. RepairInterval
              /\ repairedAt'[k] = Older(repairedAt[k], RepairInterval)
            BY <1>1, <2>1, <2>3 DEF Tick, Types, TypeOK
        <3>2. QED
            BY <2>1, <3>1, OlderWithin, Constants DEF Never
    <2>4. CASE Shutdown
        BY <2>1, <2>4 DEF Shutdown, Never
    <2>5. CASE PollStep \/ FirstRoundEnds \/ RoundEnds \/ Outside \/ UNCHANGED vars
        <3>1. UNCHANGED repairedAt
            BY <2>5 DEF PollStep, FirstRoundEnds, RoundEnds, Outside, Unfollows,
                        GoesDown, ComesUp, ChangesRole, TableForgets, TableLearns,
                        Follows, vars, repairVars
        <3>2. QED
            BY <2>1, <3>1
    <2>6. QED
        BY <1>1, <2>2, <2>3, <2>4, <2>5, StepCases
<1>2. (Types /\ Repaired /\ Heard) /\ [Next]_vars => [A]_vars
    BY <1>1
<1> HIDE DEF A
<1>3. Spec => [][A]_vars
    BY <1>2, RepairInvariance, PTL DEF Spec
<1>4. QED
    BY <1>3 DEF OnlyStaleExcluded, A
==============================================================================
