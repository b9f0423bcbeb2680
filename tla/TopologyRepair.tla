---------------------------- MODULE TopologyRepair ----------------------------
(***************************************************************************)
(* The repair of one node's hub election: the class TopologyRepair of      *)
(* network/topologyRepair.ts, which compares the peer table of discovery   *)
(* with what the peers say of themselves (NodeDirectory) and keeps a peer  *)
(* that discovery holds a wrong start time of out of the election.         *)
(*                                                                         *)
(* Timers fire when they are due.  Outside and free to do what it can: the *)
(* peers, which restart and take or leave the hub's role, and discovery,   *)
(* which learns a peer with the start time of its run before that run ends *)
(* and never refreshes it, but forgets a peer that has been silent for its *)
(* broadcast timeout (docs/findings/network-discovery.md).                 *)
(*                                                                         *)
(* Left out: log lines and the details they carry; a shutdown that comes   *)
(* before main has started all its parts.                                  *)
(*                                                                         *)
(* A definition called a variant is the definition below it with one       *)
(* plausible mistake; PROJECT.json names the property that rules it out.   *)
(***************************************************************************)
EXTENDS NodeDirectory

CONSTANTS
    CheckInterval,   \* TopologyRepairOptions.checkIntervalMs, in ticks
    RestartGrace,    \* restartGraceMs
    DenialGrace,     \* denialGraceMs
    RepairInterval,  \* repairIntervalMs
    Exclusion,       \* exclusionMs
    Silence,         \* broadcast timeout of discovery
    HealTime,        \* broadcast timeout and one check interval of discovery
    Unsteady,        \* bound: the peers that restart or may become the hub
    MaxTroubles      \* bound: restarts of peers and changes of a role within a run

ASSUME RepairAssumption ==
    /\ {CheckInterval, RestartGrace, DenialGrace, RepairInterval, Exclusion,
        Silence, HealTime} \subseteq Nat \ {0}
    /\ Unsteady \subseteq Peers
    /\ 0 \in Starts
    /\ MaxTroubles \in Nat

(* Discovery forgets a peer later than any answer of it can be kept: until *)
(* the poll of the next round that is held up by another node.             *)
ASSUME SilenceAssumption == Silence > PollInterval + 2 * PollTimeout

Aligned(t) == \E n \in 0 .. t : t = n * CheckInterval

(* The other intervals are whole numbers of checks and an exclusion is not *)
(* over before it can be repeated (the defaults of TopologyRepairOptions). *)
ASSUME IntervalsAssumption ==
    /\ Aligned(RestartGrace) /\ Aligned(DenialGrace) /\ Aligned(RepairInterval)
    /\ Exclusion >= RepairInterval

VARIABLES
    conditions,  \* ticks since each condition has been observed
    repairedAt,  \* ticks since each condition was last repaired
    check,       \* ticks until the next check, Never while there is no timer
    excluded,    \* ticks for which the manager keeps a peer out of the election
    table,       \* the peer table of discovery: the start time held of a peer
    hub,         \* the peer this node follows as the hub
    denied,      \* ticks the hub has had another role since it was followed
    peer,        \* the peers themselves; down: ticks of silence
    troubles     \* what is left of MaxTroubles

discoveryVars == <<table, hub, denied>>
repairVars == <<conditions, repairedAt, check, excluded>>
vars == <<directoryVars, repairVars, discoveryVars, peer, troubles>>

Never == -1     \* no timer, not observed, not repaired
Absent == -1    \* not in the peer table
NoHub == "no hub"
FormerHub == "former hub"

RepairCause == {"peer-restarted", "hub-denies-role"}
Keys == Unsteady \X RepairCause

graceOf(cause) == IF cause = "peer-restarted" THEN RestartGrace ELSE DenialGrace

TypeOK ==
    /\ DirectoryTypeOK
    /\ conditions \in [Keys -> Int]
    /\ \A k \in Keys : conditions[k] \in {Never} \cup 0 .. graceOf(k[2])
    /\ repairedAt \in [Keys -> {Never} \cup 0 .. RepairInterval]
    /\ check \in {Never} \cup 0 .. CheckInterval
    /\ excluded \in [Unsteady -> 0 .. Exclusion]
    /\ table \in [Unsteady -> {Absent} \cup Starts]
    /\ hub \in Unsteady \cup {NoHub, FormerHub}
    /\ denied \in 0 .. HealTime
    /\ peer \in [Unsteady -> [startedAt : Starts, role : Roles, down : 0 .. Silence,
                              up : BOOLEAN]]
    /\ troubles \in 0 .. MaxTroubles

Init ==
    /\ DirectoryInit
    /\ conditions = [k \in Keys |-> Never]
    /\ repairedAt = [k \in Keys |-> Never]
    /\ check = Never
    /\ excluded = [p \in Unsteady |-> 0]
    /\ hub = NoHub
    /\ denied = 0
    /\ peer \in [Unsteady -> [startedAt : {0}, role : Roles, down : {0}, up : {TRUE}]]
    /\ table = [p \in Unsteady |-> 0]
    /\ troubles = MaxTroubles

-----------------------------------------------------------------------------
(* The comparison.                                                         *)

(* The peer says it started at another time than the table holds.          *)
observeRestarts ==
    {<<p, "peer-restarted">> : p \in {q \in Unsteady :
        /\ table[q] # Absent
        /\ q \in reports
        /\ polled[q].said.startedAt # table[q]}}

(* The node followed as the hub says it has another role.                  *)
observeHubDenial ==
    {<<p, "hub-denies-role">> : p \in {q \in Unsteady :
        /\ hub = q
        /\ q \in reports
        /\ polled[q].said.role # "hub"}}

observed == observeRestarts \cup observeHubDenial

(* Variant: a condition that is not observed any more is not dropped.      *)
agesWithoutDropping == [k \in Keys |->
    IF conditions[k] # Never THEN conditions[k]
    ELSE IF k \in observed THEN 0 ELSE Never]

(* A condition keeps its age while every check observes it.                *)
ages == [k \in Keys |->
    IF k \notin observed THEN Never
    ELSE IF conditions[k] = Never THEN 0
    ELSE conditions[k]]

(* Variant: one repair as long as the condition lasts.                     *)
isDueOnce(k) ==
    /\ ages[k] >= graceOf(k[2])
    /\ repairedAt[k] = Never

(* It has outlasted its grace period and its last repair the interval.      *)
isDue(k) ==
    /\ ages[k] >= graceOf(k[2])
    /\ repairedAt[k] \in {Never, RepairInterval}

due == {k \in Keys : isDue(k)}

(* check(): the conditions follow what is observed, those that have lasted *)
(* are repaired, and a repair is forgotten once its interval is over and   *)
(* its condition gone.                                                     *)
Check ==
    /\ check = 0
    /\ conditions' = ages
    /\ repairedAt' = [k \in Keys |->
            IF k \in due THEN 0
            ELSE IF repairedAt[k] = RepairInterval /\ k \notin observed THEN Never
            ELSE repairedAt[k]]
    /\ excluded' = [p \in Unsteady |->
            IF \E c \in RepairCause : <<p, c>> \in due THEN Exclusion ELSE excluded[p]]
    /\ check' = CheckInterval
    /\ UNCHANGED <<directoryVars, discoveryVars, peer, troubles>>

-----------------------------------------------------------------------------
(* Starting and stopping (main.ts), and the rounds of the directory.       *)

StartDirectory == DirectoryStarts /\ UNCHANGED <<repairVars, discoveryVars, peer, troubles>>

(* main awaits the first round and starts the repair.                      *)
FirstRoundEnds ==
    /\ round = "first"
    /\ scheduleNext
    /\ check' = CheckInterval
    /\ UNCHANGED <<conditions, repairedAt, excluded, discoveryVars, peer, troubles>>

RoundEnds ==
    /\ round = "next"
    /\ scheduleNext
    /\ UNCHANGED <<repairVars, discoveryVars, peer, troubles>>

StartRound == NextRound /\ UNCHANGED <<repairVars, discoveryVars, peer, troubles>>

Shutdown ==
    /\ check # Never
    /\ DirectoryStops
    /\ check' = Never
    /\ conditions' = [k \in Keys |-> Never]
    /\ repairedAt' = [k \in Keys |-> Never]
    /\ UNCHANGED <<excluded, discoveryVars, peer, troubles>>

-----------------------------------------------------------------------------
(* The peers and discovery.                                                *)

(* What a node says when it is asked.  One without discovery may already   *)
(* answer; what a steady peer says decides nothing.                        *)
StatusOf(p) ==
    IF p \in Unsteady /\ peer[p].up
    THEN [startedAt |-> peer[p].startedAt, role |-> peer[p].role]
    ELSE NoReport

Answers(p) ==
    /\ p \in Unsteady \/ left = PollTimeout
    /\ NodeAnswers(p, StatusOf(p))
    /\ UNCHANGED <<repairVars, discoveryVars, peer, troubles>>

AnswerArrives(p) ==
    /\ p \in Unsteady \/ left = PollTimeout
    /\ PollSucceeds(p)
    /\ UNCHANGED <<repairVars, discoveryVars, peer, troubles>>

(* A refused connection fails at once, anything else by the timeout.       *)
RequestFails(p) ==
    /\ left = 0 \/ (p \in Unsteady /\ ~peer[p].up)
    /\ PollFails(p)
    /\ UNCHANGED <<repairVars, discoveryVars, peer, troubles>>

(* A run is announced, and so learned by discovery, before it ends.        *)
GoesDown(p) ==
    /\ peer[p].up
    /\ table[p] # Absent
    /\ peer[p].startedAt + 1 \in Starts
    /\ troubles > 0
    /\ troubles' = troubles - 1
    /\ peer' = [peer EXCEPT ![p].up = FALSE, ![p].down = 0]
    /\ UNCHANGED <<directoryVars, repairVars, discoveryVars>>

ComesUp(p) ==
    /\ ~peer[p].up
    /\ \E r \in Roles :
        peer' = [peer EXCEPT ![p] = [startedAt |-> @.startedAt + 1, role |-> r,
                                     down |-> 0, up |-> TRUE]]
    /\ UNCHANGED <<directoryVars, repairVars, discoveryVars, troubles>>

ChangesRole(p) ==
    /\ peer[p].up
    /\ troubles > 0
    /\ troubles' = troubles - 1
    /\ \E r \in Roles \ {peer[p].role} : peer' = [peer EXCEPT ![p].role = r]
    /\ UNCHANGED <<directoryVars, repairVars, discoveryVars>>

TableForgets(p) ==
    /\ ~peer[p].up
    /\ peer[p].down = Silence
    /\ table[p] # Absent
    /\ table' = [table EXCEPT ![p] = Absent]
    /\ UNCHANGED <<directoryVars, repairVars, hub, denied, peer, troubles>>

TableLearns(p) ==
    /\ peer[p].up
    /\ table[p] = Absent
    /\ table' = [table EXCEPT ![p] = peer[p].startedAt]
    /\ UNCHANGED <<directoryVars, repairVars, hub, denied, peer, troubles>>

(* The election of this node follows a peer for the first time.            *)
Follows(p) ==
    /\ hub = NoHub
    /\ hub' = p
    /\ denied' = 0
    /\ UNCHANGED <<directoryVars, repairVars, table, peer, troubles>>

(* It elects another hub, or none: after an exclusion or on its own.       *)
Unfollows ==
    /\ hub \in Unsteady
    /\ hub' = FormerHub
    /\ UNCHANGED <<directoryVars, repairVars, table, denied, peer, troubles>>

Sooner(t) == IF t > 0 THEN t - 1 ELSE t
Older(t, most) == IF t \in 0 .. (most - 1) THEN t + 1 ELSE t

Tick ==
    /\ DirectoryTick
    /\ check # 0
    /\ check' = Sooner(check)
    /\ conditions' = [k \in Keys |-> Older(conditions[k], graceOf(k[2]))]
    /\ repairedAt' = [k \in Keys |-> Older(repairedAt[k], RepairInterval)]
    /\ excluded' = [p \in Unsteady |-> Sooner(excluded[p])]
    /\ peer' = [p \in Unsteady |->
            IF peer[p].up THEN peer[p]
            ELSE [peer[p] EXCEPT !.down = Older(@, Silence)]]
    /\ denied' = IF hub \in Unsteady /\ peer[hub].role # "hub" THEN Older(denied, HealTime)
                 ELSE denied
    /\ UNCHANGED <<table, hub, troubles>>

Next ==
    \/ StartDirectory \/ FirstRoundEnds \/ RoundEnds \/ StartRound \/ Shutdown
    \/ Check \/ Tick \/ Unfollows
    \/ \E p \in Peers : Answers(p) \/ AnswerArrives(p) \/ RequestFails(p)
    \/ \E p \in Unsteady :
        \/ GoesDown(p) \/ ComesUp(p) \/ ChangesRole(p)
        \/ TableForgets(p) \/ TableLearns(p) \/ Follows(p)

Spec == Init /\ [][Next]_vars

-----------------------------------------------------------------------------
(* Properties.                                                             *)

Repairs(p, cause) == repairedAt[<<p, cause>>] # 0 /\ repairedAt'[<<p, cause>>] = 0

(* No peer is kept out of the election for a restart that discovery knows  *)
(* of: whatever the polls were late by, the entry of a peer that is        *)
(* excluded as restarted really has the start time of an earlier run.      *)
OnlyStaleExcluded ==
    [][\A p \in Unsteady :
        Repairs(p, "peer-restarted") /\ peer[p].up => table[p] # peer[p].startedAt]_vars

(* A hub that takes its role within the time in which discovery heals by   *)
(* itself is not excluded for denying it.                                  *)
OnlyLastingDenialExcluded ==
    [][\A p \in Unsteady : Repairs(p, "hub-denies-role") => denied = HealTime]_vars

(* While a condition lasts that has outlived its grace period, its peer is *)
(* out of the election without a gap, renewals included.                   *)
ExcludedWhileObserved ==
    \A k \in Keys :
        conditions[k] = graceOf(k[2]) /\ check # 0 => excluded[k[1]] > 0
=============================================================================
