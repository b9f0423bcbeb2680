---------------------------- MODULE NodeDirectory ----------------------------
(***************************************************************************)
(* The polls of one node: the class NodeDirectory of                       *)
(* network/nodeDirectory.ts, which asks every other node of NODE_URLS for  *)
(* its /status, one round after the other, and keeps what it answered.     *)
(*                                                                         *)
(* Time is counted in ticks.  A request is a state of its own: a node      *)
(* says what holds when it answers, and the answer is used when it         *)
(* arrives, so what is kept can be as old as the request may take.         *)
(*                                                                         *)
(* Left out: the entry of this node itself, names, connected clients and   *)
(* lastSeen, which /status shows and nothing decides by.                   *)
(***************************************************************************)
EXTENDS Integers, FiniteSets

CONSTANTS
    Peers,         \* the other entries of NODE_URLS, each one node with its id
    Starts,        \* start times of a node's runs of discovery, in order
    PollInterval,  \* NodeDirectoryOptions.pollIntervalMs, in ticks
    PollTimeout    \* NodeDirectoryOptions.timeoutMs, in ticks

ASSUME PollAssumption ==
    /\ Starts \subseteq Nat
    /\ PollInterval \in Nat \ {0}
    /\ PollTimeout \in Nat \ {0}

VARIABLES
    polled,  \* what each node answered last and whether it answered the last poll
    asked,   \* the request of the round that is out to each node
    round,   \* whether a round is out or due after a wait, or the polls are off
    left     \* ticks until the requests time out or the next round is due

directoryVars == <<polled, asked, round, left>>

Roles == {"hub", "client"}

(* What a node says of itself (nodeId, role, identity.startedAt): nothing  *)
(* that counts before its discovery has given it an id.                    *)
NoReport == [startedAt |-> -1, role |-> "starting"]
NodeReport == [startedAt : Starts, role : Roles] \cup {NoReport}

PolledStatus == [reachable : BOOLEAN, said : NodeReport]
Request == [at : {"none", "out", "back"}, said : NodeReport]
NoRequest == [at |-> "none", said |-> NoReport]

DirectoryTypeOK ==
    /\ polled \in [Peers -> PolledStatus]
    /\ asked \in [Peers -> Request]
    /\ round \in {"off", "first", "next", "waiting", "stopped"}
    /\ left \in 0 .. (PollInterval + PollTimeout)

unknownStatus == [reachable |-> FALSE, said |-> NoReport]

DirectoryInit ==
    /\ polled = [p \in Peers |-> unknownStatus]
    /\ asked = [p \in Peers |-> NoRequest]
    /\ round = "off"
    /\ left = 0

Polling == round \in {"first", "next"}
Off == round \in {"off", "stopped"}

(* What every node that answered the last round said of itself.            *)
reports == {p \in Peers : polled[p].reachable /\ polled[p].said # NoReport}

pollAll(which) ==
    /\ round' = which
    /\ left' = PollTimeout
    /\ asked' = [p \in Peers |-> [at |-> "out", said |-> NoReport]]
    /\ UNCHANGED polled

(* start() is called once, by main.                                        *)
DirectoryStarts == round = "off" /\ pollAll("first")

(* The node at p reads its own status for the request; it arrives later.   *)
NodeAnswers(p, report) ==
    /\ asked[p].at = "out"
    /\ asked' = [asked EXCEPT ![p] = [at |-> "back", said |-> report]]
    /\ UNCHANGED <<polled, round, left>>

PollSucceeds(p) ==
    /\ asked[p].at = "back"
    /\ polled' = [polled EXCEPT ![p] = [reachable |-> TRUE, said |-> asked[p].said]]
    /\ asked' = [asked EXCEPT ![p] = NoRequest]
    /\ UNCHANGED <<round, left>>

(* Variant: a node that does not answer still counts with its last answer. *)
PollFailsButCounts(p) ==
    /\ asked[p] # NoRequest
    /\ asked' = [asked EXCEPT ![p] = NoRequest]
    /\ UNCHANGED <<polled, round, left>>

(* An answer that is not ok, a refused connection or the timeout: what the *)
(* node said before is kept and does not count until it answers again.     *)
PollFails(p) ==
    /\ asked[p] # NoRequest
    /\ polled' = [polled EXCEPT ![p].reachable = FALSE]
    /\ asked' = [asked EXCEPT ![p] = NoRequest]
    /\ UNCHANGED <<round, left>>

RoundIsOver == Polling /\ \A p \in Peers : asked[p] = NoRequest

scheduleNext ==
    /\ RoundIsOver
    /\ round' = "waiting"
    /\ left' = PollInterval
    /\ UNCHANGED <<polled, asked>>

NextRound == round = "waiting" /\ left = 0 /\ pollAll("next")

DirectoryStops ==
    /\ round' = "stopped"
    /\ left' = 0
    /\ UNCHANGED <<polled, asked>>

(* Variant: a request that is out has no timeout.                          *)
DirectoryTickWithoutTimeout ==
    /\ ~RoundIsOver
    /\ round = "waiting" => left > 0
    /\ left' = IF Off THEN 0 ELSE left - 1
    /\ UNCHANGED <<polled, asked, round>>

(* Time may pass while no timer is due; a request ends with its timeout.   *)
DirectoryTick ==
    /\ ~RoundIsOver
    /\ ~Off => left > 0
    /\ left' = IF Off THEN 0 ELSE left - 1
    /\ UNCHANGED <<polled, asked, round>>
=============================================================================
