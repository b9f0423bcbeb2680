---------------------------- MODULE PetShopStore ----------------------------
(***************************************************************************)
(* The stores of nodes (store/petShopStore.ts): the writes of the API, the *)
(* seed, the reads that cache rows of other nodes, and the writes of the   *)
(* synchronisation (SyncAgent.pullChangeSet), row by row, with crashes    *)
(* between any two of them.                                                *)
(*                                                                         *)
(* A call of the API is queued behind the calls before it (pendingWrite).  *)
(* It reads its tables, plans its writes and does them one after the       *)
(* other; pulls write between them.  What a call writes a row for is known *)
(* from the row itself, so a change set is the set of rows and history     *)
(* rows it names.                                                          *)
(*                                                                         *)
(* Stores persist, images do not.  Announcements and lists are left to     *)
(* SyncAgent: a node may pull whatever a running node holds.               *)
(*                                                                         *)
(* A definition called a variant is the definition below it with one       *)
(* plausible mistake; PROJECT.json names the property that rules it out.   *)
(***************************************************************************)
EXTENDS PetShopTables

CONSTANTS
    Nodes,            \* the nodes, numbers from 1: the unique part of their timeIds
    Starts,           \* the nodes with an empty store at first; bounds: calls in all,
                      \* crashes and answers that come too late in all
    Mode,             \* TRAIT_RELATION of each node
    Calls,            \* the calls of the API, edits with Keep for an absent field
    Keep,
    DependencyBound,  \* SyncAgentOptions.dependencyBound of each node
    Concurrency       \* SyncAgentOptions.concurrency

ASSUME StoreAssumption ==
    /\ Nodes \subseteq Nat \ {0}
    /\ Starts \subseteq [cold : SUBSET Nodes, calls : Nat, faults : Nat]
    /\ Mode \in [Nodes -> {"junction", "multi-reference"}]
    /\ \A call \in Calls : call.op \in {"updateAnimal", "updateSpeciesImage", "issueInvoice"}
    /\ DependencyBound \in [Nodes -> Nat]
    /\ Concurrency \in Nat \ {0}

VARIABLES
    rows,        \* the rows of every components table of each node
    history,     \* the rows of their InsertHistory companions
    changeSets,  \* the rows of the changeSets table
    held,        \* the change sets with a history row
    blobs,       \* what is in each node's blob store
    up,          \* whether the node is down, seeding or serving
    chain,       \* the calls that wait on pendingWrite, the running one first
    pulls,       \* the pulls that have written their items
    clock,       \* history rows each node has written itself
    calls,       \* calls that are left
    faults,      \* crashes and late answers that are left
    leftOut      \* the nodes that ever did without a row a received row names

tables == <<rows, history, changeSets, held>>
vars == <<tables, blobs, up, chain, pulls, clock, calls, faults, leftOut>>

-----------------------------------------------------------------------------
(* Time ids.                                                               *)

SeedUnique == 0

(* Variant: the seed takes its timeIds like any other write.               *)
seedTimeIdOfNode(n, sequence) == [ms |-> sequence, unique |-> n]

(* A counter from a fixed epoch on, the same on every node.                *)
seedTimeId(n, sequence) == [ms |-> sequence, unique |-> SeedUnique]

rowsBefore(k) == Len(FlattenSeq(SubSeq(seedPart, 1, k - 1)))
SeedLength == rowsBefore(Len(seedPart) + 1)

(* The clock of a node: later than the seed and than its own writes.       *)
timeId(n) == [ms |-> SeedLength + clock[n] + 1, unique |-> n]

HistoryRow(time, row, previous, origin) ==
    [timeId |-> time, row |-> row, previous |-> previous, origin |-> origin]

-----------------------------------------------------------------------------
(* Writes, and the calls that plan them.                                   *)

(* The changes of an animal: a name for the columns that are copied, the   *)
(* traits, and whether the species is named.  Refused ones write nothing.  *)
AnimalChanges(name, traits, species) ==
    [op |-> "updateAnimal", name |-> name, traits |-> traits, species |-> species]
UploadedImage(image) == [op |-> "updateSpeciesImage", image |-> image]
NewInvoice == [op |-> "issueInvoice"]

PutRow(row) == [do |-> "row", row |-> row]
PutHistory(row, previous) == [do |-> "history", row |-> row, previous |-> previous]
PutSeedHistory(row, sequence) == [do |-> "seed", row |-> row, sequence |-> sequence]
PutBlob(image) == [do |-> "blob", image |-> image]
PutPairings(animal) == [do |-> "pairings", animal |-> animal]
PutChangeSet == [do |-> "changeSet"]
PutHeld == [do |-> "held"]

(* Db.insert: the row, then its history row.                               *)
writeRow(row, previous) == <<PutRow(row), PutHistory(row, previous)>>

(* Variant: the history row of the change set comes first.                 *)
recordBeforeRow == <<PutHeld, PutChangeSet>>

(* Core.import twice: what a node has no history row for it does not hold. *)
recordChangeSet == <<PutChangeSet, PutHeld>>

(* The variant of a call whose row comes before the image it names.        *)
imageAfterRow(image, previous) ==
    writeRow(SpeciesRow(image), previous) \o <<PutBlob(image)>> \o recordChangeSet

imageAndRow(image, previous) ==
    <<PutBlob(image)>> \o writeRow(SpeciesRow(image), previous) \o recordChangeSet

(* The tables as the API reads them.                                       *)
readRows(n, tableKey) == {row \in rows[n] : table(row) = tableKey}

versionsOf(n, id) == versionsByEntity(rows[n], history[n], id)
current(n, tableKey) == currentRows(rows[n], history[n], tableKey)
currentTimeIds(n, id) ==
    IF versionsOf(n, id) = {} THEN {} ELSE {currentVersion(versionsOf(n, id)).timeId}

(* The animal with the changes applied: what they do not name stays, the   *)
(* traits as the node's representation reads them, and what they name is   *)
(* resolved to current rows.  Nothing is written when that fails, when     *)
(* they name nothing, or when there is no such animal.                     *)
updateAnimalNow(n, call) ==
    LET before == currentVersion(versionsOf(n, <<"animals", "a">>)).row
        kept == {trait.id[2] : trait \in traitsOf(rows[n], Mode[n], before)}
        traitIds == IF call.traits = Keep THEN kept ELSE call.traits
        traits == {trait \in current(n, "traits") : trait.id[2] \in traitIds}
        species == IF call.species THEN current(n, "species") ELSE {before.species}
        animal == AnimalRow(IF call.name = Keep THEN before.name ELSE call.name,
                            CHOOSE s \in species : TRUE, traits)
    IN  IF \/ call.name = Keep /\ call.traits = Keep /\ ~call.species
           \/ versionsOf(n, <<"animals", "a">>) = {}
           \/ {trait.id[2] : trait \in traits} # traitIds
           \/ species = {}
        THEN <<>>
        ELSE writeRow(animal, currentTimeIds(n, animal.id)) \o <<PutPairings(animal)>>

(* The image goes into the blob store first; the same image again makes no *)
(* second version.                                                         *)
updateSpeciesImageNow(n, call) ==
    LET versions == versionsOf(n, <<"species", "s">>)
        before == currentVersion(versions)
    IN  IF versions = {} THEN <<>>
        ELSE IF before.row.image = call.image THEN <<PutBlob(call.image)>>
        ELSE imageAndRow(call.image, {before.timeId})

(* Numbered by every invoice row of the store, whether or not its version  *)
(* counts; customer and animal are the current versions.                   *)
writeInvoiceNow(n) ==
    LET sequence == nextInvoiceSequence(readRows(n, "invoices"))
        customers == current(n, "customers")
        animals == current(n, "animals")
        planned == invoiceRows(sequence, CHOOSE c \in customers : TRUE,
                                         CHOOSE a \in animals : TRUE)
    IN  IF customers = {} \/ animals = {} THEN <<>>
        ELSE writeRow(planned[1], {}) \o writeRow(planned[2], {}) \o recordChangeSet

(* Variant: only the pairings the animal did not have before.              *)
writeNewPairings(n, animal) ==
    LET traits == SetToSeq({t \in animal.traits :
                        currentTimeIds(n, AnimalTraitRow(animal, t).id) = {}})
        pairing(i) == AnimalTraitRow(animal, traits[i])
    IN  FlattenSeq([i \in DOMAIN traits |-> writeRow(pairing(i), {})])

(* The junction rows of a new animal version, each a version of its        *)
(* pairing; planned when the animal is written.                            *)
writePairings(n, animal) ==
    LET traits == SetToSeq(animal.traits)
        pairing(i) == AnimalTraitRow(animal, traits[i])
    IN  FlattenSeq([i \in DOMAIN traits |->
            writeRow(pairing(i), currentTimeIds(n, pairing(i).id))])

writeSeedEntity(part, first) ==
    FlattenSeq([i \in DOMAIN part |->
        <<PutRow(part[i]), PutSeedHistory(part[i], first + i)>>])
    \o recordChangeSet

(* Every entity of the seed in order; the image of the species follows it. *)
writeSeedPart ==
    FlattenSeq([k \in DOMAIN seedPart |->
        writeSeedEntity(seedPart[k], rowsBefore(k))
        \o IF k = 1 THEN <<PutBlob(SeedImage)>> ELSE <<>>])

-----------------------------------------------------------------------------
(* The stores as they are before the run: seeded, or empty.                *)

seedChangeSet(n, part, first) ==
    {part[i] : i \in DOMAIN part}
    \cup {HistoryRow(seedTimeId(n, first + i), part[i], {}, "seed") : i \in DOMAIN part}

seedChangeSets(n) ==
    {seedChangeSet(n, seedPart[k], rowsBefore(k)) : k \in DOMAIN seedPart}

IsHistoryRow(item) == "timeId" \in DOMAIN item
rowsOf(items) == {item \in items : ~IsHistoryRow(item)}
historyOf(items) == {item \in items : IsHistoryRow(item)}

Seeded(n) == UNION seedChangeSets(n)
Init == \E start \in Starts :
    LET warm(content(_)) == [n \in Nodes |-> IF n \in start.cold THEN {} ELSE content(n)]
        image(n) == {SeedImage}
        seedRows(n) == rowsOf(Seeded(n))
        seedHistory(n) == historyOf(Seeded(n))
    IN  /\ rows = warm(seedRows)
        /\ history = warm(seedHistory)
        /\ changeSets = warm(seedChangeSets)
        /\ held = changeSets
        /\ blobs = warm(image)
        /\ up = [n \in Nodes |-> IF n \in start.cold THEN "down" ELSE "serving"]
        /\ chain = [n \in Nodes |-> <<>>]
        /\ pulls = [n \in Nodes |-> {}]
        /\ clock = [n \in Nodes |-> 0]
        /\ calls = start.calls
        /\ faults = start.faults
        /\ leftOut = {}

-----------------------------------------------------------------------------
(* The API: a call is queued, begins when the one before it settled, and   *)
(* does its planned writes.                                                *)

Job(call, begun, todo) == [call |-> call, begun |-> begun, todo |-> todo, items |-> {}]
SeedCall == [op |-> "seed"]
SeedJob == Job(SeedCall, TRUE, writeSeedPart)

Call(n) ==
    /\ up[n] = "serving"
    /\ calls > 0
    /\ calls' = calls - 1
    /\ \E call \in Calls : chain' = [chain EXCEPT ![n] = Append(@, Job(call, FALSE, <<>>))]
    /\ UNCHANGED <<tables, blobs, up, pulls, clock, faults, leftOut>>

(* Variant: calls do not wait for each other.                              *)
AtOnce(n, i) == TRUE

(* Only the call that every earlier one has settled before runs.           *)
pendingWrite(n, i) == i = 1

(* A job whose writes are done leaves the chain.                           *)
WithJob(n, i, job) ==
    chain' = [chain EXCEPT ![n] =
        IF job.begun /\ job.todo = <<>> THEN RemoveAt(@, i) ELSE [@ EXCEPT ![i] = job]]

plan(n, call) ==
    CASE call.op = "updateAnimal" -> updateAnimalNow(n, call)
      [] call.op = "updateSpeciesImage" -> updateSpeciesImageNow(n, call)
      [] call.op = "issueInvoice" -> writeInvoiceNow(n)

Begin(n, i) ==
    /\ pendingWrite(n, i)
    /\ ~chain[n][i].begun
    /\ WithJob(n, i, [chain[n][i] EXCEPT !.begun = TRUE, !.todo = plan(n, chain[n][i].call)])
    /\ UNCHANGED <<tables, blobs, up, pulls, clock, calls, faults, leftOut>>

(* The job's next write is of this kind.                                   *)
Writes(n, i, kind) ==
    /\ pendingWrite(n, i)
    /\ chain[n][i].begun
    /\ Head(chain[n][i].todo).do = kind

Done(n, i, items) ==
    WithJob(n, i, [chain[n][i] EXCEPT !.todo = Tail(@), !.items = items])

WriteRow(n, i) ==
    /\ Writes(n, i, "row")
    /\ LET row == Head(chain[n][i].todo).row
       IN  /\ rows' = [rows EXCEPT ![n] = @ \cup {row}]
           /\ Done(n, i, chain[n][i].items \cup {row})
    /\ UNCHANGED <<history, changeSets, held, blobs, up, pulls, clock, calls, faults, leftOut>>

AddHistory(n, i, version) ==
    /\ history' = [history EXCEPT ![n] = @ \cup {version}]
    /\ Done(n, i, chain[n][i].items \cup {version})
    /\ UNCHANGED <<rows, changeSets, held, blobs, up, pulls, calls, faults, leftOut>>

WriteHistory(n, i) ==
    /\ Writes(n, i, "history")
    /\ LET write == Head(chain[n][i].todo)
       IN  AddHistory(n, i, HistoryRow(timeId(n), write.row, write.previous, "api"))
    /\ clock' = [clock EXCEPT ![n] = @ + 1]

WriteSeedHistory(n, i) ==
    /\ Writes(n, i, "seed")
    /\ LET write == Head(chain[n][i].todo)
       IN  AddHistory(n, i, HistoryRow(seedTimeId(n, write.sequence), write.row, {}, "seed"))
    /\ UNCHANGED clock

StoreImage(n, i) ==
    /\ Writes(n, i, "blob")
    /\ blobs' = [blobs EXCEPT ![n] = @ \cup {Head(chain[n][i].todo).image}]
    /\ Done(n, i, chain[n][i].items)
    /\ UNCHANGED <<tables, up, pulls, clock, calls, faults, leftOut>>

(* The pairings are read once the animal row is written.                   *)
PlanPairings(n, i) ==
    /\ Writes(n, i, "pairings")
    /\ WithJob(n, i, [chain[n][i] EXCEPT
            !.todo = writePairings(n, Head(@).animal) \o recordChangeSet])
    /\ UNCHANGED <<tables, blobs, up, pulls, clock, calls, faults, leftOut>>

WriteChangeSet(n, i) ==
    /\ Writes(n, i, "changeSet")
    /\ changeSets' = [changeSets EXCEPT ![n] = @ \cup {chain[n][i].items}]
    /\ Done(n, i, chain[n][i].items)
    /\ UNCHANGED <<rows, history, held, blobs, up, pulls, clock, calls, faults, leftOut>>

RecordChangeSet(n, i) ==
    /\ Writes(n, i, "held")
    /\ held' = [held EXCEPT ![n] = @ \cup {chain[n][i].items}]
    /\ Done(n, i, {})
    /\ UNCHANGED <<rows, history, changeSets, blobs, up, pulls, clock, calls, faults, leftOut>>

-----------------------------------------------------------------------------
(* Starting and crashing.                                                  *)

Fault == faults > 0 /\ faults' = faults - 1

isEmpty(n) == rows[n] = {} /\ history[n] = {} /\ changeSets[n] = {} /\ held[n] = {}

(* The seed is written before the node listens and joins the network, into *)
(* a store without any row only.                                           *)
Boot(n) ==
    /\ up[n] = "down"
    /\ up' = [up EXCEPT ![n] = "seeding"]
    /\ chain' = [chain EXCEPT ![n] = IF isEmpty(n) THEN <<SeedJob>> ELSE <<>>]
    /\ UNCHANGED <<tables, blobs, pulls, clock, calls, faults, leftOut>>

Serves(n) ==
    /\ up[n] = "seeding"
    /\ chain[n] = <<>>
    /\ up' = [up EXCEPT ![n] = "serving"]
    /\ UNCHANGED <<tables, blobs, chain, pulls, clock, calls, faults, leftOut>>

(* A node that was interrupted in its seed serves what it has of it, and   *)
(* its first versions may leave out the seed's in the eyes of every node.  *)
Crash(n) ==
    /\ up[n] # "down"
    /\ Fault
    /\ up' = [up EXCEPT ![n] = "down"]
    /\ chain' = [chain EXCEPT ![n] = <<>>]
    /\ pulls' = [pulls EXCEPT ![n] = {}]
    /\ blobs' = [blobs EXCEPT ![n] = {}]
    /\ leftOut' = IF up[n] = "seeding" /\ chain[n] # <<>> THEN Nodes
                  ELSE leftOut \cup {m \in {n} : \E pull \in pulls[n] : pull.walk # {}}
    /\ UNCHANGED <<tables, clock, calls>>

-----------------------------------------------------------------------------
(* The synchronisation: the items of a change set in one write, then what  *)
(* they refer to, the images, and the change set itself.                   *)

(* What arrives of what the peers have: all of it, or less by a fault.     *)
Arrives(available, arrived) ==
    /\ arrived \subseteq available
    /\ IF arrived = available THEN UNCHANGED faults ELSE Fault

Peers(n) == {p \in Nodes \ {n} : up[p] = "serving"}

IsTimeId(reference) == "ms" \in DOMAIN reference

(* Variant: history rows name only their row.                              *)
referencesWithoutPrevious(item) ==
    IF IsHistoryRow(item) THEN {item.row} ELSE columnReferencesOf(item)

(* The rows and, by timeId, the history rows that an item names.           *)
referencesOf(item) ==
    IF IsHistoryRow(item) THEN {item.row} \cup item.previous ELSE columnReferencesOf(item)

Found(inRows, inHistory, reference) ==
    IF IsTimeId(reference) THEN {version \in inHistory : version.timeId = reference}
    ELSE {reference} \cap inRows

(* Pull `items`, which are in the store with this step, for a change set:  *)
(* the walk goes on with what they name, the store lacks and it never met. *)
(* `others` are the other pulls of the node.                               *)
WithItems(n, others, pull, items) ==
    LET inRows == rows[n] \cup rowsOf(items)
        inHistory == history[n] \cup historyOf(items)
        new == {r \in UNION {referencesOf(item) : item \in items} :
                    r \notin pull.seen /\ Found(inRows, inHistory, r) = {}}
    IN  /\ rows' = [rows EXCEPT ![n] = inRows]
        /\ history' = [history EXCEPT ![n] = inHistory]
        /\ pulls' = [pulls EXCEPT ![n] = others \cup
                {[pull EXCEPT !.walk = @ \cup new, !.seen = @ \cup new]}]

PullItems(n) ==
    /\ up[n] = "serving"
    /\ Cardinality(pulls[n]) < Concurrency
    /\ \E p \in Peers(n) : \E changeSet \in held[p] \ held[n] :
        /\ \A pull \in pulls[n] : pull.changeSet # changeSet
        /\ WithItems(n, pulls[n], [changeSet |-> changeSet, walk |-> {}, seen |-> {},
                         pulled |-> 0, stage |-> "dependencies"], changeSet)
    /\ UNCHANGED <<changeSets, held, blobs, up, chain, clock, calls, faults, leftOut>>

With(n, pull, new) == pulls' = [pulls EXCEPT ![n] = (@ \ {pull}) \cup {new}]

(* Rows are followed before history rows, in a fixed order.                *)
NextReference(pull) ==
    LET first == {r \in pull.walk : ~IsTimeId(r)}
    IN  IF first # {} THEN CHOOSE r \in first : TRUE ELSE CHOOSE r \in pull.walk : TRUE

(* A row that was named is pulled from a peer that has it, and what it     *)
(* names is followed in turn.                                              *)
PullDependency(n, pull) ==
    LET reference == NextReference(pull)
        local == Found(rows[n], history[n], reference)
        served == UNION {Found(rows[p], history[p], reference) : p \in Peers(n)}
        following == [pull EXCEPT !.walk = @ \ {reference}]
    IN  /\ pull.walk # {}
        /\ \/ local # {} /\ With(n, pull, following) /\ UNCHANGED <<rows, history>>
           \/ /\ local = {} /\ served # {}
              /\ pull.pulled < DependencyBound[n]
              /\ LET item == CHOOSE i \in served : TRUE
                 IN  WithItems(n, pulls[n] \ {pull}, [following EXCEPT !.pulled = @ + 1],
                               {item})
        /\ UNCHANGED <<changeSets, held, blobs, up, chain, clock, calls, faults, leftOut>>

(* No node has it, none answers in time, or the bound is reached: it is    *)
(* left to the change set that brings it.                                  *)
LeaveDependency(n, pull) ==
    LET reference == NextReference(pull)
        full == pull.pulled = DependencyBound[n]
        served == UNION {Found(rows[p], history[p], reference) : p \in Peers(n)}
    IN  /\ pull.walk # {}
        /\ Found(rows[n], history[n], reference) = {}
        /\ IF full \/ served = {} THEN UNCHANGED faults ELSE Fault
        /\ With(n, pull, [pull EXCEPT !.walk = IF full THEN {} ELSE @ \ {reference}])
        /\ leftOut' = leftOut \cup {n}
        /\ UNCHANGED <<tables, blobs, up, chain, clock, calls>>

(* The images the rows name, as many as some node serves in time.          *)
PullBlobs(n, pull) ==
    LET wanted == UNION {blobReferencesOf(row) : row \in rowsOf(pull.changeSet)} \ blobs[n]
    IN  /\ pull.stage = "dependencies"
        /\ pull.walk = {}
        /\ LET served == wanted \cap UNION {blobs[p] : p \in Peers(n)}
           IN  \E pulled \in SUBSET served :
            Arrives(served, pulled) /\ blobs' = [blobs EXCEPT ![n] = @ \cup pulled]
        /\ With(n, pull, [pull EXCEPT !.stage = "changeSet"])
        /\ UNCHANGED <<tables, up, chain, clock, calls, leftOut>>

(* A change set that is held already is kept once.                         *)
WriteReceived(n, pull) ==
    /\ pull.stage = "changeSet"
    /\ IF pull.changeSet \in held[n]
       THEN /\ pulls' = [pulls EXCEPT ![n] = @ \ {pull}]
            /\ UNCHANGED changeSets
       ELSE /\ With(n, pull, [pull EXCEPT !.stage = "held"])
            /\ changeSets' = [changeSets EXCEPT ![n] = @ \cup {pull.changeSet}]
    /\ UNCHANGED <<rows, history, held, blobs, up, chain, clock, calls, faults, leftOut>>

RecordReceived(n, pull) ==
    /\ pull.stage = "held"
    /\ held' = [held EXCEPT ![n] = @ \cup {pull.changeSet}]
    /\ pulls' = [pulls EXCEPT ![n] = @ \ {pull}]
    /\ UNCHANGED <<rows, history, changeSets, blobs, up, chain, clock, calls, faults, leftOut>>

-----------------------------------------------------------------------------
(* Reads that fall through to the network and cache what they find.        *)

groupByInvoiceRef(found, invoice) ==
    {row \in found : table(row) = "invoiceItems" /\ row.invoice = invoice}

(* A targeted read answers with what the local store has of the rows, or   *)
(* else with what comes from a peer, which stays in the local store; a     *)
(* failed read finds nothing.                                              *)
readMatching(n, p, asked) ==
    LET found == asked \cap rows[p]
    IN  \E cached \in SUBSET found :
            Arrives(found, cached) /\ rows' = [rows EXCEPT ![n] = @ \cup cached]

(* What the details of an invoice still lack: its items unless there are   *)
(* some, and the customer and the animals they name.                       *)
withRowsOfHashes(n, p, invoice) ==
    LET items == IF groupByInvoiceRef(rows[n], invoice) # {} THEN {}
                 ELSE groupByInvoiceRef(rows[p], invoice)
    IN  items \cup {invoice.customer} \cup {item.animal : item \in items}

(* getInvoice for an id without a local version: the invoice as the store  *)
(* or a peer has it, and what its details lack.                            *)
ReadInvoice(n) ==
    /\ up[n] = "serving"
    /\ \E p \in Peers(n) : \E invoice \in readRows(p, "invoices") :
        /\ versionsOf(n, invoice.id) = {}
        /\ \A row \in rows[n] : row.id = invoice.id => row = invoice
        /\ readMatching(n, p, {invoice} \cup withRowsOfHashes(n, p, invoice))
        /\ invoice \in rows'[n]
    /\ rows' # rows
    /\ UNCHANGED <<history, changeSets, held, blobs, up, chain, pulls, clock, calls, leftOut>>

(* getAnimal for a version that no local history row names.                *)
ReadVersion(n) ==
    /\ up[n] = "serving"
    /\ \E p \in Peers(n) : \E animal \in readRows(p, "animals") :
        /\ animal \notin rows[n]
        /\ rows' = [rows EXCEPT ![n] = @ \cup {animal}]
    /\ UNCHANGED <<history, changeSets, held, blobs, up, chain, pulls, clock, calls, faults, leftOut>>

(* speciesImage: from a peer, or rendered again when it is the seed's.     *)
ReadImage(n) ==
    /\ up[n] = "serving"
    /\ \E species \in readRows(n, "species") :
        /\ species.image \notin blobs[n]
        /\ \/ \E p \in Peers(n) : species.image \in blobs[p]
           \/ species.image = SeedImage
        /\ blobs' = [blobs EXCEPT ![n] = @ \cup {species.image}]
    /\ UNCHANGED <<tables, up, chain, pulls, clock, calls, faults, leftOut>>

JobStep(n, i) ==
    \/ Begin(n, i) \/ WriteRow(n, i) \/ WriteHistory(n, i) \/ WriteSeedHistory(n, i)
    \/ StoreImage(n, i) \/ PlanPairings(n, i) \/ WriteChangeSet(n, i)
    \/ RecordChangeSet(n, i)

PullStep(n, pull) ==
    \/ PullDependency(n, pull) \/ LeaveDependency(n, pull) \/ PullBlobs(n, pull)
    \/ WriteReceived(n, pull) \/ RecordReceived(n, pull)

Next == \E n \in Nodes :
    \/ Call(n) \/ Boot(n) \/ Serves(n) \/ Crash(n) \/ PullItems(n)
    \/ ReadInvoice(n) \/ ReadVersion(n) \/ ReadImage(n)
    \/ \E i \in DOMAIN chain[n] : JobStep(n, i)
    \/ \E pull \in pulls[n] : PullStep(n, pull)

Spec == Init /\ [][Next]_vars

-----------------------------------------------------------------------------
(* Properties.                                                             *)

TypeOK ==
    /\ \A n \in Nodes :
        /\ \A version \in history[n] : version.timeId.unique \in Nodes \cup {SeedUnique}
        /\ held[n] \subseteq changeSets[n]
        /\ \A i \in DOMAIN chain[n] : chain[n][i].call \in Calls \cup {SeedCall}
        /\ \A pull \in pulls[n] :
            /\ pull.walk \subseteq pull.seen
            /\ pull.pulled \in 0 .. DependencyBound[n]
    /\ up \in [Nodes -> {"down", "seeding", "serving"}]
    /\ clock \in [Nodes -> Nat]
    /\ calls \in Nat
    /\ faults \in Nat
    /\ leftOut \subseteq Nodes

(* Two writes of one node never fork: no version is superseded by two of   *)
(* its versions and no entity, an invoice by its number included, is begun *)
(* twice by it, whatever it pulled, read or lost in between.               *)
OwnWritesNeverFork ==
    \A n \in Nodes :
        LET own == {version \in history[n] : version.timeId.unique = n}
        IN  \A v, w \in own : v # w /\ v.row.id = w.row.id =>
                /\ v.previous \cap w.previous = {}
                /\ v.previous # w.previous

(* Two writers of which neither knew of the other's version.               *)
Fork(v, w) ==
    /\ v.timeId.unique # w.timeId.unique
    /\ {v.origin, w.origin} = {"api"}
    /\ v.previous = w.previous \/ v.previous \cap w.previous # {}

(* A store that is not in the middle of following what a received row      *)
(* names, and never had to leave any of it out, shows a conflict only      *)
(* where two nodes really forked; seeding is no reason for one.            *)
ConflictsAreReal ==
    \A n \in Nodes \ leftOut : (\A pull \in pulls[n] : pull.walk = {}) =>
        \A tableKey \in {"animals", "animalTraits", "species", "traits", "customers"} :
            \A id \in conflictingIds(rows[n], history[n], tableKey) :
                \E v, w \in versionsOf(n, id) : Fork(v, w)

(* What the API says of animals in a representation of the relation: the   *)
(* ones a trait is carried by, one version, and every version.             *)
listAnimals(n, mode, trait) ==
    {animal \in current(n, "animals") : trait \in traitsOf(rows[n], mode, animal)}

animalDetail(n, mode, animal) ==
    [animal |-> animal, species |-> {animal.species} \cap rows[n],
     traits |-> traitsOf(rows[n], mode, animal)]

getAnimalHistory(n, mode) ==
    {[timeId |-> version.timeId, previous |-> version.previous,
      traits |-> traitsOf(rows[n], mode, version.row)] :
        version \in {v \in history[n] : v.row \in readRows(n, "animals")}}

(* Both representations of the relation answer alike for every animal      *)
(* version whose change set the store holds: in its details and, when the  *)
(* store has no other animal versions, in the lists and the history.       *)
HeldModesAgree ==
    \A n \in Nodes :
        LET heldAnimals == {row \in UNION held[n] : "species" \in DOMAIN row}
        IN  /\ \A animal \in heldAnimals :
                animalDetail(n, "junction", animal) =
                    animalDetail(n, "multi-reference", animal)
            /\ readRows(n, "animals") \subseteq heldAnimals =>
                /\ getAnimalHistory(n, "junction") = getAnimalHistory(n, "multi-reference")
                /\ \A trait \in readRows(n, "traits") :
                    listAnimals(n, "junction", trait) =
                        listAnimals(n, "multi-reference", trait)

(* A version of a node's own is written when its image is there to serve,  *)
(* whatever ran or crashed between the upload and the row.                 *)
ImageBeforeVersion ==
    [][\A n \in Nodes : \A version \in history'[n] \ history[n] :
        version.timeId.unique = n => blobReferencesOf(version.row) \subseteq blobs[n]]_vars
=============================================================================
