----------------------------- MODULE WebAppProofs -----------------------------
(***************************************************************************)
(* Theorems about WebApp.                                                  *)
(*                                                                         *)
(* TypeOK says little of the variables one by one, so Types gives them     *)
(* sets.  ShownIsAsked needs to know of every request in flight whose it   *)
(* is and what it can still do: Fits.                                      *)
(***************************************************************************)
EXTENDS WebApp, TLAPS

-----------------------------------------------------------------------------
(* The invariant.                                                          *)

Hashes == [page : AllPages, filter : Filters, query : Texts]
Cards == [of : Selection, pages : Nat]
Phases == {"loading", "failed", "shown", "notFound", "feed", "waiting", "pageFailed"}

View ==
    [no : Nat, hash : Hashes, selection : Selection, cards : Cards, phase : Phases,
     missing : Nat, subscribed : BOOLEAN, timer : BOOLEAN, saving : BOOLEAN]

Kinds == {"load", "page", "refresh", "save", "saved", "transfers",
          "transfersRead"}
Requests == [no : Nat, page : AllPages, kind : Kinds, selection : Selection, pages : Nat]
Dialogs ==
    [phase : {"closed", "loading", "unattributed", "failed", "listed"}, no : Nat,
     rows : SUBSET Nat]
Fields == [no : Nat, searches : {"list", "picker"}, text : Texts, selection : Selection]

(* What a change set of others or of a form of this page touches.          *)
Written == (SUBSET Tables) \cup {elementOf(page).saves : page \in AllPages}

Events ==
    {[name |-> "comment"], TopologyEvent}
    \cup [name : {"insert"}, changeSet : Written]
    \cup [name : {"sync"}, changeSet : Written, status : {"pending", "completed", "failed"},
          number : Nat]

StreamTypes ==
    /\ node \in [up : BOOLEAN, synced : Nat, topology : Nat, told : Nat,
                 pulling : SUBSET SUBSET Tables]
    /\ hub \in [open : BOOLEAN, unread : Seq(Events)]
    /\ stream \in [source : {"none", "connecting", "open"},
                   state : {"live", "reconnecting", "offline"}, reopen : BOOLEAN]
    /\ online \in BOOLEAN
    /\ budget \in [page : AllPages, changeSets : SUBSET SUBSET Tables, changes : Nat,
                   beats : Nat, breaks : Nat, faults : Nat, moves : Nat]

PageTypes ==
    /\ location \in Hashes
    /\ view \in View
    /\ requests \subseteq Requests
    /\ typed \subseteq Fields
    /\ leaked \subseteq Nat
    /\ dialog \in Dialogs

Answers == {<<>>} \cup Nat \X Nat

Feeds ==
    [cycle : {"idle", "asked", "answered"}, answer : Answers, latest : Answers,
     again : BOOLEAN, poll : BOOLEAN, event : BOOLEAN]

SharedTypes ==
    /\ feed \in Feeds
    /\ activity \in [running : SUBSET Written,
                     state : {"idle", "active", "trailing", "failed"}, timer : BOOLEAN]

(* The sink is never fuller than it may be and open only to an open        *)
(* stream between a page that is online and a node that is up; a stream    *)
(* that is gone is due to be opened again.                                 *)
StreamFits ==
    /\ Len(hub.unread) <= MaxUnread
    /\ hub.open => stream.source = "open" /\ node.up /\ online
    /\ stream.source = "none" => stream.reopen \/ ~online

Settled == view.phase \notin {"loading", "failed"}

(* A request names a view that is or was on screen.  The view's own        *)
(* request to load is out only while the view loads and asks for what is   *)
(* selected; any other request of it was made after it was shown, and one  *)
(* to refresh it asks for that as well, except in the list, which searches. *)
RequestFits(r) ==
    /\ r.no <= view.no
    /\ r.no = view.no =>
        /\ r.page = view.hash.page
        /\ r.kind = "load" =>
            view.phase = "loading" /\ r.selection = view.selection /\ r.pages = 0
        /\ r.kind # "load" => Settled
        /\ r.kind = "refresh" =>
            r.page # "new" /\ (r.page # "animals" => r.selection = view.selection)

(* The requests of the transfer dialog are not those of a view.            *)
OfView(r) == r.kind \notin {"transfers", "transfersRead"}

RequestsFit == \A r \in requests : OfView(r) => RequestFits(r)

FieldsFit ==
    \A field \in typed :
        /\ field.no <= view.no
        /\ field.no = view.no => Settled /\ field.searches = element.searches

ViewFits ==
    /\ view.timer => view.subscribed
    /\ view.subscribed => Settled /\ view.hash.page # "new"
    /\ leaked \subseteq 0 .. view.no

(* A side that lingers on has nothing running; a feed that rests is due.   *)
SharedFits ==
    /\ activity.running = {} <=> activity.state # "active"
    /\ activity.timer => activity.running = {}
    /\ feed.cycle = "idle" => feed.poll

PageInv == PageTypes /\ RequestsFit /\ FieldsFit /\ ViewFits /\ ShownIsAsked
Inv == StreamTypes /\ StreamFits /\ PageInv /\ SharedTypes /\ SharedFits

-----------------------------------------------------------------------------
(* Elements and events.                                                    *)

LEMMA Elements ==
    ASSUME NEW page \in AllPages
    PROVE  /\ elementOf(page).searches \in {"list", "picker", "nothing"}
           /\ elementOf(page).searches = "list" => page = "animals"
           /\ elementOf(page).searches = "picker" => page = "new"
           /\ page = "new" => elementOf(page).tables = {}
BY DEF elementOf, AllPages, Element, AnimalsList, AnimalDetailElement, OldVersionElement,
       AnimalFormElement, SpeciesList, BreedersList, InvoicesList, InvoiceDetailElement,
       InvoiceForm, NetworkView

LEMMA EventsOfChangeSets ==
    ASSUME NEW changeSet \in Written
    PROVE  /\ insertEventOf(changeSet) \in Events
           /\ \A outcome \in {"pending", "completed", "failed"} : \A number \in Nat :
                SyncEvent(changeSet, outcome, number) \in Events
BY DEF insertEventOf, SyncEvent, Events

LEMMA OtherEvents == TopologyEvent \in Events /\ [name |-> "comment"] \in Events
BY DEF Events

LEMMA NoSink ==
    /\ noSink \in [open : BOOLEAN, unread : Seq(Events)]
    /\ Len(noSink.unread) <= MaxUnread
    /\ ~noSink.open
<1>1. <<>> \in Seq(Events) /\ Len(<<>>) = 0
    OBVIOUS
<1>2. QED
    BY <1>1, StreamAssumption DEF noSink

(* What is delivered fits into the sink or drops it. *)
LEMMA Delivery ==
    ASSUME StreamTypes, StreamFits, NEW event \in Events, hub' = deliver(event)
    PROVE  /\ hub' \in [open : BOOLEAN, unread : Seq(Events)]
           /\ Len(hub'.unread) <= MaxUnread
           /\ hub'.open => hub.open
<1>1. hub.open \in BOOLEAN /\ hub.unread \in Seq(Events) /\ hub = [open |-> hub.open, unread |-> hub.unread]
    BY DEF StreamTypes
<1>2. MaxUnread \in Nat /\ Len(hub.unread) <= MaxUnread
    BY StreamAssumption DEF StreamFits
<1>3. CASE ~hub.open
    BY <1>1, <1>2, <1>3 DEF deliver
<1>4. CASE hub.open /\ Len(hub.unread) >= MaxUnread
    BY <1>4, NoSink DEF deliver
<1>5. CASE hub.open /\ ~(Len(hub.unread) >= MaxUnread)
    <2>1. hub' = [open |-> TRUE, unread |-> Append(hub.unread, event)]
        BY <1>1, <1>5 DEF deliver
    <2>2. /\ Append(hub.unread, event) \in Seq(Events)
          /\ Len(Append(hub.unread, event)) = Len(hub.unread) + 1
          /\ Len(hub.unread) \in Nat
        BY <1>1
    <2>3. Len(Append(hub.unread, event)) <= MaxUnread
        BY <2>2, <1>2, <1>5
    <2>4. QED
        BY <2>1, <2>2, <2>3, <1>5
<1>6. QED
    BY <1>3, <1>4, <1>5

LEMMA Spending ==
    ASSUME StreamTypes,
           NEW kind \in {"changes", "beats", "breaks", "faults", "moves"}, Spend(kind)
    PROVE  budget' \in [page : AllPages, changeSets : SUBSET SUBSET Tables, changes : Nat,
                        beats : Nat, breaks : Nat, faults : Nat, moves : Nat]
<1>1. budget[kind] > 0 /\ budget' = [budget EXCEPT ![kind] = @ - 1]
    BY DEF Spend
<1>2. CASE kind = "changes"
    <2>1. /\ budget' = [budget EXCEPT !["changes"] = budget["changes"] - 1]
          /\ budget["changes"] > 0
        BY <1>1, <1>2
    <2>2. budget["changes"] \in Nat
        BY DEF StreamTypes
    <2>3. budget["changes"] - 1 \in Nat
        BY <2>1, <2>2
    <2>4. QED
        BY <2>1, <2>3 DEF StreamTypes
<1>3. CASE kind = "beats"
    BY <1>1, <1>3 DEF StreamTypes
<1>4. CASE kind = "breaks"
    BY <1>1, <1>4 DEF StreamTypes
<1>5. CASE kind = "faults"
    BY <1>1, <1>5 DEF StreamTypes
<1>6. CASE kind = "moves"
    BY <1>1, <1>6 DEF StreamTypes
<1>7. QED
    BY <1>2, <1>3, <1>4, <1>5, <1>6

-----------------------------------------------------------------------------
(* The stream.                                                             *)

StreamInv == StreamTypes /\ StreamFits
StreamStays == UNCHANGED streamVars

LEMMA StreamUnchanged == ASSUME StreamInv, StreamStays PROVE StreamInv'
BY DEF StreamInv, StreamStays, streamVars, StreamTypes, StreamFits

(* Only the budget changes, or the stream is opened for a view.            *)
LEMMA StreamSpends ==
    ASSUME StreamInv, UNCHANGED <<node, hub, online>>,
           budget' = budget
             \/ \E kind \in {"changes", "beats", "breaks", "faults", "moves"} : Spend(kind),
           stream' = stream \/ stream' = ensureOpen
    PROVE  StreamInv'
<1>1. budget' \in [page : AllPages, changeSets : SUBSET SUBSET Tables, changes : Nat,
                   beats : Nat, breaks : Nat, faults : Nat, moves : Nat]
    <2>1. CASE budget' = budget
        BY <2>1 DEF StreamInv, StreamTypes
    <2>2. CASE \E kind \in {"changes", "beats", "breaks", "faults", "moves"} : Spend(kind)
        BY <2>2, Spending DEF StreamInv
    <2>3. QED
        BY <2>1, <2>2
<1>2. /\ stream' \in [source : {"none", "connecting", "open"},
                      state : {"live", "reconnecting", "offline"}, reopen : BOOLEAN]
      /\ hub.open => stream'.source = "open"
      /\ stream'.source = "none" => stream'.reopen \/ ~online
    BY DEF StreamInv, StreamTypes, StreamFits, ensureOpen, open
<1>3. QED
    BY <1>1, <1>2 DEF StreamInv, StreamTypes, StreamFits

(* A chunk goes to the sink, and the node counts what it did.              *)
LEMMA StreamPublishes ==
    ASSUME StreamInv, NEW event \in Events, hub' = deliver(event),
           UNCHANGED <<stream, online>>,
           node' \in [up : BOOLEAN, synced : Nat, topology : Nat, told : Nat,
                      pulling : SUBSET SUBSET Tables],
           node'.up = node.up,
           budget' = budget
             \/ \E kind \in {"changes", "beats", "breaks", "faults", "moves"} : Spend(kind)
    PROVE  StreamInv'
<1>1. /\ hub' \in [open : BOOLEAN, unread : Seq(Events)]
      /\ Len(hub'.unread) <= MaxUnread
      /\ hub'.open => hub.open
    BY Delivery DEF StreamInv
<1>2. budget' \in [page : AllPages, changeSets : SUBSET SUBSET Tables, changes : Nat,
                   beats : Nat, breaks : Nat, faults : Nat, moves : Nat]
    <2>1. CASE budget' = budget
        BY <2>1 DEF StreamInv, StreamTypes
    <2>2. CASE \E kind \in {"changes", "beats", "breaks", "faults", "moves"} : Spend(kind)
        BY <2>2, Spending DEF StreamInv
    <2>3. QED
        BY <2>1, <2>2
<1>3. QED
    BY <1>1, <1>2 DEF StreamInv, StreamTypes, StreamFits

LEMMA StreamStepKeeps == ASSUME StreamInv, StreamStep PROVE StreamInv'
<1> USE DEF StreamInv
<1>1. CASE Heartbeat
    <2>1. /\ hub' = deliver([name |-> "comment"]) /\ Spend("beats")
          /\ UNCHANGED <<node, stream, online>>
        BY <1>1 DEF Heartbeat
    <2>2. node' \in [up : BOOLEAN, synced : Nat, topology : Nat, told : Nat,
                     pulling : SUBSET SUBSET Tables]
        BY <2>1 DEF StreamTypes
    <2>3. QED
        BY <2>1, <2>2, StreamPublishes, OtherEvents
<1>2. CASE WrittenElsewhere
    <2>1. PICK changeSet \in budget.changeSets : ChangeSetWritten(changeSet)
        BY <1>2 DEF WrittenElsewhere
    <2>2. /\ hub' = deliver(insertEventOf(changeSet)) /\ UNCHANGED <<node, stream, online>>
          /\ Spend("changes")
        BY <1>2, <2>1 DEF WrittenElsewhere, ChangeSetWritten, publish
    <2>3. changeSet \in Written
        BY <2>1 DEF StreamTypes, Written
    <2>4. node' \in [up : BOOLEAN, synced : Nat, topology : Nat, told : Nat,
                     pulling : SUBSET SUBSET Tables]
        BY <2>2 DEF StreamTypes
    <2>5. insertEventOf(changeSet) \in Events
        BY <2>3, EventsOfChangeSets
    <2>6. QED
        BY <2>2, <2>4, <2>5, StreamPublishes
<1>3. CASE PullStarts
    <2>1. PICK changeSet \in budget.changeSets \ node.pulling :
            /\ node' = [node EXCEPT !.synced = @ + 1, !.pulling = @ \cup {changeSet}]
            /\ hub' = deliver(SyncEvent(changeSet, "pending", node.synced + 1))
        BY <1>3 DEF PullStarts, publish
    <2>2. Spend("changes") /\ UNCHANGED <<stream, online>>
        BY <1>3 DEF PullStarts
    <2>3. changeSet \in SUBSET Tables
        BY <2>1 DEF StreamTypes
    <2>4. changeSet \in Written
        BY <2>3 DEF Written
    <2>5. /\ node' \in [up : BOOLEAN, synced : Nat, topology : Nat, told : Nat,
                        pulling : SUBSET SUBSET Tables]
          /\ node'.up = node.up /\ node.synced + 1 \in Nat
        <3>1. node' = [up |-> node.up, synced |-> node.synced + 1, topology |-> node.topology,
                       told |-> node.told, pulling |-> node.pulling \cup {changeSet}]
            BY <2>1 DEF StreamTypes
        <3>2. /\ node.synced + 1 \in Nat
              /\ node.pulling \cup {changeSet} \in SUBSET SUBSET Tables
            BY <2>3 DEF StreamTypes
        <3>3. QED
            BY <3>1, <3>2 DEF StreamTypes
    <2>6. SyncEvent(changeSet, "pending", node.synced + 1) \in Events
        BY <2>4, <2>5, EventsOfChangeSets
    <2>7. QED
        BY <2>1, <2>2, <2>5, <2>6, StreamPublishes
<1>4. CASE PullEnds
    <2>1. PICK changeSet \in node.pulling, outcome \in {"completed", "failed"} :
            /\ node' = [node EXCEPT !.synced = @ + 1, !.pulling = @ \ {changeSet}]
            /\ hub' = deliver(SyncEvent(changeSet, outcome, node.synced + 1))
        BY <1>4 DEF PullEnds, publish
    <2>2. UNCHANGED <<stream, online, budget>>
        BY <1>4 DEF PullEnds
    <2>3. changeSet \in SUBSET Tables
        BY <2>1 DEF StreamTypes
    <2>4. changeSet \in Written
        BY <2>3 DEF Written
    <2>5. /\ node' \in [up : BOOLEAN, synced : Nat, topology : Nat, told : Nat,
                        pulling : SUBSET SUBSET Tables]
          /\ node'.up = node.up /\ node.synced + 1 \in Nat
        <3>1. node' = [up |-> node.up, synced |-> node.synced + 1, topology |-> node.topology,
                       told |-> node.told, pulling |-> node.pulling \ {changeSet}]
            BY <2>1 DEF StreamTypes
        <3>2. /\ node.synced + 1 \in Nat
              /\ node.pulling \ {changeSet} \in SUBSET SUBSET Tables
            BY DEF StreamTypes
        <3>3. QED
            BY <3>1, <3>2 DEF StreamTypes
    <2>6. SyncEvent(changeSet, outcome, node.synced + 1) \in Events
        BY <2>1, <2>4, <2>5, EventsOfChangeSets
    <2>7. QED
        BY <2>1, <2>2, <2>5, <2>6, StreamPublishes
<1>5. CASE TopologyCheck
    <2>1. /\ node' = [node EXCEPT !.told = node.topology]
          /\ hub' = deliver(TopologyEvent) /\ UNCHANGED <<stream, online, budget>>
        BY <1>5 DEF TopologyCheck, publish
    <2>2. /\ node' \in [up : BOOLEAN, synced : Nat, topology : Nat, told : Nat,
                        pulling : SUBSET SUBSET Tables]
          /\ node'.up = node.up
        BY <2>1 DEF StreamTypes
    <2>3. QED
        BY <2>1, <2>2, StreamPublishes, OtherEvents
<1>6. CASE TopologyChanges
    <2>1. budget' \in [page : AllPages, changeSets : SUBSET SUBSET Tables, changes : Nat,
                       beats : Nat, breaks : Nat, faults : Nat, moves : Nat]
        BY <1>6, Spending DEF TopologyChanges
    <2>2. node' = [node EXCEPT !.topology = @ + 1] /\ UNCHANGED <<hub, stream, online>>
        BY <1>6 DEF TopologyChanges
    <2>3. /\ node' \in [up : BOOLEAN, synced : Nat, topology : Nat, told : Nat,
                        pulling : SUBSET SUBSET Tables]
          /\ node'.up = node.up
        <3>1. node' = [up |-> node.up, synced |-> node.synced, topology |-> node.topology + 1,
                       told |-> node.told, pulling |-> node.pulling]
            BY <2>2 DEF StreamTypes
        <3>2. node.topology + 1 \in Nat
            BY DEF StreamTypes
        <3>3. QED
            BY <3>1, <3>2 DEF StreamTypes
    <2>4. QED
        BY <2>1, <2>2, <2>3 DEF StreamTypes, StreamFits
<1>7. CASE NodeStops
    <2>1. budget' \in [page : AllPages, changeSets : SUBSET SUBSET Tables, changes : Nat,
                       beats : Nat, breaks : Nat, faults : Nat, moves : Nat]
        BY <1>7, Spending DEF NodeStops
    <2>2. /\ node' = [node EXCEPT !.up = FALSE, !.pulling = {}]
          /\ hub' = noSink /\ UNCHANGED <<stream, online>>
        BY <1>7 DEF NodeStops
    <2>3. node' \in [up : BOOLEAN, synced : Nat, topology : Nat, told : Nat,
                     pulling : SUBSET SUBSET Tables]
        BY <2>2 DEF StreamTypes
    <2>4. QED
        BY <2>1, <2>2, <2>3, NoSink DEF StreamTypes, StreamFits
<1>8. CASE NodeStarts
    BY <1>8 DEF NodeStarts, StreamTypes, StreamFits
<1>9. CASE ConnectFails
    BY <1>9 DEF ConnectFails, downState, StreamTypes, StreamFits
<1>10. CASE ConnectIsRefused
    BY <1>10 DEF ConnectIsRefused, closedByError, downState, StreamTypes, StreamFits
<1>11. CASE Reopens
    <2>1. /\ stream' \in [source : {"none", "connecting", "open"},
                         state : {"live", "reconnecting", "offline"}, reopen : BOOLEAN]
          /\ stream'.source = "connecting" /\ UNCHANGED <<node, online, budget>>
        BY <1>11 DEF Reopens, open, StreamTypes
    <2>2. hub' = IF stream.source = "open" THEN noSink ELSE hub
        BY <1>11 DEF Reopens
    <2>3. hub.open => stream.source = "open"
        BY DEF StreamFits
    <2>4. hub' = noSink \/ (hub' = hub /\ ~hub.open)
        BY <2>2, <2>3
    <2>5. QED
        BY <2>1, <2>4, NoSink DEF StreamTypes, StreamFits
<1>12. CASE Breaks
    <2>1. budget' \in [page : AllPages, changeSets : SUBSET SUBSET Tables, changes : Nat,
                       beats : Nat, breaks : Nat, faults : Nat, moves : Nat]
        BY <1>12, Spending DEF Breaks, StreamTypes
    <2>2. /\ stream' \in [source : {"none", "connecting", "open"},
                         state : {"live", "reconnecting", "offline"}, reopen : BOOLEAN]
          /\ stream'.source = "connecting" /\ UNCHANGED <<node, online>> /\ hub' = noSink
        BY <1>12 DEF Breaks, downState, StreamTypes
    <2>3. QED
        BY <2>1, <2>2, NoSink DEF StreamTypes, StreamFits
<1>13. CASE GoesOffline
    <2>1. budget' \in [page : AllPages, changeSets : SUBSET SUBSET Tables, changes : Nat,
                       beats : Nat, breaks : Nat, faults : Nat, moves : Nat]
        BY <1>13, Spending DEF GoesOffline
    <2>2. /\ stream' \in [source : {"none", "connecting", "open"},
                         state : {"live", "reconnecting", "offline"}, reopen : BOOLEAN]
          /\ online' = FALSE /\ UNCHANGED node /\ hub' = noSink
        BY <1>13 DEF GoesOffline, StreamTypes
    <2>3. QED
        BY <2>1, <2>2, NoSink DEF StreamTypes, StreamFits
<1>14. CASE ComesOnline
    BY <1>14 DEF ComesOnline, open, StreamTypes, StreamFits
<1>15. QED
    BY <1>1, <1>2, <1>3, <1>4, <1>5, <1>6, <1>7, <1>8, <1>9, <1>10, <1>11, <1>12, <1>13,
       <1>14 DEF StreamStep

-----------------------------------------------------------------------------
(* Links.                                                                  *)

LEMMA Hashing ==
    /\ \A page \in AllPages, filter \in Filters, query \in Texts :
        Hash(page, filter, query) \in Hashes
    /\ \A page \in AllPages : bare(page) \in Hashes
    /\ \A hash \in Hashes, page \in AllPages : [hash EXCEPT !.page = page] \in Hashes
    /\ \A hash \in Hashes : selectionFromHash(hash) \in Selection
    /\ \A selection \in Selection : animalsHref(selection) \in Hashes
<1>1. NoFilter \in Filters /\ 0 \in Texts /\ "animals" \in AllPages
    BY WebAppAssumption DEF AllPages
<1>2. QED
    BY <1>1 DEF Hash, Hashes, bare, selectionFromHash, Selection, animalsHref

LEMMA LinksAreHashes == ASSUME PageTypes PROVE links \subseteq Hashes
<1>1. /\ {"animals", "animal", "version", "edit", "breeders", "invoices", "invoice", "new"}
            \subseteq AllPages
      /\ NoFilter \in Filters /\ 0 \in Texts
    BY WebAppAssumption DEF AllPages
<1>2. location \in Hashes /\ view \in View /\ view.selection \in Selection
    BY DEF PageTypes, View
<1>3. animalListHref \in Hashes
    BY <1>1, <1>2, Hashing DEF animalListHref, Hashes
<1>4. \A page \in AllPages : animalDetailHref(page) \in Hashes
    BY <1>3, Hashing DEF animalDetailHref
<1>5. filtered \subseteq Hashes
    BY <1>1, Hashing DEF filtered
<1>6. \A page \in AllPages : bare(page) \in Hashes
    BY Hashing
<1>7. \A page : detailView(page) \subseteq Hashes
    BY <1>1, <1>4, <1>5, <1>6
       DEF detailView, headingRow, factsBlock, traitChips, versionsSection,
           oldVersionNotice, editHref
<1>8. animalFilters(view.selection) \subseteq Hashes
    <2>1. \A filter \in Filters : [view.selection EXCEPT !.filter = filter] \in Selection
        BY <1>2 DEF Selection
    <2>2. QED
        BY <2>1, Hashing DEF animalFilters
<1>9. animalCard(view.selection) \in Hashes
    BY <1>1, <1>2, Hashing DEF animalCard
<1>10. content(view) \subseteq Hashes
    BY <1>1, <1>4, <1>5, <1>6, <1>7, <1>8, <1>9
       DEF content, animalForm, speciesCards, breederCards, invoiceCards, itemsBlock
<1>11. \A page : frame(page) \subseteq Hashes /\ notFoundView(page) \subseteq Hashes
    BY <1>1, <1>3, <1>6 DEF frame, notFoundView, viewHeader
<1>12. QED
    BY <1>10, <1>11 DEF links

-----------------------------------------------------------------------------
(* What a step does to the view on screen.                                 *)

(* A field that waits was there before, or is one of the view on screen.   *)
FieldStays(field) ==
    \/ field \in typed
    \/ field.no = view.no /\ Settled /\ field.searches = element.searches

(* What the picker of the view on screen waits for is still asked.         *)
Keeps(pending) == pickerAsks => Request("page", view.selection, 0) \in pending

(* Only the answer to its latest search ends the wait of the picker.       *)
LEMMA KeepsOthers ==
    ASSUME PageInv, NEW request,
           \/ request.kind # "page"
           \/ ~selectionIsAsked(request)
           \/ request.page # "new"
    PROVE  Keeps(requests \ {request})
<1>1. element.searches = "picker" => view.hash.page = "new"
    BY Elements DEF PageInv, PageTypes, View, Hashes, element
<1>2. QED
    BY <1>1 DEF Keeps, pickerAsks, Request, selectionIsAsked, mine

(* The view asks and shows what it did; requests end or fit it. *)
LEMMA Quiet ==
    ASSUME PageInv,
           view' \in View, view'.no = view.no, view'.hash = view.hash,
           view'.selection = view.selection, view'.cards = view.cards,
           view'.phase = view.phase, view'.subscribed = view.subscribed,
           view'.timer => view.subscribed,
           requests' \subseteq Requests, requests \subseteq requests' \/ Keeps(requests'),
           \A r \in requests' : ~OfView(r) \/ r \in requests \/ RequestFits(r),
           typed' \subseteq Fields, \A field \in typed' : FieldStays(field),
           location' \in Hashes, leaked' \subseteq 0 .. view.no, dialog' \in Dialogs
    PROVE  PageInv'
<1>1. view.no \in Nat
    BY DEF PageInv, PageTypes, View
<1>2. PageTypes'
    <2>1. leaked' \subseteq Nat
        BY <1>1
    <2>2. QED
        BY <2>1 DEF PageTypes
<1>3. RequestsFit'
    <2>1. SUFFICES ASSUME NEW r \in requests', OfView(r)
                   PROVE  RequestFits(r)'
        BY DEF RequestsFit
    <2>2. RequestFits(r)
        BY <2>1 DEF PageInv, RequestsFit
    <2>3. QED
        BY <2>2 DEF RequestFits, Settled
<1>4. FieldsFit'
    <2>1. SUFFICES ASSUME NEW field \in typed'
                   PROVE  /\ field.no <= view.no
                          /\ field.no = view.no => Settled /\ field.searches = element.searches
        BY DEF FieldsFit, Settled, element
    <2>2. QED
        BY <1>1 DEF PageInv, FieldsFit, FieldStays
<1>5. ViewFits'
    BY DEF PageInv, ViewFits, Settled
<1>6. ShownIsAsked'
    <2>1. pickerAsks => pickerAsks'
        BY DEF Keeps, pickerAsks, element, Request
    <2>2. QED
        BY <2>1 DEF PageInv, ShownIsAsked
<1>7. QED
    BY <1>2, <1>3, <1>4, <1>5, <1>6 DEF PageInv

(* A request of the view on screen that is not the one to load it. *)
Later(r, selection) ==
    /\ r.no = view.no /\ r.page = view.hash.page /\ r.kind # "load"
    /\ r.kind = "refresh" =>
        r.page # "new" /\ (r.page # "animals" => r.selection = selection)

(* The view is shown, or waits: what it shows answers what it asked last,  *)
(* and its request to load is over.                                        *)
LEMMA Settles ==
    ASSUME PageInv,
           view' \in View, view'.no = view.no, view'.hash = view.hash,
           view'.phase \notin {"loading", "failed"},
           view'.phase = "shown" => view'.cards.of = view'.selection \/ pickerAsks',
           view'.timer => view'.subscribed,
           view'.subscribed => view.hash.page # "new",
           requests' \subseteq Requests,
           \A r \in requests' :
             \/ ~OfView(r)
             \/ r \in requests /\ ~(r.kind = "load" /\ r.no = view.no)
             \/ Later(r, view'.selection),
           typed' \subseteq Fields, \A field \in typed' :
             field \in typed \/ (field.no = view.no /\ field.searches = element.searches),
           location' \in Hashes, leaked' \subseteq 0 .. view.no, dialog' \in Dialogs,
           \A r \in requests : r.kind = "refresh" /\ r.no = view.no
                => view.selection = view'.selection \/ r.page = "animals"
    PROVE  PageInv'
<1>1. view.no \in Nat
    BY DEF PageInv, PageTypes, View
<1>2. PageTypes'
    <2>1. leaked' \subseteq Nat
        BY <1>1
    <2>2. QED
        BY <2>1 DEF PageTypes
<1>3. RequestsFit'
    <2>1. SUFFICES ASSUME NEW r \in requests', OfView(r)
                   PROVE  RequestFits(r)'
        BY DEF RequestsFit
    <2>2. CASE Later(r, view'.selection)
        BY <1>1, <2>2 DEF Later, RequestFits, Settled
    <2>3. CASE r \in requests /\ ~(r.kind = "load" /\ r.no = view.no)
        <3>1. RequestFits(r)
            BY <2>1, <2>3 DEF PageInv, RequestsFit
        <3>2. QED
            BY <2>3, <3>1 DEF RequestFits, Settled
    <2>4. QED
        BY <2>1, <2>2, <2>3
<1>4. FieldsFit'
    <2>1. SUFFICES ASSUME NEW field \in typed'
                   PROVE  /\ field.no <= view.no
                          /\ field.no = view.no => field.searches = element.searches
        BY DEF FieldsFit, Settled, element
    <2>2. QED
        BY <1>1 DEF PageInv, FieldsFit
<1>5. ViewFits'
    BY DEF PageInv, ViewFits, Settled
<1>6. ShownIsAsked'
    BY DEF ShownIsAsked
<1>7. QED
    BY <1>2, <1>3, <1>4, <1>5, <1>6 DEF PageInv

LEMMA NewPage ==
    ASSUME NEW hash \in Hashes, NEW no \in Nat
    PROVE  /\ pageFor(hash, no) \in View
           /\ pageFor(hash, no).no = no /\ pageFor(hash, no).hash = hash
           /\ pageFor(hash, no).phase \in {"notFound", "feed", "loading"}
           /\ ~pageFor(hash, no).timer /\ ~pageFor(hash, no).subscribed
<1>1. selectionFromHash(hash) \in Selection
    BY Hashing
<1>2. noCards \in Cards
    <2>1. selectionFromHash(bare("animals")) \in Selection
        BY Hashing DEF AllPages
    <2>2. QED
        BY <2>1 DEF noCards, Cards
<1>3. QED
    BY <1>1, <1>2 DEF pageFor, View, Phases

LEMMA LoadOf ==
    ASSUME NEW shown \in View
    PROVE  /\ loadOf(shown) \in Requests /\ loadOf(shown).no = shown.no
           /\ loadOf(shown).page = shown.hash.page /\ loadOf(shown).kind = "load"
           /\ loadOf(shown).selection = shown.selection /\ loadOf(shown).pages = 0
BY DEF loadOf, Requests, Kinds, View, Hashes

(* Another view takes the place of the one on screen. *)
LEMMA Renders ==
    ASSUME PageInv, NEW hash \in Hashes, NEW pending \in SUBSET requests,
           requests \subseteq pending \/ Keeps(pending),
           render(hash, pending), typed' \subseteq typed, UNCHANGED <<leaked, dialog>>
    PROVE  PageInv'
<1>1. PageTypes
    BY DEF PageInv
<1>2. view.no \in Nat /\ leaked \subseteq 0 .. view.no
    BY <1>1 DEF PageTypes, View, PageInv, ViewFits
<1>3. CASE hash = location
    BY <1>1, <1>2, <1>3, Quiet DEF render, PageTypes, PageInv, ViewFits, FieldStays
<1>4. CASE hash # location
    <2>1. /\ location' = hash /\ view' = pageFor(hash, view.no + 1)
          /\ requests' = pending \cup IF view'.phase = "loading" THEN {loadOf(view')} ELSE {}
        BY <1>4 DEF render
    <2>2. /\ view' \in View /\ view'.no = view.no + 1
          /\ view'.phase \in {"notFound", "feed", "loading"}
          /\ ~view'.timer /\ ~view'.subscribed
        BY <1>2, <2>1, NewPage
    <2>3. /\ loadOf(view') \in Requests /\ loadOf(view').no = view'.no
          /\ loadOf(view').page = view'.hash.page /\ loadOf(view').kind = "load"
          /\ loadOf(view').selection = view'.selection /\ loadOf(view').pages = 0
        BY <2>2, LoadOf
    <2>4. PageTypes'
        BY <1>1, <2>1, <2>2, <2>3 DEF PageTypes
    <2>5. RequestsFit'
        <3>1. SUFFICES ASSUME NEW r \in requests', OfView(r)
                       PROVE  RequestFits(r)'
            BY DEF RequestsFit
        <3>2. CASE r \in pending
            <4>1. r.no <= view.no /\ r.no \in Nat
                BY <1>1, <3>1, <3>2 DEF PageInv, RequestsFit, RequestFits, PageTypes, Requests
            <4>2. r.no <= view'.no /\ r.no # view'.no
                BY <1>2, <2>2, <4>1
            <4>3. QED
                BY <4>2 DEF RequestFits
        <3>3. CASE r = loadOf(view') /\ view'.phase = "loading"
            BY <1>2, <2>2, <2>3, <3>3 DEF RequestFits
        <3>4. QED
            BY <2>1, <3>2, <3>3
    <2>6. FieldsFit'
        <3>1. SUFFICES ASSUME NEW field \in typed'
                       PROVE  field.no <= view'.no /\ field.no # view'.no
            BY DEF FieldsFit
        <3>2. field.no <= view.no /\ field.no \in Nat
            BY <1>1 DEF PageInv, FieldsFit, PageTypes, Fields
        <3>3. QED
            BY <1>2, <2>2, <3>2
    <2>7. ViewFits'
        BY <1>2, <2>2 DEF ViewFits
    <2>8. ShownIsAsked'
        BY <2>2 DEF ShownIsAsked
    <2>9. QED
        BY <2>4, <2>5, <2>6, <2>7, <2>8 DEF PageInv
<1>5. QED
    BY <1>3, <1>4

LEMMA RequestOf ==
    ASSUME PageTypes, NEW kind \in Kinds, NEW selection \in Selection, NEW pages \in Nat
    PROVE  /\ Request(kind, selection, pages) \in Requests
           /\ Request(kind, selection, pages).no = view.no
           /\ Request(kind, selection, pages).page = view.hash.page
           /\ Request(kind, selection, pages).kind = kind
           /\ Request(kind, selection, pages).selection = selection
           /\ Request(kind, selection, pages).pages = pages
BY DEF Request, Requests, PageTypes, View, Hashes

-----------------------------------------------------------------------------
(* The steps of the person.                                                *)

(* What every action may use of the view as it is. *)
LEMMA ViewNow ==
    ASSUME PageInv
    PROVE  /\ PageTypes /\ view \in View /\ view.no \in Nat
           /\ view.hash.page \in AllPages /\ view.selection \in Selection
           /\ view.cards.pages \in Nat /\ view.missing \in Nat /\ view.phase \in Phases
           /\ view.subscribed => view.hash.page # "new"
           /\ view.timer => view.subscribed
           /\ location \in Hashes /\ requests \subseteq Requests /\ typed \subseteq Fields
           /\ leaked \subseteq 0 .. view.no /\ dialog \in Dialogs
           /\ element.searches = "list" => view.hash.page = "animals"
           /\ element.searches = "picker" => view.hash.page = "new"
BY Elements DEF PageInv, PageTypes, View, Hashes, Cards, ViewFits, element

LEMMA SettledRequests ==
    ASSUME PageInv, Settled, NEW r \in requests, OfView(r)
    PROVE  ~(r.kind = "load" /\ r.no = view.no)
BY DEF PageInv, RequestsFit, RequestFits, Settled

(* The request to load the view is the only one of it there is. *)
LEMMA OneLoad ==
    ASSUME PageInv, NEW request \in requests, request.kind = "load", request.no = view.no,
           NEW r \in requests, r # request, OfView(r)
    PROVE  r.no # view.no /\ view.phase = "loading" /\ request.selection = view.selection
<1>1. RequestFits(request) /\ RequestFits(r)
    BY DEF PageInv, RequestsFit, OfView
<1>2. view.phase = "loading" /\ request.selection = view.selection
    BY <1>1 DEF RequestFits
<1>3. ASSUME r.no = view.no PROVE FALSE
    <2>1. r.kind = "load" /\ r.selection = view.selection /\ r.pages = 0 /\ r.page = view.hash.page
        BY <1>1, <1>2, <1>3 DEF RequestFits, Settled
    <2>2. /\ request.selection = view.selection /\ request.pages = 0
          /\ request.page = view.hash.page
        BY <1>1 DEF RequestFits
    <2>3. r \in Requests /\ request \in Requests
        BY ViewNow
    <2>4. r = request
        BY <1>3, <2>1, <2>2, <2>3 DEF Requests
    <2>5. QED
        BY <2>4
<1>4. QED
    BY <1>2, <1>3

LEMMA RequestKinds ==
    {"load", "page", "refresh", "save", "saved", "transfers", "transfersRead"} \subseteq Kinds
BY DEF Kinds

(* The list searches for something else. *)
LEMMA Searches ==
    ASSUME PageInv, Settled, element.searches = "list", NEW selection \in Selection,
           search(selection), typed' \subseteq typed, UNCHANGED <<leaked, dialog>>
    PROVE  PageInv'
<1>1. /\ location' = animalsHref(selection)
      /\ view' = [view EXCEPT !.selection = selection, !.phase = "waiting"]
      /\ requests' = requests \cup {Request("page", selection, 0)}
    BY DEF search, loadPage
<1>2. location' \in Hashes
    BY <1>1, Hashing
<1>3. /\ view' \in View /\ view'.no = view.no /\ view'.hash = view.hash
      /\ view'.selection = selection /\ view'.phase = "waiting"
      /\ view'.timer = view.timer /\ view'.subscribed = view.subscribed
    BY <1>1, ViewNow DEF View, Phases
<1>4. /\ Request("page", selection, 0) \in Requests
      /\ Later(Request("page", selection, 0), selection)
    BY RequestOf, RequestKinds, ViewNow DEF Later
<1>5. \A r \in requests : r.kind = "refresh" /\ r.no = view.no => r.page = "animals"
    BY ViewNow DEF PageInv, RequestsFit, OfView, RequestFits
<1>6. requests' \subseteq Requests
    BY <1>1, <1>4, ViewNow
<1>7. \A r \in requests' :
         \/ ~OfView(r)
         \/ r \in requests /\ ~(r.kind = "load" /\ r.no = view.no)
         \/ Later(r, view'.selection)
    BY <1>1, <1>3, <1>4, SettledRequests
<1>8. QED
    BY <1>2, <1>3, <1>5, <1>6, <1>7, Settles, ViewNow

LEMMA NextSearch ==
    ASSUME NEW selection \in Selection, NEW text \in Texts
    PROVE  searched(selection, text) \in Selection
<1>1. PICK n \in Nat : n = selection.search + 1
    BY DEF Selection
<1>2. searched(selection, text) = [selection EXCEPT !.query = text, !.search = n]
    BY <1>1 DEF searched
<1>3. QED
    BY <1>2 DEF Selection

LEMMA PersonKeepsPage == ASSUME PageInv, Person PROVE PageInv'
<1>1. CASE Navigate
    <2>1. PICK hash \in links \cup {bare(page) : page \in views \cup {"unknown"}} :
            render(hash, requests)
        BY <1>1 DEF Navigate
    <2>2. hash \in Hashes
        BY <2>1, LinksAreHashes, ViewNow, Hashing DEF views, AllPages
    <2>3. QED
        BY <1>1, <2>1, <2>2, Renders DEF Navigate, personOnly
<1>2. CASE Types
    <2>1. /\ element.searches # "nothing" /\ view.phase \notin {"loading", "failed"}
          /\ UNCHANGED <<location, view, requests, leaked, dialog>>
        BY <1>2 DEF Types, personOnly
    <2>2. PICK text \in Texts :
            typed' = othersTyped \cup {[no |-> view.no, searches |-> element.searches,
                                        text |-> text, selection |-> view.selection]}
        BY <1>2 DEF Types, typesInto
    <2>3. element.searches \in {"list", "picker"}
        BY <2>1, Elements, ViewNow DEF element
    <2>4. typed' \subseteq Fields /\ \A field \in typed' : FieldStays(field)
        BY <2>1, <2>2, <2>3, ViewNow DEF othersTyped, Fields, FieldStays, Settled
    <2>5. QED
        BY <2>1, <2>4, Quiet, ViewNow
<1>3. CASE Clears
    <2>1. /\ element.searches = "list" /\ Settled
          /\ typed' = othersTyped /\ UNCHANGED <<leaked, dialog>>
        BY <1>3 DEF Clears, personOnly, Settled
    <2>2. typed' \subseteq typed
        BY <2>1 DEF othersTyped
    <2>3. CASE UNCHANGED <<location, view, requests>>
        BY <2>1, <2>2, <2>3, Quiet, ViewNow DEF FieldStays
    <2>4. CASE search(searched(view.selection, 0))
        <3>1. searched(view.selection, 0) \in Selection
            BY NextSearch, ViewNow, WebAppAssumption
        <3>2. QED
            BY <2>1, <2>2, <2>4, <3>1, Searches
    <2>5. QED
        BY <1>3, <2>3, <2>4 DEF Clears
<1>4. CASE LoadMore
    <2>1. /\ view.phase = "shown"
          /\ requests' = requests \cup {Request("page", view.selection, view.cards.pages)}
          /\ UNCHANGED <<location, view, typed, leaked, dialog>>
        BY <1>4 DEF LoadMore, loadPage, personOnly
    <2>2. /\ Request("page", view.selection, view.cards.pages) \in Requests
          /\ RequestFits(Request("page", view.selection, view.cards.pages))
        BY <2>1, RequestOf, RequestKinds, ViewNow DEF RequestFits, Settled
    <2>3. QED
        BY <2>1, <2>2, Quiet, ViewNow DEF FieldStays
<1>5. CASE Submit
    <2>1. /\ view.phase \notin {"loading", "failed"}
          /\ view' = [view EXCEPT !.saving = TRUE]
          /\ requests' = requests \cup {Request("save", view.selection, 0)}
          /\ UNCHANGED <<location, typed, leaked, dialog>>
        BY <1>5 DEF Submit, personOnly
    <2>2. /\ Request("save", view.selection, 0) \in Requests
          /\ RequestFits(Request("save", view.selection, 0))
        BY <2>1, RequestOf, RequestKinds, ViewNow DEF RequestFits, Settled
    <2>3. /\ view' \in View /\ view'.no = view.no /\ view'.hash = view.hash
          /\ view'.selection = view.selection /\ view'.cards = view.cards
          /\ view'.phase = view.phase /\ view'.subscribed = view.subscribed
          /\ view'.timer = view.timer
        BY <2>1, ViewNow DEF View
    <2>4. QED
        BY <2>1, <2>2, <2>3, Quiet, ViewNow DEF FieldStays
<1>6. CASE Retry
    <2>1. UNCHANGED <<location, typed, leaked, dialog>>
        BY <1>6 DEF Retry, personOnly
    <2>2. CASE /\ view.phase = "failed"
               /\ view' = [view EXCEPT !.phase = "loading",
                                       !.selection = selectionFromHash(location)]
               /\ requests' = requests \cup {loadOf(view')}
        <3>1. selectionFromHash(location) \in Selection
            BY Hashing, ViewNow
        <3>2. /\ view' \in View /\ view'.no = view.no /\ view'.hash = view.hash
              /\ view'.phase = "loading" /\ view'.timer = view.timer
              /\ view'.subscribed = view.subscribed
            BY <2>2, <3>1, ViewNow DEF View, Phases
        <3>3. /\ loadOf(view') \in Requests /\ loadOf(view').no = view'.no
              /\ loadOf(view').page = view'.hash.page /\ loadOf(view').kind = "load"
              /\ loadOf(view').selection = view'.selection /\ loadOf(view').pages = 0
            BY <3>2, LoadOf
        <3>4. PageTypes'
            BY <2>1, <2>2, <3>2, <3>3, ViewNow DEF PageTypes
        <3>5. \A r \in requests : OfView(r) => r.no # view.no /\ r.no <= view.no
            BY <2>2 DEF PageInv, RequestsFit, RequestFits, Settled
        <3>6. RequestsFit'
            BY <2>2, <3>2, <3>3, <3>5, ViewNow DEF RequestsFit, RequestFits
        <3>7. FieldsFit'
            BY <2>1, <2>2, <3>2 DEF PageInv, FieldsFit, Settled
        <3>8. ViewFits'
            BY <2>1, <2>2, <3>2 DEF PageInv, ViewFits, Settled
        <3>9. QED
            BY <3>2, <3>4, <3>6, <3>7, <3>8 DEF PageInv, ShownIsAsked
    <2>3. CASE /\ view.phase = "pageFailed"
               /\ loadPage(view.selection, view.missing)
               /\ view' = [view EXCEPT !.phase = IF view.missing = 0 THEN "waiting" ELSE @]
        <3>1. /\ view' \in View /\ view'.no = view.no /\ view'.hash = view.hash
              /\ view'.selection = view.selection /\ view'.phase \in {"waiting", "pageFailed"}
              /\ view'.timer = view.timer /\ view'.subscribed = view.subscribed
            BY <2>3, ViewNow DEF View, Phases
        <3>2. requests' = requests \cup {Request("page", view.selection, view.missing)}
            BY <2>3 DEF loadPage
        <3>3. /\ Request("page", view.selection, view.missing) \in Requests
              /\ Later(Request("page", view.selection, view.missing), view.selection)
            BY RequestOf, RequestKinds, ViewNow DEF Later
        <3>4. \A r \in requests' :
                 \/ ~OfView(r)
                 \/ r \in requests /\ ~(r.kind = "load" /\ r.no = view.no)
                 \/ Later(r, view'.selection)
            BY <2>3, <3>1, <3>2, <3>3, SettledRequests DEF Settled
        <3>5. requests' \subseteq Requests
            BY <3>2, <3>3, ViewNow
        <3>6. QED
            BY <2>1, <3>1, <3>4, <3>5, Settles, ViewNow
    <2>4. CASE UNCHANGED <<view, requests>>
        BY <2>1, <2>4, Quiet, ViewNow DEF FieldStays
    <2>5. QED
        BY <1>6, <2>2, <2>3, <2>4 DEF Retry
<1>7. CASE OpenDialog
    <2>1. UNCHANGED <<location, view, typed, leaked>>
        BY <1>7 DEF OpenDialog
    <2>2. dialog' \in Dialogs
        BY <1>7, ViewNow DEF OpenDialog, Dialogs
    <2>3. \/ requests' = requests
          \/ requests' = requests \cup
                {[Request("transfers", view.selection, 0) EXCEPT !.no = dialog.no + 1]}
        BY <1>7 DEF OpenDialog, askForTransfers
    <2>4. [Request("transfers", view.selection, 0) EXCEPT !.no = dialog.no + 1] \in Requests
        BY RequestOf, RequestKinds, ViewNow DEF Requests, Dialogs
    <2>5. [Request("transfers", view.selection, 0) EXCEPT !.no = dialog.no + 1].kind
            = "transfers"
        BY DEF Request
    <2>6. QED
        BY <2>1, <2>2, <2>3, <2>4, <2>5, Quiet, ViewNow DEF FieldStays, OfView
<1>8. CASE RetryDialog
    <2>1. UNCHANGED <<location, view, typed, leaked, dialog>>
        BY <1>8 DEF RetryDialog, personOnly
    <2>2. requests' = requests \cup
                {[Request("transfers", view.selection, 0) EXCEPT !.no = dialog.no]}
        BY <1>8 DEF RetryDialog, askForTransfers
    <2>3. [Request("transfers", view.selection, 0) EXCEPT !.no = dialog.no] \in Requests
        BY RequestOf, RequestKinds, ViewNow DEF Requests, Dialogs
    <2>4. [Request("transfers", view.selection, 0) EXCEPT !.no = dialog.no].kind
            = "transfers"
        BY DEF Request
    <2>5. QED
        BY <2>1, <2>2, <2>3, <2>4, Quiet, ViewNow DEF FieldStays, OfView
<1>9. CASE CloseDialog
    <2>1. dialog' \in Dialogs
        BY <1>9, ViewNow DEF CloseDialog, Dialogs
    <2>2. QED
        BY <1>9, <2>1, Quiet, ViewNow DEF CloseDialog, FieldStays
<1>10. QED
    BY <1>1, <1>2, <1>3, <1>4, <1>5, <1>6, <1>7, <1>8, <1>9 DEF Person

-----------------------------------------------------------------------------
(* Answers.                                                                *)

(* A view that is shown gets an answer to what it asked. *)
LEMMA SettledView ==
    ASSUME PageInv, Settled, NEW request \in requests,
           requests' = requests \ {request},
           view' \in View, view'.no = view.no, view'.hash = view.hash,
           view'.selection = view.selection, view'.phase \notin {"loading", "failed"},
           view'.phase = "shown" => view'.cards.of = view.selection,
           view'.timer = view.timer, view'.subscribed = view.subscribed,
           UNCHANGED <<location, typed, leaked, dialog>>
    PROVE  PageInv'
<1>1. \A r \in requests' :
         \/ ~OfView(r)
         \/ r \in requests /\ ~(r.kind = "load" /\ r.no = view.no)
         \/ Later(r, view'.selection)
    BY SettledRequests
<1>2. requests' \subseteq Requests
    BY ViewNow
<1>3. QED
    BY <1>1, <1>2, Settles, ViewNow

(* A request ends and the view stays as it is, but for its button. *)
LEMMA Dropped ==
    ASSUME PageInv, NEW request \in requests, requests' = requests \ {request},
           Keeps(requests'),
           \/ view' = view
           \/ view' = [view EXCEPT !.saving = FALSE],
           UNCHANGED <<location, typed, leaked>>, dialog' \in Dialogs
    PROVE  PageInv'
<1>1. /\ view' \in View /\ view'.no = view.no /\ view'.hash = view.hash
      /\ view'.selection = view.selection /\ view'.cards = view.cards
      /\ view'.phase = view.phase /\ view'.subscribed = view.subscribed
      /\ view'.timer = view.timer
    BY ViewNow DEF View
<1>2. requests' \subseteq Requests
    BY ViewNow
<1>3. QED
    BY <1>1, <1>2, Quiet, ViewNow DEF FieldStays

(* The request of a view that was asked for something else than to load.   *)
LEMMA Mine ==
    ASSUME PageInv, NEW request \in requests, request.kind # "load", OfView(request),
           mine(request)
    PROVE  /\ Settled /\ request.page = view.hash.page
           /\ request.kind = "refresh" /\ request.page # "animals"
                => request.selection = view.selection
BY DEF PageInv, RequestsFit, RequestFits, mine

LEMMA LoadKeepsPage ==
    ASSUME PageInv, NEW request \in requests,
           Loaded(request) \/ NotFound(request) \/ LoadFails(request)
    PROVE  PageInv'
<1>1. /\ request.kind = "load" /\ requests' = requests \ {request}
      /\ UNCHANGED <<typed, location, dialog>>
    BY DEF Loaded, NotFound, LoadFails, answered, failed, asked, ontoScreen
<1>2. request \in Requests /\ request.no <= view.no /\ request.no \in Nat
    BY <1>1, ViewNow DEF PageInv, RequestsFit, OfView, RequestFits, Requests
<1>3. requests' \subseteq Requests
    BY <1>1, ViewNow
<1>4. CASE ~mine(request)
    <2>1. view' = view /\ (leaked' = leaked \/ leaked' = leaked \cup {request.no})
        BY <1>4 DEF Loaded, NotFound, LoadFails, failed, ontoScreen
    <2>2. leaked' \subseteq 0 .. view.no
        BY <1>2, <2>1, ViewNow
    <2>3. Keeps(requests')
        BY <1>1, KeepsOthers
    <2>4. QED
        BY <1>1, <1>3, <2>1, <2>2, <2>3, Quiet, ViewNow DEF FieldStays
<1>5. CASE mine(request)
    <2>1. leaked' = leaked
        BY <1>5 DEF Loaded, NotFound, LoadFails, failed, ontoScreen
    <2>2. /\ request.no = view.no /\ view.phase = "loading"
          /\ request.selection = view.selection /\ request.selection \in Selection
        BY <1>1, <1>2, <1>5 DEF mine, PageInv, RequestsFit, OfView, RequestFits, Requests
    <2>3. \A r \in requests' : OfView(r) => r.no # view.no
        BY <1>1, <2>2, OneLoad
    <2>4. ~view.timer /\ ~view.subscribed
        BY <2>2 DEF PageInv, ViewFits, Settled
    <2>5. CASE Loaded(request)
        <3>1. view' = [view EXCEPT !.phase = "shown",
                          !.cards = [of |-> request.selection, pages |-> 1],
                          !.subscribed = element.tables # {}]
            BY <1>5, <2>5 DEF Loaded
        <3>2. /\ view' \in View /\ view'.no = view.no /\ view'.hash = view.hash
              /\ view'.selection = view.selection /\ view'.phase = "shown"
              /\ view'.cards.of = view.selection /\ view'.timer = view.timer
              /\ view'.subscribed = (element.tables # {})
            BY <2>2, <3>1, ViewNow DEF View, Phases, Cards
        <3>3. view'.subscribed => view.hash.page # "new"
            BY <3>2, Elements, ViewNow DEF element
        <3>4. QED
            BY <1>1, <1>3, <2>1, <2>3, <2>4, <3>2, <3>3, Settles, ViewNow
    <2>6. CASE NotFound(request)
        <3>1. /\ view' \in View /\ view'.no = view.no /\ view'.hash = view.hash
              /\ view'.selection = view.selection /\ view'.phase = "notFound"
              /\ view'.timer = view.timer /\ view'.subscribed = view.subscribed
            BY <2>6, ViewNow DEF NotFound, View, Phases
        <3>2. QED
            BY <1>1, <1>3, <2>1, <2>3, <2>4, <3>1, Settles, ViewNow
    <2>7. CASE LoadFails(request)
        <3>1. view' = [view EXCEPT !.phase = "failed"]
            BY <1>5, <2>7 DEF LoadFails
        <3>2. /\ view' \in View /\ view'.no = view.no /\ view'.hash = view.hash
              /\ view'.selection = view.selection /\ view'.phase = "failed"
              /\ view'.timer = view.timer /\ view'.subscribed = view.subscribed
            BY <3>1, ViewNow DEF View, Phases
        <3>3. PageTypes'
            BY <1>1, <1>3, <2>1, <3>2, ViewNow DEF PageTypes
        <3>4. RequestsFit'
            BY <1>1, <2>3, <3>2 DEF PageInv, RequestsFit, RequestFits
        <3>5. FieldsFit'
            BY <1>1, <2>2, <3>2 DEF PageInv, FieldsFit, Settled
        <3>6. ViewFits'
            BY <2>1, <2>4, <3>2 DEF PageInv, ViewFits
        <3>7. QED
            BY <3>2, <3>3, <3>4, <3>5, <3>6 DEF PageInv, ShownIsAsked
    <2>8. QED
        BY <2>5, <2>6, <2>7
<1>6. QED
    BY <1>4, <1>5

LEMMA PageKeepsPage ==
    ASSUME PageInv, NEW request \in requests,
           \/ PageArrives(request) \/ renderPicker(request) \/ PageFails(request)
           \/ Refreshed(request) \/ Replaced(request) \/ RefreshFails(request)
    PROVE  PageInv'
<1>1. /\ request.kind \in {"page", "refresh"} /\ requests' = requests \ {request}
      /\ UNCHANGED <<typed, location, leaked, dialog>>
    BY DEF PageArrives, renderPicker, PageFails, Refreshed, Replaced, RefreshFails,
           answered, failed, asked, ontoScreen
<1>2. request.selection \in Selection /\ request.pages \in Nat
    BY ViewNow DEF Requests
<1>3. CASE view' = view /\ Keeps(requests')
    BY <1>1, <1>3, Dropped, ViewNow
<1>4. CASE mine(request) /\ ~(view' = view /\ Keeps(requests'))
    <2>1. /\ Settled
          /\ request.kind = "refresh" /\ request.page # "animals"
                => request.selection = view.selection
        BY <1>1, <1>4, Mine DEF OfView
    <2>0. /\ Keeps(requests') => view' # view
          /\ ~selectionIsAsked(request) => Keeps(requests')
          /\ request.kind # "page" \/ request.page # "new" => Keeps(requests')
        BY <1>1, <1>4, KeepsOthers
    <2>2. CASE PageArrives(request)
        <3>1. view' = showPage(request) /\ request.selection = view.selection
            BY <2>0, <2>2 DEF PageArrives, selectionIsAsked
        <3>2. PICK n \in Nat : n = IF request.pages = 0 THEN 1 ELSE view.cards.pages + 1
            BY ViewNow
        <3> DEFINE cards == [of |-> request.selection, pages |-> n]
        <3>3. cards \in Cards /\ cards.of = view.selection
            BY <1>2, <3>1, <3>2 DEF Cards
        <3>4. view' = [view EXCEPT !.phase = "shown", !.missing = 0, !.cards = cards]
            <4>1. cards = [of |-> request.selection,
                           pages |-> IF request.pages = 0 THEN 1 ELSE view.cards.pages + 1]
                BY <3>2
            <4>2. QED
                BY <3>1, <4>1, Zenon DEF showPage
        <3> HIDE DEF cards
        <3>5. /\ view' \in View /\ view'.no = view.no /\ view'.hash = view.hash
              /\ view'.selection = view.selection /\ view'.phase = "shown"
              /\ view'.cards = cards
              /\ view'.timer = view.timer /\ view'.subscribed = view.subscribed
            BY <3>3, <3>4, ViewNow DEF View, Phases
        <3>6. QED
            BY <1>1, <2>1, <3>3, <3>5, SettledView
    <2>3. CASE PageFails(request)
        <3>1. view' = [view EXCEPT !.phase = "pageFailed", !.missing = request.pages]
            BY <2>0, <2>3 DEF PageFails
        <3>2. /\ view' \in View /\ view'.no = view.no /\ view'.hash = view.hash
              /\ view'.selection = view.selection /\ view'.phase = "pageFailed"
              /\ view'.timer = view.timer /\ view'.subscribed = view.subscribed
            BY <1>2, <3>1, ViewNow DEF View, Phases
        <3>3. QED
            BY <1>1, <2>1, <3>2, SettledView
    <2>4. CASE renderPicker(request) \/ Refreshed(request)
        <3>1. /\ view' = [view EXCEPT !.phase = "shown", !.cards.of = request.selection]
              /\ request.selection = view.selection
            BY <2>0, <2>4 DEF renderPicker, Refreshed, selectionIsAsked, answered, asked
        <3>2. /\ view' \in View /\ view'.no = view.no /\ view'.hash = view.hash
              /\ view'.selection = view.selection /\ view'.phase = "shown"
              /\ view'.cards.of = view.selection
              /\ view'.timer = view.timer /\ view'.subscribed = view.subscribed
            BY <1>2, <3>1, ViewNow DEF View, Phases, Cards
        <3>3. QED
            BY <1>1, <2>1, <3>2, SettledView
    <2>5. CASE Replaced(request)
        <3>1. /\ view' = [view EXCEPT !.cards.of = request.selection]
              /\ request.selection = view.selection
            BY <2>0, <1>4, <2>1, <2>5 DEF Replaced, answered, asked
        <3>2. /\ view' \in View /\ view'.no = view.no /\ view'.hash = view.hash
              /\ view'.selection = view.selection /\ view'.phase = view.phase
              /\ view'.cards.of = view.selection
              /\ view'.timer = view.timer /\ view'.subscribed = view.subscribed
            BY <1>2, <3>1, ViewNow DEF View, Cards
        <3>3. QED
            BY <1>1, <2>1, <3>2, SettledView DEF Settled
    <2>6. QED
        BY <2>0, <2>2, <2>3, <2>4, <2>5 DEF RefreshFails, failed, asked
<1>5. CASE ~mine(request)
    <2>1. Keeps(requests')
        BY <1>1, <1>5, KeepsOthers DEF selectionIsAsked
    <2>2. QED
        BY <1>3, <1>5, <2>1
           DEF PageArrives, renderPicker, PageFails, Refreshed, Replaced, RefreshFails,
               selectionIsAsked
<1>6. QED
    BY <1>3, <1>4, <1>5

LEMMA SaveKeepsPage ==
    ASSUME PageInv, NEW request \in requests,
           Saves(request) \/ Saved(request) \/ Uploaded(request) \/ SaveFails(request)
    PROVE  PageInv'
<1>1. CASE Saves(request)
    <2>1. /\ request.kind = "save"
          /\ requests' = (requests \ {request}) \cup {[request EXCEPT !.kind = "saved"]}
          /\ UNCHANGED <<location, view, typed, leaked, dialog>>
        BY <1>1 DEF Saves
    <2>2. request \in Requests /\ RequestFits(request)
        BY <2>1, ViewNow DEF PageInv, RequestsFit, OfView
    <2>3. /\ [request EXCEPT !.kind = "saved"] \in Requests
          /\ RequestFits([request EXCEPT !.kind = "saved"])
        BY <2>1, <2>2, RequestKinds DEF Requests, RequestFits
    <2>4. requests' \subseteq Requests
        BY <2>1, <2>3, ViewNow
    <2>5. Keeps(requests')
        BY <2>1, KeepsOthers DEF Keeps
    <2>6. QED
        BY <2>1, <2>3, <2>4, <2>5, Quiet, ViewNow DEF FieldStays
<1>2. CASE Saved(request)
    <2>1. PICK hash \in {bare("invoice"), animalDetailHref("animal")} :
            render(hash, requests \ {request})
        BY <1>2 DEF Saved
    <2>2. hash \in Hashes
        <3>1. {"animals", "animal", "invoice"} \subseteq AllPages
            BY DEF AllPages
        <3>2. animalListHref \in Hashes
            BY <3>1, Hashing, ViewNow DEF animalListHref, Hashes
        <3>3. QED
            BY <2>1, <3>1, <3>2, Hashing DEF animalDetailHref
    <2>3. UNCHANGED <<typed, leaked, dialog>>
        BY <1>2 DEF Saved
    <2>4. requests \ {request} \in SUBSET requests /\ Keeps(requests \ {request})
        BY <1>2, KeepsOthers DEF Saved
    <2>5. QED
        BY <2>1, <2>2, <2>3, <2>4, Renders
<1>3. CASE Uploaded(request) \/ SaveFails(request)
    <2>1. /\ requests' = requests \ {request}
          /\ view' = view \/ view' = [view EXCEPT !.saving = FALSE]
          /\ request.kind # "page" /\ UNCHANGED <<location, typed, leaked, dialog>>
        BY <1>3 DEF Uploaded, SaveFails, answered, failed, asked, ontoScreen
    <2>2. Keeps(requests')
        BY <2>1, KeepsOthers
    <2>3. QED
        BY <2>1, <2>2, Dropped, ViewNow
<1>4. QED
    BY <1>1, <1>2, <1>3

LEMMA TransfersKeepPage ==
    ASSUME PageInv, StreamTypes, NEW request \in requests,
           \/ TransfersAreRead(request) \/ TransfersArrive(request)
           \/ TransfersFail(request)
    PROVE  PageInv'
<1>1. request \in Requests
    BY ViewNow
<1>2. CASE TransfersAreRead(request)
    <2>1. /\ request.kind = "transfers"
          /\ requests' = (requests \ {request}) \cup
                {[request EXCEPT !.kind = "transfersRead", !.pages = node.synced]}
          /\ UNCHANGED <<location, view, typed, leaked, dialog>>
        BY <1>2 DEF TransfersAreRead
    <2>2. node.synced \in Nat
        BY DEF StreamTypes
    <2>3. /\ [request EXCEPT !.kind = "transfersRead", !.pages = node.synced] \in Requests
          /\ [request EXCEPT !.kind = "transfersRead", !.pages = node.synced].kind
                = "transfersRead"
        BY <1>1, <2>2, RequestKinds DEF Requests
    <2>4. requests' \subseteq Requests
        BY <2>1, <2>3, ViewNow
    <2>5. Keeps(requests')
        BY <2>1, KeepsOthers DEF Keeps
    <2>6. QED
        BY <2>1, <2>3, <2>4, <2>5, Quiet, ViewNow DEF FieldStays, OfView
<1>3. CASE TransfersArrive(request) \/ TransfersFail(request)
    <2>1. /\ requests' = requests \ {request} /\ request.kind # "page"
          /\ UNCHANGED <<location, typed, leaked, view>>
        BY <1>3 DEF TransfersArrive, TransfersFail, answered, asked
    <2>2. request.pages \in Nat
        BY <1>1 DEF Requests
    <2>3. 1 .. request.pages \in SUBSET Nat
        BY <2>2
    <2>4. dialog' \in Dialogs
        BY <1>3, <2>3, ViewNow DEF TransfersArrive, TransfersFail, Dialogs
    <2>5. Keeps(requests')
        BY <2>1, KeepsOthers
    <2>6. QED
        BY <2>1, <2>4, <2>5, Dropped
<1>4. QED
    BY <1>2, <1>3

LEMMA AnswerKeepsPage ==
    ASSUME PageInv, StreamTypes, NEW request \in requests, Answer(request)
    PROVE  PageInv'
BY LoadKeepsPage, PageKeepsPage, SaveKeepsPage, TransfersKeepPage DEF Answer

-----------------------------------------------------------------------------
(* Timers and events.                                                      *)

LEMMA FieldKeepsPage ==
    ASSUME PageInv, NEW field \in typed, Search(field) \/ searchAnimals(field)
    PROVE  PageInv'
<1>1. /\ typed' \subseteq typed /\ UNCHANGED <<leaked, dialog>>
    BY DEF Search, searchAnimals
<1>2. /\ field.selection \in Selection /\ field.text \in Texts
      /\ field.no = view.no => Settled /\ field.searches = element.searches
    BY ViewNow DEF Fields, PageInv, FieldsFit
<1>3. \A other \in typed' : FieldStays(other)
    BY <1>1 DEF FieldStays
<1>4. CASE UNCHANGED <<location, view, requests>>
    BY <1>1, <1>3, <1>4, Quiet, ViewNow
<1>5. CASE Search(field) /\ ~(UNCHANGED <<location, view, requests>>)
    <2>1. searched(field.selection, field.text) \in Selection
        BY <1>2, NextSearch
    <2>2. CASE field.no = view.no
        <3>1. search(searched(field.selection, field.text)) /\ field.searches = "list"
            BY <1>5, <2>2 DEF Search
        <3>2. QED
            BY <1>1, <1>2, <2>1, <2>2, <3>1, Searches
    <2>3. CASE field.no # view.no
        <3>1. /\ location' = animalsHref(searched(field.selection, field.text))
              /\ UNCHANGED <<view, requests>>
            BY <1>5, <2>3 DEF Search
        <3>2. location' \in Hashes
            BY <2>1, <3>1, Hashing
        <3>3. QED
            BY <1>1, <1>3, <3>1, <3>2, Quiet, ViewNow
    <2>4. QED
        BY <2>2, <2>3
<1>6. CASE searchAnimals(field) /\ ~(UNCHANGED <<location, view, requests>>)
    <2>1. /\ field.no = view.no /\ field.searches = "picker" /\ location' = location
          /\ view' = [view EXCEPT !.selection.query = field.text]
          /\ requests' = requests \cup {Request("page", view'.selection, 0)}
        BY <1>6 DEF searchAnimals
    <2>2. [view.selection EXCEPT !.query = field.text] \in Selection
        BY <1>2, ViewNow DEF Selection
    <2>3. /\ view' \in View /\ view'.no = view.no /\ view'.hash = view.hash
          /\ view'.selection \in Selection /\ view'.phase = view.phase
          /\ view'.timer = view.timer /\ view'.subscribed = view.subscribed
        BY <2>1, <2>2, ViewNow DEF View, Phases
    <2>4. /\ Request("page", view'.selection, 0) \in Requests
          /\ Later(Request("page", view'.selection, 0), view'.selection)
        BY <2>3, RequestOf, RequestKinds, ViewNow DEF Later
    <2>5. requests' \subseteq Requests
        BY <2>1, <2>4, ViewNow
    <2>6. Settled /\ view.hash.page = "new"
        BY <1>2, <2>1, ViewNow
    <2>7. \A r \in requests' :
             \/ ~OfView(r)
             \/ r \in requests /\ ~(r.kind = "load" /\ r.no = view.no)
             \/ Later(r, view'.selection)
        BY <2>1, <2>4, <2>6, SettledRequests
    <2>8. \A r \in requests : ~(r.kind = "refresh" /\ r.no = view.no)
        BY <2>6 DEF PageInv, RequestsFit, OfView, RequestFits
    <2>9. pickerAsks'
        BY <1>2, <2>1, <2>3 DEF pickerAsks, Request, element
    <2>10. QED
        BY <1>1, <2>1, <2>3, <2>5, <2>6, <2>7, <2>8, <2>9, Settles, ViewNow DEF Settled
<1>7. QED
    BY <1>4, <1>5, <1>6

(* The pause of a burst starts again in a view that follows the events. *)
LEMMA SchedulesPage ==
    ASSUME PageInv, view' = view \/ view' = schedule,
           UNCHANGED <<location, requests, typed, leaked>>, dialog' \in Dialogs
    PROVE  PageInv'
<1>1. /\ view' \in View /\ view'.no = view.no /\ view'.hash = view.hash
      /\ view'.selection = view.selection /\ view'.cards = view.cards
      /\ view'.phase = view.phase /\ view'.subscribed = view.subscribed
      /\ view'.timer => view.subscribed
    BY ViewNow DEF schedule, View
<1>2. QED
    BY <1>1, Quiet, ViewNow DEF FieldStays

LEMMA RefreshKeepsPage == ASSUME PageInv, Refresh PROVE PageInv'
<1>1. /\ view.timer /\ view' = [view EXCEPT !.timer = FALSE]
      /\ requests' = requests \cup {Request("refresh", view.selection, view.cards.pages)}
      /\ UNCHANGED <<location, typed, leaked, dialog>>
    BY DEF Refresh
<1>2. Settled /\ view.hash.page # "new"
    BY <1>1 DEF PageInv, ViewFits
<1>3. /\ view' \in View /\ view'.no = view.no /\ view'.hash = view.hash
      /\ view'.selection = view.selection /\ view'.cards = view.cards
      /\ view'.phase = view.phase /\ view'.subscribed = view.subscribed
      /\ ~view'.timer
    BY <1>1, ViewNow DEF View
<1>4. /\ Request("refresh", view.selection, view.cards.pages) \in Requests
      /\ RequestFits(Request("refresh", view.selection, view.cards.pages))
    BY <1>2, RequestOf, RequestKinds, ViewNow DEF RequestFits
<1>5. requests' \subseteq Requests
    BY <1>1, <1>4, ViewNow
<1>6. QED
    BY <1>1, <1>3, <1>4, <1>5, Quiet, ViewNow DEF FieldStays

(* The event the page reads next. *)
LEMMA NextEvent ==
    ASSUME StreamInv, Dispatch
    PROVE  /\ Head(hub.unread) \in Events /\ Tail(hub.unread) \in Seq(Events)
           /\ Len(Tail(hub.unread)) <= MaxUnread
<1>1. hub.unread \in Seq(Events) /\ hub.unread # <<>> /\ Len(hub.unread) <= MaxUnread
    BY DEF StreamInv, StreamTypes, StreamFits, Dispatch
<1>2. /\ Head(hub.unread) \in Events /\ Tail(hub.unread) \in Seq(Events)
      /\ Len(Tail(hub.unread)) = Len(hub.unread) - 1 /\ Len(hub.unread) \in Nat
    BY <1>1
<1>3. QED
    BY <1>1, <1>2, StreamAssumption

LEMMA SyncEvents ==
    ASSUME NEW event \in Events, event.name = "sync"
    PROVE  event.number \in Nat /\ event.changeSet \in Written
BY DEF Events, TopologyEvent

LEMMA DispatchKeepsPage == ASSUME PageInv, StreamInv, Dispatch PROVE PageInv'
<1>1. PICK event \in Events :
        /\ view' = view \/ view' = schedule
        /\ dialog' = IF event.name = "sync" THEN listed(event) ELSE dialog
    BY NextEvent DEF Dispatch
<1>2. UNCHANGED <<location, requests, typed, leaked>>
    BY DEF Dispatch
<1>3. CASE event.name = "sync"
    <2>1. event.number \in Nat
        BY <1>3, SyncEvents
    <2>2. dialog' \in Dialogs
        BY <1>1, <1>3, <2>1, ViewNow DEF listed, Dialogs
    <2>3. QED
        BY <1>1, <1>2, <2>2, SchedulesPage
<1>4. CASE event.name # "sync"
    BY <1>1, <1>2, <1>4, SchedulesPage, ViewNow
<1>5. QED
    BY <1>3, <1>4

LEMMA PageStays ==
    ASSUME PageInv, UNCHANGED <<location, view, requests, typed, leaked, dialog>>
    PROVE  PageInv'
BY Quiet, ViewNow DEF FieldStays

LEMMA PageStep == ASSUME PageInv, StreamInv, Next PROVE PageInv'
<1>1. CASE StreamStep
    BY <1>1, PageStays DEF StreamStep, pageVars
<1>2. CASE StreamOpens
    BY <1>2, SchedulesPage, ViewNow DEF StreamOpens
<1>3. CASE TrailIsOver \/ StatusIsRead \/ StatusArrives \/ StatusFails \/ Poll \/ EventRefresh
    BY <1>3, PageStays
       DEF TrailIsOver, StatusIsRead, StatusArrives, StatusFails, Poll, EventRefresh, feedOnly
<1>4. CASE \E request \in requests : Answer(request)
    BY <1>4, AnswerKeepsPage DEF StreamInv
<1>5. CASE \E field \in typed : Search(field) \/ searchAnimals(field)
    BY <1>5, FieldKeepsPage
<1>6. QED
    BY <1>1, <1>2, <1>3, <1>4, <1>5, PersonKeepsPage, DispatchKeepsPage, RefreshKeepsPage
       DEF Next

-----------------------------------------------------------------------------
(* The stream under the steps of the page.                                 *)

LEMMA StreamSpendsOnly ==
    ASSUME StreamInv, UNCHANGED <<node, hub, online>>,
           UNCHANGED budget \/ Spend("moves") \/ Spend("faults"),
           stream' = stream \/ stream' = ensureOpen
    PROVE  StreamInv'
<1>1. \/ budget' = budget
      \/ \E kind \in {"changes", "beats", "breaks", "faults", "moves"} : Spend(kind)
    OBVIOUS
<1>2. QED
    BY <1>1, StreamSpends

LEMMA PersonKeepsStream == ASSUME StreamInv, Person PROVE StreamInv'
<1>1. CASE OpenDialog \/ CloseDialog
    BY <1>1, StreamSpendsOnly DEF OpenDialog, CloseDialog, taps, streamVars
<1>2. CASE Navigate \/ Types \/ Clears \/ LoadMore \/ Submit \/ Retry \/ RetryDialog
    <2>1. Spend("moves") /\ personOnly
        BY <1>2 DEF Navigate, Types, Clears, LoadMore, Submit, Retry, RetryDialog, taps
    <2>2. QED
        BY <2>1, StreamSpendsOnly DEF personOnly
<1>3. QED
    BY <1>1, <1>2 DEF Person

LEMMA AnswerKeepsStream ==
    ASSUME StreamInv, NEW request \in requests, request \in Requests, Answer(request)
    PROVE  StreamInv'
<1>1. CASE Saves(request)
    <2>1. /\ hub' = deliver(insertEventOf(elementOf(request.page).saves))
          /\ UNCHANGED <<node, stream, online, budget>>
        BY <1>1 DEF Saves, ChangeSetWritten, publish
    <2>2. elementOf(request.page).saves \in Written
        BY DEF Written, Requests
    <2>3. insertEventOf(elementOf(request.page).saves) \in Events
        BY <2>2, EventsOfChangeSets
    <2>4. /\ node' \in [up : BOOLEAN, synced : Nat, topology : Nat, told : Nat,
                        pulling : SUBSET SUBSET Tables]
          /\ node'.up = node.up
        BY <2>1 DEF StreamInv, StreamTypes
    <2>5. QED
        BY <2>1, <2>3, <2>4, StreamPublishes
<1>2. CASE Saved(request) \/ TransfersAreRead(request)
    BY <1>2, StreamUnchanged DEF Saved, TransfersAreRead, StreamStays
<1>3. CASE \/ Loaded(request) \/ NotFound(request) \/ PageArrives(request)
           \/ renderPicker(request) \/ Refreshed(request) \/ Replaced(request)
           \/ Uploaded(request) \/ TransfersArrive(request)
    <2>1. UNCHANGED <<node, hub, online, budget>> /\ (stream' = stream \/ stream' = ensureOpen)
        BY <1>3 DEF Loaded, NotFound, PageArrives, renderPicker, Refreshed, Replaced,
                    Uploaded, TransfersArrive, answered, asked, ontoScreen
    <2>2. QED
        BY <2>1, StreamSpendsOnly
<1>4. CASE \/ LoadFails(request) \/ PageFails(request) \/ RefreshFails(request)
           \/ SaveFails(request) \/ TransfersFail(request)
    <2>1. UNCHANGED <<node, hub, online, stream>> /\ RequestFails
        BY <1>4 DEF LoadFails, PageFails, RefreshFails, SaveFails, TransfersFail, failed, asked
    <2>2. QED
        BY <2>1, StreamSpendsOnly DEF RequestFails
<1>5. QED
    BY <1>1, <1>2, <1>3, <1>4 DEF Answer

LEMMA OpensKeepsStream == ASSUME StreamInv, Opens PROVE StreamInv'
<1>1. /\ hub' = [open |-> TRUE, unread |-> <<>>] /\ node.up /\ online
      /\ stream' = [stream EXCEPT !.source = "open", !.state = "live"]
      /\ UNCHANGED <<node, online, budget>>
    BY DEF Opens
<1>2. <<>> \in Seq(Events) /\ Len(<<>>) = 0
    OBVIOUS
<1>3. hub' \in [open : BOOLEAN, unread : Seq(Events)] /\ Len(hub'.unread) <= MaxUnread
    BY <1>1, <1>2, StreamAssumption
<1>4. /\ stream' \in [source : {"none", "connecting", "open"},
                      state : {"live", "reconnecting", "offline"}, reopen : BOOLEAN]
      /\ stream'.source = "open"
    BY <1>1 DEF StreamInv, StreamTypes
<1>5. QED
    BY <1>1, <1>3, <1>4 DEF StreamInv, StreamTypes, StreamFits

LEMMA DispatchKeepsStream == ASSUME StreamInv, Dispatch PROVE StreamInv'
<1>1. /\ hub' = [hub EXCEPT !.unread = Tail(@)]
      /\ UNCHANGED <<node, stream, online, budget>>
    BY DEF Dispatch
<1>2. /\ hub' \in [open : BOOLEAN, unread : Seq(Events)]
      /\ Len(hub'.unread) <= MaxUnread /\ hub'.open = hub.open
    BY <1>1, NextEvent DEF StreamInv, StreamTypes
<1>3. QED
    BY <1>1, <1>2 DEF StreamInv, StreamTypes, StreamFits

LEMMA StreamUnderSteps == ASSUME StreamInv, PageInv, Next PROVE StreamInv'
<1>1. CASE StreamOpens
    BY <1>1, OpensKeepsStream DEF StreamOpens
<1>2. CASE \E request \in requests : Answer(request)
    BY <1>2, AnswerKeepsStream, ViewNow
<1>3. CASE \/ Refresh \/ TrailIsOver \/ StatusIsRead \/ StatusArrives \/ Poll \/ EventRefresh
           \/ \E field \in typed : Search(field) \/ searchAnimals(field)
    BY <1>3, StreamUnchanged
       DEF Refresh, TrailIsOver, StatusIsRead, StatusArrives, Poll, EventRefresh, Search,
           searchAnimals, StreamStays
<1>4. CASE StatusFails
    BY <1>4, StreamSpendsOnly DEF StatusFails, RequestFails
<1>5. QED
    BY <1>1, <1>2, <1>3, <1>4, PersonKeepsStream, StreamStepKeeps, DispatchKeepsStream DEF Next

-----------------------------------------------------------------------------
(* What the views share.                                                   *)

SharedInv == SharedTypes /\ SharedFits

LEMMA SharedStays == ASSUME SharedInv, UNCHANGED <<feed, activity>> PROVE SharedInv'
BY DEF SharedInv, SharedTypes, SharedFits

(* A cycle that begins or is noted leaves the feed busy, one that ends due. *)
LEMMA Refreshing ==
    ASSUME NEW f \in Feeds
    PROVE  refreshed(f) \in Feeds /\ refreshed(f).cycle # "idle"
<1>1. f.cycle \in {"idle", "asked", "answered"}
    BY DEF Feeds
<1>2. CASE f.cycle = "idle"
    BY <1>2 DEF refreshed, Feeds
<1>3. CASE f.cycle # "idle"
    BY <1>3 DEF refreshed, Feeds
<1>4. QED
    BY <1>2, <1>3

LEMMA CycleEnding ==
    ASSUME feed \in Feeds, NEW latest \in Answers
    PROVE  endOf(latest) \in Feeds /\ (endOf(latest).cycle = "idle" => endOf(latest).poll)
<1> DEFINE done == [feed EXCEPT !.cycle = "idle", !.latest = latest, !.poll = TRUE]
<1>1. done \in Feeds /\ done.poll
    BY DEF Feeds
<1>2. endOf(latest) = IF feed.again THEN refreshed(done) ELSE done
    BY DEF endOf, cycleEnds
<1> HIDE DEF done
<1>3. QED
    BY <1>1, <1>2, Refreshing

LEMMA FeedKeepsShared ==
    ASSUME SharedInv, StreamInv, UNCHANGED activity,
           \/ StatusIsRead \/ StatusArrives \/ StatusFails \/ Poll \/ EventRefresh
           \/ feed' = refreshed(feed) \/ feed' = scheduleEventRefresh
    PROVE  SharedInv'
<1>1. status \in Answers /\ <<>> \in Answers
    BY DEF StreamInv, StreamTypes, status, Answers
<1>2. feed \in Feeds /\ (feed.cycle = "idle" => feed.poll)
    BY DEF SharedInv, SharedTypes, SharedFits
<1>3. feed' \in Feeds /\ (feed'.cycle = "idle" => feed'.poll)
    <2>1. CASE StatusIsRead
        BY <1>1, <1>2, <2>1 DEF StatusIsRead, Feeds
    <2>2. CASE StatusArrives
        <3>1. feed.answer \in Answers /\ feed' = [endOf(feed.answer) EXCEPT !.answer = <<>>]
            BY <1>2, <2>2 DEF StatusArrives, Feeds
        <3>2. /\ endOf(feed.answer) \in Feeds
              /\ endOf(feed.answer).cycle = "idle" => endOf(feed.answer).poll
            BY <1>2, <3>1, CycleEnding
        <3>3. QED
            BY <1>1, <3>1, <3>2 DEF Feeds
    <2>3. CASE StatusFails
        BY <1>1, <1>2, <2>3, CycleEnding DEF StatusFails
    <2>4. CASE Poll \/ EventRefresh
        <3>1. PICK f \in Feeds : feed' = refreshed(f)
            <4>1. [feed EXCEPT !.poll = FALSE] \in Feeds /\ [feed EXCEPT !.event = FALSE] \in Feeds
                BY <1>2 DEF Feeds
            <4>2. QED
                BY <2>4, <4>1 DEF Poll, EventRefresh
        <3>2. QED
            BY <3>1, Refreshing
    <2>5. CASE feed' = refreshed(feed)
        BY <1>2, <2>5, Refreshing
    <2>6. CASE feed' = scheduleEventRefresh
        BY <1>2, <2>6 DEF scheduleEventRefresh, Feeds
    <2>7. QED
        BY <2>1, <2>2, <2>3, <2>4, <2>5, <2>6
<1>4. QED
    BY <1>2, <1>3 DEF SharedInv, SharedTypes, SharedFits

LEMMA DispatchKeepsShared == ASSUME SharedInv, StreamInv, Dispatch PROVE SharedInv'
<1>1. PICK event \in Events :
        /\ feed' = IF event.name \in {"topology", "sync"} THEN scheduleEventRefresh ELSE feed
        /\ activity' = IF event.name = "sync" THEN onTransfer(event) ELSE activity
    BY NextEvent DEF Dispatch
<1>2. feed' \in Feeds /\ (feed'.cycle = "idle" => feed'.poll)
    BY <1>1 DEF scheduleEventRefresh, Feeds, SharedInv, SharedTypes, SharedFits
<1>3. /\ activity' \in [running : SUBSET Written,
                        state : {"idle", "active", "trailing", "failed"}, timer : BOOLEAN]
      /\ activity'.running = {} <=> activity'.state # "active"
      /\ activity'.timer => activity'.running = {}
    <2>1. CASE event.name = "sync"
        <3>1. event.changeSet \in Written
            BY <2>1, SyncEvents
        <3>2. QED
            BY <1>1, <2>1, <3>1 DEF onTransfer, SharedInv, SharedTypes
    <2>2. CASE event.name # "sync"
        BY <1>1, <2>2 DEF SharedInv, SharedTypes, SharedFits
    <2>3. QED
        BY <2>1, <2>2
<1>4. QED
    BY <1>2, <1>3 DEF SharedInv, SharedTypes, SharedFits

LEMMA SharedUnderSteps == ASSUME SharedInv, StreamInv, Next PROVE SharedInv'
<1>1. CASE StreamStep \/ Refresh
    BY <1>1, SharedStays DEF StreamStep, Refresh, pageVars
<1>2. CASE Person
    <2>1. UNCHANGED activity /\ (feed' = feed \/ feed' = refreshed(feed))
        BY <1>2 DEF Person, Navigate, Types, Clears, LoadMore, Submit, Retry, OpenDialog,
                    RetryDialog, CloseDialog, personOnly
    <2>2. QED
        BY <2>1, SharedStays, FeedKeepsShared
<1>3. CASE StreamOpens
    BY <1>3, FeedKeepsShared DEF StreamOpens
<1>4. CASE TrailIsOver
    BY <1>4 DEF TrailIsOver, SharedInv, SharedTypes, SharedFits
<1>5. CASE StatusIsRead \/ StatusArrives \/ StatusFails \/ Poll \/ EventRefresh
    <2>1. UNCHANGED activity
        BY <1>5 DEF StatusIsRead, StatusArrives, StatusFails, Poll, EventRefresh, feedOnly
    <2>2. QED
        BY <1>5, <2>1, FeedKeepsShared
<1>6. CASE \E request \in requests : Answer(request)
    BY <1>6, SharedStays
       DEF Answer, Loaded, NotFound, LoadFails, PageArrives, renderPicker, PageFails,
           Refreshed, Replaced, RefreshFails, Saves, Saved, Uploaded, SaveFails,
           TransfersAreRead, TransfersArrive, TransfersFail, answered, failed, asked
<1>7. CASE \E field \in typed : Search(field) \/ searchAnimals(field)
    BY <1>7, SharedStays DEF Search, searchAnimals
<1>8. QED
    BY <1>1, <1>2, <1>3, <1>4, <1>5, <1>6, <1>7, DispatchKeepsShared DEF Next

-----------------------------------------------------------------------------
(* The theorems.                                                           *)

LEMMA Beginning == Init => Inv
<1> SUFFICES ASSUME Init PROVE Inv
    OBVIOUS
<1>1. budget \in [page : AllPages, changeSets : SUBSET SUBSET Tables, changes : Nat,
                  beats : Nat, breaks : Nat, faults : Nat, moves : Nat]
    BY WebAppAssumption DEF Init, StreamInit
<1>2. budget.page \in AllPages
    BY <1>1
<1>3. location \in Hashes /\ view = pageFor(location, 0)
    BY <1>2, Hashing DEF Init
<1>4. /\ view \in View /\ view.no = 0 /\ view.phase \in {"notFound", "feed", "loading"}
      /\ ~view.timer /\ ~view.subscribed
    BY <1>3, NewPage
<1>5. /\ loadOf(view) \in Requests /\ loadOf(view).no = view.no
      /\ loadOf(view).page = view.hash.page /\ loadOf(view).kind = "load"
      /\ loadOf(view).selection = view.selection /\ loadOf(view).pages = 0
    BY <1>4, LoadOf
<1>6. /\ requests = IF view.phase = "loading" THEN {loadOf(view)} ELSE {}
      /\ typed = {} /\ leaked = {} /\ dialog = [phase |-> "closed", no |-> 0, rows |-> {}]
    BY DEF Init
<1>7. PageTypes
    BY <1>3, <1>4, <1>5, <1>6 DEF PageTypes, Dialogs
<1>8. RequestsFit
    BY <1>4, <1>5, <1>6 DEF RequestsFit, RequestFits
<1>9. FieldsFit /\ ViewFits /\ ShownIsAsked
    BY <1>4, <1>6 DEF FieldsFit, ViewFits, ShownIsAsked
<1>10. StreamTypes /\ StreamFits
    <2>1. <<>> \in Seq(Events) /\ Len(<<>>) = 0
        OBVIOUS
    <2>2. QED
        BY <1>1, <2>1, StreamAssumption DEF Init, StreamInit, StreamTypes, StreamFits
<1>11. SharedTypes /\ SharedFits
    BY DEF Init, SharedTypes, SharedFits, Feeds, Answers
<1>12. QED
    BY <1>7, <1>8, <1>9, <1>10, <1>11 DEF Inv, PageInv

LEMMA Step == Inv /\ [Next]_vars => Inv'
<1> SUFFICES ASSUME Inv, [Next]_vars PROVE Inv'
    OBVIOUS
<1>1. StreamInv /\ PageInv /\ SharedInv
    BY DEF Inv, StreamInv, SharedInv
<1>2. CASE Next
    <2>1. StreamInv' /\ PageInv' /\ SharedInv'
        BY <1>1, <1>2, StreamUnderSteps, PageStep, SharedUnderSteps
    <2>2. QED
        BY <2>1 DEF Inv, StreamInv, SharedInv
<1>3. CASE UNCHANGED vars
    <2>1. StreamInv'
        BY <1>1, <1>3, StreamUnchanged DEF vars, StreamStays
    <2>2. PageInv'
        BY <1>1, <1>3, PageStays DEF vars, pageVars
    <2>3. SharedInv'
        BY <1>1, <1>3, SharedStays DEF vars, pageVars
    <2>4. QED
        BY <2>1, <2>2, <2>3 DEF Inv, StreamInv, SharedInv
<1>4. QED
    BY <1>2, <1>3

(* The state of the page fits together, for any tables, filters and texts, *)
(* any bound on unread events and any moves of the person: a sink is never *)
(* fuller than it may be, a stream that is gone is due to be opened again, *)
(* and a status feed that rests has a poll to come.                        *)
THEOREM PageTypeCorrect == Spec => []TypeOK
<1>1. Inv => TypeOK
    BY DEF Inv, StreamTypes, StreamFits, PageInv, PageTypes, ViewFits, SharedFits, TypeOK,
           View, Cards
<1>2. QED
    BY <1>1, Beginning, Step, PTL DEF Spec

(* The cards on screen answer the search and the filter on screen, in      *)
(* whatever order the answers to earlier searches, pages and refreshes     *)
(* come back, and however many of them are in flight.                      *)
THEOREM CardsAnswerTheSearch == Spec => []ShownIsAsked
<1>1. Inv => ShownIsAsked
    BY DEF Inv, PageInv
<1>2. QED
    BY <1>1, Beginning, Step, PTL DEF Spec
=============================================================================
