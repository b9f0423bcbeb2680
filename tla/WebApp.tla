------------------------------- MODULE WebApp -------------------------------
(***************************************************************************)
(* One page of the web app (packages/web-app/public): the hash and the     *)
(* view it selects (app.js, hash-route.js), the views that load, follow    *)
(* the node's events, page, search and save (components/), and what the    *)
(* header shares with the network view: the status feed (status-feed.js),  *)
(* the transfer activity (transfer-activity.js) and the transfer dialog.   *)
(*                                                                         *)
(* What a view shows is the question it asked; what the node answered is   *)
(* left out, except for the status.  Two equal requests in flight are one. *)
(* Cards, forms and words are left out down to the links they carry and    *)
(* the requests they make; there is one entity of each kind.               *)
(***************************************************************************)
EXTENDS EventStream

CONSTANTS
    Filters,    \* what species, breeder and trait chips select; NoFilter among them
    NoFilter,
    Texts,      \* what can be searched for; 0 is the empty field
    Pages       \* how many pages a list of animals has

AllPages == {"animals", "animal", "version", "edit", "species", "breeders", "invoices",
             "invoice", "new", "network", "unknown"}

ASSUME WebAppAssumption ==
    /\ NoFilter \in Filters /\ 0 \in Texts /\ Pages \in Nat \ {0}
    /\ Starts \subseteq [page : AllPages, changeSets : SUBSET SUBSET Tables, changes : Nat,
                         beats : Nat, breaks : Nat, faults : Nat, moves : Nat]

VARIABLES
    location,   \* the hash in the address bar
    view,       \* the element in <main>
    requests,   \* the requests of views in flight
    typed,      \* search fields that wait for a pause in the typing
    leaked,     \* views that left the document and follow the events for ever
    feed,       \* the StatusFeed, with the node bar as its first subscriber
    activity,   \* one side of one partner in TransferActivity
    dialog      \* the transfer dialog

pageVars == <<location, view, requests, typed, leaked, feed, activity, dialog>>
vars == <<streamVars, pageVars>>

-----------------------------------------------------------------------------
(* Hashes.                                                                 *)

Hash(page, filter, query) == [page |-> page, filter |-> filter, query |-> query]
bare(page) == Hash(page, NoFilter, 0)

(* The links of the header.                                                *)
views == {"animals", "species", "breeders", "invoices", "network"}

Selection == [filter : Filters, query : Texts, search : Nat]

selectionFromHash(hash) == [filter |-> hash.filter, query |-> hash.query, search |-> 0]
animalsHref(selection) == Hash("animals", selection.filter, selection.query)

(* Back from a detail leads to the list it was opened from.                *)
animalListHref == Hash("animals", location.filter, location.query)
animalDetailHref(page) == [animalListHref EXCEPT !.page = page]
editHref == animalDetailHref("edit")

(* The animals of one species, breeder or trait.                           *)
filtered == {Hash("animals", filter, 0) : filter \in Filters}

-----------------------------------------------------------------------------
(* The elements: the tables whose changes each follows, whether what it    *)
(* shows may not exist, what it searches, and the tables its form writes.  *)

Element(tables, entity, searches, saves) ==
    [tables |-> tables, entity |-> entity, searches |-> searches, saves |-> saves]

AnimalsList == Element({"species", "traits", "breeders", "persons", "animals",
                        "animalTraits"}, FALSE, "list", {})
AnimalDetailElement ==
    Element({"animals", "animalTraits", "species", "breeders"}, TRUE, "nothing", {})
(* An older version is a fixed point in the history.                       *)
OldVersionElement == [AnimalDetailElement EXCEPT !.tables = {}]
AnimalFormElement == Element({}, TRUE, "nothing", {"animals", "animalTraits"})
SpeciesList == Element({"species"}, FALSE, "nothing", {"species"})
BreedersList == Element({"breeders", "persons"}, FALSE, "nothing", {})
InvoicesList ==
    Element({"invoices", "invoiceItems", "customers", "persons"}, FALSE, "nothing", {})
InvoiceDetailElement == Element({"invoices", "invoiceItems"}, TRUE, "nothing", {})
InvoiceForm == Element({}, FALSE, "picker", {"invoices", "invoiceItems"})
NetworkView == Element({}, FALSE, "nothing", {})

elementOf(page) ==
    CASE page = "animals" -> AnimalsList
      [] page = "animal" -> AnimalDetailElement
      [] page = "version" -> OldVersionElement
      [] page = "edit" -> AnimalFormElement
      [] page = "species" -> SpeciesList
      [] page = "breeders" -> BreedersList
      [] page = "invoices" -> InvoicesList
      [] page = "invoice" -> InvoiceDetailElement
      [] page = "new" -> InvoiceForm
      [] OTHER -> NetworkView

element == elementOf(view.hash.page)

-----------------------------------------------------------------------------
(* The links on screen.                                                    *)

(* Chips keep the rest of the selection; cards carry it to the detail.     *)
animalFilters(selection) ==
    {animalsHref([selection EXCEPT !.filter = filter]) : filter \in Filters}
animalCard(selection) == [animalsHref(selection) EXCEPT !.page = "animal"]

factsBlock == filtered \cup {bare("breeders")}
traitChips == filtered
(* Edit is offered on the newest tip, which an old hash may name again.    *)
headingRow == {editHref}
oldVersionNotice == {animalDetailHref("animal")}
versionsSection == {animalDetailHref("animal"), animalDetailHref("version")}
detailView(page) ==
    headingRow \cup factsBlock \cup traitChips \cup versionsSection \cup
    IF page = "version" THEN oldVersionNotice ELSE {}

animalForm == {animalDetailHref("animal")}
speciesCards == filtered
breederCards == filtered
viewHeader == {bare("new")}
invoiceCards == {bare("invoice")}
itemsBlock == {bare("animal")}

content(shown) ==
    LET page == shown.hash.page
    IN  CASE page = "animals" ->
                animalFilters(shown.selection) \cup
                IF shown.phase = "shown" THEN {animalCard(shown.selection)} ELSE {}
          [] page \in {"animal", "version"} -> detailView(page)
          [] page = "edit" -> animalForm
          [] page = "species" -> speciesCards
          [] page = "breeders" -> breederCards
          [] page = "invoices" -> invoiceCards
          [] page = "invoice" -> itemsBlock
          [] OTHER -> {}

(* What stays while the content is loaded, or could not be.                *)
frame(page) ==
    CASE page \in {"animal", "version"} -> {animalListHref}
      [] page = "invoices" -> viewHeader
      [] page \in {"invoice", "new"} -> {bare("invoices")}
      [] OTHER -> {}

notFoundView(page) ==
    CASE page = "invoice" -> {bare("invoices")}
      [] page = "unknown" -> {bare("animals")}
      [] OTHER -> {animalListHref}

links ==
    LET page == view.hash.page
    IN  IF view.phase = "notFound" THEN notFoundView(page)
        ELSE frame(page) \cup
             IF view.phase \in {"loading", "failed"} THEN {} ELSE content(view)

-----------------------------------------------------------------------------
(* Views and requests.                                                     *)

noCards == [of |-> selectionFromHash(bare("animals")), pages |-> 0]

pageFor(hash, no) ==
    [no |-> no, hash |-> hash, selection |-> selectionFromHash(hash), cards |-> noCards,
     phase |-> CASE hash.page = "unknown" -> "notFound"
                 [] hash.page = "network" -> "feed"
                 [] OTHER -> "loading",
     missing |-> 0, subscribed |-> FALSE, timer |-> FALSE, saving |-> FALSE]

(* pages: where the page asked for starts, how many a refresh asks for, or *)
(* how many transfers the node knew of when it answered.                   *)
Request(kind, selection, pages) ==
    [no |-> view.no, page |-> view.hash.page, kind |-> kind, selection |-> selection,
     pages |-> pages]

loadOf(shown) ==
    [no |-> shown.no, page |-> shown.hash.page, kind |-> "load",
     selection |-> shown.selection, pages |-> 0]

(* The next hash, and the view that takes the place of the one on screen;  *)
(* it asks for what it needs.  The same hash again changes nothing.        *)
render(hash, pending) ==
    /\ location' = hash
    /\ IF hash = location THEN UNCHANGED view /\ requests' = pending
       ELSE /\ view' = pageFor(hash, view.no + 1)
            /\ requests' = pending \cup
                IF view'.phase = "loading" THEN {loadOf(view')} ELSE {}

Init ==
    /\ StreamInit
    /\ location = bare(budget.page)
    /\ view = pageFor(location, 0)
    /\ requests = IF view.phase = "loading" THEN {loadOf(view)} ELSE {}
    /\ typed = {}
    /\ leaked = {}
    /\ feed = [cycle |-> "asked", answer |-> <<>>, latest |-> <<>>, again |-> FALSE,
               poll |-> FALSE, event |-> FALSE]
    /\ activity = [running |-> {}, state |-> "idle", timer |-> FALSE]
    /\ dialog = [phase |-> "closed", no |-> 0, rows |-> {}]

reachable == node.up /\ online

(* One cycle at a time; what is asked for during one is noted.             *)
refreshed(f) ==
    IF f.cycle # "idle" THEN [f EXCEPT !.again = TRUE]
    ELSE [f EXCEPT !.cycle = "asked", !.poll = FALSE, !.again = FALSE]

-----------------------------------------------------------------------------
(* The person.  The dialog is modal, but for the history of the browser.   *)

taps == dialog.phase = "closed" /\ Spend("moves")

personOnly == UNCHANGED <<node, hub, stream, online, leaked, activity>>

Navigate ==
    /\ Spend("moves")
    /\ \E hash \in links \cup {bare(page) : page \in views \cup {"unknown"}} :
        render(hash, requests)
    /\ personOnly
    /\ UNCHANGED <<typed, feed, dialog>>

loadPage(selection, offset) ==
    requests' = requests \cup {Request("page", selection, offset)}

(* A search of the list rewrites the hash and asks for the first page.     *)
search(selection) ==
    /\ location' = animalsHref(selection)
    /\ view' = [view EXCEPT !.selection = selection, !.phase = "waiting"]
    /\ loadPage(selection, 0)

searched(selection, text) == [selection EXCEPT !.query = text, !.search = @ + 1]

othersTyped == {field \in typed : field.no # view.no}

typesInto(text) ==
    typed' = othersTyped \cup
        {[no |-> view.no, searches |-> element.searches, text |-> text,
          selection |-> view.selection]}

(* A letter in a search field starts the pause again.                      *)
Types ==
    /\ element.searches # "nothing"
    /\ view.phase \notin {"loading", "failed"}
    /\ taps
    /\ \E text \in Texts :
        /\ element.searches = "list" => text # 0
        /\ typesInto(text)
    /\ personOnly
    /\ UNCHANGED <<location, view, requests, feed, dialog>>

(* An emptied field of the list is searched for at once.                   *)
Clears ==
    /\ element.searches = "list"
    /\ view.phase \notin {"loading", "failed"}
    /\ taps
    /\ typed' = othersTyped
    /\ IF view.selection.query = 0 THEN UNCHANGED <<location, view, requests>>
       ELSE search(searched(view.selection, 0))
    /\ personOnly
    /\ UNCHANGED <<feed, dialog>>

(* The pause is over: a text that is on screen already is left alone.  The *)
(* field's timer outlives its view, and then only rewrites the hash.       *)
Search(field) ==
    /\ field.searches = "list"
    /\ typed' = typed \ {field}
    /\ LET selection == searched(field.selection, field.text)
       IN  IF field.text = field.selection.query
           THEN UNCHANGED <<location, view, requests>>
           ELSE IF field.no = view.no THEN search(selection)
           ELSE location' = animalsHref(selection) /\ UNCHANGED <<view, requests>>
    /\ UNCHANGED <<streamVars, leaked, feed, activity, dialog>>

(* The picker of the invoice form asks again, with the text as its name;   *)
(* its rows stay on screen until an answer to the latest search is there.  *)
searchAnimals(field) ==
    /\ field.searches = "picker"
    /\ typed' = typed \ {field}
    /\ IF field.no # view.no THEN UNCHANGED <<view, requests>>
       ELSE /\ view' = [view EXCEPT !.selection.query = field.text]
            /\ requests' = requests \cup {Request("page", view'.selection, 0)}
    /\ UNCHANGED <<streamVars, location, leaked, feed, activity, dialog>>

LoadMore ==
    /\ element.searches = "list"
    /\ view.phase = "shown"
    /\ view.cards.pages < Pages
    /\ taps
    /\ loadPage(view.selection, view.cards.pages)
    /\ personOnly
    /\ UNCHANGED <<location, view, typed, feed, dialog>>

(* Save of an animal, submit of an invoice, upload of an image.            *)
Submit ==
    /\ element.saves # {}
    /\ view.phase \notin {"loading", "failed", "notFound"}
    /\ ~view.saving
    /\ taps
    /\ view' = [view EXCEPT !.saving = TRUE]
    /\ requests' = requests \cup {Request("save", view.selection, 0)}
    /\ personOnly
    /\ UNCHANGED <<location, typed, feed, dialog>>

(* The Retry button: of a view that could not load, of a page of animals,  *)
(* of the network view.                                                    *)
Retry ==
    /\ taps
    /\ \/ /\ view.phase = "failed"
          /\ view' = [view EXCEPT !.phase = "loading",
                                  !.selection = selectionFromHash(location)]
          /\ requests' = requests \cup {loadOf(view')}
          /\ UNCHANGED feed
       \/ /\ element.searches = "list" /\ view.phase = "pageFailed"
          /\ loadPage(view.selection, view.missing)
          /\ view' = [view EXCEPT !.phase = IF view.missing = 0 THEN "waiting" ELSE @]
          /\ UNCHANGED feed
       \/ /\ view.phase = "feed" /\ feed.latest = <<>>
          /\ feed' = refreshed(feed)
          /\ UNCHANGED <<view, requests>>
    /\ personOnly
    /\ UNCHANGED <<location, typed, dialog>>

-----------------------------------------------------------------------------
(* Answers.                                                                *)

(* No answer or an error: by the connection, or for reasons of the node.   *)
RequestFails == IF reachable THEN Spend("faults") ELSE UNCHANGED budget

mine(request) == request.no = view.no

asked(request, kind) ==
    /\ request.kind = kind
    /\ requests' = requests \ {request}
    /\ UNCHANGED <<node, online, typed, feed, activity>>

answered(request, kind) == asked(request, kind) /\ reachable /\ UNCHANGED budget
failed(request, kind) ==
    /\ asked(request, kind)
    /\ RequestFails
    /\ UNCHANGED <<hub, stream, location, leaked, dialog>>

ontoScreen == UNCHANGED <<hub, stream, location, leaked, dialog>>

(* The first answer: the view is shown and follows the events from here    *)
(* on, also when it is not in the document any more.                       *)
Loaded(request) ==
    /\ answered(request, "load")
    /\ view' = IF mine(request)
               THEN [view EXCEPT !.phase = "shown",
                        !.cards = [of |-> request.selection, pages |-> 1],
                        !.subscribed = element.tables # {}]
               ELSE view
    /\ leaked' = IF mine(request) \/ elementOf(request.page).tables = {} THEN leaked
                 ELSE leaked \cup {request.no}
    /\ stream' = ensureOpen
    /\ UNCHANGED <<hub, location, dialog>>

(* 404: there is no such animal, version or invoice.                       *)
NotFound(request) ==
    /\ answered(request, "load")
    /\ mine(request) /\ element.entity
    /\ view' = [view EXCEPT !.phase = "notFound"]
    /\ ontoScreen

(* The error state takes the place of the view, with its Retry button.     *)
LoadFails(request) ==
    /\ failed(request, "load")
    /\ view' = IF mine(request) THEN [view EXCEPT !.phase = "failed"] ELSE view

(* Variant: a page is shown whatever was searched for meanwhile.           *)
anySelection(request) == mine(request)

(* What came back is dropped when the selection moved on.                  *)
selectionIsAsked(request) == mine(request) /\ request.selection = view.selection

(* The first page takes the place of the cards, a later one is appended.   *)
showPage(request) ==
    [view EXCEPT !.phase = "shown", !.missing = 0, !.cards =
        [of |-> request.selection,
         pages |-> IF request.pages = 0 THEN 1 ELSE @.pages + 1]]

PageArrives(request) ==
    /\ answered(request, "page")
    /\ request.page = "animals"
    /\ view' = IF selectionIsAsked(request) THEN showPage(request) ELSE view
    /\ ontoScreen

PageFails(request) ==
    /\ failed(request, "page")
    /\ view' = IF selectionIsAsked(request)
               THEN [view EXCEPT !.phase = "pageFailed", !.missing = request.pages]
               ELSE view

(* The answer for the picker of the invoice form.                          *)
renderPicker(request) ==
    /\ answered(request, "page")
    /\ request.page = "new"
    /\ view' = IF selectionIsAsked(request)
               THEN [view EXCEPT !.phase = "shown", !.cards.of = request.selection]
               ELSE view
    /\ ontoScreen

(* Every page loaded so far again, unless a page was added meanwhile.      *)
Refreshed(request) ==
    /\ answered(request, "refresh")
    /\ request.page = "animals"
    /\ view' = IF selectionIsAsked(request) /\ request.pages = view.cards.pages
               THEN [view EXCEPT !.phase = "shown", !.cards.of = request.selection]
               ELSE view
    /\ ontoScreen

(* LiveContent puts the new element in the place of the one on screen.     *)
Replaced(request) ==
    /\ answered(request, "refresh")
    /\ request.page # "animals"
    /\ view' = IF mine(request) THEN [view EXCEPT !.cards.of = request.selection] ELSE view
    /\ ontoScreen

(* A refresh that fails keeps what is there.                               *)
RefreshFails(request) == failed(request, "refresh") /\ UNCHANGED view

(* The node writes what the form sent.                                     *)
Saves(request) ==
    /\ request.kind = "save"
    /\ reachable
    /\ ChangeSetWritten(elementOf(request.page).saves)
    /\ requests' = (requests \ {request}) \cup {[request EXCEPT !.kind = "saved"]}
    /\ UNCHANGED <<stream, online, budget, location, view, typed, leaked, feed, activity,
                   dialog>>

(* A saved animal or invoice is shown, wherever the person went meanwhile. *)
Saved(request) ==
    /\ request.kind = "saved" /\ request.page # "species"
    /\ reachable
    /\ LET hash == IF request.page = "new" THEN bare("invoice")
                   ELSE animalDetailHref("animal")
       IN  render(hash, requests \ {request})
    /\ UNCHANGED <<streamVars, typed, leaked, feed, activity, dialog>>

(* An image is swapped in its card.                                        *)
Uploaded(request) ==
    /\ answered(request, "saved")
    /\ request.page = "species"
    /\ view' = IF mine(request) THEN [view EXCEPT !.saving = FALSE] ELSE view
    /\ ontoScreen

(* The form says so; the node may have written it all the same.            *)
SaveFails(request) ==
    /\ \E kind \in {"save", "saved"} : failed(request, kind)
    /\ view' = IF mine(request) THEN [view EXCEPT !.saving = FALSE] ELSE view

(* The burst of events is over.                                            *)
Refresh ==
    /\ view.timer
    /\ view' = [view EXCEPT !.timer = FALSE]
    /\ requests' = requests \cup {Request("refresh", view.selection, view.cards.pages)}
    /\ UNCHANGED <<streamVars, location, typed, leaked, feed, activity, dialog>>

-----------------------------------------------------------------------------
(* The status feed.                                                        *)

status == <<node.topology, node.synced>>

(* The end of a cycle, whatever it brought: the listeners see it, the next *)
(* poll is due, or the next cycle at once.                                 *)
cycleEnds(latest) ==
    LET done == [feed EXCEPT !.cycle = "idle", !.latest = latest, !.poll = TRUE]
    IN  IF feed.again THEN refreshed(done) ELSE done

(* Variant: a cycle that failed leaves the schedule to the next event.     *)
cycleEndsForNow(latest) ==
    [cycleEnds(latest) EXCEPT !.poll = @ /\ latest # <<>>]

endOf(latest) == cycleEnds(latest)

feedOnly == <<location, view, requests, typed, leaked, activity, dialog>>

StatusIsRead ==
    /\ feed.cycle = "asked"
    /\ reachable
    /\ feed' = [feed EXCEPT !.cycle = "answered", !.answer = status]
    /\ UNCHANGED <<streamVars, feedOnly>>

(* The probes of the other nodes are over as well.                         *)
StatusArrives ==
    /\ feed.cycle = "answered"
    /\ feed' = [endOf(feed.answer) EXCEPT !.answer = <<>>]
    /\ UNCHANGED <<streamVars, feedOnly>>

StatusFails ==
    /\ feed.cycle = "asked"
    /\ RequestFails
    /\ feed' = endOf(<<>>)
    /\ UNCHANGED <<node, hub, stream, online, feedOnly>>

Poll ==
    /\ feed.poll
    /\ feed' = refreshed([feed EXCEPT !.poll = FALSE])
    /\ UNCHANGED <<streamVars, feedOnly>>

EventRefresh ==
    /\ feed.event
    /\ feed' = refreshed([feed EXCEPT !.event = FALSE])
    /\ UNCHANGED <<streamVars, feedOnly>>

scheduleEventRefresh == [feed EXCEPT !.event = TRUE]

-----------------------------------------------------------------------------
(* What the events and the state of the stream start.                      *)

(* refreshOnChange starts the pause of a burst again.                      *)
schedule == IF view.subscribed THEN [view EXCEPT !.timer = TRUE] ELSE view

touches(event) == event.changeSet \cap element.tables # {}

(* What was written here, or arrived completely.                           *)
concerns(event) ==
    /\ \/ event.name = "insert"
       \/ event.name = "sync" /\ event.status = "completed"
    /\ touches(event)

(* A side is active while a transfer runs, and shows how the last one      *)
(* ended for a moment.                                                     *)
onTransfer(event) ==
    LET running == IF event.status = "pending" THEN activity.running \cup {event.changeSet}
                   ELSE activity.running \ {event.changeSet}
    IN  [running |-> running,
         state |-> IF running # {} THEN "active"
                   ELSE IF event.status = "completed" THEN "trailing" ELSE "failed",
         timer |-> running = {}]

TrailIsOver ==
    /\ activity.timer
    /\ activity' = [activity EXCEPT !.state = "idle", !.timer = FALSE]
    /\ UNCHANGED <<streamVars, location, view, requests, typed, leaked, feed, dialog>>

(* The row of a transfer in the dialog's list, when there is one already.  *)
listed(event) ==
    IF dialog.phase = "listed" THEN [dialog EXCEPT !.rows = @ \cup {event.number}]
    ELSE dialog

(* The page reads the next event of the stream.                            *)
Dispatch ==
    /\ stream.source = "open"
    /\ hub.open
    /\ hub.unread # <<>>
    /\ hub' = [hub EXCEPT !.unread = Tail(@)]
    /\ LET event == Head(hub.unread)
       IN  /\ feed' = IF event.name \in {"topology", "sync"} THEN scheduleEventRefresh
                      ELSE feed
           /\ view' = IF concerns(event) THEN schedule ELSE view
           /\ activity' = IF event.name = "sync" THEN onTransfer(event) ELSE activity
           /\ dialog' = IF event.name = "sync" THEN listed(event) ELSE dialog
    /\ UNCHANGED <<node, stream, online, budget, location, requests, typed, leaked>>

(* The stream is live: anything may have been missed.                      *)
StreamOpens ==
    /\ Opens
    /\ feed' = scheduleEventRefresh
    /\ view' = schedule
    /\ UNCHANGED <<location, requests, typed, leaked, activity, dialog>>

-----------------------------------------------------------------------------
(* The transfer dialog: opened for a partner, it asks for the transfers    *)
(* and follows the events; an answer for an earlier opening is dropped.    *)

askForTransfers(no) ==
    requests' = requests \cup {[Request("transfers", view.selection, 0) EXCEPT !.no = no]}

OpenDialog ==
    /\ taps
    /\ \E known \in BOOLEAN :   \* whether the id of the partner is
        /\ dialog' = [phase |-> IF known THEN "loading" ELSE "unattributed",
                      no |-> dialog.no + 1, rows |-> {}]
        /\ IF known THEN askForTransfers(dialog.no + 1) ELSE UNCHANGED requests
    /\ stream' = ensureOpen
    /\ UNCHANGED <<node, hub, online, location, view, typed, leaked, feed, activity>>

RetryDialog ==
    /\ dialog.phase = "failed"
    /\ Spend("moves")
    /\ askForTransfers(dialog.no)
    /\ personOnly
    /\ UNCHANGED <<location, view, typed, feed, dialog>>

CloseDialog ==
    /\ dialog.phase # "closed"
    /\ dialog' = [dialog EXCEPT !.phase = "closed", !.rows = {}]
    /\ UNCHANGED <<streamVars, location, view, requests, typed, leaked, feed, activity>>

ofDialog(request) == request.no = dialog.no /\ dialog.phase # "closed"

TransfersAreRead(request) ==
    /\ request.kind = "transfers"
    /\ reachable
    /\ requests' = (requests \ {request}) \cup
            {[request EXCEPT !.kind = "transfersRead", !.pages = node.synced]}
    /\ UNCHANGED <<streamVars, location, view, typed, leaked, feed, activity, dialog>>

(* What came in between is not in the list: there was none to put it in.   *)
TransfersArrive(request) ==
    /\ answered(request, "transfersRead")
    /\ dialog' = IF ofDialog(request)
                 THEN [dialog EXCEPT !.phase = "listed", !.rows = 1 .. request.pages]
                 ELSE dialog
    /\ UNCHANGED <<hub, stream, location, view, leaked>>

TransfersFail(request) ==
    /\ \E kind \in {"transfers", "transfersRead"} : asked(request, kind)
    /\ RequestFails
    /\ dialog' = IF ofDialog(request) THEN [dialog EXCEPT !.phase = "failed"] ELSE dialog
    /\ UNCHANGED <<hub, stream, location, view, leaked>>

-----------------------------------------------------------------------------

StreamStep ==
    /\ \/ Heartbeat \/ WrittenElsewhere \/ PullStarts \/ PullEnds \/ TopologyChanges
       \/ TopologyCheck \/ NodeStops \/ NodeStarts \/ ConnectFails \/ ConnectIsRefused
       \/ Reopens \/ Breaks \/ GoesOffline \/ ComesOnline
    /\ UNCHANGED pageVars

Person ==
    \/ Navigate \/ Types \/ Clears \/ LoadMore \/ Submit \/ Retry
    \/ OpenDialog \/ RetryDialog \/ CloseDialog

Answer(request) ==
    \/ Loaded(request) \/ NotFound(request) \/ LoadFails(request)
    \/ PageArrives(request) \/ renderPicker(request) \/ PageFails(request)
    \/ Refreshed(request) \/ Replaced(request) \/ RefreshFails(request)
    \/ Saves(request) \/ Saved(request) \/ Uploaded(request) \/ SaveFails(request)
    \/ TransfersAreRead(request) \/ TransfersArrive(request) \/ TransfersFail(request)

Next ==
    \/ StreamStep \/ Person \/ Dispatch \/ StreamOpens \/ Refresh \/ TrailIsOver
    \/ StatusIsRead \/ StatusArrives \/ StatusFails \/ Poll \/ EventRefresh
    \/ \E request \in requests : Answer(request)
    \/ \E field \in typed : Search(field) \/ searchAnimals(field)

(* Timers fire and a request ends; nothing is assumed of the stream.       *)
Spec ==
    /\ Init /\ [][Next]_vars
    /\ WF_vars(Poll) /\ WF_vars(EventRefresh) /\ WF_vars(StatusArrives)
    /\ WF_vars(StatusIsRead \/ StatusFails)

-----------------------------------------------------------------------------
(* Properties.                                                             *)

(* The state of the page fits together: a sink never holds more than the   *)
(* bound, a stream that is gone is due to be opened again, and a status    *)
(* feed that rests has a poll to come.                                     *)
TypeOK ==
    /\ Len(hub.unread) <= MaxUnread
    /\ hub.open => stream.source = "open" /\ node.up
    /\ stream.source \in {"none", "connecting", "open"}
    /\ stream.source = "none" => stream.reopen \/ ~online
    /\ stream.state \in {"live", "reconnecting", "offline"}
    /\ view.no \in Nat /\ view.selection \in Selection /\ view.cards.of \in Selection
    /\ view.cards.pages \in Nat /\ view.missing \in Nat
    /\ leaked \subseteq 0 .. view.no
    /\ activity.running = {} <=> activity.state # "active"
    /\ feed.cycle = "idle" => feed.poll

(* The picker of the invoice form waits for the answer to its search.      *)
pickerAsks ==
    element.searches = "picker" /\ Request("page", view.selection, 0) \in requests

(* The cards on screen answer the search and the filter on screen, in      *)
(* whatever order the answers to earlier searches, pages and refreshes     *)
(* come back.  Only the picker keeps what it showed until its latest       *)
(* search is answered.                                                     *)
ShownIsAsked == view.phase = "shown" => view.cards.of = view.selection \/ pickerAsks

(* Once nothing changes any more and the node can be reached, the header   *)
(* and the network view show its status, whatever events and requests were *)
(* lost.                                                                   *)
StatusCatchesUp == <>[]reachable => <>[](feed.latest = status)
=============================================================================
