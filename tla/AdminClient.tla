----------------------------- MODULE AdminClient -----------------------------
(* The generated application UI in a browser (apps/application-ui/src/client.ts)
   over the keyset list of one resource.  The screen holds one view at a time: a
   list with its pages, the form of an operation, or an error.  Every call is
   asynchronous and outlives the view that made it; anybody writes rows
   meanwhile, the submissions of this client included.                       *)
EXTENDS KeysetList

CONSTANTS
  Slots,       \* requests that may be in flight
  MaxLimit,    \* the list's largest page, and that of a request without a limit
  Entries,     \* contents the user may filter by
  Vacant,      \* identifiers without a row at the start
  MaxClicks,   \* bound on what the user does after the start
  MaxWrites    \* bound on the writes of rows

ASSUME SlotsAssumption == Slots # {} /\ MaxLimit \in Nat \ {0} /\ Entries \subseteq Cells
ASSUME TableAssumption == IsFiniteSet(Ids \ Vacant)

VARIABLES
  rows,        \* the rows of the resource, at the server
  content,     \* the view on the screen
  entered,     \* what the filter form of the view holds
  navigation,  \* whether the navigation is rendered
  requests,    \* the requests in flight
  walk,        \* history: the pages read along the view's current cursor
  still,       \* history: the rows nobody wrote since the first of them was read
  clicks, writes

screen == <<content, entered, navigation, requests>>
history == <<walk, still>>
clientVars == <<rows, screen, history, clicks, writes>>

\* What the limit of the form may be when a page is asked for; one the list would
\* refuse fails like any other request.
Limits == 1..MaxLimit

Free == [kind |-> "none"]
Starting == [kind |-> "starting"]
Failed == [kind |-> "error"]
Form(busy) == [kind |-> "form", busy |-> busy]

\* What loadPage is asked for: the page at a cursor, and the cursors before it.
Ask(filter, limit, cursor, before) ==
  [filter |-> filter, limit |-> limit, cursor |-> cursor, before |-> before]
AtStart(filter, limit) == Ask(filter, limit, {}, <<>>)

\* A list view; shown is the page with the request it answers, none while loading.
Listing(ask, refresh) ==
  [kind |-> "list", asked |-> ask, shown |-> {}, apply |-> FALSE, refresh |-> refresh]

Metadata == [kind |-> "metadata"]
Call(own, refreshes) == [kind |-> "submit", own |-> own, refreshes |-> refreshes]

\* The page of a view that is gone fills what nobody sees; its error is seen.
Stale(reported) == [kind |-> "stale", reported |-> reported]
Orphan(r) ==
  CASE r.kind = "load" -> Stale(r.reported)
    [] r.kind = "submit" -> Call(FALSE, r.refreshes)
    [] OTHER -> r

\* Requests go on when another view replaces the one that made them.
Detached(rs) == [s \in Slots |-> Orphan(rs[s])]

\* Fault: the error of every first page is shown in a part of the screen that is gone.
FaultReported(refresh) == FALSE

\* A failed page replaces the content; after a mutation it is shown in the
\* result of the form, which the list has replaced.
Reported(refresh) == ~refresh
Load(ask, reported) ==
  [kind |-> "load", reported |-> reported, ask |-> ask, answer |-> {}]

ClientInit ==
  /\ rows \in {t \in Tables : \A id \in Ids : t[id] = NoRow <=> id \in Vacant}
  /\ content = Starting /\ entered = {} /\ navigation = FALSE
  /\ requests = [[s \in Slots |-> Free] EXCEPT ![CHOOSE s \in Slots : TRUE] = Metadata]
  /\ walk = <<>> /\ still = {}
  /\ clicks = 0 /\ writes = 0

-----------------------------------------------------------------------------
(* What the user does.                                                       *)

Click == clicks < MaxClicks /\ clicks' = clicks + 1 /\ UNCHANGED <<rows, writes>>

\* A free slot; which one makes no difference.
IsFree(s) == requests[s] = Free /\ s = CHOOSE t \in Slots : requests[t] = Free

\* Another view: the one on the screen and its form are gone.
Show(view) ==
  content' = view /\ entered' = {} /\ walk' = <<>> /\ still' = {}

\* renderList: a new filter form without a limit, and its first page.
RenderList(s, refresh) ==
  LET ask == AtStart({}, MaxLimit)
  IN /\ Show(Listing(ask, refresh))
     /\ requests' = [Detached(requests) EXCEPT ![s] = Load(ask, Reported(refresh))]

Reload(s) ==
  /\ Click /\ IsFree(s)
  /\ Show(Starting) /\ requests' = [Detached(requests) EXCEPT ![s] = Metadata]
  /\ UNCHANGED navigation

OpenList(s) ==
  /\ Click /\ IsFree(s) /\ navigation
  /\ RenderList(s, FALSE) /\ UNCHANGED navigation

OpenForm ==
  /\ Click /\ navigation
  /\ Show(Form(FALSE)) /\ requests' = Detached(requests)
  /\ UNCHANGED navigation

EnterFilter(filter) ==
  /\ Click /\ content.kind = "list" /\ entered # filter /\ entered' = filter
  /\ UNCHANGED <<content, navigation, requests, history>>

\* loadPage, with the filter and the limit that are in the form now.
LoadPage(s, ask) ==
  /\ content' = [content EXCEPT !.asked = ask, !.shown = {}, !.apply = FALSE, !.refresh = FALSE]
  /\ requests' = [requests EXCEPT ![s] = Load(ask, Reported(FALSE))]
  /\ UNCHANGED <<entered, navigation, history>>

\* Fault: the filter form stays enabled while its page is loading.
FaultAlwaysApplies(view) == view.kind = "list"

MayApply(view) == view.kind = "list" /\ view.apply

Apply(s, limit) ==
  /\ Click /\ IsFree(s) /\ MayApply(content)
  /\ LoadPage(s, AtStart(entered, limit))

\* The buttons under a page are replaced while the next one is loading.
NextPage(s, limit) ==
  /\ Click /\ IsFree(s) /\ content.kind = "list"
  /\ \E p \in content.shown :
       /\ p.page.next # {}
       /\ LoadPage(s, Ask(entered, limit, p.page.next, Append(p.ask.before, p.ask.cursor)))

BackPage(s, limit) ==
  /\ Click /\ IsFree(s) /\ content.kind = "list"
  /\ \E p \in content.shown :
       /\ p.ask.before # <<>>
       /\ LET before == p.ask.before
              n == Len(before)
          IN LoadPage(s, Ask(entered, limit, before[n], SubSeq(before, 1, n - 1)))

\* A form is submitted; a create, update, patch or remove refreshes the list.
Submit(s, refreshes) ==
  /\ Click /\ IsFree(s) /\ content = Form(FALSE)
  /\ content' = Form(TRUE) /\ requests' = [requests EXCEPT ![s] = Call(TRUE, refreshes)]
  /\ UNCHANGED <<entered, navigation, history>>

-----------------------------------------------------------------------------
(* What the server and the network do.                                       *)

WriteRow(id, value) ==
  /\ writes < MaxWrites /\ value # rows[id]
  /\ rows' = [rows EXCEPT ![id] = value]
  /\ still' = still \ {id} /\ writes' = writes + 1
  /\ UNCHANGED <<screen, walk, clicks>>

\* The page is read in one statement.
Serve(s) ==
  LET r == requests[s]
  IN /\ r.kind = "load" /\ r.answer = {} /\ CursorMatches(r.ask.cursor, r.ask.filter)
     /\ \E page \in {Page(rows, r.ask.filter, r.ask.cursor, r.ask.limit)} :
          /\ requests' = [requests EXCEPT ![s].answer = {page}]
          /\ walk' = Append(SubSeq(walk, 1, Len(r.ask.before)), page.items)
     /\ still' = IF r.ask.before = <<>> THEN {id \in Ids : rows[id] # NoRow} ELSE still
     /\ UNCHANGED <<rows, content, entered, navigation, clicks, writes>>

Ends(s, kinds) ==
  requests[s].kind \in kinds /\ UNCHANGED <<rows, clicks, writes>>
Forget(s) == [requests EXCEPT ![s] = Free]

\* loadPage continues.
ReceivePage(s) ==
  /\ Ends(s, {"load"})
  /\ \E page \in requests[s].answer :
       content' = [content EXCEPT !.shown = {[ask |-> requests[s].ask, page |-> page]}, !.apply = TRUE]
  /\ requests' = Forget(s)
  /\ UNCHANGED <<entered, navigation, history>>

\* An answer nobody waits for: the page of a view that is gone, and the result
\* or the error of a form, which restores its submit button.
Settle(s) ==
  LET r == requests[s]
  IN /\ Ends(s, {"stale", "submit"})
     /\ content' = IF r.kind = "submit" /\ r.own THEN Form(FALSE) ELSE content
     /\ requests' = Forget(s)
     /\ UNCHANGED <<entered, navigation, history>>

\* A request was refused, lost or failed: its error replaces the view that is on
\* the screen by now, unless it is shown where a mutation's form was.
Fail(s) ==
  LET r == requests[s]
  IN /\ Ends(s, {"metadata", "load", "stale"})
     /\ IF r = Metadata \/ r.reported
        THEN Show(Failed) /\ requests' = Detached(Forget(s)) /\ UNCHANGED navigation
        ELSE requests' = Forget(s) /\ UNCHANGED <<content, entered, navigation, history>>

ReceiveMetadata(s) ==
  /\ Ends(s, {"metadata"})
  /\ RenderList(s, FALSE) /\ navigation' = TRUE

\* The list replaces whatever is on the screen when the mutation is answered.
ReceiveResult(s) ==
  /\ Ends(s, {"submit"}) /\ requests[s].refreshes
  /\ RenderList(s, TRUE) /\ UNCHANGED navigation

Answering(s) ==
  \/ Serve(s) \/ ReceivePage(s) \/ Settle(s) \/ Fail(s)
  \/ ReceiveMetadata(s) \/ ReceiveResult(s)

User(s) ==
  \/ Reload(s) \/ OpenList(s)
  \/ \E limit \in Limits : Apply(s, limit) \/ NextPage(s, limit) \/ BackPage(s, limit)
  \/ \E refreshes \in BOOLEAN : Submit(s, refreshes)

ClientNext ==
  \/ \E s \in Slots : User(s) \/ Answering(s)
  \/ OpenForm \/ \E filter \in {{}} \cup {{v} : v \in Entries} : EnterFilter(filter)
  \/ \E id \in Ids, value \in Cells \cup {NoRow} : WriteRow(id, value)

ClientSpec == ClientInit /\ [][ClientNext]_clientVars
FairClientSpec == ClientSpec /\ \A s \in Slots : WF_clientVars(Answering(s))

-----------------------------------------------------------------------------
(* Properties.                                                               *)

Matching(view) == {id \in still : view.asked.filter \subseteq {rows[id]}}

\* A user who follows Next to the last page has read every row that matches and
\* that nobody wrote meanwhile exactly once and in the declared order, however
\* rows around them come, go and move, whatever page size is entered on the way,
\* and also after going Back.
ListsEveryStableRow ==
  content.kind = "list" =>
    \A p \in content.shown :
      /\ \A i, j \in DOMAIN walk : \A m \in DOMAIN walk[i], n \in DOMAIN walk[j] :
           /\ i < j \/ (i = j /\ m < n)
           /\ {walk[i][m], walk[j][n]} \subseteq Matching(content)
           => Precedes(Key(rows, walk[i][m]), Key(rows, walk[j][n]))
      /\ p.page.next = {} =>
           \A id \in Matching(content) : \E i \in DOMAIN walk : \E m \in DOMAIN walk[i] : walk[i][m] = id

\* The page on the screen is the one asked for last in this view, whatever the
\* order in which answers arrive, and no other load of the view is in flight.
ShowsLatestRequest ==
  content.kind = "list" =>
    /\ \A p \in content.shown : p.ask = content.asked
    /\ content.shown # {} => \A s \in Slots : requests[s].kind # "load"

\* A view does not stay at its loading notice when its request is answered,
\* refused or lost; the list after a mutation is the exception the code makes.
Loading == content = Starting \/ (content.kind = "list" /\ content.shown = {} /\ ~content.refresh)
LoadingEnds == Loading ~> ~Loading
=============================================================================
