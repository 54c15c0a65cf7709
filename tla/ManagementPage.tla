--------------------------- MODULE ManagementPage ---------------------------
(***************************************************************************)
(* One open management page of the client: its table, its pager, its form, *)
(* its confirmation dialogs and its bulk selection, over requests that are *)
(* answered in any order, refused or lost, while other people change the   *)
(* same rows.  kind says which of the pages it is; what the pages share is *)
(* written once, and an action of its own stands for what one page does.   *)
(*                                                                         *)
(* A handler of a page is a closure of the render it was clicked in: when  *)
(* it continues after an await it still refetches the page and semester of *)
(* that render, which is why a call keeps its key.                         *)
(*                                                                         *)
(* The class of a row is its semester on the pages of one semester, its run *)
(* on the schedule viewer, whose rows are the sessions of a schedule, and   *)
(* on the others what the filter of the page asks for (an active user, a   *)
(* run that is still QUEUED or RUNNING); of a semester itself it says      *)
(* whether it is active.  Left out: what the forms contain, client-side    *)
(* validation, and the number of rows on a page, which is fixed.           *)
(* Properties are in PageSafety.                                           *)
(***************************************************************************)
EXTENDS Naturals, Sequences, FiniteSets, SequencesExt

CONSTANTS
  Kinds,        \* the pages to check
  Rows,         \* row identifiers, a set of numbers in the order of the table
  Classes,      \* semesters, or the classes a filter tells apart
  Marked,       \* the class a filter of the server keeps
  Hidden,       \* the rows the search box of the client hides
  Self,         \* the row of the administrator, on the page of users
  PageSize,     \* rows on a page, for each of the pages
  Stored,       \* the tables to start from: row -> class, or "unborn"
  MaxFetches,   \* bound: fetches in flight
  MaxActs,      \* bound: what the user and other people do, all in all
  None

SemesterPages == {"rooms", "lecturers", "courses", "offerings", "timeslots"}
BulkPages     == {"rooms", "lecturers", "courses", "offerings"}
FilteredPages == {"users", "runs", "audit"}
AdminPages    == {"facilities", "semesters", "users", "audit"}
\* The schedule viewer, and the page that starts a run.
GuardedPages  == {"schedule", "creation"}

Keys == [of : Classes \cup {None}, page : Nat, filter : BOOLEAN]

\* The writes of a form, and those of a dialog: a write of row None is of a new
\* row; locks are the requests to follow, left the rows still to be deleted.
Stages == {"sent", "done", "failed"}
Writes ==
  [do : {"create", "update", "lock"}, row : Rows \cup {None}, locks : {0, 1}, key : Keys,
   of : Classes \cup {None}, stage : Stages]
Removals ==
  [do : {"start", "delete", "cancel", "activate", "deactivate", "reactivate", "bulk"},
   row : Rows \cup {None}, left : SUBSET Rows, key : Keys,
   of : Classes \cup {None}, stage : Stages]

ASSUME PageAssumption ==
  /\ Kinds \subseteq SemesterPages \cup FilteredPages
                       \cup GuardedPages
                       \cup {"facilities", "semesters", "dashboard"}
  /\ Rows \subseteq Nat /\ IsFiniteSet(Rows) /\ Hidden \subseteq Rows /\ Self \in Rows
  /\ Marked \in Classes
  /\ None \notin Classes /\ None \notin Rows /\ None \notin Writes /\ None \notin Removals
  /\ PageSize \in [Kinds -> Nat \ {0}] /\ MaxFetches \in Nat \ {0, 1} /\ MaxActs \in Nat
  /\ Stored \subseteq [Rows -> Classes \cup {"unborn"}]

VARIABLES
  kind,       \* which page is open
  admin,      \* the user's role; RoleGuard keeps others from four of the pages
  table,      \* the server's rows: the class of each, "unborn" or "gone"
  scope,      \* the active semester of the store or None; the viewer's run
  page, filter,
  view,       \* the list shown: its rows, the marked ones, the total, its key
  loading,
  fetches,    \* the list requests in flight, in the order they were sent
  form,       \* the form: whether it is open, and the row it edits or None
  dialog,     \* the confirmation dialog, or None
  selected,   \* the rows ticked for a bulk delete
  call,       \* the write in flight of the form, and that of a dialog
  newest,     \* history: the fate of the newest fetch
  surprise,   \* history: the table changed behind the page since it was read
  acts        \* history: how much people have done

server  == <<table, surprise>>
listing == <<view, loading, fetches, newest>>
asking  == <<form, dialog, selected, call>>
vars    == <<kind, admin, page, filter, scope, server, listing, asking, acts>>

----------------------------------------------------------------------------
(* What a list request asks for, on each page: the dependencies of its     *)
(* fetch callback and of the effect that calls it.                         *)

KeyFor(of, p, f) == [of |-> of, page |-> p, filter |-> f]

FacilitiesKey == KeyFor(None, page, FALSE)
SemestersKey  == KeyFor(None, page, FALSE)
RoomsKey      == KeyFor(scope, page, FALSE)
LecturersKey  == KeyFor(scope, page, FALSE)
CoursesKey    == KeyFor(scope, page, FALSE)
OfferingsKey  == KeyFor(scope, page, FALSE)
TimeslotsKey  == KeyFor(scope, 0, FALSE)     \* all of them, paged by the client
UsersKey      == KeyFor(None, page, filter)
RunsKey       == KeyFor(None, page, filter)
AuditKey      == KeyFor(None, page, filter)
ScheduleKey   == KeyFor(scope, 0, FALSE)
DashboardKey  == KeyFor(scope, 1, FALSE)     \* without a semester it counts all
CreationKey   == KeyFor(scope, 0, FALSE)     \* the offerings, counted

Key == CASE kind = "facilities" -> FacilitiesKey [] kind = "semesters" -> SemestersKey
         [] kind = "rooms"      -> RoomsKey      [] kind = "lecturers" -> LecturersKey
         [] kind = "courses"    -> CoursesKey    [] kind = "offerings" -> OfferingsKey
         [] kind = "timeslots"  -> TimeslotsKey  [] kind = "users"     -> UsersKey
         [] kind = "runs"       -> RunsKey       [] kind = "audit"     -> AuditKey
         [] kind = "dashboard"  -> DashboardKey
         [] kind = "schedule"   -> ScheduleKey   [] kind = "creation"  -> CreationKey

Alive(r) == table[r] \in Classes

\* The p-th page of a set of rows; page 0 is all of them.
PageOf(rows, p) ==
  IF p = 0 THEN rows
  ELSE {r \in rows : (Cardinality({x \in rows : x < r}) \div PageSize[kind]) + 1 = p}

\* The semesterId of a list request is optional, and so is its filter.
Of(key)       == {r \in Rows : Alive(r) /\ (key.of # None => table[r] = key.of)}
Filtered(key) == {r \in Rows : Alive(r) /\ (key.filter => table[r] = Marked)}

\* What the list handlers of the server keep before they page.
FacilitiesList     == {r \in Rows : Alive(r)}
SemestersList      == {r \in Rows : Alive(r)}
RoomsList(key)     == Of(key)
LecturersList(key) == Of(key)
CoursesList(key)   == Of(key)
OfferingsList(key) == Of(key)
TimeslotsList(key) == Of(key)
UsersList(key)     == Filtered(key)
RunsList(key)      == Filtered(key)          \* of the rows the caller may see
AuditList(key)     == Filtered(key)
SessionsList(key)  == Of(key)                \* of a run

Listed(key) ==
  CASE kind = "facilities" -> FacilitiesList     [] kind = "semesters" -> SemestersList
    [] kind = "rooms"      -> RoomsList(key)     [] kind = "lecturers" -> LecturersList(key)
    [] kind = "courses"    -> CoursesList(key)   [] kind = "timeslots" -> TimeslotsList(key)
    [] kind = "users"      -> UsersList(key)     [] kind = "runs"      -> RunsList(key)
    [] kind = "audit"      -> AuditList(key)     [] kind = "schedule"  -> SessionsList(key)
    [] kind \in {"offerings", "dashboard", "creation"} -> OfferingsList(key)

\* What the server answers now.
Answer(key) ==
  LET matching == Listed(key)
      rows     == PageOf(matching, key.page)
  IN  [rows |-> rows, marked |-> {r \in rows : table[r] = Marked},
       total |-> Cardinality(matching), key |-> key]

\* The list a page starts with, or is reset to without an active semester.
Blank(key) == [rows |-> {}, marked |-> {}, total |-> 0, key |-> key]

\* Row r becomes the only active semester.
Activated(r) ==
  /\ Alive(r)
  /\ table' \in [Rows -> Classes \cup {"unborn", "gone"}]
  /\ \A x \in Rows : IF x = r THEN table'[x] = Marked
                     ELSE IF table[x] = Marked THEN table'[x] \in Classes \ {Marked}
                     ELSE table'[x] = table[x]

----------------------------------------------------------------------------
(* Fetching                                                                *)

Request(key, guarded) == [key |-> key, answer |-> None, guarded |-> guarded]

\* Ask for key when the page now wants wanted.
Fetch(key, wanted) ==
  LET clears == kind \in SemesterPages /\ key.of = None IN
  /\ newest' = IF key # wanted THEN "misdirected"
               ELSE IF clears THEN "shown" ELSE "asked"
  /\ \/ /\ clears
        /\ view' = Blank(key)
        /\ loading' = FALSE
        /\ UNCHANGED fetches
     \/ /\ ~clears
        /\ Len(fetches) < MaxFetches
        /\ fetches' = Append(fetches, Request(key, FALSE))
        /\ loading' = TRUE
        /\ UNCHANGED view

\* The effect of a guarded page drops the answer of the one before, if that is
\* still to come.
Guarded == {i \in DOMAIN fetches : fetches[i].guarded}
FetchGuarded ==
  LET kept == IF Guarded = {} THEN fetches ELSE RemoveAt(fetches, CHOOSE i \in Guarded : TRUE) IN
  /\ Len(kept) < MaxFetches
  /\ fetches' = Append(kept, Request(Key', TRUE))
  /\ loading' = TRUE
  /\ newest' = "asked"
  /\ UNCHANGED view

\* Mutant: the effect of a render that does not depend on the active semester.
EffectOfPage == IF Key'.page = Key.page /\ Key'.filter = Key.filter
                THEN UNCHANGED listing ELSE Fetch(Key', Key')

\* The effect of a render: fetch when one of its dependencies changed.
Effect ==
  CASE Key' = Key -> UNCHANGED listing
    [] Key' # Key /\ kind \in GuardedPages -> FetchGuarded
    [] OTHER -> Fetch(Key', Key')

Read(i) ==
  /\ i \in DOMAIN fetches /\ fetches[i].answer = None
  /\ fetches' = [fetches EXCEPT ![i].answer = Answer(fetches[i].key)]
  /\ surprise' = IF i = Len(fetches) /\ newest = "asked" THEN FALSE ELSE surprise
  /\ UNCHANGED <<kind, admin, page, filter, scope, table, view, loading, newest, asking>>

\* The answer of the i-th fetch replaces what is shown, whatever was shown.
Deliver(i) ==
  /\ i \in DOMAIN fetches /\ fetches[i].answer # None
  /\ kind = "runs" => fetches[i].key.page = page
  /\ view' = fetches[i].answer
  /\ loading' = FALSE
  /\ fetches' = RemoveAt(fetches, i)
  /\ newest' = CASE newest = "asked" /\ i = Len(fetches) -> "shown"
                 [] newest = "shown" -> "overwritten"
                 [] OTHER -> newest
  /\ UNCHANGED <<kind, admin, page, filter, scope, server, asking>>

\* On the run history the answer also sets the page it was asked for, and
\* the effect of that page asks again.
DeliverMeta(i) ==
  /\ kind = "runs"
  /\ i \in DOMAIN fetches /\ fetches[i].answer # None
  /\ fetches[i].key.page # page
  /\ page' = fetches[i].key.page
  /\ UNCHANGED <<kind, admin, filter, scope, server, asking>>
  /\ view' = fetches[i].answer
  /\ loading' = TRUE
  /\ fetches' = Append(RemoveAt(fetches, i), Request(Key', FALSE))
  /\ newest' = "asked"

\* Mutant: a failed request that leaves the skeleton.
FailFetchLoading(i) ==
  /\ i \in DOMAIN fetches
  /\ fetches' = RemoveAt(fetches, i)
  /\ newest' = IF newest = "asked" /\ i = Len(fetches) THEN "failed" ELSE newest
  /\ UNCHANGED <<kind, admin, page, filter, scope, server, view, loading, asking>>

\* A list request that fails leaves the old list and a toast.
FailFetch(i) ==
  /\ i \in DOMAIN fetches
  /\ loading' = FALSE
  /\ fetches' = RemoveAt(fetches, i)
  /\ newest' = IF newest = "asked" /\ i = Len(fetches) THEN "failed" ELSE newest
  /\ UNCHANGED <<kind, admin, page, filter, scope, server, view, asking>>

\* The run history asks again every ten seconds while it shows a live run.
AutoRefresh ==
  /\ kind = "runs" /\ view.marked # {}
  /\ Fetch(Key, Key)
  /\ UNCHANGED <<kind, admin, page, filter, scope, server, asking>>

----------------------------------------------------------------------------
(* What each page offers: the rows it shows, those with an edit and those  *)
(* with a delete button, and whether there is a button for a new row.      *)

Searched == view.rows \ (IF filter THEN Hidden ELSE {})

Managed(rows, may) ==
  [rows |-> rows, edits |-> IF may THEN rows ELSE {}, deletes |-> IF may THEN rows ELSE {},
   creates |-> may]

FacilitiesOffer == Managed(view.rows, TRUE)
SemestersOffer  == Managed(view.rows, TRUE)
RoomsOffer      == Managed(Searched, admin)
LecturersOffer  == [Managed(Searched, admin) EXCEPT !.creates = TRUE]
CoursesOffer    == [Managed(Searched, admin) EXCEPT !.creates = TRUE]
OfferingsOffer  == [Managed(Searched, admin) EXCEPT !.creates = TRUE]
TimeslotsOffer  == Managed(view.rows, admin)
UsersOffer      == [Managed(view.rows, TRUE) EXCEPT !.deletes = {}]
\* Of the marked runs the QUEUED ones may be deleted; other people's may not.
RunsOffer       == [Managed(view.rows, FALSE) EXCEPT !.deletes = view.rows]
ReadOnly        == Managed(view.rows, FALSE)
\* admin is here whether the user may override the run that is shown.
ScheduleOffer   == [ReadOnly EXCEPT !.edits = IF admin THEN view.rows ELSE {}]

Offer == CASE kind = "facilities" -> FacilitiesOffer [] kind = "semesters" -> SemestersOffer
           [] kind = "rooms"      -> RoomsOffer      [] kind = "lecturers" -> LecturersOffer
           [] kind = "courses"    -> CoursesOffer    [] kind = "offerings" -> OfferingsOffer
           [] kind = "timeslots"  -> TimeslotsOffer  [] kind = "users"     -> UsersOffer
           [] kind = "runs"       -> RunsOffer
           [] kind = "schedule" -> ScheduleOffer
           [] kind \in {"audit", "dashboard", "creation"} -> ReadOnly

\* A skeleton takes the place of the rows while the page loads.
Shown(rows) == IF loading THEN {} ELSE rows

\* The number of rows the pager counts with.
Total == IF kind \in BulkPages THEN Cardinality(Offer.rows)
         ELSE IF kind = "timeslots" THEN Cardinality(view.rows) ELSE view.total

\* DataTable shows its pager below rows only.
Pager == IF Shown(Offer.rows) = {} THEN {} ELSE 1..((Total + PageSize[kind] - 1) \div PageSize[kind])

\* The run history has a pager of its own, with two buttons.
RunsPager ==
  IF loading \/ (view.total = 0 /\ ~filter) THEN {}
  ELSE {page - 1, page + 1} \cap 1..((view.total + PageSize[kind] - 1) \div PageSize[kind])

\* A dialog or form covers the page and keeps the focus.
Covered == form.open \/ dialog # None

TurnPage ==
  /\ ~Covered /\ kind \notin GuardedPages \cup {"dashboard"}
  /\ \E p \in (IF kind = "runs" THEN RunsPager ELSE Pager) \ {page} : page' = p
  /\ UNCHANGED <<kind, admin, filter, scope, server, asking>>
  /\ Effect

\* The search box or the filter of the toolbar, whose place the selection bar
\* takes.  Ticks, and the page number of users, stay.
FilterRows ==
  /\ ~Covered /\ kind \in BulkPages \cup {"users"} /\ selected = {}
  /\ filter' = ~filter
  /\ UNCHANGED <<kind, admin, page, scope, server, asking>>
  /\ Effect

\* The run history goes back to its first page with the filter.
FilterRuns ==
  /\ ~Covered /\ kind = "runs"
  /\ filter' = ~filter /\ page' = 1
  /\ UNCHANGED <<kind, admin, scope, server, asking>>
  /\ Effect

\* So does the audit log, one render too late: its first effect asks for the
\* old page under the new filter.
FilterAudit ==
  /\ ~Covered /\ kind = "audit"
  /\ filter' = ~filter /\ page' = 1
  /\ UNCHANGED <<kind, admin, scope, server, asking>>
  /\ IF page = 1 THEN Effect
     ELSE /\ Len(fetches) + 1 < MaxFetches
          /\ fetches' = fetches \o << Request(KeyFor(None, page, filter'), FALSE),
                                      Request(Key', FALSE) >>
          /\ loading' = TRUE
          /\ newest' = "asked"
          /\ UNCHANGED view

\* The top bar activates a semester and then sets it in the store.  The page
\* of semesters is not told, although one of its rows became the active one.
SwitchSemester ==
  /\ ~Covered /\ kind # "schedule"
  /\ \E s \in Classes \ {scope} : scope' = s
  /\ IF kind = "semesters" THEN surprise' = TRUE /\ \E r \in Rows : Activated(r)
                           ELSE UNCHANGED server
  /\ UNCHANGED <<kind, admin, page, filter, asking>>
  /\ Effect

SelectRun ==
  /\ ~Covered /\ kind = "schedule"
  /\ \E s \in Classes \ {scope} : scope' = s
  /\ UNCHANGED <<kind, admin, page, filter, server, asking>>
  /\ Effect

----------------------------------------------------------------------------
(* The form                                                                *)

OpenForm ==
  /\ ~Covered
  /\ \E r \in Shown(Offer.edits) \cup (IF Offer.creates THEN {None} ELSE {}) :
       form' = [open |-> TRUE, row |-> r]
  /\ UNCHANGED <<kind, admin, page, filter, scope, server, listing, dialog, selected, call>>

\* Escape, the backdrop and the cross close the form, also while it saves.
Dismiss ==
  /\ form.open
  /\ form' = [form EXCEPT !.open = FALSE]
  /\ UNCHANGED <<kind, admin, page, filter, scope, server, listing, dialog, selected, call>>

\* Send the form, with n requests about its room lock to follow.
Submit(n) ==
  /\ form.open /\ call.save = None
  /\ call' = [call EXCEPT !.save = [do |-> IF form.row = None THEN "create" ELSE "update",
                                    row |-> form.row, locks |-> n, key |-> Key,
                                    of |-> scope, stage |-> "sent"]]
  /\ UNCHANGED <<kind, admin, page, filter, scope, server, listing, form, dialog, selected>>

HasSemester == form.row = None => scope # None

SaveFacility == kind = "facilities" /\ Submit(0)
SaveSemester == kind = "semesters" /\ Submit(0)
SaveRoom     == kind = "rooms" /\ HasSemester /\ Submit(0)
SaveLecturer == kind = "lecturers" /\ HasSemester /\ Submit(0)
SaveCourse   == kind = "courses" /\ HasSemester /\ Submit(0)
SaveTimeslot == kind = "timeslots" /\ HasSemester /\ Submit(0)
\* An administrator's form may set, change or lift the lock of its offering.
SaveOffering == kind = "offerings" /\ HasSemester /\ (Submit(0) \/ (admin /\ Submit(1)))
SaveOverride == kind = "schedule" /\ Submit(0)
SaveUser     == kind = "users" /\ Submit(0)

\* A form of a user in which nothing was changed sends nothing.
SaveUserUnchanged ==
  /\ kind = "users" /\ form.open /\ form.row # None /\ call.save = None
  /\ form' = [form EXCEPT !.open = FALSE]
  /\ Fetch(Key, Key)
  /\ UNCHANGED <<kind, admin, page, filter, scope, server, dialog, selected, call>>

\* The offering is saved: the request about its lock goes out.
SaveLock ==
  /\ call.save # None /\ call.save.stage = "done" /\ call.save.locks > 0
  /\ call' = [call EXCEPT !.save.stage = "sent", !.save.locks = 0, !.save.do = "lock"]
  /\ UNCHANGED <<kind, admin, page, filter, scope, server, listing, form, dialog, selected>>

\* The form that is open by now is closed, whichever it is, and the page of
\* the render that was saved is asked for.  A lock that failed is no error.
Saved ==
  /\ call.save # None /\ call.save.locks = 0
  /\ call.save.stage = "done" \/ (call.save.stage = "failed" /\ call.save.do = "lock")
  /\ form' = [form EXCEPT !.open = FALSE]
  /\ call' = [call EXCEPT !.save = None]
  /\ Fetch(call.save.key, Key)
  /\ UNCHANGED <<kind, admin, page, filter, scope, server, dialog, selected>>

SaveFailed ==
  /\ call.save # None /\ call.save.stage = "failed" /\ call.save.do # "lock"
  /\ call' = [call EXCEPT !.save = None]
  /\ UNCHANGED <<kind, admin, page, filter, scope, server, listing, form, dialog, selected>>

----------------------------------------------------------------------------
(* The confirmation dialogs                                                *)

\* A run is started of the semester the page has counted, once it has.
AskStart ==
  /\ kind = "creation" /\ ~Covered /\ ~loading
  /\ view.key.of # None /\ view.rows # {}
  /\ dialog' = [do |-> "start", row |-> None, blocked |-> FALSE]
  /\ UNCHANGED <<kind, admin, page, filter, scope, server, listing, form, selected, call>>

Ask(do, rows, blocked) ==
  /\ ~Covered
  /\ \E r \in Shown(rows), b \in blocked : dialog' = [do |-> do, row |-> r, blocked |-> b]
  /\ UNCHANGED <<kind, admin, page, filter, scope, server, listing, form, selected, call>>

\* The dialogs of lecturers and courses open without a delete button when the
\* list counted offerings of the row.
AskDelete == Ask("delete", Offer.deletes, IF kind \in {"lecturers", "courses"} THEN BOOLEAN ELSE {FALSE})

AskCancel     == kind = "runs" /\ Ask("cancel", view.marked, {FALSE})
AskActivate   == kind = "semesters" /\ Ask("activate", view.rows \ view.marked, {FALSE})
\* The list decides which of the two the button is, when it is clicked.
AskDeactivate == kind = "users" /\ Ask("deactivate", view.marked \ {Self}, {FALSE})
AskReactivate == kind = "users" /\ Ask("reactivate", view.rows \ (view.marked \cup {Self}), {FALSE})

\* The tick boxes, and the selection bar, which stays while the page loads.
\* Ticks outlive a change of page and of semester.
Tick ==
  /\ ~Covered /\ kind \in BulkPages /\ admin
  /\ \/ \E r \in Shown(Offer.rows) :
          selected' = IF r \in selected THEN selected \ {r} ELSE selected \cup {r}
     \/ /\ selected # {} /\ Cardinality(selected) < Cardinality(Offer.rows)
        /\ selected' = Offer.rows
     \/ selected # {} /\ selected' = {}
  /\ UNCHANGED <<kind, admin, page, filter, scope, server, listing, form, dialog, call>>

AskBulk ==
  /\ ~Covered /\ selected # {}
  /\ dialog' = [do |-> "bulk", row |-> None, blocked |-> FALSE]
  /\ UNCHANGED <<kind, admin, page, filter, scope, server, listing, form, selected, call>>

\* The buttons of a dialog are disabled while its request is in flight.
Cancel ==
  /\ dialog # None /\ call.remove = None
  /\ dialog' = None
  /\ UNCHANGED <<kind, admin, page, filter, scope, server, listing, form, selected, call>>

Send(do, r, left) ==
  [do |-> do, row |-> r, left |-> left, key |-> Key, of |-> scope, stage |-> "sent"]

StartRun ==
  /\ kind = "creation" /\ dialog # None /\ call.remove = None
  /\ call' = [call EXCEPT !.remove = [Send("start", None, {}) EXCEPT !.of = view.key.of]]
  /\ UNCHANGED <<kind, admin, page, filter, scope, server, listing, form, dialog, selected>>

Confirm(do) ==
  /\ dialog # None /\ ~dialog.blocked /\ dialog.do = do /\ call.remove = None
  /\ call' = [call EXCEPT !.remove = Send(do, dialog.row, {})]
  /\ UNCHANGED <<kind, admin, page, filter, scope, server, listing, form, dialog, selected>>

DeleteFacility   == kind = "facilities" /\ Confirm("delete")
DeleteSemester   == kind = "semesters" /\ Confirm("delete")
ActivateSemester == kind = "semesters" /\ Confirm("activate")
DeleteRoom       == kind = "rooms" /\ Confirm("delete")
DeleteLecturer   == kind = "lecturers" /\ Confirm("delete")
DeleteCourse     == kind = "courses" /\ Confirm("delete")
DeleteOffering   == kind = "offerings" /\ Confirm("delete")
DeleteTimeslot   == kind = "timeslots" /\ Confirm("delete")
ToggleUser       == kind = "users" /\ (Confirm("deactivate") \/ Confirm("reactivate"))
DeleteRun        == kind = "runs" /\ Confirm("delete")
CancelRun        == kind = "runs" /\ Confirm("cancel")

\* A bulk delete sends one request after the other, for the rows ticked.
BulkDelete ==
  /\ dialog # None /\ dialog.do = "bulk" /\ call.remove = None
  /\ \E r \in selected : call' = [call EXCEPT !.remove = Send("bulk", r, selected \ {r})]
  /\ UNCHANGED <<kind, admin, page, filter, scope, server, listing, form, dialog, selected>>

BulkDeleteRooms     == kind = "rooms" /\ BulkDelete
BulkDeleteLecturers == kind = "lecturers" /\ BulkDelete
BulkDeleteCourses   == kind = "courses" /\ BulkDelete
BulkDeleteOfferings == kind = "offerings" /\ BulkDelete

\* The page is left for that of the run; it is opened anew.
Started ==
  /\ call.remove # None /\ call.remove.do = "start" /\ call.remove.stage = "done"
  /\ dialog' = None
  /\ call' = [call EXCEPT !.remove = None]
  /\ view' = Blank(Key)
  /\ fetches' = << Request(Key, TRUE) >>
  /\ loading' = TRUE
  /\ newest' = "asked"
  /\ UNCHANGED <<kind, admin, page, filter, scope, server, form, selected>>

StartFailed ==
  /\ call.remove # None /\ call.remove.do = "start" /\ call.remove.stage = "failed"
  /\ dialog' = None
  /\ call' = [call EXCEPT !.remove = None]
  /\ UNCHANGED <<kind, admin, page, filter, scope, server, listing, form, selected>>

\* The row is gone: its tick goes too.
Removed ==
  /\ call.remove # None /\ call.remove.do \notin {"bulk", "start"} /\ call.remove.stage = "done"
  /\ dialog' = None
  /\ selected' = selected \ {call.remove.row}
  /\ call' = [call EXCEPT !.remove = None]
  /\ Fetch(call.remove.key, Key)
  /\ UNCHANGED <<kind, admin, page, filter, scope, server, form>>

\* A refusal leaves the dialog open; lecturers and courses lose the button
\* to a conflict, and a user who is deactivated already is fetched again.
RemoveFailed ==
  /\ call.remove # None /\ call.remove.do \notin {"bulk", "start"} /\ call.remove.stage = "failed"
  /\ call' = [call EXCEPT !.remove = None]
  /\ \E b \in (IF kind \in {"lecturers", "courses"} THEN BOOLEAN ELSE {FALSE}) :
       dialog' = [dialog EXCEPT !.blocked = b]
  /\ UNCHANGED listing \/ (call.remove.do = "deactivate" /\ Fetch(call.remove.key, Key))
  /\ UNCHANGED <<kind, admin, page, filter, scope, server, form, selected>>

BulkNext ==
  /\ call.remove # None /\ call.remove.do = "bulk" /\ call.remove.stage # "sent"
  /\ \E r \in call.remove.left :
       call' = [call EXCEPT !.remove.row = r, !.remove.stage = "sent",
                            !.remove.left = call.remove.left \ {r}]
  /\ UNCHANGED <<kind, admin, page, filter, scope, server, listing, form, dialog, selected>>

BulkDone ==
  /\ call.remove # None /\ call.remove.do = "bulk" /\ call.remove.stage # "sent"
  /\ call.remove.left = {}
  /\ selected' = {}
  /\ dialog' = None
  /\ call' = [call EXCEPT !.remove = None]
  /\ Fetch(call.remove.key, Key)
  /\ UNCHANGED <<kind, admin, page, filter, scope, server, form>>

----------------------------------------------------------------------------
(* The server and the other people who use it                              *)

\* What a request does to the table when it is carried out.
Carried(c) ==
  LET Becomes(k) == Alive(c.row) /\ table' = [table EXCEPT ![c.row] = k] IN
  CASE c.do = "create" ->
         \E r \in {x \in Rows : table[x] = "unborn"},
            k \in (IF kind \in SemesterPages THEN {c.of}
                   ELSE IF kind = "semesters" THEN Classes \ {Marked} ELSE Classes) :
           table' = [table EXCEPT ![r] = k]
    [] c.do \in {"delete", "bulk"} -> Becomes("gone")
    \* A semester without offerings is refused; the run itself is no row here.
    [] c.do = "start" -> (\E r \in Rows : table[r] = c.of) /\ UNCHANGED table
    [] c.do = "activate" -> Activated(c.row)
    [] c.do = "cancel" \/ c.do = "deactivate" ->
         table[c.row] = Marked /\ \E k \in Classes \ {Marked} : Becomes(k)
    [] c.do = "reactivate" -> Becomes(Marked)
    [] c.do = "update" /\ kind = "users" /\ c.row # Self -> \E k \in Classes : Becomes(k)
    \* A session is overridden under the run in the path of the request.
    [] c.do = "update" /\ kind = "schedule" -> table[c.row] = c.of /\ UNCHANGED table
    [] OTHER -> (c.row # None => Alive(c.row)) /\ UNCHANGED table

\* A request is carried out, or refused, or carried out and its answer lost.
Serve(a) ==
  /\ call[a] # None /\ call[a].stage = "sent"
  /\ \/ Carried(call[a]) /\ call' = [call EXCEPT ![a].stage = "done"]
        /\ UNCHANGED surprise
     \/ call' = [call EXCEPT ![a].stage = "failed"] /\ UNCHANGED server
     \/ /\ Carried(call[a])
        /\ call' = [call EXCEPT ![a].stage = "failed"]
        /\ surprise' = TRUE
  /\ UNCHANGED <<kind, admin, page, filter, scope, listing, form, dialog, selected>>

\* Somebody else deletes, creates or changes a row; none changes its semester.
ElsewhereRow ==
  \E r \in Rows :
    /\ table[r] # "gone"
    /\ \E k \in (IF kind \in SemesterPages \cup {"creation"} /\ Alive(r) THEN {"gone"} ELSE Classes \cup {"gone"}) :
         table' = [table EXCEPT ![r] = k]

\* The sessions of a run go with it.
ElsewhereRun ==
  \E k \in Classes : table' = [r \in Rows |-> IF table[r] = k THEN "gone" ELSE table[r]]

Elsewhere ==
  /\ IF kind = "schedule" THEN ElsewhereRun ELSE ElsewhereRow
  /\ surprise' = TRUE
  /\ UNCHANGED <<kind, admin, page, filter, scope, listing, asking>>

----------------------------------------------------------------------------
Init ==
  /\ kind \in Kinds
  /\ admin \in BOOLEAN /\ (kind \in AdminPages => admin)
  /\ scope \in Classes \cup {None} /\ (kind = "schedule" => scope # None)
  /\ table \in Stored
  /\ page = 1 /\ filter = FALSE
  /\ view = Blank(Key)
  /\ loading = ~(kind \in SemesterPages \cup {"creation"} /\ scope = None)
  /\ fetches = IF loading THEN << Request(Key, kind \in GuardedPages) >> ELSE <<>>
  /\ newest = IF loading THEN "asked" ELSE "shown"
  /\ form = [open |-> FALSE, row |-> None]
  /\ dialog = None
  /\ selected = {}
  /\ call = [save |-> None, remove |-> None]
  /\ surprise = FALSE
  /\ acts = 0

Saves ==
  \/ SaveFacility \/ SaveSemester \/ SaveRoom \/ SaveLecturer \/ SaveCourse
  \/ SaveTimeslot \/ SaveOffering \/ SaveUser \/ SaveUserUnchanged \/ SaveOverride

Confirms ==
  \/ DeleteFacility \/ DeleteSemester \/ ActivateSemester \/ DeleteRoom
  \/ DeleteLecturer \/ DeleteCourse \/ DeleteOffering \/ DeleteTimeslot
  \/ ToggleUser \/ DeleteRun \/ CancelRun \/ StartRun
  \/ BulkDeleteRooms \/ BulkDeleteLecturers \/ BulkDeleteCourses \/ BulkDeleteOfferings

User ==
  \/ TurnPage \/ FilterRows \/ FilterRuns \/ FilterAudit \/ SwitchSemester \/ SelectRun
  \/ OpenForm \/ Dismiss \/ Saves
  \/ AskDelete \/ AskCancel \/ AskActivate \/ AskDeactivate \/ AskReactivate \/ AskStart
  \/ Tick \/ AskBulk \/ Cancel \/ Confirms

\* What goes on by itself once a request was sent.
Continues ==
  \/ SaveLock \/ Saved \/ SaveFailed \/ Started \/ StartFailed
  \/ Removed \/ RemoveFailed \/ BulkNext \/ BulkDone

Answers ==
  \/ \E i \in 1..MaxFetches : Read(i) \/ Deliver(i) \/ DeliverMeta(i) \/ FailFetch(i)
  \/ \E a \in {"save", "remove"} : Serve(a)

System == Answers \/ Continues

Next ==
  \/ acts < MaxActs /\ acts' = acts + 1 /\ (User \/ Elsewhere)
  \/ UNCHANGED acts /\ (System \/ AutoRefresh)

Spec == Init /\ [][Next]_vars

\* Every request is answered, or fails when it times out, and a handler goes on.
Fairness == WF_vars(UNCHANGED acts /\ Answers) /\ WF_vars(UNCHANGED acts /\ Continues)

FairSpec == Spec /\ Fairness
=============================================================================
