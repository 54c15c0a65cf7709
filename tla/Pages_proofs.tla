---------------------------- MODULE Pages_proofs ----------------------------
(***************************************************************************)
(* What a list page shows, and which semester a run is started of: for any *)
(* rows, semesters and filters, any number of pages, of requests in flight *)
(* and of changes by others.                                               *)
(***************************************************************************)
EXTENDS PageSafety, FiniteSetTheorems, SequenceTheorems, TLAPS

Lists == [rows : SUBSET Rows, marked : SUBSET Rows, total : Nat, key : Keys]
Requests == [key : Keys, answer : Lists \cup {None}, guarded : BOOLEAN]
Dialogs ==
  [do : {"start", "delete", "cancel", "activate", "deactivate", "reactivate", "bulk"},
   row : Rows \cup {None}, blocked : BOOLEAN]
Calls == [save : Writes \cup {None}, remove : Removals \cup {None}]

SetTo ==
  /\ kind \in Kinds /\ scope \in Classes \cup {None} /\ page \in Nat /\ filter \in BOOLEAN
Listing ==
  /\ view \in Lists /\ loading \in BOOLEAN /\ fetches \in Seq(Requests)
\* A dialog stays until its request is answered.
Asking ==
  /\ form \in [open : BOOLEAN, row : Rows \cup {None}] /\ selected \in SUBSET Rows
  /\ dialog \in Dialogs \cup {None} /\ call \in Calls
  /\ call.remove # None => dialog # None
PageShape == SetTo /\ Listing /\ Asking

\* A handler has changed the table and is still to fetch.
Unfetched ==
  \/ call.save # None /\ (call.save.stage = "done" \/ call.save.do = "lock")
  \/ call.remove # None /\ (call.remove.stage = "done" \/ call.remove.do = "bulk")

Blanked == kind \in SemesterPages \cup {"creation"} /\ scope = None /\ view = Blank(Key)

\* The newest fetch asks for what the page is set to, and what it was answered,
\* then what is shown, is what the server would answer now.
Newest == fetches[Len(fetches)]
ListInv ==
  /\ newest = "asked" =>
       /\ fetches # <<>> /\ Newest.key = Key
       /\ Newest.answer = None \/ surprise \/ Unfetched \/ Newest.answer = Answer(Key)
  /\ newest = "shown" =>
       surprise \/ Unfetched \/ view = Answer(Key) \/ Blanked

\* The page that starts a run has one fetch in flight, of the active semester,
\* and none below its dialog.
OneCount ==
  /\ fetches # <<>> =>
       /\ Len(fetches) = 1
       /\ fetches[1].guarded /\ fetches[1].key = Key
       /\ fetches[1].answer # None => fetches[1].answer.key = Key
  /\ loading = TRUE <=> fetches # <<>>
  /\ newest = "asked" <=> fetches # <<>>
  /\ newest \in {"asked", "shown", "failed"}
  /\ newest = "shown" => view.key.of = scope
StartOnly ==
  /\ call.save = None /\ selected = {}
  /\ dialog # None => dialog.do = "start" /\ fetches = <<>>
  /\ call.remove # None =>
       call.remove.do = "start" /\ (newest # "failed" => call.remove.of = scope)
CreationInv == kind = "creation" => OneCount /\ StartOnly

PageInv == PageShape /\ ListInv /\ CreationInv

-----------------------------------------------------------------------------
(* What the operators give                                                 *)

LEMMA Removing ==
  ASSUME NEW S, NEW s \in Seq(S), NEW i \in DOMAIN s
  PROVE  /\ RemoveAt(s, i) \in Seq(S)
         /\ Len(RemoveAt(s, i)) = Len(s) - 1
         /\ i # Len(s) => /\ RemoveAt(s, i) # <<>>
                          /\ RemoveAt(s, i)[Len(s) - 1] = s[Len(s)]
         /\ Len(s) = 1 => RemoveAt(s, i) = <<>>
<1> DEFINE n == Len(s)
           a == SubSeq(s, 1, i - 1)
           b == SubSeq(s, i + 1, n)
<1>1. n \in Nat /\ i \in 1..n /\ \A j \in 1..n : s[j] \in S BY LenProperties, ElementOfSeq
<1> HIDE DEF n
<1>2. a \in Seq(S) /\ Len(a) = i - 1
  <2>1. i - 1 \in Int /\ 1 \in Int /\ \A j \in 1..(i - 1) : s[j] \in S BY <1>1
  <2>2. a \in Seq(S) /\ Len(a) = IF 1 <= i - 1 THEN (i - 1) - 1 + 1 ELSE 0
    BY <2>1, SubSeqProperties
  <2> QED BY <1>1, <2>2
<1>3. /\ b \in Seq(S) /\ Len(b) = n - i
      /\ i # n => b[n - i] = s[n]
  <2>1. i + 1 \in Int /\ n \in Int /\ \A j \in (i + 1)..n : s[j] \in S BY <1>1
  <2>2. /\ b \in Seq(S) /\ Len(b) = IF i + 1 <= n THEN n - (i + 1) + 1 ELSE 0
        /\ \A j \in 1..(n - (i + 1) + 1) : b[j] = s[(i + 1) + j - 1]
    BY <2>1, SubSeqProperties
  <2>3. i # n => n - i \in 1..(n - (i + 1) + 1) /\ (i + 1) + (n - i) - 1 = n BY <1>1
  <2>4. Len(b) = n - i BY <1>1, <2>2
  <2> HIDE DEF b
  <2>5. i # n => b[n - i] = s[n] BY <2>2, <2>3
  <2> QED BY <2>2, <2>4, <2>5
<1> HIDE DEF a, b
<1>4. /\ a \o b \in Seq(S) /\ Len(a \o b) = Len(a) + Len(b)
      /\ \A j \in 1..(Len(a) + Len(b)) :
           (a \o b)[j] = IF j <= Len(a) THEN a[j] ELSE b[j - Len(a)]
  BY <1>2, <1>3, ConcatProperties
<1> DEFINE r == a \o b
<1> HIDE DEF r
<1>5. r \in Seq(S) /\ Len(r) = n - 1 BY <1>1, <1>2, <1>3, <1>4 DEF r
<1>6. i # n => r[n - 1] = s[n]
  <2> SUFFICES ASSUME i # n PROVE r[n - 1] = s[n]
    OBVIOUS
  <2>1. n - 1 \in 1..(Len(a) + Len(b)) /\ ~(n - 1 <= Len(a)) /\ n - 1 - Len(a) = n - i
    BY <1>1, <1>2, <1>3
  <2>2. r[n - 1] = b[n - 1 - Len(a)] BY <1>4, <2>1 DEF r
  <2> QED BY <1>3, <2>1, <2>2
<1>7. i # n => r # <<>> BY <1>1, <1>5, EmptySeq
<1>8. n = 1 => r = <<>> BY <1>5, EmptySeq
<1>9. RemoveAt(s, i) = r BY DEF RemoveAt, a, b, n, r
<1> QED BY <1>5, <1>6, <1>7, <1>8, <1>9 DEF n

LEMMA Appending ==
  ASSUME NEW S, NEW s \in Seq(S), NEW e \in S
  PROVE  /\ Append(s, e) \in Seq(S) /\ Append(s, e) # <<>>
         /\ Append(s, e)[Len(Append(s, e))] = e
         /\ s = <<>> => Len(Append(s, e)) = 1 /\ Append(s, e)[1] = e
<1> DEFINE r == Append(s, e)
<1>1. r \in Seq(S) /\ Len(r) = Len(s) + 1 /\ r[Len(s) + 1] = e /\ Len(s) \in Nat
  BY AppendProperties
<1> HIDE DEF r
<1>2. r # <<>> /\ (s = <<>> => Len(s) = 0) BY <1>1, EmptySeq
<1>3. r[Len(r)] = e BY <1>1
<1>4. s = <<>> => Len(r) = 1 /\ r[1] = e BY <1>1, <1>2
<1> QED BY <1>1, <1>2, <1>3, <1>4 DEF r

LEMMA OneOf ==
  ASSUME NEW S, NEW e \in S
  PROVE  <<e>> \in Seq(S) /\ Len(<<e>>) = 1 /\ <<e>>[1] = e /\ <<e>> # <<>>
OBVIOUS

LEMMA RequestIs ==
  ASSUME NEW key \in Keys, NEW g \in BOOLEAN
  PROVE  /\ Request(key, g) \in Requests /\ Request(key, g).key = key
         /\ Request(key, g).answer = None /\ Request(key, g).guarded = g
BY DEF Request, Requests

LEMMA KindIs ==
  ASSUME NEW k \in Kinds
  PROVE  k \in {"rooms", "lecturers", "courses", "offerings", "timeslots", "users", "runs",
                "audit", "schedule", "creation", "facilities", "semesters", "dashboard"}
BY PageAssumption DEF SemesterPages, FilteredPages, GuardedPages

LEMMA KeyTyped == SetTo => Key \in Keys
BY KindIs DEF SetTo, Key, Keys, KeyFor, FacilitiesKey, SemestersKey, RoomsKey, LecturersKey,
  CoursesKey, OfferingsKey, TimeslotsKey, UsersKey, RunsKey, AuditKey, ScheduleKey,
  DashboardKey, CreationKey

LEMMA NextKeyTyped == SetTo' => Key' \in Keys
BY KindIs DEF SetTo, Key, Keys, KeyFor, FacilitiesKey, SemestersKey, RoomsKey, LecturersKey,
  CoursesKey, OfferingsKey, TimeslotsKey, UsersKey, RunsKey, AuditKey, ScheduleKey,
  DashboardKey, CreationKey

LEMMA KeyOfSemester ==
  /\ kind \in SemesterPages \cup GuardedPages => Key.of = scope
  /\ kind' \in SemesterPages \cup GuardedPages => (Key').of = scope'
BY DEF SemesterPages, GuardedPages, Key, KeyFor, RoomsKey, LecturersKey,
  CoursesKey, OfferingsKey, TimeslotsKey, ScheduleKey, CreationKey

LEMMA KeyStays ==
  UNCHANGED <<kind, page, filter, scope>> => Key' = Key
BY DEF Key, KeyFor, FacilitiesKey, SemestersKey, RoomsKey, LecturersKey,
  CoursesKey, OfferingsKey, TimeslotsKey, UsersKey, RunsKey, AuditKey, ScheduleKey,
  DashboardKey, CreationKey

LEMMA ListedRows ==
  ASSUME SetTo, NEW key
  PROVE  Listed(key) \in SUBSET Rows
BY KindIs DEF SetTo, Listed, FacilitiesList, SemestersList, RoomsList, LecturersList, CoursesList,
  OfferingsList, TimeslotsList, UsersList, RunsList, AuditList, SessionsList, Of, Filtered

LEMMA AnswerTyped ==
  ASSUME SetTo, NEW key \in Keys
  PROVE  Answer(key) \in Lists /\ Answer(key).key = key
<1>1. Listed(key) \in SUBSET Rows BY ListedRows
<1>2. PageOf(Listed(key), key.page) \in SUBSET Rows BY <1>1 DEF PageOf
<1>3. Cardinality(Listed(key)) \in Nat BY <1>1, PageAssumption, FS_Subset, FS_CardinalityType
<1>4. {r \in PageOf(Listed(key), key.page) : table[r] = Marked} \in SUBSET Rows BY <1>2
<1> QED BY <1>2, <1>3, <1>4 DEF Answer, Lists

LEMMA AnswerStays ==
  ASSUME kind' = kind, table' = table, Key' = Key
  PROVE  Answer(Key)' = Answer(Key)
BY DEF Answer, Listed, PageOf, FacilitiesList, SemestersList, RoomsList, LecturersList, CoursesList,
  OfferingsList, TimeslotsList, UsersList, RunsList, AuditList, SessionsList, Of, Filtered, Alive

LEMMA BlankTyped ==
  ASSUME NEW key \in Keys
  PROVE  Blank(key) \in Lists /\ Blank(key).key = key
BY DEF Blank, Lists

LEMMA Offered ==
  ASSUME PageShape
  PROVE  /\ Offer.rows \in SUBSET Rows /\ Offer.edits \in SUBSET Rows
         /\ Offer.deletes \in SUBSET Rows
         /\ kind = "creation" => /\ Offer.edits = {} /\ Offer.deletes = {} /\ ~Offer.creates
<1>1. view.rows \in SUBSET Rows BY DEF PageShape, Listing, Lists
<1>2. Searched \in SUBSET Rows BY <1>1 DEF Searched
<1> QED BY <1>1, <1>2, KindIs DEF PageShape, SetTo, Offer, Managed, ReadOnly, FacilitiesOffer,
  SemestersOffer, RoomsOffer, LecturersOffer, CoursesOffer, OfferingsOffer, TimeslotsOffer,
  UsersOffer, RunsOffer, ScheduleOffer

LEMMA TotalTyped ==
  ASSUME PageShape
  PROVE  Total \in Nat /\ view.total \in Nat
<1>1. view.rows \in SUBSET Rows /\ view.total \in Nat BY DEF PageShape, Listing, Lists
<1>2. Cardinality(view.rows) \in Nat /\ Cardinality(Offer.rows) \in Nat
  BY <1>1, Offered, PageAssumption, FS_Subset, FS_CardinalityType
<1> QED BY <1>1, <1>2 DEF Total

-----------------------------------------------------------------------------
(* The three ways in which a step leaves or changes the list               *)

\* A click, or a handler that goes on: the list and what it asks for stay.
Still == UNCHANGED <<kind, page, filter, scope, server, listing>>
Click ==
  /\ Still /\ Asking'
  /\ Unfetched => Unfetched'
  /\ kind = "creation" => StartOnly'

LEMMA ClickKeeps ==
  ASSUME PageInv, Click
  PROVE  PageInv'
<1>1. Key' = Key BY KeyStays DEF Click, Still
<1>2. Answer(Key)' = Answer(Key) BY <1>1, AnswerStays DEF Click, Still, server
<1>3. PageShape' BY DEF Click, Still, listing, PageInv, PageShape, SetTo, Listing
<1>4. Blank(Key)' = Blank(Key) BY <1>1 DEF Blank
<1>5. ListInv'
  BY <1>1, <1>2, <1>4 DEF PageInv, ListInv, Click, Still, listing, server, Newest, Blanked
<1>6. CreationInv'
  BY <1>1 DEF PageInv, CreationInv, OneCount, Click, Still, listing
<1> QED BY <1>3, <1>5, <1>6 DEF PageInv

\* A handler asks for the list of its render.
Refetch ==
  /\ UNCHANGED <<kind, page, filter, scope, server>> /\ Asking'
  /\ kind # "creation"
  /\ \E key \in Keys : Fetch(key, Key)

LEMMA FetchTyped ==
  ASSUME Listing, NEW key \in Keys, NEW wanted, Fetch(key, wanted)
  PROVE  Listing'
<1>1. Request(key, FALSE) \in Requests BY DEF Request, Requests
<1>2. CASE view' = Blank(key) /\ loading' = FALSE /\ UNCHANGED fetches
  BY <1>2, BlankTyped DEF Listing
<1>3. CASE fetches' = Append(fetches, Request(key, FALSE)) /\ loading' = TRUE /\ UNCHANGED view
  BY <1>1, <1>3, AppendProperties DEF Listing
<1> QED BY <1>2, <1>3 DEF Fetch

\* Once a page has asked for what it is set to, the list is right again.
LEMMA FetchLists ==
  ASSUME Listing, NEW key \in Keys, NEW wanted, Fetch(key, wanted),
         wanted = Key', kind' = kind, kind \in SemesterPages => (Key').of = scope'
  PROVE  ListInv'
<1>1. CASE key # wanted BY <1>1 DEF Fetch, ListInv
<1>2. CASE key = wanted /\ kind \in SemesterPages /\ key.of = None
  <2>1. newest' = "shown" /\ view' = Blank(Key') BY <1>2 DEF Fetch
  <2>2. scope' = None BY <1>2
  <2> QED BY <1>2, <2>1, <2>2 DEF ListInv, Blanked, Blank
<1>3. CASE key = wanted /\ ~(kind \in SemesterPages /\ key.of = None)
  <2>1. newest' = "asked" /\ fetches' = Append(fetches, Request(key, FALSE)) BY <1>3 DEF Fetch
  <2>2. Request(key, FALSE) \in Requests BY DEF Request, Requests
  <2>3. fetches'[Len(fetches')] = Request(key, FALSE) /\ fetches' # <<>>
    BY <2>1, <2>2, Appending DEF Listing
  <2> QED BY <1>3, <2>1, <2>3 DEF ListInv, Newest, Request
<1> QED BY <1>1, <1>2, <1>3

LEMMA RefetchKeeps ==
  ASSUME PageInv, Refetch
  PROVE  PageInv'
<1>1. Key' = Key BY KeyStays DEF Refetch
<1>2. PICK key \in Keys : Fetch(key, Key) BY DEF Refetch
<1>3. Listing' BY <1>2, FetchTyped DEF PageInv, PageShape
<1>4. PageShape' BY <1>3 DEF Refetch, PageInv, PageShape, SetTo
<1>5. ListInv' BY <1>1, <1>2, FetchLists, KeyOfSemester DEF PageInv, PageShape, Refetch
<1>6. CreationInv' BY DEF CreationInv, Refetch
<1> QED BY <1>4, <1>5, <1>6 DEF PageInv

\* The page is set to something else, and its effects ask for that.
Turn ==
  /\ SetTo' /\ kind' = kind /\ UNCHANGED asking
  /\ UNCHANGED server \/ surprise'
  /\ kind = "creation" => dialog = None
  /\ Effect

LEMMA GuardedTyped ==
  ASSUME Listing, FetchGuarded, (Key') \in Keys
  PROVE  /\ Listing' /\ fetches' # <<>> /\ fetches'[Len(fetches')] = Request(Key', TRUE)
         /\ (fetches # <<>> => Len(fetches) = 1 /\ fetches[1].guarded) =>
               Len(fetches') = 1 /\ fetches'[1] = Request(Key', TRUE)
<1> DEFINE kept == IF Guarded = {} THEN fetches ELSE RemoveAt(fetches, CHOOSE i \in Guarded : TRUE)
<1>1. kept \in Seq(Requests)
      /\ ((fetches # <<>> => Len(fetches) = 1 /\ fetches[1].guarded) => kept = <<>>)
  <2>1. CASE Guarded = {}
    <3>1. fetches = <<>> \/ ~(Len(fetches) = 1 /\ fetches[1].guarded)
      BY <2>1, LenProperties DEF Guarded, Listing
    <3> QED BY <2>1, <3>1 DEF Listing
  <2>2. CASE Guarded # {}
    <3>1. PICK i \in DOMAIN fetches : kept = RemoveAt(fetches, i) BY <2>2 DEF Guarded
    <3>2. fetches # <<>> BY <3>1
    <3> HIDE DEF kept
    <3> QED BY <3>1, <3>2, Removing DEF Listing
  <2> QED BY <2>1, <2>2
<1>2. fetches' = Append(kept, Request(Key', TRUE)) /\ loading' = TRUE /\ UNCHANGED view
  BY DEF FetchGuarded
<1> HIDE DEF kept
<1>3. Request(Key', TRUE) \in Requests BY DEF Request, Requests
<1>4. /\ fetches' \in Seq(Requests) /\ fetches' # <<>>
      /\ fetches'[Len(fetches')] = Request(Key', TRUE)
      /\ kept = <<>> => Len(fetches') = 1 /\ fetches'[1] = Request(Key', TRUE)
  BY <1>1, <1>2, <1>3, Appending
<1> QED BY <1>1, <1>2, <1>4 DEF Listing

LEMMA TurnKeeps ==
  ASSUME PageInv, Turn
  PROVE  PageInv'
<1>1. Key' \in Keys BY NextKeyTyped DEF Turn
<1>2. Asking' BY DEF Turn, asking, PageInv, PageShape, Asking
<1>3. Unfetched' = Unfetched BY DEF Turn, asking, Unfetched
<1>4. CASE Key' = Key
  <2>1. UNCHANGED listing BY <1>4 DEF Turn, Effect
  <2>2. PageShape' BY <1>2, <2>1 DEF Turn, listing, PageInv, PageShape, Listing
  <2>3. Blank(Key)' = Blank(Key) BY <1>4 DEF Blank
  <2>4. kind \in SemesterPages \cup GuardedPages => scope' = scope BY <1>4, KeyOfSemester DEF Turn
  <2>5. ListInv'
    <3>1. CASE UNCHANGED server
      <4>1. Answer(Key)' = Answer(Key) BY <1>4, <3>1, AnswerStays DEF Turn, server
      <4> QED BY <1>3, <1>4, <2>1, <2>3, <2>4, <3>1, <4>1
               DEF PageInv, ListInv, Turn, listing, server, Newest, Blanked, GuardedPages
    <3>2. CASE surprise'
      BY <1>4, <2>1, <3>2 DEF PageInv, ListInv, listing, Newest
    <3> QED BY <3>1, <3>2 DEF Turn
  <2>6. CreationInv'
    BY <1>4, <2>1, <2>4 DEF PageInv, CreationInv, OneCount, StartOnly, Turn, listing, asking, GuardedPages
  <2> QED BY <2>2, <2>5, <2>6 DEF PageInv
<1>5. CASE Key' # Key /\ kind \in GuardedPages
  <2>1. FetchGuarded BY <1>5 DEF Turn, Effect
  <2>2. newest' = "asked" /\ loading' = TRUE BY <2>1 DEF FetchGuarded
  <2>3. Listing' BY <1>1, <2>1, GuardedTyped DEF PageInv, PageShape
  <2>4. PageShape' BY <1>2, <2>3 DEF Turn, PageShape
  <2>5. ListInv' BY <1>1, <2>1, <2>2, GuardedTyped DEF PageInv, PageShape, ListInv, Newest, Request
  <2>6. CreationInv'
    <3> SUFFICES ASSUME kind = "creation" PROVE OneCount' /\ StartOnly'
      BY DEF CreationInv, Turn
    <3>1. OneCount /\ StartOnly /\ dialog = None BY DEF PageInv, CreationInv, Turn
    <3>2. Len(fetches') = 1 /\ fetches'[1] = Request(Key', TRUE) /\ fetches' # <<>>
      BY <1>1, <2>1, <3>1, GuardedTyped DEF PageInv, PageShape, OneCount
    <3>3. OneCount' BY <2>2, <3>2 DEF OneCount, Request
    <3>4. call.remove = None BY <3>1 DEF PageInv, PageShape, Asking
    <3>5. StartOnly' BY <3>1, <3>4 DEF StartOnly, Turn, asking
    <3> QED BY <3>3, <3>5
  <2> QED BY <2>4, <2>5, <2>6 DEF PageInv
<1>6. CASE Key' # Key /\ kind \notin GuardedPages
  <2>1. Fetch(Key', Key') BY <1>6 DEF Turn, Effect
  <2>2. Listing' BY <1>1, <2>1, FetchTyped DEF PageInv, PageShape
  <2>3. PageShape' BY <1>2, <2>2 DEF Turn, PageShape
  <2>4. ListInv' BY <1>1, <2>1, FetchLists, KeyOfSemester DEF PageInv, PageShape, Turn
  <2>5. CreationInv' BY <1>6 DEF CreationInv, GuardedPages, Turn
  <2> QED BY <2>3, <2>4, <2>5 DEF PageInv
<1> QED BY <1>4, <1>5, <1>6

-----------------------------------------------------------------------------
(* What the user does                                                      *)

LEMMA OpenFormClicks == ASSUME PageInv, OpenForm PROVE Click
<1>1. PICK r \in Shown(Offer.edits) \cup (IF Offer.creates THEN {None} ELSE {}) :
        form' = [open |-> TRUE, row |-> r]
  BY DEF OpenForm
<1>2. r \in Rows \cup {None} BY Offered DEF PageInv, Shown
<1> QED BY <1>1, <1>2 DEF OpenForm, Click, Still, PageInv, PageShape, Asking, Unfetched, CreationInv,
  StartOnly, listing

LEMMA DismissClicks == ASSUME PageInv, Dismiss PROVE Click
BY DEF Dismiss, Click, Still, PageInv, PageShape, Asking, Unfetched, CreationInv,
  StartOnly, listing

\* A request of the form goes out from one of the pages with a form.
LEMMA SubmitClicks ==
  ASSUME PageInv, NEW n \in {0, 1}, Submit(n), kind # "creation"
  PROVE  Click
<1> DEFINE w == [do |-> IF form.row = None THEN "create" ELSE "update", row |-> form.row,
                 locks |-> n, key |-> Key, of |-> scope, stage |-> "sent"]
<1>1. Key \in Keys BY KeyTyped DEF PageInv, PageShape
<1>2. w \in Writes BY <1>1 DEF Writes, Stages, PageInv, PageShape, SetTo, Asking
<1>3. call' = [call EXCEPT !.save = w] /\ call.save = None BY DEF Submit
<1> HIDE DEF w
<1>4. call' \in Calls /\ call'.remove = call.remove BY <1>2, <1>3 DEF PageInv, PageShape, Asking, Calls
<1> QED BY <1>3, <1>4 DEF Submit, Click, Still, PageInv, PageShape, Asking, Unfetched, listing

LEMMA SaveLockClicks == ASSUME PageInv, SaveLock PROVE Click
<1>1. call.save \in Writes /\ call \in Calls BY DEF SaveLock, PageInv, PageShape, Asking, Calls
<1> DEFINE w == [call.save EXCEPT !.stage = "sent", !.locks = 0, !.do = "lock"]
<1>2. w \in Writes /\ w.do = "lock" BY <1>1 DEF Writes, Stages
<1>3. call' = [call EXCEPT !.save = w] BY <1>1 DEF SaveLock, Calls, Writes
<1> HIDE DEF w
<1>4. call' \in Calls /\ call'.save = w /\ call'.remove = call.remove BY <1>1, <1>2, <1>3 DEF Calls
<1>5. call'.save # None BY <1>2, <1>4, PageAssumption
<1>6. Unfetched' BY <1>2, <1>4, <1>5 DEF Unfetched
<1>7. kind # "creation" BY DEF SaveLock, PageInv, CreationInv, StartOnly
<1> QED BY <1>4, <1>6, <1>7 DEF SaveLock, Click, Still, PageInv, PageShape, Asking, listing

LEMMA SaveFailedClicks == ASSUME PageInv, SaveFailed PROVE Click
<1>1. call' \in Calls /\ call'.save = None /\ call'.remove = call.remove
  BY DEF SaveFailed, PageInv, PageShape, Asking, Calls
<1>2. kind # "creation" BY DEF SaveFailed, PageInv, CreationInv, StartOnly
<1>3. Unfetched => Unfetched' BY <1>1 DEF SaveFailed, Unfetched
<1> QED BY <1>1, <1>2, <1>3 DEF SaveFailed, Click, Still, PageInv, PageShape, Asking, listing

\* A dialog opens where none is open, and so above no request of one.
LEMMA DialogClicks ==
  ASSUME PageInv, ~Covered, NEW d \in Dialogs, dialog' = d,
         UNCHANGED <<kind, page, filter, scope, server, listing, form, selected, call>>,
         kind = "creation" => d.do = "start" /\ fetches = <<>>
  PROVE  Click
<1>1. dialog = None /\ call.remove = None BY DEF Covered, PageInv, PageShape, Asking
<1> QED BY <1>1 DEF Click, Still, PageInv, PageShape, Asking, Unfetched, CreationInv,
  StartOnly, listing

LEMMA AskStartClicks == ASSUME PageInv, AskStart PROVE Click
<1> DEFINE d == [do |-> "start", row |-> None, blocked |-> FALSE]
<1>1. d \in Dialogs BY DEF Dialogs
<1>2. fetches = <<>> BY DEF AskStart, PageInv, CreationInv, OneCount, PageShape, Listing
<1> QED BY <1>1, <1>2, DialogClicks DEF AskStart

LEMMA AskClicks ==
  ASSUME PageInv, NEW do \in {"delete", "cancel", "activate", "deactivate", "reactivate"},
         NEW rows \in SUBSET Rows, NEW blocked \in SUBSET BOOLEAN, Ask(do, rows, blocked),
         kind = "creation" => rows = {}
  PROVE  Click
<1>1. PICK r \in Shown(rows), b \in blocked : dialog' = [do |-> do, row |-> r, blocked |-> b]
  BY DEF Ask
<1>2. r \in rows BY DEF Shown
<1>3. [do |-> do, row |-> r, blocked |-> b] \in Dialogs BY <1>2 DEF Dialogs
<1> QED BY <1>1, <1>2, <1>3, DialogClicks DEF Ask

LEMMA AsksClick ==
  ASSUME PageInv, AskDelete \/ AskCancel \/ AskActivate \/ AskDeactivate \/ AskReactivate
  PROVE  Click
<1>1. Offer.deletes \in SUBSET Rows /\ (kind = "creation" => Offer.deletes = {})
  BY Offered DEF PageInv
<1>2. view.rows \in SUBSET Rows /\ view.marked \in SUBSET Rows
  BY DEF PageInv, PageShape, Listing, Lists
<1>3. CASE AskDelete BY <1>1, <1>3, AskClicks DEF AskDelete
<1>4. CASE AskCancel BY <1>2, <1>4, AskClicks DEF AskCancel
<1>5. CASE AskActivate
  <2>1. view.rows \ view.marked \in SUBSET Rows BY <1>2
  <2> QED BY <1>5, <2>1, AskClicks DEF AskActivate
<1>6. CASE AskDeactivate
  <2>1. view.marked \ {Self} \in SUBSET Rows BY <1>2
  <2> QED BY <1>6, <2>1, AskClicks DEF AskDeactivate
<1>7. CASE AskReactivate
  <2>1. view.rows \ (view.marked \cup {Self}) \in SUBSET Rows BY <1>2
  <2> QED BY <1>7, <2>1, AskClicks DEF AskReactivate
<1> QED BY <1>3, <1>4, <1>5, <1>6, <1>7

LEMMA TickClicks == ASSUME PageInv, Tick PROVE Click
<1>1. Offer.rows \in SUBSET Rows BY Offered DEF PageInv
<1>2. selected' \in SUBSET Rows
  <2>1. selected \in SUBSET Rows BY DEF PageInv, PageShape, Asking
  <2>2. \A r \in Shown(Offer.rows) : r \in Rows BY <1>1 DEF Shown
  <2> QED BY <1>1, <2>1, <2>2 DEF Tick
<1>3. kind # "creation" BY DEF Tick, BulkPages
<1> QED BY <1>2, <1>3 DEF Tick, Click, Still, PageInv, PageShape, Asking, Unfetched, listing

LEMMA AskBulkClicks == ASSUME PageInv, AskBulk PROVE Click
<1> DEFINE d == [do |-> "bulk", row |-> None, blocked |-> FALSE]
<1>1. d \in Dialogs BY DEF Dialogs
<1>2. kind # "creation" BY DEF AskBulk, PageInv, CreationInv, StartOnly
<1> QED BY <1>1, <1>2, DialogClicks DEF AskBulk

LEMMA CancelClicks == ASSUME PageInv, Cancel PROVE Click
BY DEF Cancel, Click, Still, PageInv, PageShape, Asking, Unfetched, CreationInv,
  StartOnly, listing

\* A request of the dialog goes out.
LEMMA SendClicks ==
  ASSUME PageInv, NEW w \in Removals, call' = [call EXCEPT !.remove = w],
         dialog # None, call.remove = None,
         UNCHANGED <<kind, page, filter, scope, server, listing, form, dialog, selected>>,
         kind = "creation" => w.do = "start" /\ (newest # "failed" => w.of = scope)
  PROVE  Click
<1>1. call' \in Calls /\ call'.remove = w /\ call'.save = call.save
  BY DEF PageInv, PageShape, Asking, Calls
<1>2. Unfetched => Unfetched' BY <1>1 DEF Unfetched
<1> QED BY <1>1, <1>2 DEF Click, Still, PageInv, PageShape, Asking, CreationInv, StartOnly, listing

LEMMA SentTyped ==
  ASSUME PageInv, NEW do \in {"start", "delete", "cancel", "activate", "deactivate", "reactivate", "bulk"},
         NEW r \in Rows \cup {None}, NEW left \in SUBSET Rows
  PROVE  /\ Send(do, r, left) \in Removals /\ Send(do, r, left).do = do
         /\ \A s \in Classes \cup {None} : /\ [Send(do, r, left) EXCEPT !.of = s] \in Removals
                                           /\ [Send(do, r, left) EXCEPT !.of = s].do = do
                                           /\ [Send(do, r, left) EXCEPT !.of = s].of = s
<1>1. Key \in Keys /\ scope \in Classes \cup {None} BY KeyTyped DEF PageInv, PageShape, SetTo
<1> QED BY <1>1 DEF Send, Removals, Stages

LEMMA StartRunClicks == ASSUME PageInv, StartRun PROVE Click
<1>1. view.key.of \in Classes \cup {None} BY DEF PageInv, PageShape, Listing, Lists, Keys
<1> DEFINE w == [Send("start", None, {}) EXCEPT !.of = view.key.of]
<1>2. w \in Removals /\ w.do = "start" /\ w.of = view.key.of BY <1>1, SentTyped
<1>3. call' = [call EXCEPT !.remove = w] BY DEF StartRun
<1> HIDE DEF w
<1>4. newest # "failed" => view.key.of = scope
  BY DEF StartRun, PageInv, CreationInv, OneCount, StartOnly
<1> QED BY <1>2, <1>3, <1>4, SendClicks DEF StartRun

LEMMA ConfirmClicks ==
  ASSUME PageInv, NEW do \in {"delete", "cancel", "activate", "deactivate", "reactivate"},
         Confirm(do), kind # "creation"
  PROVE  Click
<1>1. dialog.row \in Rows \cup {None} BY DEF Confirm, PageInv, PageShape, Asking, Dialogs
<1> DEFINE w == Send(do, dialog.row, {})
<1>2. w \in Removals BY <1>1, SentTyped
<1>3. call' = [call EXCEPT !.remove = w] BY DEF Confirm
<1> HIDE DEF w
<1> QED BY <1>2, <1>3, SendClicks DEF Confirm

LEMMA BulkDeleteClicks == ASSUME PageInv, BulkDelete, kind # "creation" PROVE Click
<1>1. PICK r \in selected : call' = [call EXCEPT !.remove = Send("bulk", r, selected \ {r})]
  BY DEF BulkDelete
<1>2. r \in Rows \cup {None} /\ selected \ {r} \in SUBSET Rows BY DEF PageInv, PageShape, Asking
<1>3. Send("bulk", r, selected \ {r}) \in Removals BY <1>2, SentTyped
<1> QED BY <1>1, <1>3, SendClicks DEF BulkDelete

LEMMA ConfirmsClick == ASSUME PageInv, Confirms PROVE Click
<1>1. CASE StartRun BY <1>1, StartRunClicks
<1>2. CASE BulkDeleteRooms \/ BulkDeleteLecturers \/ BulkDeleteCourses \/ BulkDeleteOfferings
  BY <1>2, BulkDeleteClicks
  DEF BulkDeleteRooms, BulkDeleteLecturers, BulkDeleteCourses, BulkDeleteOfferings
<1>3. CASE \/ DeleteFacility \/ DeleteSemester \/ DeleteRoom \/ DeleteLecturer \/ DeleteCourse
           \/ DeleteOffering \/ DeleteTimeslot \/ DeleteRun
  <2>1. Confirm("delete") /\ kind # "creation"
    BY <1>3 DEF DeleteFacility, DeleteSemester, DeleteRoom, DeleteLecturer, DeleteCourse,
                DeleteOffering, DeleteTimeslot, DeleteRun
  <2> QED BY <2>1, ConfirmClicks
<1>4. CASE ActivateSemester BY <1>4, ConfirmClicks DEF ActivateSemester
<1>5. CASE ToggleUser BY <1>5, ConfirmClicks DEF ToggleUser
<1>6. CASE CancelRun BY <1>6, ConfirmClicks DEF CancelRun
<1> QED BY <1>1, <1>2, <1>3, <1>4, <1>5, <1>6 DEF Confirms

LEMMA SavesClickOrFetch == ASSUME PageInv, Saves PROVE Click \/ Refetch
<1>1. CASE SaveUserUnchanged
  <2>1. Key \in Keys BY KeyTyped DEF PageInv, PageShape
  <2>2. Asking' BY <1>1 DEF SaveUserUnchanged, PageInv, PageShape, Asking
  <2> QED BY <1>1, <2>1, <2>2 DEF SaveUserUnchanged, Refetch
<1>2. CASE \/ SaveFacility \/ SaveSemester \/ SaveRoom \/ SaveLecturer \/ SaveCourse
           \/ SaveTimeslot \/ SaveOffering \/ SaveUser \/ SaveOverride
  <2>1. (Submit(0) \/ Submit(1)) /\ kind # "creation"
    BY <1>2 DEF SaveFacility, SaveSemester, SaveRoom, SaveLecturer, SaveCourse,
                SaveTimeslot, SaveOffering, SaveUser, SaveOverride
  <2> QED BY <2>1, SubmitClicks
<1> QED BY <1>1, <1>2 DEF Saves

LEMMA TurnPageTurns == ASSUME PageInv, TurnPage PROVE Turn
<1>1. PICK p \in (IF kind = "runs" THEN RunsPager ELSE Pager) : page' = p BY DEF TurnPage
<1>2. PageSize[kind] \in Nat \ {0} BY PageAssumption DEF PageInv, PageShape, SetTo
<1>3. /\ (Total + PageSize[kind] - 1) \div PageSize[kind] \in Int
      /\ (view.total + PageSize[kind] - 1) \div PageSize[kind] \in Int
  BY <1>2, TotalTyped DEF PageInv
<1>4. p \in Nat BY <1>3 DEF Pager, RunsPager
<1>5. SetTo' BY <1>1, <1>4 DEF TurnPage, PageInv, PageShape, SetTo
<1> QED BY <1>5 DEF TurnPage, Turn, asking, server, GuardedPages

LEMMA FilterRowsTurns == ASSUME PageInv, FilterRows PROVE Turn
<1>1. SetTo' BY DEF FilterRows, PageInv, PageShape, SetTo
<1> QED BY <1>1 DEF FilterRows, Turn, asking, server, BulkPages

LEMMA FilterRunsTurns == ASSUME PageInv, FilterRuns PROVE Turn
<1>1. SetTo' BY DEF FilterRuns, PageInv, PageShape, SetTo
<1> QED BY <1>1 DEF FilterRuns, Turn, asking, server

LEMMA SwitchTurns == ASSUME PageInv, SwitchSemester \/ SelectRun PROVE Turn
<1>1. SetTo' BY DEF SwitchSemester, SelectRun, PageInv, PageShape, SetTo
<1>2. UNCHANGED server \/ surprise' BY DEF SwitchSemester, SelectRun
<1> QED BY <1>1, <1>2 DEF SwitchSemester, SelectRun, Turn, asking, Covered

LEMMA FilterAuditKeeps == ASSUME PageInv, FilterAudit PROVE PageInv'
<1>1. SetTo' BY DEF FilterAudit, PageInv, PageShape, SetTo
<1>2. CASE page = 1 BY <1>1, <1>2, TurnKeeps DEF FilterAudit, Turn, asking, server
<1>3. CASE page # 1
  <2> DEFINE old == Request(KeyFor(None, page, filter'), FALSE)
             new == Request(Key', FALSE)
  <2>1. fetches' = fetches \o <<old, new>> /\ newest' = "asked" /\ loading' = TRUE
        /\ UNCHANGED <<kind, view, asking>>
    BY <1>3 DEF FilterAudit
  <2>2. old \in Requests /\ new \in Requests
    BY <1>1, NextKeyTyped DEF Request, Requests, KeyFor, Keys, SetTo, FilterAudit, PageInv, PageShape
  <2> HIDE DEF old, new
  <2>3. <<old, new>> \in Seq(Requests) /\ Len(<<old, new>>) = 2 /\ <<old, new>>[2] = new
    BY <2>2
  <2>4. /\ fetches \in Seq(Requests) /\ Len(fetches) \in Nat
    BY LenProperties DEF PageInv, PageShape, Listing
  <2>5. fetches' \in Seq(Requests) /\ Len(fetches') = Len(fetches) + 2
        /\ fetches'[Len(fetches) + 2] = new
    BY <2>1, <2>3, <2>4, ConcatProperties
  <2>6. fetches' # <<>> /\ fetches'[Len(fetches')] = new BY <2>4, <2>5, EmptySeq
  <2>7. Listing' BY <2>1, <2>5 DEF PageInv, PageShape, Listing
  <2>8. Asking' BY <2>1 DEF asking, PageInv, PageShape, Asking
  <2>9. ListInv' BY <2>1, <2>6 DEF ListInv, Newest, new, Request
  <2>10. CreationInv' BY DEF FilterAudit, CreationInv
  <2> QED BY <1>1, <2>7, <2>8, <2>9, <2>10 DEF PageInv, PageShape
<1> QED BY <1>2, <1>3

-----------------------------------------------------------------------------
(* How a handler goes on                                                   *)

LEMMA SavedFetches == ASSUME PageInv, Saved PROVE Refetch
<1>1. call.save \in Writes /\ call \in Calls BY DEF Saved, PageInv, PageShape, Asking, Calls
<1>2. call.save.key \in Keys BY <1>1 DEF Writes
<1>3. call' \in Calls /\ call'.remove = call.remove BY <1>1 DEF Saved, Calls
<1>4. Asking' BY <1>3 DEF Saved, PageInv, PageShape, Asking
<1>5. kind # "creation" BY DEF Saved, PageInv, CreationInv, StartOnly
<1> QED BY <1>2, <1>4, <1>5 DEF Saved, Refetch

\* The request of a dialog has been answered.
LEMMA AnsweredTyped ==
  ASSUME PageInv, call' = [call EXCEPT !.remove = None]
  PROVE  call' \in Calls /\ call'.remove = None /\ call'.save = call.save
BY DEF PageInv, PageShape, Asking, Calls

LEMMA RemovedFetches == ASSUME PageInv, Removed \/ BulkDone PROVE Refetch
<1>1. call.remove \in Removals /\ call' = [call EXCEPT !.remove = None]
  BY DEF Removed, BulkDone, PageInv, PageShape, Asking, Calls
<1>2. call.remove.key \in Keys BY <1>1 DEF Removals
<1>3. Asking' BY <1>1, AnsweredTyped DEF Removed, BulkDone, PageInv, PageShape, Asking
<1>4. kind # "creation" BY DEF Removed, BulkDone, PageInv, CreationInv, StartOnly
<1> QED BY <1>2, <1>3, <1>4 DEF Removed, BulkDone, Refetch

LEMMA RemoveFailedKeeps == ASSUME PageInv, RemoveFailed PROVE Click \/ Refetch
<1>1. call.remove \in Removals /\ call' = [call EXCEPT !.remove = None]
  BY DEF RemoveFailed, PageInv, PageShape, Asking, Calls
<1>2. call.remove.key \in Keys BY <1>1 DEF Removals
<1>3. dialog \in Dialogs BY DEF RemoveFailed, PageInv, PageShape, Asking
<1>4. dialog' \in Dialogs BY <1>3 DEF RemoveFailed, Dialogs
<1>5. Asking' BY <1>1, <1>4, AnsweredTyped DEF RemoveFailed, PageInv, PageShape, Asking
<1>6. kind # "creation" BY DEF RemoveFailed, PageInv, CreationInv, StartOnly
<1>7. Unfetched => Unfetched' BY <1>1, AnsweredTyped DEF RemoveFailed, Unfetched
<1> QED BY <1>2, <1>5, <1>6, <1>7 DEF RemoveFailed, Click, Still, Refetch

LEMMA StartFailedClicks == ASSUME PageInv, StartFailed PROVE Click
<1>1. call' \in Calls /\ call'.remove = None /\ call'.save = call.save
  BY AnsweredTyped DEF StartFailed
<1>2. Unfetched => Unfetched' BY <1>1 DEF StartFailed, Unfetched
<1> QED BY <1>1, <1>2 DEF StartFailed, Click, Still, PageInv, PageShape, Asking, CreationInv,
  StartOnly, listing

LEMMA BulkNextClicks == ASSUME PageInv, BulkNext PROVE Click
<1>1. call.remove \in Removals /\ call \in Calls BY DEF BulkNext, PageInv, PageShape, Asking, Calls
<1>2. PICK r \in call.remove.left :
        call' = [call EXCEPT !.remove.row = r, !.remove.stage = "sent",
                             !.remove.left = call.remove.left \ {r}]
  BY DEF BulkNext
<1> DEFINE w == [call.remove EXCEPT !.row = r, !.stage = "sent", !.left = call.remove.left \ {r}]
<1>3. w \in Removals /\ w.do = "bulk" BY <1>1, <1>2 DEF BulkNext, Removals, Stages
<1>4. call' = [call EXCEPT !.remove = w] BY <1>1, <1>2 DEF Calls, Removals
<1> HIDE DEF w
<1>5. call' \in Calls /\ call'.remove = w /\ call'.save = call.save BY <1>1, <1>3, <1>4 DEF Calls
<1>6. Unfetched' BY <1>3, <1>5, PageAssumption DEF Unfetched
<1>7. kind # "creation" BY DEF BulkNext, PageInv, CreationInv, StartOnly
<1>8. dialog # None BY DEF BulkNext, PageInv, PageShape, Asking
<1> QED BY <1>5, <1>6, <1>7, <1>8 DEF BulkNext, Click, Still, PageInv, PageShape, Asking, listing

LEMMA StartedKeeps == ASSUME PageInv, Started PROVE PageInv'
<1>1. Key' = Key /\ Key \in Keys BY KeyStays, KeyTyped DEF Started, PageInv, PageShape
<1>2. Request(Key, TRUE) \in Requests /\ Request(Key, TRUE).key = Key
      /\ Request(Key, TRUE).answer = None /\ Request(Key, TRUE).guarded = TRUE
  BY <1>1, RequestIs
<1>3. fetches' \in Seq(Requests) /\ Len(fetches') = 1 /\ fetches'[1] = Request(Key, TRUE)
      /\ fetches' # <<>>
  BY <1>2, OneOf DEF Started
<1>4. call' \in Calls /\ call'.remove = None /\ call'.save = call.save
  BY AnsweredTyped DEF Started
<1>5. PageShape'
  BY <1>1, <1>3, <1>4, BlankTyped DEF Started, PageInv, PageShape, SetTo, Listing, Asking
<1>6. ListInv' BY <1>1, <1>2, <1>3 DEF Started, ListInv, Newest
<1>7. CreationInv'
  BY <1>1, <1>2, <1>3, <1>4 DEF Started, PageInv, CreationInv, OneCount, StartOnly
<1> QED BY <1>5, <1>6, <1>7 DEF PageInv

LEMMA ContinuesKeep == ASSUME PageInv, Continues PROVE PageInv'
BY SaveLockClicks, SavedFetches, SaveFailedClicks, StartedKeeps, StartFailedClicks,
   RemovedFetches, RemoveFailedKeeps, BulkNextClicks, ClickKeeps, RefetchKeeps DEF Continues

LEMMA UserKeeps == ASSUME PageInv, User PROVE PageInv'
<1>1. CASE TurnPage \/ FilterRows \/ FilterRuns \/ SwitchSemester \/ SelectRun
  BY <1>1, TurnPageTurns, FilterRowsTurns, FilterRunsTurns, SwitchTurns, TurnKeeps
<1>2. CASE FilterAudit BY <1>2, FilterAuditKeeps
<1>3. CASE Saves BY <1>3, SavesClickOrFetch, ClickKeeps, RefetchKeeps
<1>4. CASE OpenForm \/ Dismiss \/ AskStart \/ Tick \/ AskBulk \/ Cancel \/ Confirms
  BY <1>4, OpenFormClicks, DismissClicks, AskStartClicks, TickClicks, AskBulkClicks,
     CancelClicks, ConfirmsClick, ClickKeeps
<1>5. CASE AskDelete \/ AskCancel \/ AskActivate \/ AskDeactivate \/ AskReactivate
  BY <1>5, AsksClick, ClickKeeps
<1> QED BY <1>1, <1>2, <1>3, <1>4, <1>5 DEF User

-----------------------------------------------------------------------------
(* The answers, the server and the other people                            *)

LEMMA ReadKeeps == ASSUME PageInv, NEW i \in 1..MaxFetches, Read(i) PROVE PageInv'
<1>1. /\ fetches \in Seq(Requests) /\ Len(fetches) \in Nat /\ i \in 1..Len(fetches)
      /\ Len(fetches) \in 1..Len(fetches)
  BY LenProperties DEF Read, PageInv, PageShape, Listing
<1>2. fetches[i] \in Requests /\ fetches[i].key \in Keys
  <2>1. fetches[i] \in Requests BY <1>1, ElementOfSeq
  <2> QED BY <2>1 DEF Requests
<1> DEFINE a == Answer(fetches[i].key)
<1>3. a \in Lists /\ a.key = fetches[i].key BY <1>2, AnswerTyped DEF PageInv, PageShape
<1> DEFINE f == [fetches[i] EXCEPT !.answer = a]
<1>4. f \in Requests /\ f.key = fetches[i].key /\ f.guarded = fetches[i].guarded /\ f.answer = a
  BY <1>2, <1>3 DEF Requests
<1>5. fetches' = [fetches EXCEPT ![i] = f] BY <1>1 DEF Read
<1> HIDE DEF f, a
<1>6. fetches' \in Seq(Requests) /\ Len(fetches') = Len(fetches)
      /\ \A j \in 1..Len(fetches) : fetches'[j] = IF j = i THEN f ELSE fetches[j]
  BY <1>1, <1>4, <1>5, ExceptSeq
<1>7. Key' = Key BY KeyStays DEF Read
<1>8. Answer(Key)' = Answer(Key) BY <1>7, AnswerStays DEF Read
<1>9. Blank(Key)' = Blank(Key) BY <1>7 DEF Blank
<1>10. fetches # <<>> /\ fetches' # <<>> BY <1>1, <1>6, EmptySeq
<1>11. Unfetched' = Unfetched /\ UNCHANGED <<kind, newest, scope, view, loading>>
  BY DEF Read, asking, Unfetched
<1>12. PageShape'
  BY <1>6 DEF Read, asking, PageInv, PageShape, SetTo, Listing, Asking
<1>13. ListInv'
  <2>1. ASSUME newest = "asked"
        PROVE  /\ fetches' # <<>> /\ Newest'.key = Key'
               /\ Newest'.answer = None \/ surprise' \/ Unfetched' \/ Newest'.answer = Answer(Key)'
    <3>1. Newest.key = Key
          /\ (Newest.answer = None \/ surprise \/ Unfetched \/ Newest.answer = Answer(Key))
      BY <2>1 DEF PageInv, ListInv
    <3>2. CASE i = Len(fetches)
      <4>1. Newest' = f /\ Newest = fetches[i] BY <1>1, <1>6, <3>2 DEF Newest
      <4>2. f.answer = Answer(Key) BY <1>4, <3>1, <4>1 DEF a
      <4> QED BY <1>4, <1>7, <1>8, <1>10, <3>1, <4>1, <4>2
    <3>3. CASE i # Len(fetches)
      <4>1. Newest' = Newest
        <5>1. fetches'[Len(fetches)] = fetches[Len(fetches)] BY <1>1, <1>6, <3>3
        <5> QED BY <1>6, <5>1 DEF Newest
      <4>2. surprise' = surprise BY <3>3 DEF Read
      <4> QED BY <1>7, <1>8, <1>10, <1>11, <3>1, <4>1, <4>2
    <3> QED BY <3>2, <3>3
  <2>2. newest = "shown" => surprise' = surprise BY DEF Read
  <2>3. newest = "shown" => surprise' \/ Unfetched' \/ view' = Answer(Key)' \/ Blanked'
    BY <1>7, <1>8, <1>9, <1>11, <2>2 DEF PageInv, ListInv, Blanked
  <2> QED BY <1>11, <2>1, <2>3 DEF ListInv
<1>14. CreationInv'
  <2> SUFFICES ASSUME kind = "creation" PROVE OneCount' /\ StartOnly'
    BY <1>11 DEF CreationInv
  <2>1. OneCount /\ StartOnly BY DEF PageInv, CreationInv
  <2>2. Len(fetches) = 1 /\ i = 1
    <3>1. Len(fetches) = 1 BY <1>10, <2>1 DEF OneCount
    <3> QED BY <1>1, <3>1
  <2>3. fetches'[1] = f /\ Len(fetches') = 1 BY <1>6, <2>2
  <2>4. f.guarded /\ f.key = Key /\ f.answer.key = Key
    BY <1>3, <1>4, <1>10, <2>1, <2>2 DEF OneCount
  <2>5. OneCount' BY <1>7, <1>10, <1>11, <2>1, <2>3, <2>4 DEF OneCount
  <2>6. StartOnly' BY <1>10, <2>1 DEF StartOnly, Read, asking
  <2> QED BY <2>5, <2>6
<1> QED BY <1>12, <1>13, <1>14 DEF PageInv

\* What is left of the fetches in flight when one of them ends.
LEMMA EndedFetch ==
  ASSUME PageInv, NEW i \in DOMAIN fetches
  PROVE  /\ fetches[i] \in Requests /\ fetches # <<>>
         /\ RemoveAt(fetches, i) \in Seq(Requests)
         /\ i # Len(fetches) => /\ RemoveAt(fetches, i) # <<>>
                                /\ RemoveAt(fetches, i)[Len(RemoveAt(fetches, i))] = Newest
         /\ i = Len(fetches) => fetches[i] = Newest
         /\ kind = "creation" => i = 1 /\ Len(fetches) = 1 /\ RemoveAt(fetches, i) = <<>>
<1>1. fetches \in Seq(Requests) BY DEF PageInv, PageShape, Listing
<1>2. Len(fetches) \in Nat /\ i \in 1..Len(fetches) BY <1>1, LenProperties
<1>3. fetches[i] \in Requests /\ fetches # <<>> BY <1>1, <1>2, ElementOfSeq, EmptySeq
<1>4. /\ RemoveAt(fetches, i) \in Seq(Requests) /\ Len(RemoveAt(fetches, i)) = Len(fetches) - 1
      /\ i # Len(fetches) => /\ RemoveAt(fetches, i) # <<>>
                             /\ RemoveAt(fetches, i)[Len(fetches) - 1] = fetches[Len(fetches)]
      /\ Len(fetches) = 1 => RemoveAt(fetches, i) = <<>>
  BY <1>1, Removing
<1>5. kind = "creation" => Len(fetches) = 1 BY <1>3 DEF PageInv, CreationInv, OneCount
<1> QED BY <1>2, <1>3, <1>4, <1>5 DEF Newest

LEMMA DeliverKeeps == ASSUME PageInv, NEW i \in 1..MaxFetches, Deliver(i) PROVE PageInv'
<1>1. i \in DOMAIN fetches /\ fetches' = RemoveAt(fetches, i) BY DEF Deliver
<1>2. fetches[i].answer \in Lists BY <1>1, EndedFetch DEF Deliver, Requests
<1>3. Key' = Key BY KeyStays DEF Deliver
<1>4. Answer(Key)' = Answer(Key) BY <1>3, AnswerStays DEF Deliver, server
<1>5. PageShape'
  BY <1>1, <1>2, EndedFetch DEF Deliver, asking, PageInv, PageShape, SetTo, Listing, Asking
<1>6. Unfetched' = Unfetched /\ surprise' = surprise BY DEF Deliver, asking, server, Unfetched
<1>7. ListInv'
  <2>1. CASE newest = "asked" /\ i = Len(fetches)
    <3>1. newest' = "shown" /\ view' = Newest.answer /\ Newest.answer # None
      BY <1>1, <2>1, EndedFetch DEF Deliver
    <3>2. surprise \/ Unfetched \/ Newest.answer = Answer(Key) BY <2>1, <3>1 DEF PageInv, ListInv
    <3> QED BY <1>4, <1>6, <3>1, <3>2 DEF ListInv
  <2>2. CASE newest = "asked" /\ i # Len(fetches)
    <3>1. newest' = "asked" BY <2>2 DEF Deliver
    <3>2. Newest' = Newest /\ fetches' # <<>> BY <1>1, <2>2, EndedFetch DEF Newest
    <3> QED BY <1>3, <1>4, <1>6, <2>2, <3>1, <3>2 DEF PageInv, ListInv
  <2>3. CASE newest # "asked"
    <3>1. newest' # "asked" /\ newest' # "shown" BY <2>3 DEF Deliver
    <3> QED BY <3>1 DEF ListInv
  <2> QED BY <2>1, <2>2, <2>3
<1>8. CreationInv'
  <2> SUFFICES ASSUME kind = "creation" PROVE OneCount' /\ StartOnly'
    BY DEF CreationInv, Deliver
  <2>1. OneCount /\ StartOnly BY DEF PageInv, CreationInv
  <2>2. fetches # <<>> /\ i = 1 /\ Len(fetches) = 1 /\ fetches' = <<>> BY <1>1, EndedFetch
  <2>3. newest = "asked" /\ dialog = None BY <2>1, <2>2 DEF OneCount, StartOnly
  <2>4. newest' = "shown" /\ loading' = FALSE /\ view' = fetches[1].answer
    BY <2>2, <2>3 DEF Deliver
  <2>5. Key.of = scope BY KeyOfSemester DEF GuardedPages
  <2>6. view'.key = Key BY <2>1, <2>2, <2>4 DEF OneCount, Deliver
  <2>7. OneCount' BY <2>2, <2>4, <2>5, <2>6 DEF OneCount, Deliver
  <2>8. StartOnly' BY <2>1, <2>2, <2>4 DEF StartOnly, Deliver, asking
  <2> QED BY <2>7, <2>8
<1> QED BY <1>5, <1>7, <1>8 DEF PageInv

LEMMA DeliverMetaKeeps == ASSUME PageInv, NEW i \in 1..MaxFetches, DeliverMeta(i) PROVE PageInv'
<1>1. i \in DOMAIN fetches /\ fetches' = Append(RemoveAt(fetches, i), Request(Key', FALSE))
  BY DEF DeliverMeta
<1>2. fetches[i].answer \in Lists /\ fetches[i].key.page \in Nat
  BY <1>1, EndedFetch DEF DeliverMeta, Requests, Keys
<1>3. SetTo' BY <1>2 DEF DeliverMeta, PageInv, PageShape, SetTo
<1>4. Request(Key', FALSE) \in Requests BY <1>3, NextKeyTyped DEF Request, Requests
<1>5. fetches' \in Seq(Requests) /\ fetches' # <<>>
      /\ fetches'[Len(fetches')] = Request(Key', FALSE)
  BY <1>1, <1>4, EndedFetch, Appending
<1>6. PageShape' BY <1>2, <1>3, <1>5 DEF DeliverMeta, asking, PageInv, PageShape, Listing, Asking
<1>7. ListInv' BY <1>5 DEF DeliverMeta, ListInv, Newest, Request
<1>8. CreationInv' BY DEF DeliverMeta, CreationInv
<1> QED BY <1>6, <1>7, <1>8 DEF PageInv

LEMMA FailFetchKeeps == ASSUME PageInv, NEW i \in 1..MaxFetches, FailFetch(i) PROVE PageInv'
<1>1. i \in DOMAIN fetches /\ fetches' = RemoveAt(fetches, i) BY DEF FailFetch
<1>2. Key' = Key BY KeyStays DEF FailFetch
<1>3. Answer(Key)' = Answer(Key) BY <1>2, AnswerStays DEF FailFetch, server
<1>4. Blank(Key)' = Blank(Key) BY <1>2 DEF Blank
<1>5. PageShape'
  BY <1>1, EndedFetch DEF FailFetch, asking, PageInv, PageShape, SetTo, Listing, Asking
<1>6. Unfetched' = Unfetched /\ surprise' = surprise BY DEF FailFetch, asking, server, Unfetched
<1>7. ListInv'
  <2>1. CASE newest = "asked" /\ i = Len(fetches)
    BY <2>1 DEF FailFetch, ListInv
  <2>2. CASE newest = "asked" /\ i # Len(fetches)
    <3>1. newest' = "asked" BY <2>2 DEF FailFetch
    <3>2. Newest' = Newest /\ fetches' # <<>> BY <1>1, <2>2, EndedFetch DEF Newest
    <3> QED BY <1>2, <1>3, <1>6, <2>2, <3>1, <3>2 DEF PageInv, ListInv
  <2>3. CASE newest # "asked"
    BY <1>2, <1>3, <1>4, <1>6, <2>3 DEF FailFetch, PageInv, ListInv, Blanked
  <2> QED BY <2>1, <2>2, <2>3
<1>8. CreationInv'
  <2> SUFFICES ASSUME kind = "creation" PROVE OneCount' /\ StartOnly'
    BY DEF CreationInv, FailFetch
  <2>1. OneCount /\ StartOnly BY DEF PageInv, CreationInv
  <2>2. fetches # <<>> /\ i = Len(fetches) /\ fetches' = <<>> BY <1>1, EndedFetch
  <2>3. newest' = "failed" /\ loading' = FALSE BY <2>1, <2>2 DEF FailFetch, OneCount
  <2>4. OneCount' BY <2>2, <2>3 DEF OneCount
  <2>5. StartOnly' BY <2>1, <2>2, <2>3 DEF StartOnly, FailFetch, asking
  <2> QED BY <2>4, <2>5
<1> QED BY <1>5, <1>7, <1>8 DEF PageInv

LEMMA ServeKeeps == ASSUME PageInv, NEW a \in {"save", "remove"}, Serve(a) PROVE PageInv'
<1>1. PICK s \in {"done", "failed"} :
        /\ call' = [call EXCEPT ![a].stage = s]
        /\ s = "failed" => UNCHANGED server \/ surprise'
        /\ s = "done" => surprise' = surprise
  BY DEF Serve, server
<1>2. call \in Calls /\ call[a] # None /\ call[a] \in Writes \cup Removals
      /\ (a = "save" => call[a] = call.save /\ call.save \in Writes)
      /\ (a = "remove" => call[a] = call.remove /\ call.remove \in Removals)
  BY DEF Serve, PageInv, PageShape, Asking, Calls
<1> DEFINE w == [call[a] EXCEPT !.stage = s]
<1>3. /\ w.stage = s /\ w.do = call[a].do /\ w.of = call[a].of
      /\ a = "save" => w \in Writes
      /\ a = "remove" => w \in Removals
  BY <1>2 DEF Writes, Removals, Stages
<1>4. call' = [call EXCEPT ![a] = w] BY <1>1, <1>2
<1> HIDE DEF w
<1>5. /\ call' \in Calls
      /\ a = "save" => call'.save = w /\ call'.remove = call.remove
      /\ a = "remove" => call'.remove = w /\ call'.save = call.save
  BY <1>2, <1>3, <1>4 DEF Calls
<1>6. w # None BY <1>3, PageAssumption
<1>7. Asking' BY <1>2, <1>5 DEF Serve, PageInv, PageShape, Asking
<1>8. PageShape' BY <1>7 DEF Serve, listing, PageInv, PageShape, SetTo, Listing
<1>9. Key' = Key BY KeyStays DEF Serve
<1>10. Blank(Key)' = Blank(Key) BY <1>9 DEF Blank
<1>11. ListInv'
  <2>1. CASE s = "done" \/ surprise'
    <3>1. surprise' \/ Unfetched' BY <1>3, <1>5, <1>6, <2>1 DEF Unfetched
    <3> QED BY <1>9, <3>1 DEF Serve, listing, PageInv, ListInv, Newest
  <2>2. CASE s = "failed" /\ UNCHANGED server
    <3>1. Answer(Key)' = Answer(Key) BY <1>9, <2>2, AnswerStays DEF Serve, server
    <3>2. call[a].stage = "sent" BY DEF Serve
    <3>3. Unfetched => Unfetched' BY <1>2, <1>3, <1>5, <1>6, <3>2 DEF Unfetched
    <3> QED BY <1>9, <1>10, <2>2, <3>1, <3>3
             DEF Serve, listing, server, PageInv, ListInv, Newest, Blanked
  <2> QED BY <1>1, <2>1, <2>2
<1>12. CreationInv'
  <2> SUFFICES ASSUME kind = "creation" PROVE OneCount' /\ StartOnly'
    BY DEF CreationInv, Serve
  <2>1. OneCount /\ StartOnly BY DEF PageInv, CreationInv
  <2>2. a = "remove" BY <1>2, <2>1 DEF StartOnly
  <2>3. OneCount' BY <1>9, <2>1 DEF OneCount, Serve, listing
  <2>4. StartOnly' BY <1>2, <1>3, <1>5, <2>1, <2>2 DEF StartOnly, Serve, listing
  <2> QED BY <2>3, <2>4
<1> QED BY <1>8, <1>11, <1>12 DEF PageInv

LEMMA ElsewhereKeeps == ASSUME PageInv, Elsewhere PROVE PageInv'
<1>1. surprise' /\ UNCHANGED <<kind, page, filter, scope, listing, asking>> BY DEF Elsewhere
<1>2. Key' = Key BY <1>1, KeyStays
<1>3. PageShape' BY <1>1 DEF listing, asking, PageInv, PageShape, SetTo, Listing, Asking
<1>4. ListInv' BY <1>1, <1>2 DEF listing, PageInv, ListInv, Newest
<1>5. CreationInv'
  BY <1>1, <1>2 DEF listing, asking, PageInv, CreationInv, OneCount, StartOnly
<1> QED BY <1>3, <1>4, <1>5 DEF PageInv

LEMMA AutoRefreshFetches == ASSUME PageInv, AutoRefresh PROVE Refetch
<1>1. Key \in Keys BY KeyTyped DEF PageInv, PageShape
<1>2. Asking' BY DEF AutoRefresh, asking, PageInv, PageShape, Asking
<1> QED BY <1>1, <1>2 DEF AutoRefresh, Refetch

LEMMA StutterKeeps == ASSUME PageInv, UNCHANGED vars PROVE PageInv'
<1>1. Click BY DEF vars, Click, Still, asking, listing, server, PageInv, PageShape, Asking, Unfetched,
                   CreationInv, StartOnly
<1> QED BY <1>1, ClickKeeps

LEMMA StepKeeps == ASSUME PageInv, [Next]_vars PROVE PageInv'
<1>1. CASE User BY <1>1, UserKeeps
<1>2. CASE Elsewhere BY <1>2, ElsewhereKeeps
<1>3. CASE Continues BY <1>3, ContinuesKeep
<1>4. CASE Answers
  BY <1>4, ReadKeeps, DeliverKeeps, DeliverMetaKeeps, FailFetchKeeps, ServeKeeps DEF Answers
<1>5. CASE AutoRefresh BY <1>5, AutoRefreshFetches, RefetchKeeps
<1>6. CASE UNCHANGED vars BY <1>6, StutterKeeps
<1> QED BY <1>1, <1>2, <1>3, <1>4, <1>5, <1>6 DEF Next, System

LEMMA StartsRight == Init => PageInv
<1> SUFFICES ASSUME Init PROVE PageInv
  OBVIOUS
<1>1. SetTo BY DEF Init, SetTo
<1>2. Key \in Keys BY <1>1, KeyTyped
<1>3. Blank(Key) \in Lists /\ Blank(Key).key = Key BY <1>2, BlankTyped
<1> DEFINE f == Request(Key, kind \in GuardedPages)
<1>4. f \in Requests /\ f.key = Key /\ f.answer = None /\ (kind = "creation" => f.guarded)
  <2>1. CASE kind \in GuardedPages
    <3>1. f = Request(Key, TRUE) BY <2>1 DEF Request
    <3> QED BY <1>2, <3>1, RequestIs
  <2>2. CASE kind \notin GuardedPages
    <3> DEFINE g == kind \in GuardedPages
    <3>0. g = FALSE BY <2>2
    <3>1. f = Request(Key, g) OBVIOUS
    <3> HIDE DEF f, g
    <3>2. f = Request(Key, FALSE) BY <3>0, <3>1
    <3> QED BY <1>2, <2>2, <3>2, RequestIs DEF GuardedPages
  <2> QED BY <2>1, <2>2
<1>5. loading \in BOOLEAN /\ fetches = IF loading THEN <<f>> ELSE <<>> BY DEF Init
<1> HIDE DEF f
<1>6. fetches \in Seq(Requests)
      /\ (loading => Len(fetches) = 1 /\ fetches[1] = f /\ fetches # <<>>)
      /\ (~loading => fetches = <<>>)
  <2>1. <<>> \in Seq(Requests) OBVIOUS
  <2>2. <<f>> \in Seq(Requests) /\ Len(<<f>>) = 1 /\ <<f>>[1] = f /\ <<f>> # <<>> BY <1>4, OneOf
  <2>3. CASE loading
    <3>1. fetches = <<f>> BY <1>5, <2>3
    <3> QED BY <2>2, <2>3, <3>1
  <2>4. CASE ~loading
    <3>1. fetches = <<>> BY <1>5, <2>4
    <3> QED BY <2>1, <2>4, <3>1
  <2> QED BY <2>3, <2>4
<1>7. PageShape BY <1>1, <1>3, <1>5, <1>6 DEF Init, PageShape, Listing, Asking, Calls
<1>8. newest = IF loading THEN "asked" ELSE "shown" BY DEF Init
<1>9. ~loading => scope = None /\ kind \in SemesterPages \cup {"creation"} BY DEF Init
<1>10. view = Blank(Key) BY DEF Init
<1>11. ListInv BY <1>4, <1>6, <1>8, <1>9, <1>10 DEF ListInv, Newest, Blanked
<1>12. CreationInv
  <2> SUFFICES ASSUME kind = "creation" PROVE OneCount /\ StartOnly
    BY DEF CreationInv
  <2>1. Key.of = scope BY KeyOfSemester DEF GuardedPages
  <2>2. OneCount BY <1>3, <1>4, <1>5, <1>6, <1>8, <1>10, <2>1 DEF OneCount
  <2>3. StartOnly BY DEF Init, StartOnly
  <2> QED BY <2>2, <2>3
<1> QED BY <1>7, <1>11, <1>12 DEF PageInv

LEMMA PageSound == Spec => []PageInv
<1>1. PageInv /\ [Next]_vars => PageInv' BY StepKeeps
<1> QED BY <1>1, StartsRight, PTL DEF Spec

\* A page at rest shows what the server has for the page, the filter and the
\* semester it is set to, and no run is started of another semester.
THEOREM ShownIsCurrentCorrect == Spec => []ShownIsCurrent
<1>1. PageInv => ShownIsCurrent
  <2> SUFFICES ASSUME PageInv PROVE ShownIsCurrent
    OBVIOUS
  <2>1. Quiet => ~Unfetched BY DEF Quiet, Unfetched
  <2>2. (kind = "creation" /\ call.remove # None /\ newest # "failed") => call.remove.of = scope
    BY DEF PageInv, CreationInv, StartOnly
  <2> QED BY <2>1, <2>2 DEF PageInv, ListInv, Blanked, ShownIsCurrent
<1> QED BY <1>1, PageSound, PTL
=============================================================================
