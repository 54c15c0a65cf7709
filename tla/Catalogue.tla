----------------------------- MODULE Catalogue -----------------------------
(***************************************************************************)
(* The master data and who edits it at once: the CRUD routers of           *)
(* src/api/routes (facilities, rooms, timeslots, lecturers, courses,       *)
(* course-offerings, locked-rooms, the delete of semesters) over the       *)
(* tables and foreign keys of prisma/schema.prisma, and the worker that    *)
(* loads a semester table by table and stores a schedule pointing into it. *)
(*                                                                         *)
(* A row is its references; a field is the kind of the rows it names, so   *)
(* an offering's semester, course, room, lecturers, fixed slots and parent *)
(* are one set.  A handler is a find, a check and one database command,    *)
(* each after an await of its own; a patch of a list, kept in a join       *)
(* table, is a READ COMMITTED transaction of two.                          *)
(***************************************************************************)
CONSTANTS
  Semesters, Facilities, Slots, Rooms, Courses, Lecturers, Offerings, Locks,
             \* the primary keys of each table
  Schedules, \* stored schedules: the assignments of one run
  Seed,      \* the references of the rows that exist at the start
  Requests,  \* requests, each sent once
  None       \* no row

Tables == {"Facility", "Slot", "Room", "Course", "Lecturer", "Offering", "Lock"}
Kinds == Tables \cup {"Semester", "Schedule"}
Rows(k) ==
  CASE k = "Semester" -> Semesters [] k = "Facility" -> Facilities [] k = "Slot" -> Slots
    [] k = "Room" -> Rooms [] k = "Course" -> Courses [] k = "Lecturer" -> Lecturers
    [] k = "Offering" -> Offerings [] k = "Lock" -> Locks [] k = "Schedule" -> Schedules
    [] OTHER -> {}
Ids == UNION {Rows(k) : k \in Kinds}
Table == [i \in Ids |-> CHOOSE k \in Kinds : i \in Rows(k)]
Kind(i) == Table[i]

ASSUME TablesAssumption == \A k, j \in Kinds : k # j => Rows(k) \cap Rows(j) = {}
ASSUME SeedAssumption ==
  /\ DOMAIN Seed \subseteq Ids
  /\ \A i \in DOMAIN Seed : Seed[i] \subseteq DOMAIN Seed
ASSUME NoRowAssumption == None \notin Ids

VARIABLES
  state,  \* of each row: unissued, live or deleted; an id is never reused
  refs,   \* the rows each live row names
  req,    \* the requests
  run     \* the one run, its row and what the worker has loaded

vars == <<state, refs, req, run>>

Of(k, s) == {i \in s : Table[i] = k}
Live == {i \in Ids : state[i] = "live"}
AnyOf(s) == IF s = {} THEN None ELSE CHOOSE i \in s : TRUE
SemesterOf(s) == AnyOf(Of("Semester", s))

\* Besides its call: the semester it checks against, whether its list names an
\* id twice, the join rows it has cleared, and whether another patch of the
\* same list was under way at the same time.
NoReq == [pc |-> "unsent", op |-> "none", row |-> None, field |-> "none", body |-> {}, sem |-> None,
          twice |-> FALSE, old |-> {}, met |-> FALSE]
NoRun == [pc |-> "none", sem |-> None, unread |-> {}, seen |-> {}, offers |-> {},
          torn |-> FALSE, stale |-> FALSE]
Running == run.pc \in {"load", "persist"}

Init ==
  /\ state = [i \in Ids |-> IF i \in DOMAIN Seed THEN "live" ELSE "unissued"]
  /\ refs = [i \in Ids |-> IF i \in DOMAIN Seed THEN Seed[i] ELSE {}]
  /\ req = [q \in Requests |-> NoReq]
  /\ run = NoRun

-----------------------------------------------------------------------------
(* The schema: what each table names, and what a delete does               *)

\* What the create body of each table names: one row of a kind, at most one,
\* or a list; the zod schemas, whose ids become the columns and join tables.
FacilityBody == [one |-> {}, opt |-> {}, list |-> {}]
SlotBody == [one |-> {"Semester"}, opt |-> {}, list |-> {}]
RoomBody == [one |-> {"Semester"}, opt |-> {}, list |-> {"Facility"}]
CourseBody == [one |-> {"Semester"}, opt |-> {}, list |-> {"Facility"}]
LecturerBody == [one |-> {"Semester"}, opt |-> {}, list |-> {"Slot"}]
OfferingBody == [one |-> {"Semester", "Course"}, opt |-> {"Room", "Offering"}, list |-> {"Lecturer", "Slot"}]
LockBody == [one |-> {"Semester", "Offering", "Room"}, opt |-> {}, list |-> {}]

Columns == [k \in Kinds \cup {"none"} |->
  CASE k = "Slot" -> SlotBody [] k = "Room" -> RoomBody [] k = "Course" -> CourseBody
    [] k = "Lecturer" -> LecturerBody [] k = "Offering" -> OfferingBody [] k = "Lock" -> LockBody
    [] OTHER -> FacilityBody]
Body(k) == Columns[k]

\* An offering has at least one lecturer.
FitsField(k, j, b) ==
  CASE j \in Body(k).one -> \E i \in b : b = {i}
    [] j \in Body(k).opt -> \A i, y \in b : i = y
    [] j \in Body(k).list -> j = "Lecturer" => b # {}
    [] OTHER -> b = {}
\* The rows the server starts with are such as its handlers leave behind: the
\* columns of their tables, and the offering's rows of its own semester.
ASSUME SchemaAssumption ==
  \A i \in DOMAIN Seed :
    /\ Kind(i) # "Schedule"
    /\ \A j \in Kinds : FitsField(Kind(i), j, Of(j, Seed[i]))
    /\ \A y \in Seed[i] :
         Kind(i) = "Offering" /\ Kind(y) # "Semester" => SemesterOf(Seed[y]) = SemesterOf(Seed[i])
\* What a client may name in a field and in a body: rows it has seen, which
\* may be gone by now.
Issued == {i \in Ids : state[i] # "unissued"}
FieldValues == [k \in Tables |-> [j \in Kinds |-> {b \in SUBSET Rows(j) : FitsField(k, j, b)}]]
Values(k, j) ==
  LET issued == Issued IN
  IF j \in Kinds THEN {b \in FieldValues[k][j] : b \subseteq issued} ELSE {{}}
Bodies(k) ==
  LET issued == Issued
      V(j) == {b \in FieldValues[k][j] : b \subseteq issued}
  IN {s \cup c \cup d \cup ls \cup ts \cup o \cup fs :
        s \in V("Semester"), c \in V("Course"), d \in V("Room"), ls \in V("Lecturer"),
        ts \in V("Slot"), o \in V("Offering"), fs \in V("Facility")}

\* Mutant: the slots of a stored schedule cascade like those of an offering.
OnDeleteDropsSlots(k, j) ==
  IF j = "Slot" THEN "Drop"
  ELSE IF j = "Semester" THEN IF k = "Schedule" THEN "Restrict" ELSE "Cascade"
  ELSE IF k = "Lock" /\ j = "Offering" THEN "Cascade"
  ELSE IF j = "Offering" THEN "Drop" ELSE "Restrict"

\* onDelete of the relation from a k to a j.
OnDelete(k, j) ==
  CASE k = "Schedule" -> "Restrict"
    [] k # "Schedule" /\ j = "Semester" -> "Cascade"
    [] k = "Lock" /\ j = "Offering" -> "Cascade"
    [] k \notin {"Schedule", "Lock"} /\ j \in {"Slot", "Offering"} -> "Drop"
    [] OTHER -> "Restrict"

Naming(i) == {y \in Live : i \in refs[y]}
By(i, rule) == {y \in Naming(i) : OnDelete(Kind(y), Kind(i)) = rule}

\* What goes with i: the cascade, two relations deep.
Doomed(i) == {i} \cup By(i, "Cascade") \cup UNION {By(y, "Cascade") : y \in By(i, "Cascade")}
Restricted(i) == \E d \in Doomed(i) : By(d, "Restrict") \ Doomed(i) # {}

\* History: a write fell between the loads, or between a load and the schedule.
Touches == run' = [run EXCEPT !.torn = @ \/ run.pc = "load", !.stale = @ \/ Running]

\* create: the row and its join rows, in one statement.
Insert(q) ==
  \E i \in Of(req[q].field, Ids) :
    /\ state[i] = "unissued"
    /\ state' = [state EXCEPT ![i] = "live"]
    /\ refs' = [refs EXCEPT ![i] = req[q].body]

\* update of columns: the named field is replaced.
Update(q) ==
  /\ refs' = [refs EXCEPT ![req[q].row] = (@ \ Of(req[q].field, Ids)) \cup req[q].body]
  /\ UNCHANGED state

\* The patches of one list that have cleared it and not committed.
Rivals(q) == {p \in Requests \ {q} :
                req[p].pc = "fill" /\ req[p].row = req[q].row /\ req[p].field = req[q].field}

\* deleteMany: it takes the join rows it sees committed, waits for those that
\* another patch has taken, and does not see what that one adds.
Clear(q) ==
  /\ req' = [p \in Requests |->
       IF p = q THEN [req[q] EXCEPT !.pc = "fill", !.old = Of(req[q].field, refs[req[q].row]),
                                    !.met = Rivals(q) # {}]
       ELSE [req[p] EXCEPT !.met = @ \/ p \in Rivals(q)]]
  /\ UNCHANGED <<state, refs, run>>

\* createMany and the commit: what others added meanwhile stays, and what this
\* one has taken they take no more.
Fill(q) ==
  /\ refs' = [refs EXCEPT ![req[q].row] = (@ \ req[q].old) \cup req[q].body]
  /\ req' = [p \in Requests |->
       IF p = q THEN [NoReq EXCEPT !.pc = "200"]
       ELSE [req[p] EXCEPT !.old = IF p \in Rivals(q) THEN @ \ req[q].old ELSE @]]
  /\ UNCHANGED state

\* Mutant: the rows of a join table stay when a row they name goes.
EraseRowOnly(i) ==
  /\ state' = [y \in Ids |-> IF y \in Doomed(i) THEN "deleted" ELSE state[y]]
  /\ refs' = [y \in Ids |-> IF y \in Doomed(i) THEN {} ELSE refs[y]]

Erase(i) ==
  /\ state' = [y \in Ids |-> IF y \in Doomed(i) THEN "deleted" ELSE state[y]]
  /\ refs' = [y \in Ids |-> IF y \in Doomed(i) THEN {} ELSE refs[y] \ Doomed(i)]

-----------------------------------------------------------------------------
(* What every handler does                                                 *)

\* Only a refusal for something missing, and of a list, keeps what the request
\* asked for.
Answer(q, a) ==
  LET kept == a \in {"404", "422", "500"} \/ (a = "409" /\ req[q].pc = "fill") IN
  req' = [req EXCEPT ![q] = [(IF kept THEN req[q] ELSE NoReq) EXCEPT !.pc = a, !.old = {}]]
Refuse(q, a) == Answer(q, a) /\ UNCHANGED <<state, refs, run>>

KindOf(r) == IF r.op = "create" THEN r.field ELSE Kind(r.row)

\* No schema keeps a list of ids from naming one twice; facilities are named by
\* code, and resolveFacilityIds reads each of them once.
MayRepeat(k, b) == IF \E j \in Body(k).list \ {"Facility"} : Of(j, b) # {} THEN BOOLEAN ELSE {FALSE}

\* postCreate up to its command: the checks give "write" or a refusal.
Receives(q, k, Verdict(_)) ==
  /\ req[q].pc = "unsent"
  /\ \E i \in Of(k, Ids) : state[i] = "unissued"
  /\ \E b \in Bodies(k) : \E w \in MayRepeat(k, b) :
       LET r == [NoReq EXCEPT !.op = "create", !.field = k, !.body = b, !.sem = SemesterOf(b), !.twice = w] IN
       req' = [req EXCEPT ![q] = [(IF Verdict(r) \in {"400", "409"} THEN NoReq ELSE r)
                                    EXCEPT !.pc = Verdict(r), !.sem = None]]
  /\ UNCHANGED <<state, refs, run>>

\* findById; only a handler that checks goes on with what it found.
Finds(q, r, missing) ==
  /\ req' = [req EXCEPT ![q] =
       IF state[r.row] = "live"
       THEN [r EXCEPT !.sem = IF r.pc = "check" THEN SemesterOf(refs[r.row]) ELSE None]
       ELSE [NoReq EXCEPT !.pc = missing, !.op = r.op, !.row = r.row]]
  /\ UNCHANGED <<state, refs, run>>

\* Bound: a patch names one reference field, or only the row's plain data.
\* The semester is in no patch body, and of a lock only the room.
Fields(k) ==
  {"plain"} \cup IF k = "Lock" THEN {"Room"}
                 ELSE (Body(k).one \cup Body(k).opt \cup Body(k).list) \ {"Semester"}
FindsToPatch(q, k, fields, next) ==
  /\ req[q].pc = "unsent"
  /\ \E i \in Of(k, Issued), f \in fields : \E b \in Values(k, f) : \E w \in MayRepeat(k, b) :
       Finds(q, [NoReq EXCEPT !.pc = next, !.op = "patch", !.row = i, !.field = f, !.body = b, !.twice = w], "404")

FindsToDelete(q, k, next, missing) ==
  /\ req[q].pc = "unsent"
  /\ \E i \in Of(k, Issued) : Finds(q, [NoReq EXCEPT !.pc = next, !.op = "delete", !.row = i], missing)

\* The checks of a patch or a delete, one more await after the find.
Checks(q, op, k, Verdict(_)) ==
  /\ req[q].pc = "check" /\ req[q].op = op /\ KindOf(req[q]) = k
  /\ LET v == Verdict(req[q]) IN
     req' = [req EXCEPT ![q] = [(IF v = "409" \/ v = "400" THEN NoReq ELSE req[q]) EXCEPT !.pc = v, !.sem = None]]
  /\ UNCHANGED <<state, refs, run>>

\* A patch of a list, not of a column.
OfList(r) == r.op = "patch" /\ r.field \in Body(KindOf(r)).list

\* An error Prisma throws, which the handler translates by its table; what is
\* not in it is a 500.
Throws(q, o, table) == Refuse(q, IF o \in DOMAIN table THEN table[o] ELSE "500")

\* The command: its effect or its error.
Commands(q, op, k, outcomes, effect, table) ==
  /\ req[q].pc = "write" /\ req[q].op = op /\ KindOf(req[q]) = k /\ ~OfList(req[q])
  /\ \E o \in outcomes :
       \/ o \in {"200", "201", "204"} /\ effect /\ Answer(q, o) /\ Touches
       \/ o \notin {"200", "201", "204"} /\ Throws(q, o, table)

-----------------------------------------------------------------------------
(* What each repository's command can end in                               *)

Gone(r) == ~(r.body \cup ({r.row} \ {None}) \subseteq Live)

\* Names, codes and windows are unique in their semester, but are no
\* references: any create or plain patch of such a row may be a duplicate.
Duplicate == {"P2002"}

CreateFacility(r) == {"201"} \cup Duplicate
CreateSlot(r) == IF Gone(r) THEN {"P2003"} ELSE {"201"} \cup Duplicate
CreateRoom(r) == IF Gone(r) THEN {"P2003"} ELSE {"201"} \cup Duplicate
CreateCourse(r) == IF Gone(r) THEN {"P2003"} ELSE {"201"} \cup Duplicate

\* An insert under a unique key, which may be taken.
Inserts(r, taken) ==
  (IF Gone(r) THEN {"P2003"} ELSE {}) \cup (IF taken THEN {"P2002"} ELSE {})
    \cup (IF Gone(r) \/ taken THEN {} ELSE {"201"})
CreateLecturer(r) == Inserts(r, r.twice)
CreateOffering(r) == Inserts(r, r.twice)

\* LockedRoom.offeringId is unique.
CreateLock(r) ==
  Inserts(r, \E y \in Of("Lock", Live) : Of("Offering", refs[y]) = Of("Offering", r.body))

\* The key of a join table is the pair.  A missing row of the list, or the
\* patched row, fails the insert; only an empty list goes on to the update.
FillList(r) ==
  IF Gone(r) /\ r.body = {} THEN {"P2025"}
  ELSE {IF o = "201" THEN "200" ELSE o : o \in Inserts(r, r.twice \/ r.body \cap (refs[r.row] \ r.old) # {})}
Renamed(r) == IF r.field = "plain" THEN Duplicate ELSE {}

UpdateFacility(r) == IF Gone(r) THEN {"P2025"} ELSE {"200"} \cup Duplicate
UpdateSlot(r) == IF Gone(r) THEN {"P2025"} ELSE {"200"} \cup Duplicate
UpdateRoom(r) == IF Gone(r) THEN {"P2025"} ELSE {"200"} \cup Renamed(r)
UpdateCourse(r) == IF Gone(r) THEN {"P2025"} ELSE {"200"} \cup Renamed(r)
UpdateLecturer(r) == IF Gone(r) THEN {"P2025"} ELSE {"200"}
UpdateOffering(r) == IF Gone(r) THEN {"P2025"} ELSE {"200"}
UpdateStudentCount(r) == IF Gone(r) THEN {"P2025"} ELSE {"200"}
UpdateLock(r) == IF Gone(r) THEN {"P2025"} ELSE {"200"}

\* A delete waits for the join rows it takes with it.
Holds(q, i) == req[q].pc = "fill" /\ \E y \in req[q].old : {req[q].row, y} \cap Doomed(i) # {}

\* delete of any table: a semester's cascade may meet a Restrict on its way,
\* and then it depends on the order of the triggers.
MayFail(i) == Restricted(i) \/ run.sem = i \/ \E d \in Doomed(i) : By(d, "Restrict") # {}
MaySucceed(i) == ~Restricted(i) /\ run.sem # i /\ \A q \in Requests : ~Holds(q, i)
DeleteOutcomes(r) ==
  IF Gone(r) THEN {"P2025"}
  ELSE {o \in {"P2003", "204"} : IF o = "204" THEN MaySucceed(r.row) ELSE MayFail(r.row)}

\* The update of a row with lists, each of them a transaction.
ReplacesList(q, table) ==
  \/ req[q].pc = "write" /\ OfList(req[q]) /\ Clear(q)
  \/ /\ req[q].pc = "fill"
     /\ \E o \in FillList(req[q]) :
          \/ o = "200" /\ Fill(q) /\ Touches
          \/ o # "200" /\ Throws(q, o, table)
Patches(q, k, outcomes, table) ==
  \/ Commands(q, "patch", k, outcomes, Update(q), table)
  \/ req[q].op = "patch" /\ KindOf(req[q]) = k /\ ReplacesList(q, table)

\* A delete holds its row and waits for join rows that a patch holds, and the
\* patch waits for the row; or two patches with no common row to clear insert
\* the same two ids in different orders.
Crossed(q, p) ==
  \/ /\ req[p].pc = "write" /\ req[p].op = "delete" /\ Holds(q, req[p].row)
     /\ ({req[q].row} \cup req[q].body) \cap Doomed(req[p].row) # {}
  \/ /\ p \in Rivals(q) /\ req[p].old \cap req[q].old = {}
     /\ \E i, y \in req[p].body \cap req[q].body : i # y

\* PostgreSQL fails one of the two, with an error no handler translates: a 500.
\* Bound: no longer cycles, and none of a semester's cascade with a create or
\* another delete.
Deadlock(q, p) ==
  /\ req[q].pc = "fill" /\ Crossed(q, p)
  /\ \E v \in {q, p} : req' = [req EXCEPT ![v] = [NoReq EXCEPT !.pc = "deadlock"]]
  /\ UNCHANGED <<state, refs, run>>

-----------------------------------------------------------------------------
(* The checks between the find and the command                             *)

Always(r) == "write"

\* resolveFacilityIds.  Bound: a facility keeps its code.
KnownFacilities(r) == IF Of("Facility", r.body) \subseteq Live THEN "write" ELSE "422"

\* Mutant: the parent offering is not looked at.
CrossSemesterButParent(r) ==
  \E i \in r.body : /\ Kind(i) \notin {"Semester", "Offering"}
                    /\ state[i] = "live"
                    /\ SemesterOf(refs[i]) # r.sem

\* assertSameSemester: a row that is gone is no mismatch.
CrossSemester(r) ==
  \E i \in r.body : /\ Kind(i) # "Semester"
                    /\ state[i] = "live"
                    /\ SemesterOf(refs[i]) # r.sem
OneSemester(r) == IF CrossSemester(r) THEN "400" ELSE "write"

\* hasRunningScheduleRunForSemester, before every write of a lock.
NotRunning(r) == IF Running /\ run.sem = r.sem THEN "409" ELSE "write"

\* hasOfferingReferences of courses and of lecturers.
CourseUnused(r) == IF Of("Offering", Naming(r.row)) # {} THEN "409" ELSE "write"
LecturerUnused(r) == IF Of("Offering", Naming(r.row)) # {} THEN "409" ELSE "write"

\* countAssignmentsByOfferingId.
OfferingUnscheduled(r) == IF Of("Schedule", Naming(r.row)) # {} THEN "409" ELSE "write"

\* The active semester is refused, too; isActive is Administration's.
SemesterActive(r) == "409"

\* hasRelatedRows.
SemesterUnrelated(r) == IF Naming(r.row) # {} \/ run.sem = r.row THEN "409" ELSE "write"

-----------------------------------------------------------------------------
(* The handlers of each router                                             *)

Missing == [P2025 |-> "404"]
Reference == [P2003 |-> "422"]
Taken == [P2002 |-> "409"]
TakenOrMissing == [P2002 |-> "409", P2025 |-> "404"]
TakenOrReference == [P2002 |-> "409", P2003 |-> "422"]
ReferencedOrMissing == [P2003 |-> "409", P2025 |-> "404"]
MissingOrReference == [P2003 |-> "422", P2025 |-> "404"]
Unhandled == [o \in {} |-> "500"]

PostFacility(q) ==
  \/ Receives(q, "Facility", Always)
  \/ Commands(q, "create", "Facility", CreateFacility(req[q]), Insert(q), Taken)
PatchFacility(q) ==
  \/ FindsToPatch(q, "Facility", Fields("Facility"), "write")
  \/ Commands(q, "patch", "Facility", UpdateFacility(req[q]), Update(q), TakenOrMissing)
DeleteFacility(q) ==
  \/ FindsToDelete(q, "Facility", "write", "write")
  \/ Commands(q, "delete", "Facility", DeleteOutcomes(req[q]), Erase(req[q].row), ReferencedOrMissing)

PostRoom(q) ==
  \/ Receives(q, "Room", KnownFacilities)
  \/ Commands(q, "create", "Room", CreateRoom(req[q]), Insert(q), TakenOrReference)
PatchRoom(q) ==
  \/ FindsToPatch(q, "Room", Fields("Room"), "check")
  \/ Checks(q, "patch", "Room", KnownFacilities)
  \/ Patches(q, "Room", UpdateRoom(req[q]), TakenOrMissing)
DeleteRoom(q) ==
  \/ FindsToDelete(q, "Room", "write", "write")
  \/ Commands(q, "delete", "Room", DeleteOutcomes(req[q]), Erase(req[q].row), ReferencedOrMissing)

PostSlot(q) ==
  \/ Receives(q, "Slot", Always)
  \/ Commands(q, "create", "Slot", CreateSlot(req[q]), Insert(q), TakenOrReference)
PatchSlot(q) ==
  \/ FindsToPatch(q, "Slot", Fields("Slot"), "write")
  \/ Commands(q, "patch", "Slot", UpdateSlot(req[q]), Update(q), TakenOrMissing)
DeleteSlot(q) ==
  \/ FindsToDelete(q, "Slot", "write", "write")
  \/ Commands(q, "delete", "Slot", DeleteOutcomes(req[q]), Erase(req[q].row), Missing)

PostLecturer(q) ==
  \/ Receives(q, "Lecturer", Always)
  \/ Commands(q, "create", "Lecturer", CreateLecturer(req[q]), Insert(q), Reference)

\* Mutant: the handler lets P2003 through.
PatchLecturerThrows(q) ==
  \/ FindsToPatch(q, "Lecturer", Fields("Lecturer"), "write")
  \/ Patches(q, "Lecturer", UpdateLecturer(req[q]), Missing)

PatchLecturer(q) ==
  \/ FindsToPatch(q, "Lecturer", Fields("Lecturer"), "write")
  \/ Patches(q, "Lecturer", UpdateLecturer(req[q]), MissingOrReference)
DeleteLecturer(q) ==
  \/ FindsToDelete(q, "Lecturer", "check", "404")
  \/ Checks(q, "delete", "Lecturer", LecturerUnused)
  \/ Commands(q, "delete", "Lecturer", DeleteOutcomes(req[q]), Erase(req[q].row), ReferencedOrMissing)

PostCourse(q) ==
  \/ Receives(q, "Course", KnownFacilities)
  \/ Commands(q, "create", "Course", CreateCourse(req[q]), Insert(q), TakenOrReference)
PatchCourse(q) ==
  \/ FindsToPatch(q, "Course", Fields("Course"), "check")
  \/ Checks(q, "patch", "Course", KnownFacilities)
  \/ Patches(q, "Course", UpdateCourse(req[q]), TakenOrMissing)
DeleteCourse(q) ==
  \/ FindsToDelete(q, "Course", "check", "404")
  \/ Checks(q, "delete", "Course", CourseUnused)
  \/ Commands(q, "delete", "Course", DeleteOutcomes(req[q]), Erase(req[q].row), ReferencedOrMissing)

PostOffering(q) ==
  \/ Receives(q, "Offering", OneSemester)
  \/ Commands(q, "create", "Offering", CreateOffering(req[q]), Insert(q), Reference)
PatchOffering(q) ==
  \/ FindsToPatch(q, "Offering", Fields("Offering"), "check")
  \/ Checks(q, "patch", "Offering", OneSemester)
  \/ Patches(q, "Offering", UpdateOffering(req[q]), MissingOrReference)

\* patchStudentCount: the one field of an offering that users may change.
PatchStudentCount(q) ==
  \/ FindsToPatch(q, "Offering", {"count"}, "writeCount")
  \/ /\ req[q].pc = "writeCount"
     /\ \E o \in UpdateStudentCount(req[q]) :
          \/ o = "200" /\ Answer(q, "200") /\ Touches /\ UNCHANGED <<state, refs>>
          \/ o = "P2025" /\ Refuse(q, "404")
DeleteOffering(q) ==
  \/ FindsToDelete(q, "Offering", "check", "404")
  \/ Checks(q, "delete", "Offering", OfferingUnscheduled)
  \/ Commands(q, "delete", "Offering", DeleteOutcomes(req[q]), Erase(req[q].row), ReferencedOrMissing)

PostLock(q) ==
  \/ Receives(q, "Lock", NotRunning)
  \/ Commands(q, "create", "Lock", CreateLock(req[q]), Insert(q), TakenOrReference)
PatchLock(q) ==
  \/ FindsToPatch(q, "Lock", Fields("Lock"), "check")
  \/ Checks(q, "patch", "Lock", NotRunning)
  \/ Commands(q, "patch", "Lock", UpdateLock(req[q]), Update(q), MissingOrReference)
DeleteLock(q) ==
  \/ FindsToDelete(q, "Lock", "check", "404")
  \/ Checks(q, "delete", "Lock", NotRunning)
  \/ Commands(q, "delete", "Lock", DeleteOutcomes(req[q]), Erase(req[q].row), Missing)

DeleteSemester(q) ==
  \/ FindsToDelete(q, "Semester", "check", "404")
  \/ Checks(q, "delete", "Semester", SemesterUnrelated)
  \/ Checks(q, "delete", "Semester", SemesterActive)
  \/ Commands(q, "delete", "Semester", DeleteOutcomes(req[q]), Erase(req[q].row), Unhandled)

-----------------------------------------------------------------------------
(* The worker: loadScheduleInputs, the mappers and persistAssignments      *)

\* The locks, which it loads too, decide nothing here.
Loads == {"Room", "Slot", "Lecturer", "Course", "Offering"}

\* postCreate of schedule-runs: a semester without offerings is refused.
\* Bound: one run.  Its row keeps the semester from being deleted.
CreateRun(s) ==
  /\ run.pc = "none"
  /\ Of("Offering", Naming(s)) # {}
  /\ run' = [run EXCEPT !.pc = "QUEUED", !.sem = s]
  /\ UNCHANGED <<state, refs, req>>

StartRun ==
  /\ run.pc = "QUEUED"
  /\ run' = [run EXCEPT !.pc = "load", !.unread = Loads]
  /\ UNCHANGED <<state, refs, req>>

\* Mutant: a lecturer without preferred slots is not loaded.
ReadAvailable(k) ==
  LET found == {i \in Of(k, Live) : run.sem \in refs[i] /\ (k = "Lecturer" => Of("Slot", refs[i]) # {})} IN
  /\ run.pc = "load" /\ k \in run.unread
  /\ run' = [run EXCEPT !.unread = @ \ {k}, !.seen = @ \cup found,
                        !.offers = IF k = "Offering" THEN {[id |-> i, refs |-> refs[i]] : i \in found} ELSE @]
  /\ UNCHANGED <<state, refs, req>>

\* One of the findMany of the Promise.all; offerings with their joins.
Read(k) ==
  LET found == {i \in Of(k, Live) : run.sem \in refs[i]} IN
  /\ run.pc = "load" /\ k \in run.unread
  /\ run' = [run EXCEPT !.unread = @ \ {k}, !.seen = @ \cup found,
                        !.offers = IF k = "Offering" THEN {[id |-> i, refs |-> refs[i]] : i \in found} ELSE @]
  /\ UNCHANGED <<state, refs, req>>

\* mapCourseOfferingRow throws without the course; a missing room or lecturer
\* is a mappingDefect, for which checkIntegrity rejects the one offering.
Courseless == {o \in run.offers : ~(Of("Course", o.refs) \subseteq run.seen)}
Defective == {o \in run.offers : ~(Of("Room", o.refs) \cup Of("Lecturer", o.refs) \subseteq run.seen)}
Schedulable == run.offers \ Defective

Decide(v) == run' = [NoRun EXCEPT !.pc = v, !.sem = run.sem, !.stale = v = "FAILED" /\ run.stale]

Map ==
  /\ run.pc = "load" /\ run.unread = {}
  /\ \/ Courseless # {} /\ Decide("FAILED")
     \/ Courseless = {} /\ Schedulable = {} /\ Decide("PRE_GA_EMPTY")
     \/ Courseless = {} /\ Schedulable # {} /\ run' = [run EXCEPT !.pc = "persist", !.torn = FALSE]
  /\ UNCHANGED <<state, refs, req>>

\* persistScheduleAssignments, one transaction over all assignments: each of
\* the offerings, lecturers of their pools, slots; a room is no foreign key.
Scheduled == {o.id : o \in Schedulable}
Pools == UNION {Of("Lecturer", o.refs) : o \in Schedulable}
Assignments ==
  {ls \cup ts \cup Scheduled : ls \in (SUBSET Pools) \ {{}}, ts \in (SUBSET Of("Slot", run.seen)) \ {{}}}

StoreSchedule(b) ==
  \E i \in Schedules :
    /\ state[i] = "unissued"
    /\ state' = [state EXCEPT ![i] = "live"]
    /\ refs' = [refs EXCEPT ![i] = b]

Persist ==
  /\ run.pc = "persist"
  /\ \/ \E b \in Assignments :
          \/ b \subseteq Live /\ StoreSchedule(b) /\ Decide("COMPLETED")
          \/ ~(b \subseteq Live) /\ Decide("FAILED") /\ UNCHANGED <<state, refs>>
     \/ /\ Assignments = {}  \* no slot: nothing is feasible
        /\ Decide("PRE_GA_EMPTY")
        /\ UNCHANGED <<state, refs>>
  /\ UNCHANGED req

\* deleteOne of schedule-runs, when not RUNNING: the assignments cascade.
DeleteRun ==
  /\ run.pc \notin {"none", "deleted"} /\ ~Running
  /\ run' = [NoRun EXCEPT !.pc = "deleted"]
  /\ state' = [i \in Ids |-> IF i \in Of("Schedule", Live) THEN "deleted" ELSE state[i]]
  /\ refs' = [i \in Ids |-> IF i \in Of("Schedule", Live) THEN {} ELSE refs[i]]
  /\ UNCHANGED req

-----------------------------------------------------------------------------
Handle(q) ==
  \/ PostFacility(q) \/ PatchFacility(q) \/ DeleteFacility(q)
  \/ PostRoom(q) \/ PatchRoom(q) \/ DeleteRoom(q)
  \/ PostSlot(q) \/ PatchSlot(q) \/ DeleteSlot(q)
  \/ PostLecturer(q) \/ PatchLecturer(q) \/ DeleteLecturer(q)
  \/ PostCourse(q) \/ PatchCourse(q) \/ DeleteCourse(q)
  \/ PostOffering(q) \/ PatchOffering(q) \/ PatchStudentCount(q) \/ DeleteOffering(q)
  \/ PostLock(q) \/ PatchLock(q) \/ DeleteLock(q)
  \/ DeleteSemester(q)

Next ==
  \/ \E q \in Requests : Handle(q)
  \/ \E q, p \in Requests : Deadlock(q, p)
  \/ \E s \in Semesters : CreateRun(s)
  \/ StartRun \/ (\E k \in Loads : Read(k)) \/ Map \/ Persist \/ DeleteRun

Spec == Init /\ [][Next]_vars

-----------------------------------------------------------------------------
Pcs == {"unsent", "check", "write", "writeCount", "fill", "200", "201", "204", "400", "404", "409", "422", "500",
        "deadlock"}

\* The shape of the tables, and that no live row names one that is gone, by
\* whatever chain of cascades it went.
TypeOK ==
  /\ state \in [Ids -> {"unissued", "live", "deleted"}]
  /\ refs \in [Ids -> SUBSET Ids]
  /\ req \in [Requests -> [pc : Pcs, op : {"none", "create", "patch", "delete"},
                           row : Ids \cup {None}, field : Kinds \cup {"none", "plain", "count"},
                           body : SUBSET Ids, sem : Ids \cup {None},
                           twice : BOOLEAN, old : SUBSET Ids, met : BOOLEAN]]
  /\ run \in [pc : {"none", "QUEUED", "load", "persist", "COMPLETED", "PRE_GA_EMPTY", "FAILED", "deleted"},
              sem : Ids \cup {None}, unread : SUBSET Loads, seen : SUBSET Ids,
              offers : SUBSET [id : Ids, refs : SUBSET Ids], torn : BOOLEAN, stale : BOOLEAN]
  /\ LET live == Live IN \A i \in Ids : IF i \in live THEN refs[i] \subseteq live ELSE refs[i] = {}

\* An offering and everything it names are of one semester, though the check
\* is made rows and awaits before the write and passes rows that are gone.
SameSemester ==
  \A o \in Of("Offering", Live) :
    \A i \in refs[o] : Kind(i) # "Semester" => SemesterOf(refs[i]) = SemesterOf(refs[o])

\* Every refusal has a cause, whatever raced with it: a 404 or 422 that something
\* named is gone; and only the deletes of slots and semesters, the facility lists
\* of rooms and courses, a list that names an id twice and two patches of one
\* list at once end in a 500, and only the last in a 409 for a list.  Exempt:
\* what PostgreSQL fails to end a deadlock.
RefusalsHaveCause ==
  \A q \in Requests :
    LET gone == ~(req[q].body \cup ({req[q].row} \ {None}) \subseteq Live) IN
    /\ req[q].pc \in {"404", "422"} => gone
    /\ req[q].pc = "500" => \/ req[q].op = "delete" /\ KindOf(req[q]) \in {"Slot", "Semester"}
                            \/ req[q].op = "patch" /\ req[q].field = "Facility" /\ gone
                            \/ req[q].twice \/ req[q].met
    /\ req[q].pc = "409" /\ req[q].op = "patch" => req[q].met

\* The six reads of a run are no snapshot; yet it fails, or drops an offering,
\* only when the catalogue was edited under it.
OnlyEditsBreakRuns ==
  /\ run.pc = "load" /\ run.unread = {} /\ ~run.torn => Courseless \cup Defective = {}
  /\ run.pc = "FAILED" => run.stale

\* No edit of the catalogue changes a stored schedule: its offerings, lecturers
\* and slots stay until the run is deleted.
ScheduleKept ==
  [][\A i \in Of("Schedule", Live) : refs'[i] = refs[i] \/ run'.pc = "deleted"]_vars
=============================================================================
