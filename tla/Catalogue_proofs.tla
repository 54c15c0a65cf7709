-------------------------- MODULE Catalogue_proofs --------------------------
(***************************************************************************)
(* What holds of the master data, of the schema that stores it and of the  *)
(* worker that reads it, for any tables, any requests and any faults: the  *)
(* type of the database, the semesters that a run and its rows share, the  *)
(* refusals of the handlers and the schedule that outlives the edits.      *)
(***************************************************************************)
EXTENDS Catalogue, TLAPS

(***************************************************************************)
(* Tables and kinds                                                        *)
(***************************************************************************)
LEMMA RowsAreIds ==
  ASSUME NEW k \in Kinds, NEW i \in Rows(k)
  PROVE  i \in Ids /\ Table[i] = k
<1>1. i \in Ids BY DEF Ids
<1>2. Table[i] = CHOOSE j \in Kinds : i \in Rows(j) BY <1>1 DEF Table
<1>3. Table[i] \in Kinds /\ i \in Rows(Table[i]) BY <1>2
<1>4. Table[i] # k => Rows(Table[i]) \cap Rows(k) = {} BY <1>3, TablesAssumption
<1> QED BY <1>1, <1>3, <1>4

LEMMA IdsHaveKind ==
  ASSUME NEW i \in Ids
  PROVE  Table[i] \in Kinds /\ i \in Rows(Table[i])
<1>1. Table[i] = CHOOSE j \in Kinds : i \in Rows(j) BY DEF Table
<1>2. \E j \in Kinds : i \in Rows(j) BY DEF Ids
<1> QED BY <1>1, <1>2

LEMMA RowsOfKind ==
  ASSUME NEW k \in Kinds
  PROVE  Rows(k) = Of(k, Ids)
BY RowsAreIds, IdsHaveKind DEF Of

LEMMA SchedulesAre == Schedules = Of("Schedule", Ids)
<1>1. Schedules = Rows("Schedule") BY DEF Rows
<1> QED BY <1>1, RowsOfKind DEF Kinds

LEMMA SemestersAre == Semesters = Of("Semester", Ids)
<1>1. Semesters = Rows("Semester") BY DEF Rows
<1> QED BY <1>1, RowsOfKind DEF Kinds

\* The kinds of the rows each kind names.
NamedBy(k) ==
  IF k = "Schedule" THEN {"Offering", "Lecturer", "Slot"}
  ELSE Body(k).one \cup Body(k).opt \cup Body(k).list

LEMMA NamedByIs ==
  /\ NamedBy("Facility") = {} /\ NamedBy("Semester") = {}
  /\ NamedBy("Slot") = {"Semester"}
  /\ NamedBy("Room") = {"Semester", "Facility"}
  /\ NamedBy("Course") = {"Semester", "Facility"}
  /\ NamedBy("Lecturer") = {"Semester", "Slot"}
  /\ NamedBy("Offering") = {"Semester", "Course", "Room", "Offering", "Lecturer", "Slot"}
  /\ NamedBy("Lock") = {"Semester", "Offering", "Room"}
  /\ NamedBy("Schedule") = {"Offering", "Lecturer", "Slot"}
<1> DEFINE C(k) == Columns[k]
<1>1. /\ C("Facility") = FacilityBody /\ C("Semester") = FacilityBody /\ C("Slot") = SlotBody
      /\ C("Room") = RoomBody /\ C("Course") = CourseBody /\ C("Lecturer") = LecturerBody
      /\ C("Offering") = OfferingBody /\ C("Lock") = LockBody
  BY DEF Columns, Kinds, Tables
<1> QED
  BY <1>1 DEF NamedBy, Body, FacilityBody, SlotBody, RoomBody, CourseBody, LecturerBody, OfferingBody, LockBody

LEMMA ListsAre ==
  /\ Body("Room").list = {"Facility"} /\ Body("Course").list = {"Facility"}
  /\ Body("Lecturer").list = {"Slot"} /\ Body("Offering").list = {"Lecturer", "Slot"}
  /\ \A k \in Kinds \ {"Room", "Course", "Lecturer", "Offering"} : Body(k).list = {}
BY DEF Body, Columns, Kinds, Tables, RoomBody, CourseBody, LecturerBody, OfferingBody, FacilityBody, SlotBody,
       LockBody

LEMMA TablesOfErrors ==
  /\ DOMAIN Missing = {"P2025"} /\ Missing["P2025"] = "404"
  /\ DOMAIN Reference = {"P2003"} /\ Reference["P2003"] = "422"
  /\ DOMAIN Taken = {"P2002"} /\ Taken["P2002"] = "409"
  /\ DOMAIN TakenOrMissing = {"P2002", "P2025"}
  /\ TakenOrMissing["P2002"] = "409" /\ TakenOrMissing["P2025"] = "404"
  /\ DOMAIN TakenOrReference = {"P2002", "P2003"}
  /\ TakenOrReference["P2002"] = "409" /\ TakenOrReference["P2003"] = "422"
  /\ DOMAIN ReferencedOrMissing = {"P2003", "P2025"}
  /\ ReferencedOrMissing["P2003"] = "409" /\ ReferencedOrMissing["P2025"] = "404"
  /\ DOMAIN MissingOrReference = {"P2003", "P2025"}
  /\ MissingOrReference["P2003"] = "422" /\ MissingOrReference["P2025"] = "404"
  /\ DOMAIN Unhandled = {}
BY DEF Missing, Reference, Taken, TakenOrMissing, TakenOrReference, ReferencedOrMissing,
       MissingOrReference, Unhandled

-----------------------------------------------------------------------------
(***************************************************************************)
(* The inductive invariant                                                 *)
(***************************************************************************)

\* The shape of the tables, and the schema: a live row names live rows of the
\* kinds its table names, of one semester at most; a row that is not live names
\* nothing.
TablesOK ==
  /\ state \in [Ids -> {"unissued", "live", "deleted"}]
  /\ refs \in [Ids -> SUBSET Ids]
  /\ \A i \in Ids : IF state[i] = "live" THEN refs[i] \subseteq Live ELSE refs[i] = {}
  /\ \A i \in Ids : \A y \in refs[i] : Kind(y) \in NamedBy(Kind(i))
  /\ \A i \in Ids : \A s, t \in Of("Semester", refs[i]) : s = t

SchemaInv == TablesOK /\ SameSemester

\* What a write does to the tables: ids are never reused, and a row keeps its
\* semester while it lives.
Evolves ==
  \A i \in Ids :
    /\ state[i] # "unissued" => state'[i] # "unissued"
    /\ state[i] # "live" /\ state[i] # "unissued" => state'[i] # "live"
    /\ state[i] = "live" /\ state'[i] = "live" => Of("Semester", refs'[i]) = Of("Semester", refs[i])

\* What every write but a patch of a list does: no list grows.
ListsShrink ==
  \A i \in Ids : state[i] # "unissued" => \A k \in Body(Kind(i)).list : Of(k, refs'[i]) \subseteq refs[i]

\* And what no edit does: change a stored schedule.
SchedulesStay == \A i \in Of("Schedule", Live) : state'[i] = "live" /\ refs'[i] = refs[i]

LEMMA SemesterOfEq ==
  ASSUME NEW a, NEW b, Of("Semester", a) = Of("Semester", b)
  PROVE  SemesterOf(a) = SemesterOf(b)
BY DEF SemesterOf

LEMMA LiveIs == \A i : i \in Live <=> i \in Ids /\ state[i] = "live"
BY DEF Live

\* A new row, of references a create body may name.
LEMMA InsertKeeps ==
  ASSUME SchemaInv, NEW i \in Ids, state[i] = "unissued", NEW b \in SUBSET Live,
         \A y \in b : Kind(y) \in NamedBy(Kind(i)),
         \A s, t \in Of("Semester", b) : s = t,
         Kind(i) = "Offering" =>
           \A y \in b : Kind(y) # "Semester" => SemesterOf(refs[y]) = SemesterOf(b),
         state' = [state EXCEPT ![i] = "live"],
         refs' = [refs EXCEPT ![i] = b]
  PROVE  SchemaInv' /\ Evolves /\ SchedulesStay /\ ListsShrink
<1> USE DEF SchemaInv, TablesOK
<1>1. b \subseteq Ids /\ i \notin b BY DEF Live
<1>2. \A y \in Ids : IF y = i THEN state'[y] = "live" /\ refs'[y] = b
                              ELSE state'[y] = state[y] /\ refs'[y] = refs[y]
  OBVIOUS
<1>3. /\ state' \in [Ids -> {"unissued", "live", "deleted"}]
      /\ refs' \in [Ids -> SUBSET Ids]
  BY <1>1
<1>4. Live' = Live \cup {i} BY <1>2 DEF Live
<1>5. \A y \in Ids : IF state'[y] = "live" THEN refs'[y] \subseteq Live' ELSE refs'[y] = {}
  BY <1>2, <1>4
<1>6. \A x \in Ids : \A y \in refs'[x] : Kind(y) \in NamedBy(Kind(x))
  BY <1>2
<1>7. \A x \in Ids : \A s, t \in Of("Semester", refs'[x]) : s = t
  BY <1>2
<1>8. SameSemester'
  <2> SUFFICES ASSUME NEW o \in Ids, Table[o] = "Offering", o \in Live', NEW y \in refs'[o], Kind(y) # "Semester"
               PROVE  SemesterOf(refs'[y]) = SemesterOf(refs'[o])
    BY DEF SameSemester, Of, Live
  <2>1. CASE o = i
    <3>1. y \in b /\ y # i /\ refs'[y] = refs[y] /\ refs'[o] = b BY <1>1, <1>2, <2>1
    <3> QED BY <3>1, <2>1 DEF Kind
  <2>2. CASE o # i
    <3>1. o \in Live /\ refs'[o] = refs[o] /\ y \in Live BY <1>2, <1>4, <2>2, LiveIs
    <3>2. y # i /\ refs'[y] = refs[y] BY <3>1, <1>2, LiveIs
    <3>3. SemesterOf(refs[y]) = SemesterOf(refs[o])
      BY <3>1 DEF SameSemester, Of
    <3> QED BY <3>1, <3>2, <3>3
  <2> QED BY <2>1, <2>2
<1>9. Evolves
  BY <1>2 DEF Evolves
<1>10. SchedulesStay
  BY <1>2 DEF SchedulesStay, Of, Live
<1>11. ListsShrink
  BY <1>2 DEF ListsShrink, Of
<1> QED BY <1>3, <1>5, <1>6, <1>7, <1>8, <1>9, <1>10, <1>11

\* A patch of row i: the rows a of a field other than the semester are
\* replaced by b.
Replaced(i, f, a, b) ==
  /\ i \in Live /\ Kind(i) # "Schedule" /\ b \in SUBSET Live
  /\ f # "Semester" /\ Of("Semester", a) = {}
  /\ \A y \in b : Kind(y) = f /\ f \in NamedBy(Kind(i))
  /\ Kind(i) = "Offering" => \A y \in b : SemesterOf(refs[y]) = SemesterOf(refs[i])
  /\ state' = state
  /\ refs' = [refs EXCEPT ![i] = (@ \ a) \cup b]

LEMMA UpdateKeeps ==
  ASSUME SchemaInv, NEW i, NEW f, NEW a, NEW b, Replaced(i, f, a, b)
  PROVE  /\ SchemaInv' /\ Evolves /\ SchedulesStay
         /\ \A y \in Ids : \A k : y # i \/ k # f => Of(k, refs'[y]) \subseteq refs[y]
<1> USE DEF SchemaInv, TablesOK, Replaced
<1>1. b \subseteq Ids /\ i \in Ids BY DEF Live
<1>2. \A y \in Ids : IF y = i THEN refs'[y] = (refs[y] \ a) \cup b ELSE refs'[y] = refs[y]
  BY <1>1
<1>3. refs' \in [Ids -> SUBSET Ids]
  BY <1>1
<1>4. Live' = Live BY DEF Live
<1>5. \A y \in Ids : IF state'[y] = "live" THEN refs'[y] \subseteq Live' ELSE refs'[y] = {}
  BY <1>2, <1>4, LiveIs
<1>6. \A x \in Ids : \A y \in refs'[x] : Kind(y) \in NamedBy(Kind(x))
  BY <1>2
<1>7. \A x \in Ids : Of("Semester", refs'[x]) = Of("Semester", refs[x])
  BY <1>1, <1>2 DEF Of, Kind
<1>8. \A x \in Ids : SemesterOf(refs'[x]) = SemesterOf(refs[x])
  BY <1>7, SemesterOfEq
<1>9. SameSemester'
  <2> SUFFICES ASSUME NEW o \in Live, Table[o] = "Offering", NEW y \in refs'[o], Kind(y) # "Semester"
               PROVE  SemesterOf(refs'[y]) = SemesterOf(refs'[o])
    BY <1>4 DEF SameSemester, Of
  <2>0. o \in Ids /\ y \in Ids BY <1>3 DEF Live
  <2>1. y \in refs[o] \/ (o = i /\ y \in b) BY <1>2, <2>0
  <2>2. SemesterOf(refs[y]) = SemesterOf(refs[o])
    BY <2>1 DEF SameSemester, Of, Kind
  <2> QED BY <2>0, <2>2, <1>8
<1>10. Evolves
  BY <1>7 DEF Evolves
<1>11. SchedulesStay
  BY <1>2 DEF SchedulesStay, Of, Live, Kind
<1>12. \A y \in Ids : \A k : y # i \/ k # f => Of(k, refs'[y]) \subseteq refs[y]
  BY <1>2 DEF Of, Kind
<1> QED BY <1>3, <1>5, <1>6, <1>7, <1>9, <1>10, <1>11, <1>12

\* What goes with a row: never a semester besides it, nor a schedule; and no
\* schedule names any of it unless the delete is refused.
LEMMA DoomedAre ==
  ASSUME SchemaInv, NEW i \in Live
  PROVE  /\ i \in Doomed(i) /\ Doomed(i) \subseteq Live
         /\ \A x \in Doomed(i) : x # i => Kind(x) \notin {"Semester", "Schedule"}
         /\ \A y \in Live : i \in refs[y] /\ Kind(i) = "Semester" => y \in Doomed(i)
         /\ ~Restricted(i) =>
              \A y \in Live : Kind(y) = "Schedule" /\ y # i => refs[y] \cap Doomed(i) = {}
<1> USE DEF SchemaInv, TablesOK
<1>1. \A x, y : y \in By(x, "Cascade") =>
        /\ y \in Live /\ y \in Ids /\ x \in refs[y]
        /\ OnDelete(Kind(y), Kind(x)) = "Cascade"
  BY DEF By, Naming, Live
<1>2. \A x, y : y \in By(x, "Cascade") => Kind(y) \notin {"Semester", "Schedule"}
  BY <1>1, NamedByIs DEF OnDelete
<1>3. Doomed(i) \subseteq Live /\ i \in Doomed(i)
  BY <1>1 DEF Doomed
<1>4. \A x \in Doomed(i) : x # i => Kind(x) \notin {"Semester", "Schedule"}
  BY <1>2 DEF Doomed
<1>5. ASSUME NEW y \in Live, i \in refs[y], Kind(i) = "Semester"
      PROVE  y \in Doomed(i)
  <2>1. Kind(y) # "Schedule" BY <1>5, NamedByIs, LiveIs
  <2>2. y \in By(i, "Cascade") BY <1>5, <2>1 DEF By, Naming, OnDelete
  <2> QED BY <2>2 DEF Doomed
<1>6. ASSUME ~Restricted(i), NEW y \in Live, Kind(y) = "Schedule", y # i, NEW x \in refs[y], x \in Doomed(i)
      PROVE  FALSE
  <2>1. Kind(x) \in {"Offering", "Lecturer", "Slot"} BY <1>6, NamedByIs, LiveIs
  <2>2. OnDelete("Schedule", Kind(x)) = "Restrict" BY <2>1 DEF OnDelete
  <2>4. y \in By(x, "Restrict") BY <1>6, <2>2 DEF By, Naming
  <2>3. y \in Doomed(i) BY <1>6, <2>4 DEF Restricted
  <2> QED BY <2>3, <1>4, <1>6
<1> QED BY <1>3, <1>4, <1>5, <1>6

\* A delete, with everything that goes with it.
LEMMA EraseKeeps ==
  ASSUME SchemaInv, NEW i \in Live, Kind(i) # "Schedule", ~Restricted(i), Erase(i)
  PROVE  SchemaInv' /\ Evolves /\ SchedulesStay /\ ListsShrink
<1> USE DEF SchemaInv, TablesOK
<1> DEFINE D == Doomed(i)
<1>0. /\ i \in D /\ D \subseteq Live
      /\ \A x \in D : x # i => Kind(x) \notin {"Semester", "Schedule"}
      /\ \A y \in Live : i \in refs[y] /\ Kind(i) = "Semester" => y \in D
      /\ \A y \in Live : Kind(y) = "Schedule" /\ y # i => refs[y] \cap D = {}
  BY DoomedAre
<1>1. \A y \in Ids : /\ state'[y] = IF y \in D THEN "deleted" ELSE state[y]
                     /\ refs'[y] = IF y \in D THEN {} ELSE refs[y] \ D
  BY DEF Erase
<1>2. /\ state' \in [Ids -> {"unissued", "live", "deleted"}]
      /\ refs' \in [Ids -> SUBSET Ids]
  BY DEF Erase
<1> HIDE DEF D
<1>3. Live' = Live \ D BY <1>1 DEF Live
<1>4. \A y \in Ids : IF state'[y] = "live" THEN refs'[y] \subseteq Live' ELSE refs'[y] = {}
  BY <1>1, <1>3
<1>5. \A x \in Ids : \A y \in refs'[x] : Kind(y) \in NamedBy(Kind(x))
  BY <1>1
<1>6. ASSUME NEW x \in Ids, state'[x] = "live"
      PROVE  Of("Semester", refs'[x]) = Of("Semester", refs[x])
  <2>1. x \in Live /\ x \notin D BY <1>6, <1>1, LiveIs
  <2>2. \A s \in Of("Semester", refs[x]) : s \notin D
    BY <2>1, <1>0 DEF Of, Kind
  <2> QED BY <2>1, <2>2, <1>1 DEF Of
<1>7. \A x \in Ids : \A s, t \in Of("Semester", refs'[x]) : s = t
  <2> SUFFICES ASSUME NEW x \in Ids, NEW s \in Of("Semester", refs'[x]), NEW t \in Of("Semester", refs'[x])
               PROVE  s = t
    OBVIOUS
  <2>1. s \in Of("Semester", refs[x]) /\ t \in Of("Semester", refs[x]) BY <1>1 DEF Of
  <2> QED BY <2>1
<1>8. SameSemester'
  <2> SUFFICES ASSUME NEW o \in Ids, Table[o] = "Offering", o \in Live', NEW y \in refs'[o], Kind(y) # "Semester"
               PROVE  SemesterOf(refs'[y]) = SemesterOf(refs'[o])
    BY DEF SameSemester, Of, Live
  <2>4. o \in Live /\ o \notin D BY <1>3
  <2>5. state[o] = "live" /\ state'[o] = state[o] BY <2>4, <1>1, LiveIs
  <2>6. refs'[o] = refs[o] \ D BY <2>4, <1>1
  <2>1. o \in Live /\ y \in refs[o] /\ state'[o] = "live" BY <2>4, <2>5, <2>6
  <2>2. y \in Ids /\ state'[y] = "live" BY <1>1, <1>3, <1>4, <2>1 DEF Live
  <2>3. SemesterOf(refs[y]) = SemesterOf(refs[o]) BY <2>1 DEF SameSemester, Of
  <2> QED BY <2>1, <2>2, <2>3, <1>6, SemesterOfEq
<1>9. Evolves
  BY <1>0, <1>1, <1>6, LiveIs DEF Evolves
<1>10. SchedulesStay
  <2> SUFFICES ASSUME NEW y \in Live, Kind(y) = "Schedule"
               PROVE  state'[y] = "live" /\ refs'[y] = refs[y]
    BY DEF SchedulesStay, Of, Kind
  <2>1. y \in Ids /\ state[y] = "live" /\ y # i BY LiveIs
  <2>2. y \notin D /\ refs[y] \cap D = {} BY <1>0, <2>1
  <2> QED BY <2>1, <2>2, <1>1
<1>11. ListsShrink
  BY <1>1 DEF ListsShrink, Of
<1> QED BY <1>2, <1>4, <1>5, <1>7, <1>8, <1>9, <1>10, <1>11

-----------------------------------------------------------------------------
(***************************************************************************)
(* The requests                                                            *)
(***************************************************************************)

RequestType ==
  [pc : Pcs, op : {"none", "create", "patch", "delete"},
   row : Ids \cup {None}, field : Kinds \cup {"none", "plain", "count"},
   body : SUBSET Ids, sem : Ids \cup {None},
   twice : BOOLEAN, old : SUBSET Ids, met : BOOLEAN]

\* The shape of a request: what it asks for fits its table.
RequestFits(r) ==
  /\ r \in RequestType
  /\ r.op \in {"patch", "delete"} => r.row \in Ids
  /\ r.op = "create" => r.row = None
  /\ r.pc = "check" => r.op # "create"
  /\ r.pc \in {"check", "write"} /\ r.op = "create" =>
       /\ \A y \in r.body : Kind(y) \in NamedBy(r.field)
       /\ \A s, t \in Of("Semester", r.body) : s = t
  /\ r.pc \in {"check", "write", "fill"} /\ r.op = "patch" =>
       /\ r.field # "Semester"
       /\ \A y \in r.body : Kind(y) = r.field /\ r.field \in NamedBy(Kind(r.row))
  /\ r.op = "patch" /\ r.field = "Facility" => ~r.twice
  /\ r.pc = "fill" =>
       /\ r.op = "patch" /\ r.field \in Body(Kind(r.row)).list
       /\ \A y \in r.old : Kind(y) = r.field

\* Something a request names is not there, in the tables st.
Lost(r, st) == \E y \in r.body \cup ({r.row} \ {None}) : st[y] # "live"

\* A request in the tables st and rf: it names rows that were issued, the ones
\* that still live are of one semester when it is about an offering that was
\* checked, and a refusal has its cause.
RequestOK(r, st, rf) ==
  /\ RequestFits(r)
  /\ \A y \in r.body \cup ({r.row} \ {None}) : st[y] # "unissued"
  /\ r.pc = "write" /\ r.op = "create" /\ r.field = "Offering" =>
       \A y \in r.body :
         Kind(y) # "Semester" /\ st[y] = "live" => SemesterOf(rf[y]) = SemesterOf(r.body)
  /\ r.op = "patch" /\ Kind(r.row) = "Offering" /\ st[r.row] = "live" =>
       /\ r.pc = "check" => r.sem = SemesterOf(rf[r.row])
       /\ r.pc \in {"write", "fill"} =>
            \A y \in r.body : st[y] = "live" => SemesterOf(rf[y]) = SemesterOf(rf[r.row])
  /\ r.pc \in {"404", "422"} => Lost(r, st)
  /\ r.pc = "500" => \/ r.op = "delete" /\ KindOf(r) \in {"Slot", "Semester"}
                     \/ r.op = "patch" /\ r.field = "Facility" /\ Lost(r, st)
                     \/ r.twice \/ r.met
  /\ r.pc = "409" /\ r.op = "patch" => r.met

\* A patch that is filling its list and has met no rival has none, and has
\* cleared all there is.
ListInv ==
  \A q \in Requests : req[q].pc = "fill" /\ ~req[q].met =>
    /\ Rivals(q) = {}
    /\ Of(req[q].field, refs[req[q].row]) \subseteq req[q].old

RequestInv ==
  /\ req \in [Requests -> RequestType]
  /\ \A q \in Requests : RequestOK(req[q], state, refs)
  /\ ListInv

\* Whatever happens to the tables, a request stays as it should be.
LEMMA RequestsLast ==
  ASSUME Evolves, NEW r, RequestOK(r, state, refs)
  PROVE  RequestOK(r, state', refs')
<1> DEFINE N == r.body \cup ({r.row} \ {None})
<1>1. RequestFits(r) /\ N \subseteq Ids /\ r.body \subseteq Ids
  BY DEF RequestOK, RequestFits, RequestType
<1>2. \A y \in N : state[y] # "unissued" BY DEF RequestOK
<1>3. \A y \in N : /\ state'[y] # "unissued"
                   /\ state'[y] = "live" => state[y] = "live" /\ SemesterOf(refs'[y]) = SemesterOf(refs[y])
  BY <1>1, <1>2, SemesterOfEq DEF Evolves
<1>4. Lost(r, state) => Lost(r, state') BY <1>3 DEF Lost
<1>5. r.op = "patch" => r.row \in N /\ r.row \in Ids
  BY <1>1, NoRowAssumption DEF RequestFits, RequestType
<1>6. r.pc = "write" /\ r.op = "create" /\ r.field = "Offering" =>
       \A y \in r.body :
         Kind(y) # "Semester" /\ state'[y] = "live" => SemesterOf(refs'[y]) = SemesterOf(r.body)
  BY <1>3 DEF RequestOK
<1>7. r.op = "patch" /\ Kind(r.row) = "Offering" /\ state'[r.row] = "live" =>
       /\ r.pc = "check" => r.sem = SemesterOf(refs'[r.row])
       /\ r.pc \in {"write", "fill"} =>
            \A y \in r.body : state'[y] = "live" => SemesterOf(refs'[y]) = SemesterOf(refs'[r.row])
  BY <1>3, <1>5 DEF RequestOK
<1>8. /\ r.pc \in {"404", "422"} => Lost(r, state')
      /\ r.pc = "500" => \/ r.op = "delete" /\ KindOf(r) \in {"Slot", "Semester"}
                         \/ r.op = "patch" /\ r.field = "Facility" /\ Lost(r, state')
                         \/ r.twice \/ r.met
      /\ r.pc = "409" /\ r.op = "patch" => r.met
  BY <1>4 DEF RequestOK
<1> QED BY <1>1, <1>3, <1>6, <1>7, <1>8 DEF RequestOK

\* Nor does it matter what it has cleared, when it has met more.
LEMMA MeetingLasts ==
  ASSUME NEW st, NEW rf, NEW r, RequestOK(r, st, rf), NEW o \in SUBSET r.old, NEW m \in BOOLEAN, r.met => m
  PROVE  RequestOK([r EXCEPT !.old = o, !.met = m], st, rf)
<1> DEFINE x == [r EXCEPT !.old = o, !.met = m]
<1>1. RequestFits(r) BY DEF RequestOK
<1>2. /\ x.pc = r.pc /\ x.op = r.op /\ x.row = r.row /\ x.field = r.field /\ x.body = r.body /\ x.sem = r.sem
      /\ x.twice = r.twice /\ x.old = o /\ x.met = m
      /\ x \in RequestType
  BY <1>1 DEF RequestType, RequestFits
<1> HIDE DEF x
<1>3. (Lost(x, st) <=> Lost(r, st)) /\ KindOf(x) = KindOf(r) BY <1>2 DEF Lost, KindOf
<1>4. RequestFits(x) BY <1>1, <1>2 DEF RequestFits
<1>5. RequestOK(x, st, rf) BY <1>2, <1>3, <1>4 DEF RequestOK
<1> QED BY <1>5 DEF x

LEMMA LostIsGone ==
  ASSUME NEW r, r.body \subseteq Ids, r.row \in Ids \cup {None}
  PROVE  Gone(r) <=> Lost(r, state)
BY DEF Gone, Lost, Live

\* An answer that keeps nothing of the request.
LEMMA NothingKeptOK ==
  ASSUME NEW x, x \in [pc : Pcs, op : {"none"}, row : {None}, field : {"none"}, body : {{}}, sem : {None},
                      twice : {FALSE}, old : {{}}, met : {FALSE}],
         x.pc \in {"200", "201", "204", "400", "409", "deadlock"}, NEW st, NEW rf
  PROVE  RequestOK(x, st, rf)
<1>1. RequestFits(x) BY DEF RequestFits, RequestType
<1>2. x.body \cup ({x.row} \ {None}) = {} BY DEF Pcs
<1> QED BY <1>1, <1>2 DEF RequestOK, Pcs

LEMMA AnsweredOK ==
  ASSUME NEW a \in {"200", "201", "204", "400", "409", "deadlock"}, NEW st, NEW rf
  PROVE  /\ RequestOK([NoReq EXCEPT !.pc = a], st, rf)
         /\ RequestOK([NoReq EXCEPT !.pc = a, !.sem = None], st, rf)
<1> DEFINE x == [NoReq EXCEPT !.pc = a]
           y == [NoReq EXCEPT !.pc = a, !.sem = None]
           T == [pc : Pcs, op : {"none"}, row : {None}, field : {"none"}, body : {{}}, sem : {None},
                 twice : {FALSE}, old : {{}}, met : {FALSE}]
<1>1. x \in T /\ x.pc = a BY DEF NoReq, Pcs
<1>2. y \in T /\ y.pc = a BY DEF NoReq, Pcs
<1> HIDE DEF x, y
<1>3. RequestOK(x, st, rf) /\ RequestOK(y, st, rf) BY <1>1, <1>2, NothingKeptOK
<1> QED BY <1>3 DEF x, y

\* A refusal that keeps the request.
LEMMA RefusedOK ==
  ASSUME NEW r, RequestOK(r, state, refs), NEW a \in {"404", "409", "422", "500"}, NEW m \in {r.sem, None},
         NEW o \in {r.old, {}},
         a \in {"404", "422"} => Lost(r, state),
         a = "409" => r.met,
         a = "500" => \/ r.op = "delete" /\ KindOf(r) \in {"Slot", "Semester"}
                      \/ r.op = "patch" /\ r.field = "Facility" /\ Lost(r, state)
                      \/ r.twice \/ r.met
  PROVE  RequestOK([r EXCEPT !.pc = a, !.sem = m, !.old = o], state, refs)
<1> DEFINE x == [r EXCEPT !.pc = a, !.sem = m, !.old = o]
<1>1. RequestFits(r) BY DEF RequestOK
<1>2. /\ x.pc = a /\ x.op = r.op /\ x.row = r.row /\ x.field = r.field /\ x.body = r.body /\ x.sem = m
      /\ x.twice = r.twice /\ x.met = r.met
      /\ x \in RequestType
  BY <1>1 DEF RequestType, RequestFits, Pcs
<1> HIDE DEF x
<1>3. (Lost(x, state) <=> Lost(r, state)) /\ KindOf(x) = KindOf(r) BY <1>2 DEF Lost, KindOf
<1>4. RequestFits(x) BY <1>1, <1>2 DEF RequestFits
<1>5. \A y \in x.body \cup ({x.row} \ {None}) : state[y] # "unissued" BY <1>2 DEF RequestOK
<1>6. x.pc \notin {"write", "check", "fill"} BY <1>2
<1>7. /\ x.pc \in {"404", "422"} => Lost(x, state)
      /\ x.pc = "409" => x.met
      /\ x.pc = "500" => \/ x.op = "delete" /\ KindOf(x) \in {"Slot", "Semester"}
                         \/ x.op = "patch" /\ x.field = "Facility" /\ Lost(x, state)
                         \/ x.twice \/ x.met
  BY <1>2, <1>3
<1>8. RequestOK(x, state, refs) BY <1>4, <1>5, <1>6, <1>7 DEF RequestOK
<1> QED BY <1>8 DEF x

LEMMA FieldFits ==
  ASSUME NEW k \in Kinds, k # "Schedule", NEW j \in Kinds, NEW b, FitsField(k, j, b)
  PROVE  /\ b # {} => j \in NamedBy(k)
         /\ j = "Semester" => \A s, t \in b : s = t
<1>1. j \in Body(k).one \/ j \in Body(k).opt \/ j \in Body(k).list \/ b = {}
  BY DEF FitsField
<1>2. b # {} => j \in NamedBy(k) BY <1>1 DEF NamedBy
<1>3. /\ "Semester" \notin Body(k).list /\ Body(k).opt \cap Body(k).one = {}
      /\ Body(k).list \cap Body(k).opt = {} /\ "Semester" \notin Body(k).opt
  BY DEF Body, Columns, Kinds, Tables, FacilityBody, SlotBody, RoomBody, CourseBody, LecturerBody,
         OfferingBody, LockBody
<1>4. ASSUME j = "Semester" PROVE \A s, t \in b : s = t
  <2>1. CASE j \in Body(k).one BY <2>1, <1>3, <1>4 DEF FitsField
  <2>2. CASE j \notin Body(k).one BY <2>2, <1>3, <1>4 DEF FitsField
  <2> QED BY <2>1, <2>2
<1> QED BY <1>2, <1>4

LEMMA BodiesFit ==
  ASSUME NEW k \in Tables, NEW b \in Bodies(k)
  PROVE  /\ b \subseteq Issued
         /\ \A y \in b : Kind(y) \in NamedBy(k)
         /\ \A s, t \in Of("Semester", b) : s = t
<1> DEFINE V(j) == {v \in FieldValues[k][j] : v \subseteq Issued}
<1>1. PICK s \in V("Semester"), c \in V("Course"), d \in V("Room"), ls \in V("Lecturer"),
           ts \in V("Slot"), o \in V("Offering"), fs \in V("Facility") :
        b = s \cup c \cup d \cup ls \cup ts \cup o \cup fs
  BY DEF Bodies
<1>2. ASSUME NEW j \in Kinds, NEW v \in V(j)
      PROVE  /\ v \subseteq Issued /\ \A y \in v : Kind(y) = j /\ j \in NamedBy(k)
             /\ j = "Semester" => \A x, y \in v : x = y
  <2>1. v \in SUBSET Rows(j) /\ FitsField(k, j, v) /\ v \subseteq Issued
    BY <1>2 DEF FieldValues
  <2> QED BY <2>1, FieldFits, RowsAreIds DEF Kind, Kinds, Tables
<1> HIDE DEF V
<1>3. {"Semester", "Course", "Room", "Lecturer", "Slot", "Offering", "Facility"} \subseteq Kinds
  BY DEF Kinds, Tables
<1>4. b \subseteq Issued /\ \A y \in b : Kind(y) \in NamedBy(k)
  BY <1>1, <1>2, <1>3
<1>5. Of("Semester", b) \subseteq s
  BY <1>1, <1>2, <1>3 DEF Of, Kind
<1> QED BY <1>1, <1>2, <1>3, <1>4, <1>5

\* A create, and what its checks make of it when they end in v.
Creation(k, b, w) ==
  [NoReq EXCEPT !.op = "create", !.field = k, !.body = b, !.sem = SemesterOf(b), !.twice = w]
Checked(r, v) == [(IF v \in {"400", "409"} THEN NoReq ELSE r) EXCEPT !.pc = v, !.sem = None]

LEMMA ReceivedOK ==
  ASSUME TablesOK, NEW k \in Tables, NEW b \in Bodies(k), NEW w \in BOOLEAN, NEW v \in {"write", "400", "409", "422"},
         v = "422" => \E y \in b : state[y] # "live",
         v = "write" /\ k = "Offering" =>
           \A y \in b : Kind(y) # "Semester" /\ state[y] = "live" => SemesterOf(refs[y]) = SemesterOf(b)
  PROVE  RequestOK(Checked(Creation(k, b, w), v), state, refs)
<1> DEFINE r == Creation(k, b, w)
           x == [r EXCEPT !.pc = v, !.sem = None]
<1>1. CASE v \in {"400", "409"}
  <2>1. Checked(r, v) = [NoReq EXCEPT !.pc = v, !.sem = None] BY <1>1 DEF Checked
  <2>2. RequestOK([NoReq EXCEPT !.pc = v, !.sem = None], state, refs) BY <1>1, AnsweredOK
  <2> QED BY <2>1, <2>2
<1>2. CASE v \in {"write", "422"}
  <2>1. b \subseteq Issued /\ Issued \subseteq Ids BY BodiesFit DEF Issued
  <2>2. /\ x.pc = v /\ x.op = "create" /\ x.row = None /\ x.field = k /\ x.body = b /\ x.sem = None
        /\ x \in RequestType
    BY <1>2, <2>1 DEF Creation, RequestType, NoReq, Pcs, Kinds
  <2> HIDE DEF x
  <2>3. RequestFits(x) BY <2>2, <1>2, BodiesFit DEF RequestFits, RequestType
  <2>4. \A y \in x.body \cup ({x.row} \ {None}) : state[y] # "unissued" BY <2>1, <2>2 DEF Issued
  <2>5. x.pc = "422" => Lost(x, state) BY <2>2 DEF Lost
  <2>8. x.pc = "write" /\ x.field = "Offering" =>
          \A y \in x.body :
            Kind(y) # "Semester" /\ state[y] = "live" => SemesterOf(refs[y]) = SemesterOf(x.body)
    BY <2>2
  <2>9. x.op # "patch" /\ x.pc \notin {"404", "500"} BY <1>2, <2>2
  <2>6. RequestOK(x, state, refs) BY <2>3, <2>4, <2>5, <2>8, <2>9 DEF RequestOK
  <2>7. Checked(r, v) = x BY <1>2 DEF Checked, x
  <2> QED BY <2>6, <2>7
<1> QED BY <1>1, <1>2

LEMMA SemesterOfIsRow ==
  ASSUME NEW s \in SUBSET Ids
  PROVE  SemesterOf(s) \in Ids \cup {None}
BY DEF SemesterOf, AnyOf, Of

\* A patch or a delete that found its row.
LEMMA FoundOK ==
  ASSUME NEW x \in RequestType, x.row \in Issued, x.op \in {"patch", "delete"}, x.body \subseteq Issued,
         x.field # "Semester", x.pc \in {"check", "write", "writeCount"},
         \A y \in x.body : Kind(y) = x.field /\ x.field \in NamedBy(Kind(x.row)),
         x.pc = "write" /\ x.op = "patch" => Kind(x.row) # "Offering",
         x.pc = "check" => x.sem = SemesterOf(refs[x.row]),
         x.field = "Facility" => ~x.twice
  PROVE  RequestOK(x, state, refs)
<1>1. x.row \in Ids /\ x.body \subseteq Ids BY DEF Issued
<1>2. RequestFits(x) BY <1>1 DEF RequestFits, RequestType
<1>3. \A y \in x.body \cup ({x.row} \ {None}) : state[y] # "unissued" BY DEF Issued
<1> QED BY <1>2, <1>3 DEF RequestOK

\* One that did not: a refusal, or a delete that goes on without it.
LEMMA NotFoundOK ==
  ASSUME NEW i \in Issued, state[i] # "live", NEW op \in {"patch", "delete"},
         NEW a \in {"404", "write"}, a = "write" => op = "delete"
  PROVE  RequestOK([NoReq EXCEPT !.pc = a, !.op = op, !.row = i], state, refs)
<1> DEFINE x == [NoReq EXCEPT !.pc = a, !.op = op, !.row = i]
<1>1. i \in Ids /\ i # None BY NoRowAssumption DEF Issued
<1>2. /\ x.pc = a /\ x.op = op /\ x.row = i /\ x.field = "none" /\ x.body = {} /\ x.sem = None
      /\ x \in RequestType
  BY <1>1 DEF RequestType, NoReq, Pcs
<1> HIDE DEF x
<1>3. RequestFits(x) BY <1>1, <1>2 DEF RequestFits, RequestType
<1>4. \A y \in x.body \cup ({x.row} \ {None}) : state[y] # "unissued" BY <1>2 DEF Issued
<1>5. Lost(x, state) BY <1>1, <1>2 DEF Lost
<1>6. RequestOK(x, state, refs) BY <1>2, <1>3, <1>4, <1>5 DEF RequestOK
<1> QED BY <1>6 DEF x

\* A check that passed.
LEMMA CheckedOK ==
  ASSUME NEW r, RequestOK(r, state, refs), r.pc = "check",
         r.op = "patch" /\ Kind(r.row) = "Offering" =>
           \A y \in r.body : state[y] = "live" => SemesterOf(refs[y]) = r.sem
  PROVE  RequestOK([r EXCEPT !.pc = "write", !.sem = None], state, refs)
<1> DEFINE x == [r EXCEPT !.pc = "write", !.sem = None]
<1>1. RequestFits(r) BY DEF RequestOK
<1>2. /\ x.pc = "write" /\ x.op = r.op /\ x.row = r.row /\ x.field = r.field /\ x.body = r.body /\ x.sem = None
      /\ x.twice = r.twice
      /\ x \in RequestType
  BY <1>1 DEF RequestType, RequestFits, Pcs
<1> HIDE DEF x
<1>3. RequestFits(x) BY <1>1, <1>2 DEF RequestFits, RequestType
<1>4. \A y \in x.body \cup ({x.row} \ {None}) : state[y] # "unissued" BY <1>2 DEF RequestOK
<1>5. x.op # "create" BY <1>1, <1>2 DEF RequestFits, RequestType
<1>6. x.op = "patch" /\ Kind(x.row) = "Offering" /\ state[x.row] = "live" =>
        \A y \in x.body : state[y] = "live" => SemesterOf(refs[y]) = SemesterOf(refs[x.row])
  BY <1>2 DEF RequestOK
<1>7. RequestOK(x, state, refs) BY <1>2, <1>3, <1>4, <1>5, <1>6 DEF RequestOK
<1> QED BY <1>7 DEF x

-----------------------------------------------------------------------------
(***************************************************************************)
(* The steps of a handler                                                  *)
(***************************************************************************)

\* A step that only moves the request, and one that writes and answers.
Moves(q) ==
  /\ UNCHANGED <<state, refs, run>>
  /\ \E x : RequestOK(x, state, refs) /\ x.pc # "fill" /\ req' = [req EXCEPT ![q] = x]
Writes(q) ==
  /\ SchemaInv' /\ Evolves /\ SchedulesStay /\ ListsShrink /\ Touches
  /\ \E a \in {"200", "201", "204"} : req' = [req EXCEPT ![q] = [NoReq EXCEPT !.pc = a]]

\* The two of a patch of a list, which others may meet.
Clears(q) == req[q].pc = "write" /\ OfList(req[q]) /\ Clear(q)
Fills(q) == req[q].pc = "fill" /\ ~Gone(req[q]) /\ Fill(q) /\ Touches

\* The run's semester, the one thing a handler reads of it.
RunSemesterOK == run.sem \in Semesters \cup {None}

HandlerInv == SchemaInv /\ RequestInv /\ RunSemesterOK

LEMMA RequestIs ==
  ASSUME HandlerInv, NEW q \in Requests
  PROVE  /\ RequestOK(req[q], state, refs) /\ RequestFits(req[q])
         /\ req[q].body \subseteq Ids /\ req[q].row \in Ids \cup {None}
         /\ Gone(req[q]) <=> Lost(req[q], state)
<1>1. RequestOK(req[q], state, refs) BY DEF HandlerInv, RequestInv
<1>2. RequestFits(req[q]) BY <1>1 DEF RequestOK
<1>3. req[q].body \subseteq Ids /\ req[q].row \in Ids \cup {None} BY <1>2 DEF RequestFits, RequestType
<1> QED BY <1>1, <1>2, <1>3, LostIsGone

LEMMA AnswerSplits ==
  ASSUME NEW q \in Requests, NEW a, Answer(q, a)
  PROVE  IF a \in {"404", "422", "500"} \/ (a = "409" /\ req[q].pc = "fill")
         THEN req' = [req EXCEPT ![q] = [req[q] EXCEPT !.pc = a, !.sem = req[q].sem, !.old = {}]]
         ELSE req' = [req EXCEPT ![q] = [NoReq EXCEPT !.pc = a]]
<1>1. /\ NoReq \in [pc : {"unsent"}, op : {"none"}, row : {None}, field : {"none"}, body : {{}}, sem : {None},
                     twice : {FALSE}, old : {{}}, met : {FALSE}]
      /\ NoReq.old = {}
  BY DEF NoReq
<1>2. [NoReq EXCEPT !.pc = a, !.old = {}] = [NoReq EXCEPT !.pc = a] BY <1>1
<1> QED BY <1>2 DEF Answer

LEMMA RefuseMoves ==
  ASSUME HandlerInv, NEW q \in Requests, NEW a \in {"404", "409", "422", "500"}, Refuse(q, a),
         a \in {"404", "422"} => Gone(req[q]),
         a = "409" /\ req[q].pc = "fill" => req[q].met,
         a = "500" => \/ req[q].op = "delete" /\ KindOf(req[q]) \in {"Slot", "Semester"}
                      \/ req[q].op = "patch" /\ req[q].field = "Facility" /\ Gone(req[q])
                      \/ req[q].twice \/ req[q].met
  PROVE  Moves(q)
<1>1. /\ RequestOK(req[q], state, refs)
      /\ Gone(req[q]) <=> Lost(req[q], state)
  BY RequestIs
<1>2. Answer(q, a) /\ UNCHANGED <<state, refs, run>> BY DEF Refuse
<1>3. CASE a = "409" /\ req[q].pc # "fill"
  <2> DEFINE x == [NoReq EXCEPT !.pc = a]
  <2>1. x.pc # "fill" BY <1>3 DEF NoReq
  <2>2. RequestOK(x, state, refs) BY <1>3, AnsweredOK
  <2>3. req' = [req EXCEPT ![q] = x] BY <1>2, <1>3, AnswerSplits
  <2> HIDE DEF x
  <2> QED BY <2>1, <2>2, <2>3, <1>2 DEF Moves
<1>4. CASE a \in {"404", "422", "500"} \/ (a = "409" /\ req[q].pc = "fill")
  <2> DEFINE x == [req[q] EXCEPT !.pc = a, !.sem = req[q].sem, !.old = {}]
  <2>1. RequestOK(x, state, refs)
    BY <1>1, <1>4, RefusedOK
  <2>2. x.pc # "fill" BY <1>1, <1>4 DEF RequestOK, RequestFits, RequestType
  <2>3. req' = [req EXCEPT ![q] = x] BY <1>2, <1>4, AnswerSplits
  <2> HIDE DEF x
  <2> QED BY <2>1, <2>2, <2>3, <1>2 DEF Moves
<1> QED BY <1>3, <1>4

LEMMA FindsMoves ==
  ASSUME HandlerInv, NEW q \in Requests, NEW r \in RequestType, NEW missing \in {"404", "write"},
         r.row \in Issued, r.op \in {"patch", "delete"}, r.body \subseteq Issued,
         r.field # "Semester", r.pc \in {"check", "write", "writeCount"},
         \A y \in r.body : Kind(y) = r.field /\ r.field \in NamedBy(Kind(r.row)),
         r.pc = "write" /\ r.op = "patch" => Kind(r.row) # "Offering",
         missing = "write" => r.op = "delete",
         r.field = "Facility" => ~r.twice,
         Finds(q, r, missing)
  PROVE  Moves(q)
<1> DEFINE m == IF r.pc = "check" THEN SemesterOf(refs[r.row]) ELSE None
           x == [r EXCEPT !.sem = m]
<1>1. /\ req' = [req EXCEPT ![q] = IF state[r.row] = "live" THEN x
                                   ELSE [NoReq EXCEPT !.pc = missing, !.op = r.op, !.row = r.row]]
      /\ UNCHANGED <<state, refs, run>>
  BY DEF Finds
<1>2. r.row \in Ids BY DEF Issued
<1>3. m \in Ids \cup {None} /\ (r.pc = "check" => m = SemesterOf(refs[r.row]))
  BY <1>2, SemesterOfIsRow DEF HandlerInv, SchemaInv, TablesOK
<1> HIDE DEF m
<1>4. /\ x \in RequestType /\ x.pc = r.pc /\ x.op = r.op /\ x.row = r.row /\ x.field = r.field
      /\ x.body = r.body /\ x.sem = m /\ x.twice = r.twice
  BY <1>3 DEF RequestType
<1> HIDE DEF x
<1>5. CASE state[r.row] = "live"
  <2>1. RequestOK(x, state, refs) BY <1>3, <1>4, FoundOK
  <2>2. x.pc # "fill" /\ req' = [req EXCEPT ![q] = x] BY <1>1, <1>4, <1>5
  <2> QED BY <2>1, <2>2, <1>1 DEF Moves
<1>6. CASE state[r.row] # "live"
  <2>1. RequestOK([NoReq EXCEPT !.pc = missing, !.op = r.op, !.row = r.row], state, refs)
    BY <1>6, NotFoundOK
  <2>2. [NoReq EXCEPT !.pc = missing, !.op = r.op, !.row = r.row].pc # "fill" BY DEF NoReq
  <2> QED BY <2>1, <2>2, <1>1, <1>6 DEF Moves
<1> QED BY <1>5, <1>6

LEMMA OfIds ==
  ASSUME NEW k, NEW s \in SUBSET Ids, NEW i \in Of(k, s)
  PROVE  i \in s /\ i \in Ids /\ Kind(i) = k
BY DEF Of, Kind

LEMMA RepeatedOrNot == \A k, b : MayRepeat(k, b) \subseteq BOOLEAN
BY DEF MayRepeat

LEMMA FindsToPatchMoves ==
  ASSUME HandlerInv, NEW q \in Requests, NEW k \in Tables, NEW fields,
         fields \subseteq Fields(k) \cup {"count"},
         NEW next \in {"check", "write", "writeCount"}, next = "write" => k # "Offering",
         FindsToPatch(q, k, fields, next)
  PROVE  Moves(q)
<1> DEFINE R(i, f, b, w) == [NoReq EXCEPT !.pc = next, !.op = "patch", !.row = i, !.field = f, !.body = b, !.twice = w]
<1>1. PICK i \in Of(k, Issued), f \in fields : \E b \in Values(k, f) : \E w \in MayRepeat(k, b) :
        Finds(q, R(i, f, b, w), "404")
  BY DEF FindsToPatch
<1>14. PICK b \in Values(k, f) : \E w \in MayRepeat(k, b) : Finds(q, R(i, f, b, w), "404")
  BY <1>1
<1>2. PICK w \in MayRepeat(k, b) : Finds(q, R(i, f, b, w), "404")
  BY <1>14
<1>3. Issued \subseteq Ids BY DEF Issued
<1>4. i \in Issued /\ Kind(i) = k BY <1>3, OfIds
<1>5. NamedBy(k) \subseteq Kinds /\ k # "Schedule"
  BY NamedByIs DEF Kinds, Tables
<1>6. f \in {"plain", "count"} \/ (f \in NamedBy(k) /\ f # "Semester")
  <2>1. CASE k = "Lock" BY <2>1, NamedByIs DEF Fields
  <2>2. CASE k # "Lock" BY <2>2, <1>5 DEF Fields, NamedBy
  <2> QED BY <2>1, <2>2
<1>7. b \subseteq Issued /\ \A y \in b : Kind(y) = f /\ f \in NamedBy(k)
  <2>1. CASE f \in {"plain", "count"}
    <3>1. f \notin Kinds BY <2>1 DEF Kinds, Tables
    <3> QED BY <3>1 DEF Values
  <2>2. CASE f \in NamedBy(k) /\ f # "Semester"
    <3>1. f \in Kinds BY <2>2, <1>5
    <3>2. b \in FieldValues[k][f] /\ b \subseteq Issued BY <3>1 DEF Values
    <3>3. b \in SUBSET Rows(f) BY <3>1, <3>2 DEF FieldValues
    <3> QED BY <2>2, <3>1, <3>2, <3>3, RowsAreIds DEF Kind
  <2> QED BY <1>6, <2>1, <2>2
<1>8. f \in Kinds \cup {"none", "plain", "count"} /\ f # "Semester"
  BY <1>5, <1>6
<1>12. w \in BOOLEAN BY RepeatedOrNot
<1>13. f = "Facility" => ~w
  <2> SUFFICES ASSUME f = "Facility" PROVE MayRepeat(k, b) = {FALSE} OBVIOUS
  <2>1. \A j : j # "Facility" => Of(j, b) = {} BY <1>7 DEF Of, Kind
  <2> QED BY <2>1 DEF MayRepeat
<1> DEFINE r == R(i, f, b, w)
<1>9. r.pc = next /\ r.op = "patch" /\ r.row = i /\ r.field = f /\ r.body = b /\ r.twice = w
  BY DEF NoReq
<1>10. r \in RequestType
  BY <1>3, <1>4, <1>7, <1>8, <1>12 DEF NoReq, RequestType, Pcs
<1>11. Finds(q, r, "404") BY <1>2
<1> HIDE DEF r
<1> QED BY <1>4, <1>7, <1>8, <1>9, <1>10, <1>11, <1>13, FindsMoves

LEMMA FindsToDeleteMoves ==
  ASSUME HandlerInv, NEW q \in Requests, NEW k \in Kinds,
         NEW next \in {"check", "write"}, NEW missing \in {"404", "write"},
         FindsToDelete(q, k, next, missing)
  PROVE  Moves(q)
<1>1. PICK i \in Of(k, Issued) :
        Finds(q, [NoReq EXCEPT !.pc = next, !.op = "delete", !.row = i], missing)
  BY DEF FindsToDelete
<1>2. Issued \subseteq Ids BY DEF Issued
<1>3. i \in Issued BY <1>2, OfIds
<1> DEFINE r == [NoReq EXCEPT !.pc = next, !.op = "delete", !.row = i]
<1>4. r.pc = next /\ r.op = "delete" /\ r.row = i /\ r.field = "none" /\ r.body = {}
  BY DEF NoReq
<1>5. r \in RequestType
  BY <1>2, <1>3 DEF NoReq, RequestType, Pcs
<1>6. Finds(q, r, missing) BY <1>1
<1> HIDE DEF r
<1> QED BY <1>3, <1>4, <1>5, <1>6, FindsMoves

\* A create whose errors are all told to the client.
LEMMA CreateCommand ==
  ASSUME HandlerInv, NEW q \in Requests, NEW k \in Tables, NEW out, NEW table,
         req[q].pc = "write", req[q].op = "create", KindOf(req[q]) = k,
         \E o \in out :
           \/ o \in {"200", "201", "204"} /\ Insert(q) /\ Answer(q, o) /\ Touches
           \/ o \notin {"200", "201", "204"} /\ Throws(q, o, table),
         \A o \in out :
           IF o = "201" THEN ~Gone(req[q])
           ELSE /\ o \notin {"200", "204"}
                /\ IF o \in DOMAIN table
                   THEN table[o] \in {"409", "422"} /\ (table[o] = "422" => Gone(req[q]))
                   ELSE req[q].twice
  PROVE  Moves(q) \/ Writes(q)
<1> DEFINE r == req[q]
<1>1. r.pc = "write" /\ r.op = "create" /\ r.field = k
  BY DEF KindOf
<1>2. PICK o \in out :
        \/ o \in {"200", "201", "204"} /\ Insert(q) /\ Answer(q, o) /\ Touches
        \/ o \notin {"200", "201", "204"} /\ Throws(q, o, table)
  OBVIOUS
<1>3. CASE o = "201" /\ Insert(q) /\ Answer(q, o) /\ Touches
  <2>1. PICK i \in Of(k, Ids) :
          /\ state[i] = "unissued"
          /\ state' = [state EXCEPT ![i] = "live"]
          /\ refs' = [refs EXCEPT ![i] = r.body]
    BY <1>1, <1>3 DEF Insert
  <2>2. i \in Ids /\ Kind(i) = k BY OfIds
  <2>3. r.body \subseteq Live BY <1>3 DEF Gone
  <2>4. /\ \A y \in r.body : Kind(y) \in NamedBy(k)
        /\ \A s, t \in Of("Semester", r.body) : s = t
    BY <1>1, RequestIs DEF RequestFits
  <2>5. k = "Offering" => \A y \in r.body : Kind(y) # "Semester" => SemesterOf(refs[y]) = SemesterOf(r.body)
    BY <1>1, <2>3, RequestIs DEF RequestOK, Live
  <2> HIDE DEF r
  <2>6. SchemaInv' /\ Evolves /\ SchedulesStay /\ ListsShrink
    BY <2>1, <2>2, <2>3, <2>4, <2>5, InsertKeeps DEF HandlerInv
  <2>7. req' = [req EXCEPT ![q] = [NoReq EXCEPT !.pc = "201"]] BY <1>3, AnswerSplits
  <2> QED BY <1>3, <2>6, <2>7 DEF Writes
<1>4. CASE o # "201" /\ o \in DOMAIN table
  <2>1. Refuse(q, table[o]) BY <1>2, <1>4 DEF Throws
  <2> QED BY <2>1, <1>1, <1>4, RefuseMoves
<1>5. CASE o # "201" /\ o \notin DOMAIN table
  <2>1. Refuse(q, "500") BY <1>2, <1>5 DEF Throws
  <2>2. req[q].twice BY <1>5
  <2> QED BY <2>1, <2>2, RefuseMoves
<1> QED BY <1>2, <1>3, <1>4, <1>5

\* A patch of a column, whose errors are all told to the client.
LEMMA PatchCommand ==
  ASSUME HandlerInv, NEW q \in Requests, NEW k \in Tables, NEW out, NEW table,
         req[q].pc = "write", req[q].op = "patch", KindOf(req[q]) = k, ~OfList(req[q]),
         \E o \in out :
           \/ o \in {"200", "201", "204"} /\ Update(q) /\ Answer(q, o) /\ Touches
           \/ o \notin {"200", "201", "204"} /\ Throws(q, o, table),
         out \subseteq {"200", "P2002", "P2003", "P2025"},
         "200" \in out => ~Gone(req[q]),
         \A o \in out : o # "200" =>
           o \in DOMAIN table /\ table[o] \in {"404", "409", "422"} /\ (table[o] # "409" => Gone(req[q]))
  PROVE  Moves(q) \/ Writes(q)
<1> DEFINE r == req[q]
<1>1. r.pc = "write" /\ r.op = "patch" /\ Kind(r.row) = k
  BY DEF KindOf
<1>2. PICK o \in out :
        \/ o \in {"200", "201", "204"} /\ Update(q) /\ Answer(q, o) /\ Touches
        \/ o \notin {"200", "201", "204"} /\ Throws(q, o, table)
  OBVIOUS
<1>0. r.row \in Ids /\ r.row # None BY <1>1, RequestIs, NoRowAssumption DEF RequestFits
<1>3. CASE o = "200" /\ Update(q) /\ Answer(q, o) /\ Touches
  <2>1. /\ refs' = [refs EXCEPT ![r.row] = (@ \ Of(r.field, Ids)) \cup r.body]
        /\ state' = state
    BY <1>3 DEF Update
  <2>2. r.body \subseteq Live /\ r.row \in Live BY <1>0, <1>3 DEF Gone
  <2>3. r.field # "Semester" /\ \A y \in r.body : Kind(y) = r.field /\ r.field \in NamedBy(Kind(r.row))
    BY <1>1, RequestIs DEF RequestFits
  <2>4. Kind(r.row) = "Offering" => \A y \in r.body : SemesterOf(refs[y]) = SemesterOf(refs[r.row])
    BY <1>1, <2>2, RequestIs DEF RequestOK, Live
  <2>5. Kind(r.row) # "Schedule" BY <1>1 DEF Tables
  <2> HIDE DEF r
  <2>8. Of("Semester", Of(r.field, Ids)) = {} BY <2>3 DEF Of
  <2>6. /\ SchemaInv' /\ Evolves /\ SchedulesStay
        /\ \A y \in Ids : \A j : y # r.row \/ j # r.field => Of(j, refs'[y]) \subseteq refs[y]
    <3>1. Replaced(r.row, r.field, Of(r.field, Ids), r.body)
      BY <2>1, <2>2, <2>3, <2>4, <2>5, <2>8 DEF Replaced
    <3> QED BY <3>1, UpdateKeeps DEF HandlerInv
  <2>9. ListsShrink
    <3>1. r.field \notin Body(Kind(r.row)).list BY <1>1 DEF OfList, KindOf, r
    <3> QED BY <2>6, <3>1 DEF ListsShrink
  <2>7. req' = [req EXCEPT ![q] = [NoReq EXCEPT !.pc = "200"]] BY <1>3, AnswerSplits
  <2> QED BY <1>3, <2>6, <2>7, <2>9 DEF Writes
<1>4. CASE o # "200"
  <2>2. o \in DOMAIN table /\ table[o] \in {"404", "409", "422"} /\ (table[o] # "409" => Gone(req[q])) BY <1>4
  <2>1. Refuse(q, table[o]) BY <1>2, <1>4, <2>2 DEF Throws
  <2> QED BY <2>1, <2>2, <1>1, RefuseMoves
<1> QED BY <1>2, <1>3, <1>4

\* A patch of a list: what is not told to the client is a facility that is
\* gone, an id named twice, or another patch of the list.
LEMMA ListPatched ==
  ASSUME HandlerInv, NEW q \in Requests, NEW k \in Tables, NEW table,
         req[q].op = "patch", KindOf(req[q]) = k, ReplacesList(q, table),
         "P2025" \in DOMAIN table, table["P2025"] = "404",
         "P2002" \in DOMAIN table => table["P2002"] = "409" /\ Body(k).list = {"Facility"},
         IF "P2003" \in DOMAIN table THEN table["P2003"] = "422" ELSE Body(k).list = {"Facility"}
  PROVE  Moves(q) \/ Clears(q) \/ Fills(q)
<1> DEFINE r == req[q]
<1>1. CASE r.pc = "write" /\ OfList(r) /\ Clear(q)
  BY <1>1 DEF Clears
<1>2. ASSUME r.pc = "fill", NEW o \in FillList(r),
             \/ o = "200" /\ Fill(q) /\ Touches
             \/ o # "200" /\ Throws(q, o, table)
      PROVE  Moves(q) \/ Fills(q)
  <2>1. Kind(r.row) = k BY DEF KindOf
  <2>2. r.field \in Body(k).list /\ (r.field = "Facility" => ~r.twice)
    BY <1>2, <2>1, RequestIs DEF RequestFits
  <2>3. /\ o \in {"200", "P2002", "P2003", "P2025"}
        /\ o = "200" => ~Gone(r)
        /\ o \in {"P2003", "P2025"} => Gone(r)
        /\ o = "P2002" => r.twice \/ r.body \cap (refs[r.row] \ r.old) # {}
    BY <1>2 DEF FillList, Inserts
  <2>4. r.body \cap (refs[r.row] \ r.old) # {} => r.met
    <3>1. \A y \in r.body : y \in Ids /\ Kind(y) = r.field BY <1>2, RequestIs DEF RequestFits
    <3>2. ~r.met => Of(r.field, refs[r.row]) \subseteq r.old BY <1>2 DEF HandlerInv, RequestInv, ListInv
    <3> QED BY <3>1, <3>2 DEF Of, Kind
  <2>5. o \in DOMAIN table => table[o] \in {"404", "409", "422"} \/ o = "200" BY <2>3
  <2>6. CASE o = "200"
    BY <1>2, <2>3, <2>6 DEF Fills
  <2>7. CASE o # "200" /\ o \in DOMAIN table
    <3>1. Refuse(q, table[o]) BY <1>2, <2>7 DEF Throws
    <3>2. table[o] \in {"404", "409", "422"} /\ (table[o] # "409" => Gone(r)) BY <2>3, <2>7
    <3>3. table[o] = "409" => r.met BY <2>2, <2>3, <2>4, <2>7
    <3> QED BY <3>1, <3>2, <3>3, RefuseMoves
  <2>8. CASE o # "200" /\ o \notin DOMAIN table
    <3>1. Refuse(q, "500") BY <1>2, <2>8 DEF Throws
    <3>2. o \in {"P2002", "P2003"} BY <2>3, <2>8
    <3>3. o = "P2002" => r.twice \/ r.met BY <2>3, <2>4
    <3>4. o = "P2003" => r.field = "Facility" /\ Gone(r) BY <2>2, <2>3, <2>8
    <3> QED BY <3>1, <3>2, <3>3, <3>4, RefuseMoves
  <2> QED BY <2>6, <2>7, <2>8
<1> QED BY <1>1, <1>2 DEF ReplacesList

\* A delete; the deletes of slots and of semesters throw.
LEMMA DeleteCommand ==
  ASSUME HandlerInv, NEW q \in Requests, NEW k \in Kinds, k # "Schedule", NEW table,
         req[q].pc = "write", req[q].op = "delete", KindOf(req[q]) = k,
         \E o \in DeleteOutcomes(req[q]) :
           \/ o \in {"200", "201", "204"} /\ Erase(req[q].row) /\ Answer(q, o) /\ Touches
           \/ o \notin {"200", "201", "204"} /\ Throws(q, o, table),
         "P2025" \in DOMAIN table => table["P2025"] = "404",
         "P2003" \in DOMAIN table => table["P2003"] = "409",
         "P2025" \notin DOMAIN table => k \in {"Slot", "Semester"},
         "P2003" \notin DOMAIN table /\ "P2003" \in DeleteOutcomes(req[q]) => k \in {"Slot", "Semester"}
  PROVE  Moves(q) \/ Writes(q)
<1> DEFINE r == req[q]
<1>1. r.pc = "write" /\ r.op = "delete" /\ Kind(r.row) = k /\ KindOf(r) = k
  BY DEF KindOf
<1>2. PICK o \in DeleteOutcomes(r) :
        \/ o \in {"200", "201", "204"} /\ Erase(r.row) /\ Answer(q, o) /\ Touches
        \/ o \notin {"200", "201", "204"} /\ Throws(q, o, table)
  OBVIOUS
<1>0. r.row \in Ids /\ r.row # None BY <1>1, RequestIs, NoRowAssumption DEF RequestFits
<1>6. /\ o \in {"P2025", "P2003", "204"}
      /\ o = "P2025" => Gone(r)
      /\ o = "204" => ~Gone(r) /\ ~Restricted(r.row)
  BY DEF DeleteOutcomes, MaySucceed
<1>3. CASE o = "204"
  <2>1. Erase(r.row) /\ Answer(q, o) /\ Touches BY <1>2, <1>3
  <2>2. r.row \in Live BY <1>0, <1>3, <1>6 DEF Gone
  <2>3. SchemaInv' /\ Evolves /\ SchedulesStay /\ ListsShrink
    BY <1>1, <1>3, <1>6, <2>1, <2>2, EraseKeeps DEF HandlerInv
  <2>4. req' = [req EXCEPT ![q] = [NoReq EXCEPT !.pc = "204"]] BY <1>3, <2>1, AnswerSplits
  <2> QED BY <2>1, <2>3, <2>4 DEF Writes
<1>4. CASE o # "204" /\ o \in DOMAIN table
  <2>1. Refuse(q, table[o]) BY <1>2, <1>4, <1>6 DEF Throws
  <2>2. table[o] \in {"404", "409"} /\ (table[o] # "409" => Gone(req[q])) BY <1>4, <1>6
  <2> QED BY <2>1, <2>2, <1>1, RefuseMoves
<1>5. CASE o # "204" /\ o \notin DOMAIN table
  <2>1. Refuse(q, "500") BY <1>2, <1>5, <1>6 DEF Throws
  <2>2. k \in {"Slot", "Semester"} BY <1>5, <1>6
  <2> QED BY <2>1, <2>2, <1>1, RefuseMoves
<1> QED BY <1>3, <1>4, <1>5

\* A check, one more await after the find.
LEMMA ChecksMoves ==
  ASSUME HandlerInv, NEW q \in Requests, req[q].pc = "check",
         NEW v \in {"write", "400", "409", "422"}, v = "422" => Gone(req[q]),
         v = "write" /\ req[q].op = "patch" /\ Kind(req[q].row) = "Offering" =>
           \A y \in req[q].body : state[y] = "live" => SemesterOf(refs[y]) = req[q].sem,
         req' = [req EXCEPT ![q] = [(IF v = "409" \/ v = "400" THEN NoReq ELSE req[q]) EXCEPT !.pc = v, !.sem = None]],
         UNCHANGED <<state, refs, run>>
  PROVE  Moves(q)
<1>1. /\ RequestOK(req[q], state, refs)
      /\ Gone(req[q]) <=> Lost(req[q], state)
  BY RequestIs
<1>2. CASE v \in {"400", "409"}
  <2>1. req' = [req EXCEPT ![q] = [NoReq EXCEPT !.pc = v, !.sem = None]] BY <1>2
  <2>2. [NoReq EXCEPT !.pc = v, !.sem = None].pc # "fill" BY <1>2 DEF NoReq
  <2> QED BY <2>1, <2>2, <1>2, AnsweredOK DEF Moves
<1> DEFINE x == [req[q] EXCEPT !.pc = v, !.sem = None]
<1>5. req[q] \in RequestType BY <1>1 DEF RequestOK, RequestFits
<1>6. x.pc # "fill" BY <1>5 DEF RequestType
<1>3. CASE v = "422"
  <2>1. req' = [req EXCEPT ![q] = x] BY <1>3
  <2>2. RequestOK([req[q] EXCEPT !.pc = "422", !.sem = None, !.old = req[q].old], state, refs)
    BY <1>1, <1>3, RefusedOK
  <2>3. [req[q] EXCEPT !.pc = "422", !.sem = None, !.old = req[q].old] = x BY <1>3, <1>5 DEF RequestType
  <2> HIDE DEF x
  <2> QED BY <2>1, <2>2, <2>3, <1>6 DEF Moves
<1>4. CASE v = "write"
  <2>1. req' = [req EXCEPT ![q] = x] BY <1>4
  <2>2. RequestOK(x, state, refs) BY <1>1, <1>4, CheckedOK
  <2> HIDE DEF x
  <2> QED BY <2>1, <2>2, <1>6 DEF Moves
<1> QED BY <1>2, <1>3, <1>4

\* A create that was received.
LEMMA ReceivesMoves ==
  ASSUME HandlerInv, NEW q \in Requests, NEW k \in Tables, NEW b \in Bodies(k), NEW w \in BOOLEAN,
         NEW v \in {"write", "400", "409", "422"},
         v = "422" => \E y \in b : state[y] # "live",
         v = "write" /\ k = "Offering" =>
           \A y \in b : Kind(y) # "Semester" /\ state[y] = "live" => SemesterOf(refs[y]) = SemesterOf(b),
         req' = [req EXCEPT ![q] = Checked(Creation(k, b, w), v)],
         UNCHANGED <<state, refs, run>>
  PROVE  Moves(q)
<1>1. RequestOK(Checked(Creation(k, b, w), v), state, refs)
  BY ReceivedOK DEF HandlerInv, SchemaInv
<1>2. Checked(Creation(k, b, w), v).pc # "fill" BY DEF Checked, Creation, NoReq
<1> QED BY <1>1, <1>2 DEF Moves

-----------------------------------------------------------------------------
(***************************************************************************)
(* The handlers of each router                                             *)
(***************************************************************************)
LEMMA TablesAreKinds == Tables \subseteq Kinds /\ "Schedule" \notin Tables /\ "Semester" \in Kinds
BY DEF Tables, Kinds

LEMMA FacilityPosted ==
  ASSUME HandlerInv, NEW q \in Requests, PostFacility(q)
  PROVE  Moves(q) \/ Writes(q)
<1>1. "Facility" \in Tables BY DEF Tables
<1>2. CASE Receives(q, "Facility", Always)
  <2> DEFINE V(b, w) == Always(Creation("Facility", b, w))
  <2>8. PICK b \in Bodies("Facility") : \E w \in MayRepeat("Facility", b) :
          req' = [req EXCEPT ![q] = Checked(Creation("Facility", b, w), V(b, w))]
    BY <1>2 DEF Receives, Creation, Checked
  <2>1. PICK w \in MayRepeat("Facility", b) : req' = [req EXCEPT ![q] = Checked(Creation("Facility", b, w), V(b, w))]
    BY <2>8
  <2>9. w \in BOOLEAN BY RepeatedOrNot
  <2> DEFINE r == Creation("Facility", b, w)
             v == V(b, w)
  <2>2. req' = [req EXCEPT ![q] = Checked(Creation("Facility", b, w), v)] BY <2>1
  <2>3. r.body = b /\ r.sem = SemesterOf(b) BY DEF Creation, NoReq
  <2>4. v = "write" BY DEF Always
  <2>6. UNCHANGED <<state, refs, run>> BY <1>2 DEF Receives
  <2>7. v \in {"write", "400", "409", "422"} BY <2>4
  <2> HIDE DEF v
  <2> QED BY <1>1, <2>2, <2>4, <2>6, <2>7, <2>9, ReceivesMoves
<1>3. CASE Commands(q, "create", "Facility", CreateFacility(req[q]), Insert(q), Taken)
  <2>0. ~Gone(req[q])
    <3>1. /\ req[q].row = None /\ req[q].body \subseteq Ids
          /\ \A y \in req[q].body : Kind(y) \in NamedBy("Facility")
      BY <1>3, RequestIs DEF Commands, RequestFits, KindOf
    <3> QED BY <3>1, NamedByIs DEF Gone
  <2>1. \A o \in CreateFacility(req[q]) :
          IF o = "201" THEN ~Gone(req[q])
          ELSE /\ o \notin {"200", "204"}
               /\ IF o \in DOMAIN Taken
                  THEN Taken[o] \in {"409", "422"} /\ (Taken[o] = "422" => Gone(req[q]))
                  ELSE req[q].twice
    BY TablesOfErrors, <2>0 DEF CreateFacility, Duplicate
  <2> QED BY <1>1, <1>3, <2>1, CreateCommand DEF Commands, Throws
<1> QED BY <1>2, <1>3 DEF PostFacility

LEMMA FacilityPatched ==
  ASSUME HandlerInv, NEW q \in Requests, PatchFacility(q)
  PROVE  Moves(q) \/ Writes(q)
<1>1. "Facility" \in Tables BY DEF Tables
<1>2. CASE FindsToPatch(q, "Facility", Fields("Facility"), "write")
  BY <1>1, <1>2, FindsToPatchMoves
<1>4. CASE Commands(q, "patch", "Facility", UpdateFacility(req[q]), Update(q), TakenOrMissing)
  <2>1. /\ UpdateFacility(req[q]) \subseteq {"200", "P2002", "P2003", "P2025"}
        /\ "200" \in UpdateFacility(req[q]) => ~Gone(req[q])
        /\ \A o \in UpdateFacility(req[q]) : o # "200" =>
             o \in DOMAIN TakenOrMissing /\ TakenOrMissing[o] \in {"404", "409", "422"} /\ (TakenOrMissing[o] # "409" => Gone(req[q]))
    BY TablesOfErrors DEF UpdateFacility, Duplicate
  <2> QED BY <1>1, <1>4, <2>1, PatchCommand DEF Commands, Throws
<1> QED BY <1>2, <1>4 DEF PatchFacility

LEMMA FacilityDeleted ==
  ASSUME HandlerInv, NEW q \in Requests, DeleteFacility(q)
  PROVE  Moves(q) \/ Writes(q)
<1>1. "Facility" \in Kinds /\ "Facility" # "Schedule" BY DEF Kinds, Tables
<1>2. CASE FindsToDelete(q, "Facility", "write", "write")
  BY <1>1, <1>2, FindsToDeleteMoves
<1>4. CASE Commands(q, "delete", "Facility", DeleteOutcomes(req[q]), Erase(req[q].row), ReferencedOrMissing)
  BY <1>1, <1>4, TablesOfErrors, DeleteCommand DEF Commands, Throws
<1> QED BY <1>2, <1>4 DEF DeleteFacility

LEMMA RoomPosted ==
  ASSUME HandlerInv, NEW q \in Requests, PostRoom(q)
  PROVE  Moves(q) \/ Writes(q)
<1>1. "Room" \in Tables BY DEF Tables
<1>2. CASE Receives(q, "Room", KnownFacilities)
  <2> DEFINE V(b, w) == KnownFacilities(Creation("Room", b, w))
  <2>8. PICK b \in Bodies("Room") : \E w \in MayRepeat("Room", b) :
          req' = [req EXCEPT ![q] = Checked(Creation("Room", b, w), V(b, w))]
    BY <1>2 DEF Receives, Creation, Checked
  <2>1. PICK w \in MayRepeat("Room", b) : req' = [req EXCEPT ![q] = Checked(Creation("Room", b, w), V(b, w))]
    BY <2>8
  <2>9. w \in BOOLEAN BY RepeatedOrNot
  <2> DEFINE r == Creation("Room", b, w)
             v == V(b, w)
  <2>2. req' = [req EXCEPT ![q] = Checked(Creation("Room", b, w), v)] BY <2>1
  <2>3. r.body = b /\ r.sem = SemesterOf(b) BY DEF Creation, NoReq
  <2>4. v \in {"write", "422"} BY DEF KnownFacilities
  <2>5. v = "422" => \E y \in b : state[y] # "live"
    <3>1. b \subseteq Ids BY <1>1, BodiesFit DEF Issued
    <3>2. v = "422" => ~(Of("Facility", b) \subseteq Live) BY <2>3 DEF KnownFacilities
    <3> QED BY <3>1, <3>2 DEF Of, Live
  <2>6. UNCHANGED <<state, refs, run>> BY <1>2 DEF Receives
  <2>7. v \in {"write", "400", "409", "422"} BY <2>4
  <2> HIDE DEF v
  <2> QED BY <1>1, <2>2, <2>4, <2>5, <2>6, <2>7, <2>9, ReceivesMoves
<1>3. CASE Commands(q, "create", "Room", CreateRoom(req[q]), Insert(q), TakenOrReference)
  <2>1. \A o \in CreateRoom(req[q]) :
          IF o = "201" THEN ~Gone(req[q])
          ELSE /\ o \notin {"200", "204"}
               /\ IF o \in DOMAIN TakenOrReference
                  THEN TakenOrReference[o] \in {"409", "422"} /\ (TakenOrReference[o] = "422" => Gone(req[q]))
                  ELSE req[q].twice
    BY TablesOfErrors DEF CreateRoom, Duplicate
  <2> QED BY <1>1, <1>3, <2>1, CreateCommand DEF Commands, Throws
<1> QED BY <1>2, <1>3 DEF PostRoom

LEMMA RoomPatched ==
  ASSUME HandlerInv, NEW q \in Requests, PatchRoom(q)
  PROVE  Moves(q) \/ Writes(q) \/ Clears(q) \/ Fills(q)
<1>1. "Room" \in Tables BY DEF Tables
<1>2. CASE FindsToPatch(q, "Room", Fields("Room"), "check")
  BY <1>1, <1>2, FindsToPatchMoves
<1>3. CASE Checks(q, "patch", "Room", KnownFacilities)
  <2> DEFINE v == KnownFacilities(req[q])
  <2>1. /\ req[q].pc = "check" /\ UNCHANGED <<state, refs, run>>
        /\ req[q].op = "patch" /\ KindOf(req[q]) = "Room"
        /\ req' = [req EXCEPT ![q] = [(IF v = "409" \/ v = "400" THEN NoReq ELSE req[q]) EXCEPT !.pc = v, !.sem = None]]
    BY <1>3 DEF Checks
  <2>2. v \in {"write", "422"} /\ (v = "422" => Gone(req[q]))
    BY DEF KnownFacilities, Gone, Of
  <2>3. Kind(req[q].row) # "Offering" BY <2>1 DEF KindOf
  <2> HIDE DEF v
  <2> QED BY <2>1, <2>2, <2>3, ChecksMoves
<1>4. CASE Commands(q, "patch", "Room", UpdateRoom(req[q]), Update(q), TakenOrMissing)
  <2>1. KindOf(req[q]) = "Room" BY <1>4 DEF Commands, Throws
  <2>2. /\ UpdateRoom(req[q]) \subseteq {"200", "P2002", "P2003", "P2025"}
        /\ "200" \in UpdateRoom(req[q]) => ~Gone(req[q])
        /\ \A o \in UpdateRoom(req[q]) : o # "200" =>
             o \in DOMAIN TakenOrMissing /\ TakenOrMissing[o] \in {"404", "409", "422"} /\ (TakenOrMissing[o] # "409" => Gone(req[q]))
    BY <2>1, TablesOfErrors, ListsAre DEF UpdateRoom, Renamed, Duplicate
  <2> QED BY <1>1, <1>4, <2>2, PatchCommand DEF Commands, Throws
<1>5. CASE req[q].op = "patch" /\ KindOf(req[q]) = "Room" /\ ReplacesList(q, TakenOrMissing)
  BY <1>1, <1>5, TablesOfErrors, ListsAre, ListPatched
<1> QED BY <1>2, <1>3, <1>4, <1>5 DEF PatchRoom, Patches

LEMMA RoomDeleted ==
  ASSUME HandlerInv, NEW q \in Requests, DeleteRoom(q)
  PROVE  Moves(q) \/ Writes(q)
<1>1. "Room" \in Kinds /\ "Room" # "Schedule" BY DEF Kinds, Tables
<1>2. CASE FindsToDelete(q, "Room", "write", "write")
  BY <1>1, <1>2, FindsToDeleteMoves
<1>4. CASE Commands(q, "delete", "Room", DeleteOutcomes(req[q]), Erase(req[q].row), ReferencedOrMissing)
  BY <1>1, <1>4, TablesOfErrors, DeleteCommand DEF Commands, Throws
<1> QED BY <1>2, <1>4 DEF DeleteRoom

LEMMA SlotPosted ==
  ASSUME HandlerInv, NEW q \in Requests, PostSlot(q)
  PROVE  Moves(q) \/ Writes(q)
<1>1. "Slot" \in Tables BY DEF Tables
<1>2. CASE Receives(q, "Slot", Always)
  <2> DEFINE V(b, w) == Always(Creation("Slot", b, w))
  <2>8. PICK b \in Bodies("Slot") : \E w \in MayRepeat("Slot", b) :
          req' = [req EXCEPT ![q] = Checked(Creation("Slot", b, w), V(b, w))]
    BY <1>2 DEF Receives, Creation, Checked
  <2>1. PICK w \in MayRepeat("Slot", b) : req' = [req EXCEPT ![q] = Checked(Creation("Slot", b, w), V(b, w))]
    BY <2>8
  <2>9. w \in BOOLEAN BY RepeatedOrNot
  <2> DEFINE r == Creation("Slot", b, w)
             v == V(b, w)
  <2>2. req' = [req EXCEPT ![q] = Checked(Creation("Slot", b, w), v)] BY <2>1
  <2>3. r.body = b /\ r.sem = SemesterOf(b) BY DEF Creation, NoReq
  <2>4. v = "write" BY DEF Always
  <2>6. UNCHANGED <<state, refs, run>> BY <1>2 DEF Receives
  <2>7. v \in {"write", "400", "409", "422"} BY <2>4
  <2> HIDE DEF v
  <2> QED BY <1>1, <2>2, <2>4, <2>6, <2>7, <2>9, ReceivesMoves
<1>3. CASE Commands(q, "create", "Slot", CreateSlot(req[q]), Insert(q), TakenOrReference)
  <2>1. \A o \in CreateSlot(req[q]) :
          IF o = "201" THEN ~Gone(req[q])
          ELSE /\ o \notin {"200", "204"}
               /\ IF o \in DOMAIN TakenOrReference
                  THEN TakenOrReference[o] \in {"409", "422"} /\ (TakenOrReference[o] = "422" => Gone(req[q]))
                  ELSE req[q].twice
    BY TablesOfErrors DEF CreateSlot, Duplicate
  <2> QED BY <1>1, <1>3, <2>1, CreateCommand DEF Commands, Throws
<1> QED BY <1>2, <1>3 DEF PostSlot

LEMMA SlotPatched ==
  ASSUME HandlerInv, NEW q \in Requests, PatchSlot(q)
  PROVE  Moves(q) \/ Writes(q)
<1>1. "Slot" \in Tables BY DEF Tables
<1>2. CASE FindsToPatch(q, "Slot", Fields("Slot"), "write")
  BY <1>1, <1>2, FindsToPatchMoves
<1>4. CASE Commands(q, "patch", "Slot", UpdateSlot(req[q]), Update(q), TakenOrMissing)
  <2>1. /\ UpdateSlot(req[q]) \subseteq {"200", "P2002", "P2003", "P2025"}
        /\ "200" \in UpdateSlot(req[q]) => ~Gone(req[q])
        /\ \A o \in UpdateSlot(req[q]) : o # "200" =>
             o \in DOMAIN TakenOrMissing /\ TakenOrMissing[o] \in {"404", "409", "422"} /\ (TakenOrMissing[o] # "409" => Gone(req[q]))
    BY TablesOfErrors DEF UpdateSlot, Duplicate
  <2> QED BY <1>1, <1>4, <2>1, PatchCommand DEF Commands, Throws
<1> QED BY <1>2, <1>4 DEF PatchSlot

LEMMA SlotDeleted ==
  ASSUME HandlerInv, NEW q \in Requests, DeleteSlot(q)
  PROVE  Moves(q) \/ Writes(q)
<1>1. "Slot" \in Kinds /\ "Slot" # "Schedule" BY DEF Kinds, Tables
<1>2. CASE FindsToDelete(q, "Slot", "write", "write")
  BY <1>1, <1>2, FindsToDeleteMoves
<1>4. CASE Commands(q, "delete", "Slot", DeleteOutcomes(req[q]), Erase(req[q].row), Missing)
  BY <1>1, <1>4, TablesOfErrors, DeleteCommand DEF Commands, Throws
<1> QED BY <1>2, <1>4 DEF DeleteSlot

LEMMA LecturerPosted ==
  ASSUME HandlerInv, NEW q \in Requests, PostLecturer(q)
  PROVE  Moves(q) \/ Writes(q)
<1>1. "Lecturer" \in Tables BY DEF Tables
<1>2. CASE Receives(q, "Lecturer", Always)
  <2> DEFINE V(b, w) == Always(Creation("Lecturer", b, w))
  <2>8. PICK b \in Bodies("Lecturer") : \E w \in MayRepeat("Lecturer", b) :
          req' = [req EXCEPT ![q] = Checked(Creation("Lecturer", b, w), V(b, w))]
    BY <1>2 DEF Receives, Creation, Checked
  <2>1. PICK w \in MayRepeat("Lecturer", b) : req' = [req EXCEPT ![q] = Checked(Creation("Lecturer", b, w), V(b, w))]
    BY <2>8
  <2>9. w \in BOOLEAN BY RepeatedOrNot
  <2> DEFINE r == Creation("Lecturer", b, w)
             v == V(b, w)
  <2>2. req' = [req EXCEPT ![q] = Checked(Creation("Lecturer", b, w), v)] BY <2>1
  <2>3. r.body = b /\ r.sem = SemesterOf(b) BY DEF Creation, NoReq
  <2>4. v = "write" BY DEF Always
  <2>6. UNCHANGED <<state, refs, run>> BY <1>2 DEF Receives
  <2>7. v \in {"write", "400", "409", "422"} BY <2>4
  <2> HIDE DEF v
  <2> QED BY <1>1, <2>2, <2>4, <2>6, <2>7, <2>9, ReceivesMoves
<1>3. CASE Commands(q, "create", "Lecturer", CreateLecturer(req[q]), Insert(q), Reference)
  <2>1. \A o \in CreateLecturer(req[q]) :
          IF o = "201" THEN ~Gone(req[q])
          ELSE /\ o \notin {"200", "204"}
               /\ IF o \in DOMAIN Reference
                  THEN Reference[o] \in {"409", "422"} /\ (Reference[o] = "422" => Gone(req[q]))
                  ELSE req[q].twice
    BY TablesOfErrors DEF CreateLecturer, Inserts
  <2> QED BY <1>1, <1>3, <2>1, CreateCommand DEF Commands, Throws
<1> QED BY <1>2, <1>3 DEF PostLecturer

LEMMA LecturerPatched ==
  ASSUME HandlerInv, NEW q \in Requests, PatchLecturer(q)
  PROVE  Moves(q) \/ Writes(q) \/ Clears(q) \/ Fills(q)
<1>1. "Lecturer" \in Tables BY DEF Tables
<1>2. CASE FindsToPatch(q, "Lecturer", Fields("Lecturer"), "write")
  BY <1>1, <1>2, FindsToPatchMoves
<1>4. CASE Commands(q, "patch", "Lecturer", UpdateLecturer(req[q]), Update(q), MissingOrReference)
  <2>1. /\ UpdateLecturer(req[q]) \subseteq {"200", "P2002", "P2003", "P2025"}
        /\ "200" \in UpdateLecturer(req[q]) => ~Gone(req[q])
        /\ \A o \in UpdateLecturer(req[q]) : o # "200" =>
             o \in DOMAIN MissingOrReference /\ MissingOrReference[o] \in {"404", "409", "422"} /\ (MissingOrReference[o] # "409" => Gone(req[q]))
    BY TablesOfErrors DEF UpdateLecturer
  <2> QED BY <1>1, <1>4, <2>1, PatchCommand DEF Commands, Throws
<1>5. CASE req[q].op = "patch" /\ KindOf(req[q]) = "Lecturer" /\ ReplacesList(q, MissingOrReference)
  BY <1>1, <1>5, TablesOfErrors, ListsAre, ListPatched
<1> QED BY <1>2, <1>4, <1>5 DEF PatchLecturer, Patches

LEMMA LecturerDeleted ==
  ASSUME HandlerInv, NEW q \in Requests, DeleteLecturer(q)
  PROVE  Moves(q) \/ Writes(q)
<1>1. "Lecturer" \in Kinds /\ "Lecturer" # "Schedule" BY DEF Kinds, Tables
<1>2. CASE FindsToDelete(q, "Lecturer", "check", "404")
  BY <1>1, <1>2, FindsToDeleteMoves
<1>3. CASE Checks(q, "delete", "Lecturer", LecturerUnused)
  <2> DEFINE v == LecturerUnused(req[q])
  <2>1. /\ req[q].pc = "check" /\ UNCHANGED <<state, refs, run>> /\ req[q].op = "delete"
        /\ req' = [req EXCEPT ![q] = [(IF v = "409" \/ v = "400" THEN NoReq ELSE req[q]) EXCEPT !.pc = v, !.sem = None]]
    BY <1>3 DEF Checks
  <2>2. v \in {"write", "409"} BY DEF LecturerUnused
  <2> HIDE DEF v
  <2> QED BY <2>1, <2>2, ChecksMoves
<1>4. CASE Commands(q, "delete", "Lecturer", DeleteOutcomes(req[q]), Erase(req[q].row), ReferencedOrMissing)
  BY <1>1, <1>4, TablesOfErrors, DeleteCommand DEF Commands, Throws
<1> QED BY <1>2, <1>3, <1>4 DEF DeleteLecturer

LEMMA CoursePosted ==
  ASSUME HandlerInv, NEW q \in Requests, PostCourse(q)
  PROVE  Moves(q) \/ Writes(q)
<1>1. "Course" \in Tables BY DEF Tables
<1>2. CASE Receives(q, "Course", KnownFacilities)
  <2> DEFINE V(b, w) == KnownFacilities(Creation("Course", b, w))
  <2>8. PICK b \in Bodies("Course") : \E w \in MayRepeat("Course", b) :
          req' = [req EXCEPT ![q] = Checked(Creation("Course", b, w), V(b, w))]
    BY <1>2 DEF Receives, Creation, Checked
  <2>1. PICK w \in MayRepeat("Course", b) : req' = [req EXCEPT ![q] = Checked(Creation("Course", b, w), V(b, w))]
    BY <2>8
  <2>9. w \in BOOLEAN BY RepeatedOrNot
  <2> DEFINE r == Creation("Course", b, w)
             v == V(b, w)
  <2>2. req' = [req EXCEPT ![q] = Checked(Creation("Course", b, w), v)] BY <2>1
  <2>3. r.body = b /\ r.sem = SemesterOf(b) BY DEF Creation, NoReq
  <2>4. v \in {"write", "422"} BY DEF KnownFacilities
  <2>5. v = "422" => \E y \in b : state[y] # "live"
    <3>1. b \subseteq Ids BY <1>1, BodiesFit DEF Issued
    <3>2. v = "422" => ~(Of("Facility", b) \subseteq Live) BY <2>3 DEF KnownFacilities
    <3> QED BY <3>1, <3>2 DEF Of, Live
  <2>6. UNCHANGED <<state, refs, run>> BY <1>2 DEF Receives
  <2>7. v \in {"write", "400", "409", "422"} BY <2>4
  <2> HIDE DEF v
  <2> QED BY <1>1, <2>2, <2>4, <2>5, <2>6, <2>7, <2>9, ReceivesMoves
<1>3. CASE Commands(q, "create", "Course", CreateCourse(req[q]), Insert(q), TakenOrReference)
  <2>1. \A o \in CreateCourse(req[q]) :
          IF o = "201" THEN ~Gone(req[q])
          ELSE /\ o \notin {"200", "204"}
               /\ IF o \in DOMAIN TakenOrReference
                  THEN TakenOrReference[o] \in {"409", "422"} /\ (TakenOrReference[o] = "422" => Gone(req[q]))
                  ELSE req[q].twice
    BY TablesOfErrors DEF CreateCourse, Duplicate
  <2> QED BY <1>1, <1>3, <2>1, CreateCommand DEF Commands, Throws
<1> QED BY <1>2, <1>3 DEF PostCourse

LEMMA CoursePatched ==
  ASSUME HandlerInv, NEW q \in Requests, PatchCourse(q)
  PROVE  Moves(q) \/ Writes(q) \/ Clears(q) \/ Fills(q)
<1>1. "Course" \in Tables BY DEF Tables
<1>2. CASE FindsToPatch(q, "Course", Fields("Course"), "check")
  BY <1>1, <1>2, FindsToPatchMoves
<1>3. CASE Checks(q, "patch", "Course", KnownFacilities)
  <2> DEFINE v == KnownFacilities(req[q])
  <2>1. /\ req[q].pc = "check" /\ UNCHANGED <<state, refs, run>>
        /\ req[q].op = "patch" /\ KindOf(req[q]) = "Course"
        /\ req' = [req EXCEPT ![q] = [(IF v = "409" \/ v = "400" THEN NoReq ELSE req[q]) EXCEPT !.pc = v, !.sem = None]]
    BY <1>3 DEF Checks
  <2>2. v \in {"write", "422"} /\ (v = "422" => Gone(req[q]))
    BY DEF KnownFacilities, Gone, Of
  <2>3. Kind(req[q].row) # "Offering" BY <2>1 DEF KindOf
  <2> HIDE DEF v
  <2> QED BY <2>1, <2>2, <2>3, ChecksMoves
<1>4. CASE Commands(q, "patch", "Course", UpdateCourse(req[q]), Update(q), TakenOrMissing)
  <2>1. KindOf(req[q]) = "Course" BY <1>4 DEF Commands, Throws
  <2>2. /\ UpdateCourse(req[q]) \subseteq {"200", "P2002", "P2003", "P2025"}
        /\ "200" \in UpdateCourse(req[q]) => ~Gone(req[q])
        /\ \A o \in UpdateCourse(req[q]) : o # "200" =>
             o \in DOMAIN TakenOrMissing /\ TakenOrMissing[o] \in {"404", "409", "422"} /\ (TakenOrMissing[o] # "409" => Gone(req[q]))
    BY <2>1, TablesOfErrors, ListsAre DEF UpdateCourse, Renamed, Duplicate
  <2> QED BY <1>1, <1>4, <2>2, PatchCommand DEF Commands, Throws
<1>5. CASE req[q].op = "patch" /\ KindOf(req[q]) = "Course" /\ ReplacesList(q, TakenOrMissing)
  BY <1>1, <1>5, TablesOfErrors, ListsAre, ListPatched
<1> QED BY <1>2, <1>3, <1>4, <1>5 DEF PatchCourse, Patches

LEMMA CourseDeleted ==
  ASSUME HandlerInv, NEW q \in Requests, DeleteCourse(q)
  PROVE  Moves(q) \/ Writes(q)
<1>1. "Course" \in Kinds /\ "Course" # "Schedule" BY DEF Kinds, Tables
<1>2. CASE FindsToDelete(q, "Course", "check", "404")
  BY <1>1, <1>2, FindsToDeleteMoves
<1>3. CASE Checks(q, "delete", "Course", CourseUnused)
  <2> DEFINE v == CourseUnused(req[q])
  <2>1. /\ req[q].pc = "check" /\ UNCHANGED <<state, refs, run>> /\ req[q].op = "delete"
        /\ req' = [req EXCEPT ![q] = [(IF v = "409" \/ v = "400" THEN NoReq ELSE req[q]) EXCEPT !.pc = v, !.sem = None]]
    BY <1>3 DEF Checks
  <2>2. v \in {"write", "409"} BY DEF CourseUnused
  <2> HIDE DEF v
  <2> QED BY <2>1, <2>2, ChecksMoves
<1>4. CASE Commands(q, "delete", "Course", DeleteOutcomes(req[q]), Erase(req[q].row), ReferencedOrMissing)
  BY <1>1, <1>4, TablesOfErrors, DeleteCommand DEF Commands, Throws
<1> QED BY <1>2, <1>3, <1>4 DEF DeleteCourse

LEMMA OfferingPosted ==
  ASSUME HandlerInv, NEW q \in Requests, PostOffering(q)
  PROVE  Moves(q) \/ Writes(q)
<1>1. "Offering" \in Tables BY DEF Tables
<1>2. CASE Receives(q, "Offering", OneSemester)
  <2> DEFINE V(b, w) == OneSemester(Creation("Offering", b, w))
  <2>8. PICK b \in Bodies("Offering") : \E w \in MayRepeat("Offering", b) :
          req' = [req EXCEPT ![q] = Checked(Creation("Offering", b, w), V(b, w))]
    BY <1>2 DEF Receives, Creation, Checked
  <2>1. PICK w \in MayRepeat("Offering", b) : req' = [req EXCEPT ![q] = Checked(Creation("Offering", b, w), V(b, w))]
    BY <2>8
  <2>9. w \in BOOLEAN BY RepeatedOrNot
  <2> DEFINE r == Creation("Offering", b, w)
             v == V(b, w)
  <2>2. req' = [req EXCEPT ![q] = Checked(Creation("Offering", b, w), v)] BY <2>1
  <2>3. r.body = b /\ r.sem = SemesterOf(b) BY DEF Creation, NoReq
  <2>4. v \in {"write", "400"} BY DEF OneSemester
  <2>5. v = "write" =>
          \A y \in b : Kind(y) # "Semester" /\ state[y] = "live" => SemesterOf(refs[y]) = SemesterOf(b)
    BY <2>3 DEF OneSemester, CrossSemester
  <2>6. UNCHANGED <<state, refs, run>> BY <1>2 DEF Receives
  <2>7. v \in {"write", "400", "409", "422"} BY <2>4
  <2> HIDE DEF v
  <2> QED BY <1>1, <2>2, <2>4, <2>5, <2>6, <2>7, <2>9, ReceivesMoves
<1>3. CASE Commands(q, "create", "Offering", CreateOffering(req[q]), Insert(q), Reference)
  <2>1. \A o \in CreateOffering(req[q]) :
          IF o = "201" THEN ~Gone(req[q])
          ELSE /\ o \notin {"200", "204"}
               /\ IF o \in DOMAIN Reference
                  THEN Reference[o] \in {"409", "422"} /\ (Reference[o] = "422" => Gone(req[q]))
                  ELSE req[q].twice
    BY TablesOfErrors DEF CreateOffering, Inserts
  <2> QED BY <1>1, <1>3, <2>1, CreateCommand DEF Commands, Throws
<1> QED BY <1>2, <1>3 DEF PostOffering

LEMMA OfferingPatched ==
  ASSUME HandlerInv, NEW q \in Requests, PatchOffering(q)
  PROVE  Moves(q) \/ Writes(q) \/ Clears(q) \/ Fills(q)
<1>1. "Offering" \in Tables BY DEF Tables
<1>2. CASE FindsToPatch(q, "Offering", Fields("Offering"), "check")
  BY <1>1, <1>2, FindsToPatchMoves
<1>3. CASE Checks(q, "patch", "Offering", OneSemester)
  <2> DEFINE v == OneSemester(req[q])
  <2>1. /\ req[q].pc = "check" /\ UNCHANGED <<state, refs, run>>
        /\ req[q].op = "patch" /\ KindOf(req[q]) = "Offering"
        /\ req' = [req EXCEPT ![q] = [(IF v = "409" \/ v = "400" THEN NoReq ELSE req[q]) EXCEPT !.pc = v, !.sem = None]]
    BY <1>3 DEF Checks
  <2>2. v \in {"write", "400"} BY DEF OneSemester
  <2>3. v = "write" => \A y \in req[q].body : state[y] = "live" => SemesterOf(refs[y]) = req[q].sem
    <3>1. \A y \in req[q].body : Kind(y) # "Semester"
      BY <2>1, RequestIs DEF RequestFits
    <3> QED BY <3>1 DEF OneSemester, CrossSemester
  <2> HIDE DEF v
  <2> QED BY <2>1, <2>2, <2>3, ChecksMoves
<1>4. CASE Commands(q, "patch", "Offering", UpdateOffering(req[q]), Update(q), MissingOrReference)
  <2>1. /\ UpdateOffering(req[q]) \subseteq {"200", "P2002", "P2003", "P2025"}
        /\ "200" \in UpdateOffering(req[q]) => ~Gone(req[q])
        /\ \A o \in UpdateOffering(req[q]) : o # "200" =>
             o \in DOMAIN MissingOrReference /\ MissingOrReference[o] \in {"404", "409", "422"} /\ (MissingOrReference[o] # "409" => Gone(req[q]))
    BY TablesOfErrors DEF UpdateOffering
  <2> QED BY <1>1, <1>4, <2>1, PatchCommand DEF Commands, Throws
<1>5. CASE req[q].op = "patch" /\ KindOf(req[q]) = "Offering" /\ ReplacesList(q, MissingOrReference)
  BY <1>1, <1>5, TablesOfErrors, ListsAre, ListPatched
<1> QED BY <1>2, <1>3, <1>4, <1>5 DEF PatchOffering, Patches

LEMMA OfferingDeleted ==
  ASSUME HandlerInv, NEW q \in Requests, DeleteOffering(q)
  PROVE  Moves(q) \/ Writes(q)
<1>1. "Offering" \in Kinds /\ "Offering" # "Schedule" BY DEF Kinds, Tables
<1>2. CASE FindsToDelete(q, "Offering", "check", "404")
  BY <1>1, <1>2, FindsToDeleteMoves
<1>3. CASE Checks(q, "delete", "Offering", OfferingUnscheduled)
  <2> DEFINE v == OfferingUnscheduled(req[q])
  <2>1. /\ req[q].pc = "check" /\ UNCHANGED <<state, refs, run>> /\ req[q].op = "delete"
        /\ req' = [req EXCEPT ![q] = [(IF v = "409" \/ v = "400" THEN NoReq ELSE req[q]) EXCEPT !.pc = v, !.sem = None]]
    BY <1>3 DEF Checks
  <2>2. v \in {"write", "409"} BY DEF OfferingUnscheduled
  <2> HIDE DEF v
  <2> QED BY <2>1, <2>2, ChecksMoves
<1>4. CASE Commands(q, "delete", "Offering", DeleteOutcomes(req[q]), Erase(req[q].row), ReferencedOrMissing)
  BY <1>1, <1>4, TablesOfErrors, DeleteCommand DEF Commands, Throws
<1> QED BY <1>2, <1>3, <1>4 DEF DeleteOffering

\* No row names a lock, so nothing refuses its delete.
LEMMA LocksGoAlone ==
  ASSUME HandlerInv, NEW i \in Ids, Kind(i) = "Lock"
  PROVE  ~MayFail(i)
<1>1. \A k \in Kinds : "Lock" \notin NamedBy(k)
  BY NamedByIs DEF Kinds, Tables
<1>2. \A y \in Ids : i \notin refs[y]
  BY <1>1, IdsHaveKind DEF HandlerInv, SchemaInv, TablesOK, Kind
<1>3. \A rule : By(i, rule) = {} BY <1>2 DEF By, Naming, Live
<1>4. Doomed(i) = {i} BY <1>3 DEF Doomed
<1>5. run.sem # i
  <2>1. i \notin Semesters BY SemestersAre DEF Of, Kind
  <2> QED BY <2>1, NoRowAssumption DEF HandlerInv, RunSemesterOK
<1> QED BY <1>3, <1>4, <1>5 DEF MayFail, Restricted

LEMMA LockPosted ==
  ASSUME HandlerInv, NEW q \in Requests, PostLock(q)
  PROVE  Moves(q) \/ Writes(q)
<1>1. "Lock" \in Tables BY DEF Tables
<1>2. CASE Receives(q, "Lock", NotRunning)
  <2> DEFINE V(b, w) == NotRunning(Creation("Lock", b, w))
  <2>8. PICK b \in Bodies("Lock") : \E w \in MayRepeat("Lock", b) :
          req' = [req EXCEPT ![q] = Checked(Creation("Lock", b, w), V(b, w))]
    BY <1>2 DEF Receives, Creation, Checked
  <2>1. PICK w \in MayRepeat("Lock", b) : req' = [req EXCEPT ![q] = Checked(Creation("Lock", b, w), V(b, w))]
    BY <2>8
  <2>9. w \in BOOLEAN BY RepeatedOrNot
  <2> DEFINE r == Creation("Lock", b, w)
             v == V(b, w)
  <2>2. req' = [req EXCEPT ![q] = Checked(Creation("Lock", b, w), v)] BY <2>1
  <2>3. r.body = b /\ r.sem = SemesterOf(b) BY DEF Creation, NoReq
  <2>4. v \in {"write", "409"} BY DEF NotRunning
  <2>6. UNCHANGED <<state, refs, run>> BY <1>2 DEF Receives
  <2>7. v \in {"write", "400", "409", "422"} BY <2>4
  <2> HIDE DEF v
  <2> QED BY <1>1, <2>2, <2>4, <2>6, <2>7, <2>9, ReceivesMoves
<1>3. CASE Commands(q, "create", "Lock", CreateLock(req[q]), Insert(q), TakenOrReference)
  <2>1. \A o \in CreateLock(req[q]) :
          IF o = "201" THEN ~Gone(req[q])
          ELSE /\ o \notin {"200", "204"}
               /\ IF o \in DOMAIN TakenOrReference
                  THEN TakenOrReference[o] \in {"409", "422"} /\ (TakenOrReference[o] = "422" => Gone(req[q]))
                  ELSE req[q].twice
    BY TablesOfErrors DEF CreateLock, Inserts
  <2> QED BY <1>1, <1>3, <2>1, CreateCommand DEF Commands, Throws
<1> QED BY <1>2, <1>3 DEF PostLock

LEMMA LockPatched ==
  ASSUME HandlerInv, NEW q \in Requests, PatchLock(q)
  PROVE  Moves(q) \/ Writes(q)
<1>1. "Lock" \in Tables BY DEF Tables
<1>2. CASE FindsToPatch(q, "Lock", Fields("Lock"), "check")
  BY <1>1, <1>2, FindsToPatchMoves
<1>3. CASE Checks(q, "patch", "Lock", NotRunning)
  <2> DEFINE v == NotRunning(req[q])
  <2>1. /\ req[q].pc = "check" /\ UNCHANGED <<state, refs, run>>
        /\ req[q].op = "patch" /\ KindOf(req[q]) = "Lock"
        /\ req' = [req EXCEPT ![q] = [(IF v = "409" \/ v = "400" THEN NoReq ELSE req[q]) EXCEPT !.pc = v, !.sem = None]]
    BY <1>3 DEF Checks
  <2>2. v \in {"write", "409"} BY DEF NotRunning
  <2>3. Kind(req[q].row) # "Offering" BY <2>1 DEF KindOf
  <2> HIDE DEF v
  <2> QED BY <2>1, <2>2, <2>3, ChecksMoves
<1>4. CASE Commands(q, "patch", "Lock", UpdateLock(req[q]), Update(q), MissingOrReference)
  <2>1. /\ UpdateLock(req[q]) \subseteq {"200", "P2002", "P2003", "P2025"}
        /\ "200" \in UpdateLock(req[q]) => ~Gone(req[q])
        /\ \A o \in UpdateLock(req[q]) : o # "200" =>
             o \in DOMAIN MissingOrReference /\ MissingOrReference[o] \in {"404", "409", "422"} /\ (MissingOrReference[o] # "409" => Gone(req[q]))
    BY TablesOfErrors DEF UpdateLock
  <2> QED BY <1>1, <1>4, <2>1, PatchCommand DEF Commands, Throws
<1> QED BY <1>2, <1>3, <1>4 DEF PatchLock

LEMMA LockDeleted ==
  ASSUME HandlerInv, NEW q \in Requests, DeleteLock(q)
  PROVE  Moves(q) \/ Writes(q)
<1>1. "Lock" \in Kinds /\ "Lock" # "Schedule" BY DEF Kinds, Tables
<1>2. CASE FindsToDelete(q, "Lock", "check", "404")
  BY <1>1, <1>2, FindsToDeleteMoves
<1>3. CASE Checks(q, "delete", "Lock", NotRunning)
  <2> DEFINE v == NotRunning(req[q])
  <2>1. /\ req[q].pc = "check" /\ UNCHANGED <<state, refs, run>> /\ req[q].op = "delete"
        /\ req' = [req EXCEPT ![q] = [(IF v = "409" \/ v = "400" THEN NoReq ELSE req[q]) EXCEPT !.pc = v, !.sem = None]]
    BY <1>3 DEF Checks
  <2>2. v \in {"write", "409"} BY DEF NotRunning
  <2> HIDE DEF v
  <2> QED BY <2>1, <2>2, ChecksMoves
<1>4. CASE Commands(q, "delete", "Lock", DeleteOutcomes(req[q]), Erase(req[q].row), Missing)
  <2>1. KindOf(req[q]) = "Lock" /\ req[q].op = "delete" BY <1>4 DEF Commands, Throws
  <2>2. req[q].row \in Ids /\ Kind(req[q].row) = "Lock"
    BY <2>1, RequestIs DEF RequestFits, KindOf
  <2>3. "P2003" \notin DeleteOutcomes(req[q]) BY <2>2, LocksGoAlone DEF DeleteOutcomes
  <2> QED BY <1>1, <1>4, <2>3, TablesOfErrors, DeleteCommand DEF Commands, Throws
<1> QED BY <1>2, <1>3, <1>4 DEF DeleteLock

\* patchStudentCount touches no reference.
LEMMA StudentCountPatched ==
  ASSUME HandlerInv, NEW q \in Requests, PatchStudentCount(q)
  PROVE  Moves(q) \/ Writes(q)
<1>1. "Offering" \in Tables BY DEF Tables
<1>2. CASE FindsToPatch(q, "Offering", {"count"}, "writeCount")
  BY <1>1, <1>2, FindsToPatchMoves
<1>3. CASE Answer(q, "200") /\ Touches /\ UNCHANGED <<state, refs>>
  <2>1. SchemaInv' BY <1>3 DEF HandlerInv, SchemaInv, TablesOK, SameSemester, Live
  <2>2. Evolves /\ SchedulesStay /\ ListsShrink BY <1>3 DEF Evolves, SchedulesStay, ListsShrink, Of, Live
  <2>3. req' = [req EXCEPT ![q] = [NoReq EXCEPT !.pc = "200"]] BY <1>3, AnswerSplits
  <2> QED BY <1>3, <2>1, <2>2, <2>3 DEF Writes
<1>4. CASE "P2025" \in UpdateStudentCount(req[q]) /\ Refuse(q, "404")
  <2>1. Gone(req[q]) BY <1>4 DEF UpdateStudentCount
  <2> QED BY <1>4, <2>1, RefuseMoves
<1> QED BY <1>2, <1>3, <1>4 DEF PatchStudentCount

LEMMA SemesterDeleted ==
  ASSUME HandlerInv, NEW q \in Requests, DeleteSemester(q)
  PROVE  Moves(q) \/ Writes(q)
<1>1. "Semester" \in Kinds /\ "Semester" # "Schedule" BY DEF Kinds
<1>2. CASE FindsToDelete(q, "Semester", "check", "404")
  BY <1>1, <1>2, FindsToDeleteMoves
<1>3. ASSUME NEW v \in {SemesterUnrelated(req[q]), SemesterActive(req[q])},
             req[q].pc = "check", req[q].op = "delete", UNCHANGED <<state, refs, run>>,
             req' = [req EXCEPT ![q] = [(IF v = "409" \/ v = "400" THEN NoReq ELSE req[q]) EXCEPT !.pc = v, !.sem = None]]
      PROVE  Moves(q)
  <2>1. v \in {"write", "409"} BY DEF SemesterUnrelated, SemesterActive
  <2> QED BY <1>3, <2>1, ChecksMoves
<1>4. CASE Checks(q, "delete", "Semester", SemesterUnrelated)
  BY <1>3, <1>4 DEF Checks
<1>5. CASE Checks(q, "delete", "Semester", SemesterActive)
  BY <1>3, <1>5 DEF Checks
<1>6. CASE Commands(q, "delete", "Semester", DeleteOutcomes(req[q]), Erase(req[q].row), Unhandled)
  BY <1>1, <1>6, TablesOfErrors, DeleteCommand DEF Commands, Throws
<1> QED BY <1>2, <1>4, <1>5, <1>6 DEF DeleteSemester

\* Every step of every handler moves its request or writes.
LEMMA HandlersMoveOrWrite ==
  ASSUME HandlerInv, NEW q \in Requests, Handle(q)
  PROVE  Moves(q) \/ Writes(q) \/ Clears(q) \/ Fills(q)
BY FacilityPosted, FacilityPatched, FacilityDeleted, RoomPosted, RoomPatched, RoomDeleted,
   SlotPosted, SlotPatched, SlotDeleted, LecturerPosted, LecturerPatched, LecturerDeleted,
   CoursePosted, CoursePatched, CourseDeleted, OfferingPosted, OfferingPatched, OfferingDeleted,
   StudentCountPatched, LockPosted, LockPatched, LockDeleted, SemesterDeleted
   DEF Handle

-----------------------------------------------------------------------------
(***************************************************************************)
(* The run                                                                 *)
(***************************************************************************)
RunType ==
  [pc : {"none", "QUEUED", "load", "persist", "COMPLETED", "PRE_GA_EMPTY", "FAILED", "deleted"},
   sem : Ids \cup {None}, unread : SUBSET Loads, seen : SUBSET Ids,
   offers : SUBSET [id : Ids, refs : SUBSET Ids], torn : BOOLEAN, stale : BOOLEAN]

\* What a run has read: nothing before it loads; all of each table it read, and
\* each offering as it is, unless an edit fell between its reads; and rows that
\* are there, unless one fell since.
RunInv ==
  /\ run \in RunType /\ RunSemesterOK
  /\ run.pc \in {"none", "QUEUED"} => run.seen = {} /\ run.offers = {} /\ ~run.torn /\ ~run.stale
  /\ \A o \in run.offers : Kind(o.id) = "Offering"
  /\ Running /\ ~run.stale => run.seen \subseteq Live /\ \A o \in run.offers : o.id \in Live /\ o.refs \subseteq Live
  /\ run.pc = "load" /\ ~run.torn =>
       /\ \A k \in Loads \ run.unread : \A i \in Of(k, Live) : run.sem \in refs[i] => i \in run.seen
       /\ \A o \in run.offers : o.id \in Live /\ run.sem \in refs[o.id] /\ o.refs = refs[o.id]
  /\ run.pc \in {"QUEUED", "load"} => run.sem \in Semesters
  /\ run.torn => run.stale
  /\ run.pc = "FAILED" => run.stale

CatalogueInv == SchemaInv /\ RequestInv /\ RunInv

\* An edit under a run that loads or stores is one it is excused by.
LEMMA TouchedRun ==
  ASSUME RunInv, Touches
  PROVE  RunInv'
<1>1. /\ run' = [run EXCEPT !.torn = run.torn \/ run.pc = "load", !.stale = run.stale \/ Running]
      /\ run \in RunType
  BY DEF Touches, RunInv
<1> DEFINE t == run.torn \/ run.pc = "load"
           s == run.stale \/ Running
<1>2. t \in BOOLEAN /\ s \in BOOLEAN BY <1>1 DEF RunType, Running
<1> HIDE DEF t, s
<1>3. run' = [run EXCEPT !.torn = t, !.stale = s] BY <1>1 DEF t, s
<1>4. /\ run' \in RunType /\ run'.pc = run.pc /\ run'.sem = run.sem /\ run'.unread = run.unread
      /\ run'.seen = run.seen /\ run'.offers = run.offers /\ run'.torn = t /\ run'.stale = s
  BY <1>1, <1>2, <1>3 DEF RunType
<1>5. /\ Running' <=> Running
      /\ Running => s
      /\ run.pc = "load" => t /\ s
      /\ t => s
      /\ run.pc \in {"none", "QUEUED"} => (t <=> run.torn) /\ (s <=> run.stale)
      /\ run.pc = "FAILED" => s
  BY <1>4 DEF t, s, Running, RunInv
<1> QED BY <1>4, <1>5 DEF RunInv, RunSemesterOK

\* A list that does not grow stays cleared, and no rival comes by itself.
LEMMA ListsLast ==
  ASSUME RequestInv, ListsShrink, \A p \in Requests : req'[p] = req[p] \/ req'[p].pc # "fill"
  PROVE  ListInv'
<1> SUFFICES ASSUME NEW p \in Requests, req'[p].pc = "fill", ~req'[p].met
             PROVE  /\ Rivals(p)' = {}
                    /\ Of(req'[p].field, refs'[req'[p].row]) \subseteq req'[p].old
  BY DEF ListInv
<1> DEFINE r == req[p]
<1>1. req'[p] = r OBVIOUS
<1>2. Rivals(p) = {} /\ Of(r.field, refs[r.row]) \subseteq r.old BY <1>1 DEF RequestInv, ListInv
<1>3. Rivals(p)' = {} BY <1>1, <1>2 DEF Rivals
<1>4. /\ r.row \in Ids /\ state[r.row] # "unissued"
      /\ r.field \in Body(Kind(r.row)).list
  BY <1>1, NoRowAssumption DEF RequestInv, RequestOK, RequestFits
<1> HIDE DEF r
<1>5. Of(r.field, refs'[r.row]) \subseteq Of(r.field, refs[r.row]) BY <1>4 DEF ListsShrink, Of
<1> QED BY <1>1, <1>2, <1>3, <1>5

LEMMA MoveKeeps ==
  ASSUME CatalogueInv, NEW q \in Requests, Moves(q)
  PROVE  CatalogueInv'
<1>1. PICK x : RequestOK(x, state, refs) /\ x.pc # "fill" /\ req' = [req EXCEPT ![q] = x] BY DEF Moves
<1>2. state' = state /\ refs' = refs /\ run' = run BY DEF Moves
<1>3. SchemaInv' BY <1>2 DEF CatalogueInv, SchemaInv, TablesOK, SameSemester, Live
<1>4. RunInv' BY <1>2 DEF CatalogueInv, RunInv, RunSemesterOK, Running, Live
<1>5. x \in RequestType BY <1>1 DEF RequestOK, RequestFits
<1>6. /\ req \in [Requests -> RequestType]
      /\ \A p \in Requests : RequestOK(req[p], state, refs)
  BY DEF CatalogueInv, RequestInv
<1>7. req' \in [Requests -> RequestType] BY <1>1, <1>5, <1>6
<1>8. \A p \in Requests : req'[p] = IF p = q THEN x ELSE req[p] BY <1>1, <1>6
<1>9. \A p \in Requests : RequestOK(req'[p], state', refs')
  <2> TAKE p \in Requests
  <2>1. CASE p = q BY <2>1, <1>1, <1>2, <1>8
  <2>2. CASE p # q BY <2>2, <1>2, <1>6, <1>8
  <2> QED BY <2>1, <2>2
<1>10. ListInv'
  <2>1. ListsShrink BY <1>2 DEF ListsShrink, Of
  <2> QED BY <2>1, <1>1, <1>8, ListsLast DEF CatalogueInv
<1> QED BY <1>3, <1>4, <1>7, <1>9, <1>10 DEF CatalogueInv, RequestInv

LEMMA WriteKeeps ==
  ASSUME CatalogueInv, NEW q \in Requests, Writes(q)
  PROVE  CatalogueInv'
<1>1. PICK a \in {"200", "201", "204"} : req' = [req EXCEPT ![q] = [NoReq EXCEPT !.pc = a]] BY DEF Writes
<1>2. SchemaInv' /\ Evolves /\ Touches /\ ListsShrink BY DEF Writes
<1>3. RunInv' BY <1>2, TouchedRun DEF CatalogueInv
<1> DEFINE x == [NoReq EXCEPT !.pc = a]
<1>4. RequestOK(x, state', refs') BY AnsweredOK
<1>5. x \in RequestType BY <1>4 DEF RequestOK, RequestFits
<1>6. /\ req \in [Requests -> RequestType]
      /\ \A p \in Requests : RequestOK(req[p], state, refs)
  BY DEF CatalogueInv, RequestInv
<1>7. req' = [req EXCEPT ![q] = x] BY <1>1
<1>11. x.pc # "fill" BY DEF NoReq
<1> HIDE DEF x
<1>8. req' \in [Requests -> RequestType] BY <1>5, <1>6, <1>7
<1>9. \A p \in Requests : req'[p] = IF p = q THEN x ELSE req[p] BY <1>6, <1>7
<1>10. \A p \in Requests : RequestOK(req'[p], state', refs')
  <2> TAKE p \in Requests
  <2>1. CASE p = q BY <2>1, <1>4, <1>9
  <2>2. CASE p # q BY <2>2, <1>2, <1>6, <1>9, RequestsLast
  <2> QED BY <2>1, <2>2
<1>12. ListInv' BY <1>2, <1>9, <1>11, ListsLast DEF CatalogueInv
<1> QED BY <1>2, <1>3, <1>8, <1>10, <1>12 DEF CatalogueInv, RequestInv

\* The first half of a patch of a list: it knows what it has cleared, and every
\* other that is at the same list is met.
LEMMA ClearKeeps ==
  ASSUME CatalogueInv, NEW q \in Requests, Clears(q)
  PROVE  CatalogueInv' /\ SchedulesStay
<1> DEFINE r == req[q]
           m == Rivals(q) # {}
           x == [r EXCEPT !.pc = "fill", !.old = Of(r.field, refs[r.row]), !.met = m]
           Met(p) == req[p].met \/ p \in Rivals(q)
<1>1. /\ UNCHANGED <<state, refs, run>>
      /\ r.pc = "write" /\ r.op = "patch" /\ r.field \in Body(Kind(r.row)).list
      /\ req' = [p \in Requests |-> IF p = q THEN x ELSE [req[p] EXCEPT !.met = Met(p)]]
  BY DEF Clears, Clear, OfList, KindOf
<1>2. /\ TablesOK /\ \A p \in Requests : RequestOK(req[p], state, refs)
      /\ \A p \in Requests : RequestFits(req[p]) /\ req[p] \in RequestType
  BY DEF CatalogueInv, SchemaInv, RequestInv, RequestOK, RequestFits
<1>3. r.row \in Ids /\ Of(r.field, refs[r.row]) \in SUBSET Ids
  BY <1>1, <1>2 DEF RequestFits, TablesOK, Of
<1>4. m \in BOOLEAN /\ \A p \in Requests : Met(p) \in BOOLEAN BY <1>2 DEF RequestType
<1> HIDE DEF m, Met
<1>5. /\ x.pc = "fill" /\ x.op = "patch" /\ x.row = r.row /\ x.field = r.field /\ x.body = r.body
      /\ x.twice = r.twice /\ x.old = Of(r.field, refs[r.row]) /\ x.met = m
      /\ x \in RequestType
  BY <1>1, <1>2, <1>3, <1>4 DEF RequestType, Pcs
<1> HIDE DEF x
<1>6. RequestOK(x, state, refs)
  <2>1. RequestFits(r) /\ RequestOK(r, state, refs) BY <1>2
  <2>2. RequestFits(x) BY <1>1, <1>3, <1>5, <2>1 DEF RequestFits, Of, Kind
  <2>3. \A y \in x.body \cup ({x.row} \ {None}) : state[y] # "unissued" BY <1>5, <2>1 DEF RequestOK
  <2>4. Kind(x.row) = "Offering" /\ state[x.row] = "live" =>
          \A y \in x.body : state[y] = "live" => SemesterOf(refs[y]) = SemesterOf(refs[x.row])
    BY <1>1, <1>5, <2>1 DEF RequestOK
  <2> QED BY <1>5, <2>2, <2>3, <2>4 DEF RequestOK
<1>7. ASSUME NEW p \in Requests, p # q
      PROVE  /\ req'[p].pc = req[p].pc /\ req'[p].row = req[p].row /\ req'[p].field = req[p].field
             /\ req'[p].old = req[p].old /\ req'[p].met = Met(p)
             /\ req'[p] \in RequestType /\ RequestOK(req'[p], state, refs)
  <2>1. req[p] \in RequestType /\ RequestOK(req[p], state, refs) BY <1>2
  <2>2. req'[p] = [req[p] EXCEPT !.met = Met(p)] BY <1>1, <1>7
  <2>3. req[p].met => Met(p) BY DEF Met
  <2>4. RequestOK([req[p] EXCEPT !.old = req[p].old, !.met = Met(p)], state, refs)
    BY <2>1, <2>3, <1>4, MeetingLasts
  <2>5. [req[p] EXCEPT !.old = req[p].old, !.met = Met(p)] = req'[p] BY <2>1, <2>2 DEF RequestType
  <2> QED BY <2>1, <2>2, <2>4, <2>5, <1>4 DEF RequestType
<1>8. req'[q] = x BY <1>1
<1>9. req' \in [Requests -> RequestType] /\ \A p \in Requests : RequestOK(req'[p], state', refs')
  <2>1. \A p \in Requests : req'[p] \in RequestType /\ RequestOK(req'[p], state', refs')
    BY <1>1, <1>5, <1>6, <1>7, <1>8
  <2> QED BY <2>1, <1>1
<1>10. ListInv'
  <2> SUFFICES ASSUME NEW p \in Requests, req'[p].pc = "fill", ~req'[p].met
               PROVE  /\ Rivals(p)' = {}
                      /\ Of(req'[p].field, refs'[req'[p].row]) \subseteq req'[p].old
    BY DEF ListInv
  <2>1. CASE p = q
    <3>1. Rivals(q) = {} BY <2>1, <1>5, <1>8 DEF m
    <3>2. Rivals(q)' = {} BY <3>1, <1>5, <1>7, <1>8 DEF Rivals
    <3> QED BY <2>1, <3>2, <1>1, <1>5, <1>8
  <2>2. CASE p # q
    <3>1. ~req[p].met /\ p \notin Rivals(q) /\ req[p].pc = "fill" BY <2>2, <1>7 DEF Met
    <3>2. Rivals(p) = {} /\ Of(req[p].field, refs[req[p].row]) \subseteq req[p].old
      BY <3>1 DEF CatalogueInv, RequestInv, ListInv
    <3>3. ~(req[p].row = r.row /\ req[p].field = r.field) BY <2>2, <3>1 DEF Rivals
    <3>4. Rivals(p)' = {} BY <2>2, <3>2, <3>3, <1>5, <1>7, <1>8 DEF Rivals
    <3> QED BY <2>2, <3>2, <3>4, <1>1, <1>7
  <2> QED BY <2>1, <2>2
<1>11. SchemaInv' BY <1>1 DEF CatalogueInv, SchemaInv, TablesOK, SameSemester, Live
<1>12. RunInv' BY <1>1 DEF CatalogueInv, RunInv, RunSemesterOK, Running, Live
<1>13. SchedulesStay BY <1>1 DEF SchedulesStay, Of, Live
<1> QED BY <1>9, <1>10, <1>11, <1>12, <1>13 DEF CatalogueInv, RequestInv

\* The second: another patch of the same list has met this one, and to any other
\* its list is as it was.
LEMMA FillKeeps ==
  ASSUME CatalogueInv, NEW q \in Requests, Fills(q)
  PROVE  CatalogueInv' /\ SchedulesStay
<1> DEFINE r == req[q]
           x == [NoReq EXCEPT !.pc = "200"]
           Left(p) == IF p \in Rivals(q) THEN req[p].old \ r.old ELSE req[p].old
<1>1. /\ r.pc = "fill" /\ ~Gone(r) /\ Touches
      /\ state' = state
      /\ refs' = [refs EXCEPT ![r.row] = (@ \ r.old) \cup r.body]
      /\ req' = [p \in Requests |-> IF p = q THEN x ELSE [req[p] EXCEPT !.old = Left(p)]]
  BY DEF Fills, Fill
<1>2. /\ \A p \in Requests : RequestOK(req[p], state, refs)
      /\ \A p \in Requests : RequestFits(req[p]) /\ req[p] \in RequestType
  BY DEF CatalogueInv, RequestInv, RequestOK, RequestFits
<1>3. /\ r.op = "patch" /\ r.row \in Ids /\ r.row # None /\ r.field \in Body(Kind(r.row)).list
      /\ r.field # "Semester"
      /\ \A y \in r.body : Kind(y) = r.field /\ r.field \in NamedBy(Kind(r.row))
      /\ \A y \in r.old : Kind(y) = r.field
  BY <1>1, <1>2, NoRowAssumption DEF RequestFits
<1>4. r.body \in SUBSET Live /\ r.row \in Live BY <1>1, <1>3 DEF Gone
<1>5. Kind(r.row) # "Schedule" BY <1>3, ListsAre DEF Kinds
<1>6. Of("Semester", r.old) = {} BY <1>3 DEF Of, Kind
<1>7. Kind(r.row) = "Offering" => \A y \in r.body : SemesterOf(refs[y]) = SemesterOf(refs[r.row])
  BY <1>1, <1>2, <1>3, <1>4 DEF RequestOK, Live
<1> HIDE DEF r, x
<1>8. /\ SchemaInv' /\ Evolves /\ SchedulesStay
      /\ \A y \in Ids : \A k : y # r.row \/ k # r.field => Of(k, refs'[y]) \subseteq refs[y]
  <2>1. Replaced(r.row, r.field, r.old, r.body)
    BY <1>1, <1>3, <1>4, <1>5, <1>6, <1>7 DEF Replaced
  <2> QED BY <2>1, UpdateKeeps DEF CatalogueInv
<1>9. RunInv' BY <1>1, TouchedRun DEF CatalogueInv
<1>10. req'[q] = x /\ x.pc = "200" /\ RequestOK(x, state', refs') /\ x \in RequestType
  <2>1. RequestOK(x, state', refs') BY AnsweredOK DEF x
  <2> QED BY <2>1, <1>1 DEF RequestOK, RequestFits, x, NoReq
<1>11. ASSUME NEW p \in Requests, p # q
       PROVE  /\ req'[p].pc = req[p].pc /\ req'[p].row = req[p].row /\ req'[p].field = req[p].field
              /\ req'[p].old = Left(p) /\ req'[p].met = req[p].met
              /\ req'[p] \in RequestType /\ RequestOK(req'[p], state', refs')
  <2>1. req[p] \in RequestType /\ RequestOK(req[p], state', refs') BY <1>2, <1>8, RequestsLast
  <2>2. req'[p] = [req[p] EXCEPT !.old = Left(p)] BY <1>1, <1>11
  <2>3. Left(p) \in SUBSET req[p].old OBVIOUS
  <2> HIDE DEF Left
  <2>4. RequestOK([req[p] EXCEPT !.old = Left(p), !.met = req[p].met], state', refs')
    BY <2>1, <2>3, MeetingLasts DEF RequestType
  <2>5. [req[p] EXCEPT !.old = Left(p), !.met = req[p].met] = req'[p] BY <2>1, <2>2 DEF RequestType
  <2> QED BY <2>1, <2>2, <2>3, <2>4, <2>5 DEF RequestType
<1>12. req' \in [Requests -> RequestType] /\ \A p \in Requests : RequestOK(req'[p], state', refs')
  <2>1. \A p \in Requests : req'[p] \in RequestType /\ RequestOK(req'[p], state', refs')
    BY <1>10, <1>11
  <2> QED BY <2>1, <1>1
<1>13. ListInv'
  <2> SUFFICES ASSUME NEW p \in Requests, req'[p].pc = "fill", ~req'[p].met
               PROVE  /\ Rivals(p)' = {}
                      /\ Of(req'[p].field, refs'[req'[p].row]) \subseteq req'[p].old
    BY DEF ListInv
  <2>1. p # q /\ req[p].pc = "fill" /\ ~req[p].met BY <1>10, <1>11
  <2>2. Rivals(p) = {} /\ Of(req[p].field, refs[req[p].row]) \subseteq req[p].old
    BY <2>1 DEF CatalogueInv, RequestInv, ListInv
  <2>3. req[p].row # r.row \/ req[p].field # r.field BY <2>1, <2>2, <1>1 DEF Rivals, r
  <2>4. p \notin Rivals(q) BY <2>3 DEF Rivals, r
  <2>5. Rivals(p)' = {}
    <3> SUFFICES ASSUME NEW y \in Requests \ {p}, req'[y].pc = "fill", req'[y].row = req'[p].row,
                        req'[y].field = req'[p].field
                 PROVE  FALSE
      BY DEF Rivals
    <3>1. y # q BY <1>10
    <3>2. req[y].pc = "fill" /\ req[y].row = req[p].row /\ req[y].field = req[p].field
      BY <3>1, <2>1, <1>11
    <3> QED BY <3>2, <2>2 DEF Rivals
  <2>6. req[p].row \in Ids BY <2>1, <1>2 DEF RequestFits
  <2>7. Of(req[p].field, refs'[req[p].row]) \subseteq Of(req[p].field, refs[req[p].row])
    BY <1>8, <2>3, <2>6 DEF Of
  <2> QED BY <2>1, <2>2, <2>4, <2>5, <2>7, <1>11
<1> QED BY <1>8, <1>9, <1>12, <1>13 DEF CatalogueInv, RequestInv

\* What the tables did to the requests while none of them moved.
LEMMA RequestsUnmoved ==
  ASSUME RequestInv, Evolves, ListsShrink, req' = req
  PROVE  RequestInv'
<1>1. \A p \in Requests : RequestOK(req[p], state', refs')
  BY RequestsLast DEF RequestInv
<1>2. \A p \in Requests : RequestOK(req'[p], state', refs') BY <1>1
<1> QED BY <1>2, ListsLast DEF RequestInv

LEMMA TablesUnmoved ==
  ASSUME SchemaInv, UNCHANGED <<state, refs>>
  PROVE  SchemaInv' /\ Evolves /\ ListsShrink
BY DEF SchemaInv, TablesOK, SameSemester, Live, Evolves, ListsShrink, Of

\* A run whose reads no edit tore is whole: an offering and what it names are
\* of the semester it loads.
LEMMA WholeRun ==
  ASSUME SchemaInv, RunInv, run.pc = "load", run.unread = {}, ~run.torn
  PROVE  Courseless = {} /\ Defective = {}
<1>1. ASSUME NEW o \in run.offers, NEW i \in o.refs, Kind(i) \in {"Course", "Room", "Lecturer"}
      PROVE  i \in run.seen
  <2>1. o.id \in Live /\ run.sem \in refs[o.id] /\ o.refs = refs[o.id] /\ Kind(o.id) = "Offering"
    BY DEF RunInv
  <2>2. i \in Live /\ i \in Ids /\ o.id \in Ids BY <2>1, LiveIs DEF SchemaInv, TablesOK
  <2>3. SemesterOf(refs[i]) = SemesterOf(refs[o.id])
    BY <2>1, <1>1 DEF SchemaInv, SameSemester, Of, Kind
  <2>4. run.sem \in Semesters /\ run.sem # None
    BY SemestersAre, NoRowAssumption DEF RunInv, Of
  <2>5. run.sem \in Of("Semester", refs[o.id])
    BY <2>1, <2>4, SemestersAre DEF Of
  <2>6. SemesterOf(refs[o.id]) = run.sem
    <3>1. Of("Semester", refs[o.id]) = {run.sem} BY <2>2, <2>5 DEF SchemaInv, TablesOK
    <3> QED BY <3>1 DEF SemesterOf, AnyOf
  <2>7. run.sem \in refs[i]
    BY <2>3, <2>4, <2>6 DEF SemesterOf, AnyOf, Of
  <2>8. Kind(i) \in Loads /\ i \in Of(Kind(i), Live) BY <1>1, <2>2 DEF Loads, Of, Kind
  <2> QED BY <2>7, <2>8 DEF RunInv
<1>2. Courseless = {} BY <1>1 DEF Courseless, Of, Kind
<1>3. Defective = {} BY <1>1 DEF Defective, Of, Kind
<1> QED BY <1>2, <1>3

LEMMA CreateRunKeeps ==
  ASSUME CatalogueInv, NEW s \in Semesters, CreateRun(s)
  PROVE  CatalogueInv'
<1>1. /\ run.pc = "none" /\ run' = [run EXCEPT !.pc = "QUEUED", !.sem = s]
      /\ UNCHANGED <<state, refs, req>>
  BY DEF CreateRun
<1>2. s \in Ids BY SemestersAre DEF Of
<1>3. /\ run' \in RunType /\ run'.pc = "QUEUED" /\ run'.sem = s /\ run'.seen = run.seen
      /\ run'.offers = run.offers /\ run'.torn = run.torn /\ run'.stale = run.stale
  BY <1>1, <1>2 DEF CatalogueInv, RunInv, RunType
<1>4. RunInv' BY <1>1, <1>3 DEF CatalogueInv, RunInv, RunSemesterOK, Running
<1> QED BY <1>1, <1>4, TablesUnmoved, RequestsUnmoved DEF CatalogueInv

LEMMA StartRunKeeps ==
  ASSUME CatalogueInv, StartRun
  PROVE  CatalogueInv'
<1>1. /\ run.pc = "QUEUED" /\ run' = [run EXCEPT !.pc = "load", !.unread = Loads]
      /\ UNCHANGED <<state, refs, req>>
  BY DEF StartRun
<1>3. /\ run' \in RunType /\ run'.pc = "load" /\ run'.sem = run.sem /\ run'.unread = Loads
      /\ run'.seen = {} /\ run'.offers = {} /\ ~run'.torn /\ ~run'.stale
  BY <1>1 DEF CatalogueInv, RunInv, RunType
<1>4. RunInv' BY <1>1, <1>3 DEF CatalogueInv, RunInv, RunSemesterOK, Running
<1> QED BY <1>1, <1>4, TablesUnmoved, RequestsUnmoved DEF CatalogueInv

LEMMA ReadKeeps ==
  ASSUME CatalogueInv, NEW k \in Loads, Read(k)
  PROVE  CatalogueInv'
<1> DEFINE found == {i \in Of(k, Live) : run.sem \in refs[i]}
           news == {[id |-> i, refs |-> refs[i]] : i \in found}
           offers == IF k = "Offering" THEN news ELSE run.offers
<1>1. /\ run.pc = "load" /\ k \in run.unread
      /\ run' = [run EXCEPT !.unread = run.unread \ {k}, !.seen = run.seen \cup found, !.offers = offers]
      /\ UNCHANGED <<state, refs, req>>
  BY DEF Read, CatalogueInv, RunInv, RunType
<1>2. found \subseteq Live /\ found \subseteq Ids /\ \A i \in found : Kind(i) = k /\ run.sem \in refs[i]
  BY DEF Of, Kind, Live
<1>3. \A o \in news : o.id \in found /\ o.refs = refs[o.id]
  OBVIOUS
<1>4. /\ \A i \in Live : refs[i] \subseteq Live
      /\ refs \in [Ids -> SUBSET Ids] /\ Live \subseteq Ids
  BY LiveIs DEF CatalogueInv, SchemaInv, TablesOK
<1>5. news \subseteq [id : Ids, refs : SUBSET Ids] BY <1>2, <1>4
<1>6. \A i \in Of(k, Live) : run.sem \in refs[i] => i \in found OBVIOUS
<1> HIDE DEF found, news
<1>7. offers \subseteq [id : Ids, refs : SUBSET Ids] BY <1>5 DEF CatalogueInv, RunInv, RunType
<1>8. \A o \in offers : (o \in news /\ k = "Offering") \/ o \in run.offers OBVIOUS
<1> HIDE DEF offers
<1>9. /\ run' \in RunType /\ run'.pc = "load" /\ run'.sem = run.sem /\ run'.unread = run.unread \ {k}
      /\ run'.seen = run.seen \cup found /\ run'.offers = offers
      /\ run'.torn = run.torn /\ run'.stale = run.stale
  BY <1>1, <1>2, <1>7 DEF CatalogueInv, RunInv, RunType
<1>10. Live' = Live BY <1>1 DEF Live
<1>11. ~run.stale => run.seen \cup found \subseteq Live /\ \A o \in offers : o.id \in Live /\ o.refs \subseteq Live
  BY <1>1, <1>2, <1>3, <1>4, <1>8 DEF CatalogueInv, RunInv, Running
<1>12. \A o \in offers : Kind(o.id) = "Offering"
  BY <1>2, <1>3, <1>8 DEF CatalogueInv, RunInv
<1>13. ~run.torn => \A o \in offers : o.id \in Live /\ run.sem \in refs[o.id] /\ o.refs = refs[o.id]
  BY <1>1, <1>2, <1>3, <1>8 DEF CatalogueInv, RunInv
<1>14. ~run.torn => \A j \in Loads \ (run.unread \ {k}) : \A i \in Of(j, Live) :
                      run.sem \in refs[i] => i \in run.seen \cup found
  BY <1>1, <1>6 DEF CatalogueInv, RunInv
<1>15. RunInv'
  BY <1>1, <1>9, <1>10, <1>11, <1>12, <1>13, <1>14 DEF CatalogueInv, RunInv, RunSemesterOK, Running
<1> QED BY <1>1, <1>15, TablesUnmoved, RequestsUnmoved DEF CatalogueInv

\* The run is over, or was never to start.
LEMMA DecidedRun ==
  ASSUME RunInv, NEW v \in {"COMPLETED", "PRE_GA_EMPTY", "FAILED"}, Decide(v), v = "FAILED" => run.stale
  PROVE  RunInv'
<1> DEFINE s == v = "FAILED" /\ run.stale
<1>1. s \in BOOLEAN /\ (v = "FAILED" => s) OBVIOUS
<1> HIDE DEF s
<1>2. run' = [NoRun EXCEPT !.pc = v, !.sem = run.sem, !.stale = s] BY DEF Decide, s
<1>3. /\ run' \in RunType /\ run'.pc = v /\ run'.sem = run.sem /\ run'.seen = {} /\ run'.offers = {}
      /\ run'.torn = FALSE /\ run'.stale = s
  BY <1>1, <1>2 DEF NoRun, RunInv, RunType
<1> QED BY <1>1, <1>3 DEF RunInv, RunSemesterOK, Running

LEMMA MapKeeps ==
  ASSUME CatalogueInv, Map
  PROVE  CatalogueInv'
<1>1. run.pc = "load" /\ run.unread = {} /\ UNCHANGED <<state, refs, req>> BY DEF Map
<1>2. CASE Courseless # {} /\ Decide("FAILED")
  <2>1. run.stale BY <1>1, <1>2, WholeRun DEF CatalogueInv, RunInv
  <2>2. RunInv' BY <1>2, <2>1, DecidedRun DEF CatalogueInv
  <2> QED BY <1>1, <2>2, TablesUnmoved, RequestsUnmoved DEF CatalogueInv
<1>3. CASE Decide("PRE_GA_EMPTY")
  <2>1. RunInv' BY <1>3, DecidedRun DEF CatalogueInv
  <2> QED BY <1>1, <2>1, TablesUnmoved, RequestsUnmoved DEF CatalogueInv
<1>4. CASE run' = [run EXCEPT !.pc = "persist", !.torn = FALSE]
  <2>1. /\ run' \in RunType /\ run'.pc = "persist" /\ run'.sem = run.sem /\ run'.seen = run.seen
        /\ run'.offers = run.offers /\ ~run'.torn /\ run'.stale = run.stale
    BY <1>4 DEF CatalogueInv, RunInv, RunType
  <2>2. RunInv' BY <1>1, <2>1 DEF CatalogueInv, RunInv, RunSemesterOK, Running, Live
  <2> QED BY <1>1, <2>2, TablesUnmoved, RequestsUnmoved DEF CatalogueInv
<1> QED BY <1>2, <1>3, <1>4 DEF Map

LEMMA AssignmentsAre ==
  ASSUME RunInv, NEW b \in Assignments
  PROVE  /\ \A y \in b : Kind(y) \in {"Offering", "Lecturer", "Slot"}
         /\ \A y \in b : y \in run.seen \/ \E o \in run.offers : y = o.id \/ y \in o.refs
<1>1. PICK ls \in SUBSET Pools, ts \in SUBSET Of("Slot", run.seen) : b = ls \cup ts \cup Scheduled
  BY DEF Assignments
<1>2. Schedulable \subseteq run.offers BY DEF Schedulable
<1>3. \A y \in ls : Kind(y) = "Lecturer" /\ \E o \in run.offers : y \in o.refs
  BY <1>2 DEF Pools, Of, Kind
<1>4. \A y \in ts : Kind(y) = "Slot" /\ y \in run.seen BY DEF Of, Kind
<1>5. \A o \in Schedulable : Kind(o.id) = "Offering" BY <1>2 DEF RunInv
<1> QED BY <1>1, <1>2, <1>3, <1>4, <1>5 DEF Scheduled

LEMMA PersistKeeps ==
  ASSUME CatalogueInv, Persist
  PROVE  CatalogueInv' /\ SchedulesStay
<1>1. run.pc = "persist" /\ req' = req BY DEF Persist
<1>2. ASSUME NEW b \in Assignments, b \subseteq Live, StoreSchedule(b), Decide("COMPLETED")
      PROVE  CatalogueInv' /\ SchedulesStay
  <2>1. PICK i \in Schedules :
          /\ state[i] = "unissued"
          /\ state' = [state EXCEPT ![i] = "live"]
          /\ refs' = [refs EXCEPT ![i] = b]
    BY <1>2 DEF StoreSchedule
  <2>2. i \in Ids /\ Kind(i) = "Schedule" BY SchedulesAre DEF Of, Kind
  <2>3. \A y \in b : Kind(y) \in NamedBy("Schedule") BY AssignmentsAre, NamedByIs DEF CatalogueInv
  <2>4. Of("Semester", b) = {} BY AssignmentsAre DEF CatalogueInv, Of, Kind
  <2>5. SchemaInv' /\ Evolves /\ SchedulesStay /\ ListsShrink
    BY <1>2, <2>1, <2>2, <2>3, <2>4, InsertKeeps DEF CatalogueInv
  <2>6. RunInv' BY <1>2, DecidedRun DEF CatalogueInv
  <2> QED BY <1>1, <2>5, <2>6, RequestsUnmoved DEF CatalogueInv
<1>3. ASSUME UNCHANGED <<state, refs>>,
             \/ Decide("PRE_GA_EMPTY")
             \/ Decide("FAILED") /\ \E b \in Assignments : ~(b \subseteq Live)
      PROVE  CatalogueInv' /\ SchedulesStay
  <2>1. (\E b \in Assignments : ~(b \subseteq Live)) => run.stale
    BY <1>1, AssignmentsAre DEF CatalogueInv, RunInv, Running
  <2>2. RunInv' BY <1>3, <2>1, DecidedRun DEF CatalogueInv
  <2>3. SchedulesStay BY <1>3 DEF SchedulesStay, Of, Live
  <2> QED BY <1>1, <1>3, <2>2, <2>3, TablesUnmoved, RequestsUnmoved DEF CatalogueInv
<1> QED BY <1>2, <1>3 DEF Persist

\* The delete of the run: no row but the run's own names a schedule.
LEMMA DeleteRunKeeps ==
  ASSUME CatalogueInv, DeleteRun
  PROVE  CatalogueInv'
<1> DEFINE S == Of("Schedule", Live)
<1>1. /\ \A y \in Ids : /\ state'[y] = IF y \in S THEN "deleted" ELSE state[y]
                        /\ refs'[y] = IF y \in S THEN {} ELSE refs[y]
      /\ req' = req /\ run' = [NoRun EXCEPT !.pc = "deleted"]
  BY DEF DeleteRun
<1>2. TablesOK /\ SameSemester BY DEF CatalogueInv, SchemaInv
<1>3. \A y \in Ids : y \in S => Kind(y) = "Schedule" BY DEF Of, Kind
<1>4. \A y \in Ids : refs[y] \cap S = {}
  <2>1. \A k \in Kinds : "Schedule" \notin NamedBy(k) BY NamedByIs DEF Kinds, Tables
  <2>2. \A y \in Ids : Kind(y) \in Kinds BY IdsHaveKind DEF Kind
  <2> QED BY <1>2, <1>3, <2>1, <2>2 DEF TablesOK
<1>5. state' \in [Ids -> {"unissued", "live", "deleted"}] /\ refs' \in [Ids -> SUBSET Ids]
  BY <1>2 DEF DeleteRun, TablesOK
<1> HIDE DEF S
<1>6. Live' = Live \ S BY <1>1 DEF Live
<1>7. \A y \in Ids : IF state'[y] = "live" THEN refs'[y] \subseteq Live' ELSE refs'[y] = {}
  BY <1>1, <1>2, <1>4, <1>6 DEF TablesOK
<1>8. /\ \A x \in Ids : \A y \in refs'[x] : Kind(y) \in NamedBy(Kind(x))
      /\ \A x \in Ids : \A s, t \in Of("Semester", refs'[x]) : s = t
  BY <1>1, <1>2 DEF TablesOK, Of
<1>9. SameSemester'
  <2> SUFFICES ASSUME NEW o \in Ids, Table[o] = "Offering", o \in Live', NEW y \in refs'[o], Kind(y) # "Semester"
               PROVE  SemesterOf(refs'[y]) = SemesterOf(refs'[o])
    BY DEF SameSemester, Of, Live
  <2>1. o \in Live /\ o \notin S BY <1>6
  <2>2. refs'[o] = refs[o] /\ y \in refs[o] BY <2>1, <1>1
  <2>3. y \in Ids /\ y \notin S BY <2>2, <1>2, <1>4 DEF TablesOK
  <2>4. SemesterOf(refs[y]) = SemesterOf(refs[o]) BY <2>1, <2>2, <1>2 DEF SameSemester, Of
  <2> QED BY <2>2, <2>3, <2>4, <1>1
<1>10. SchemaInv' BY <1>5, <1>7, <1>8, <1>9 DEF SchemaInv, TablesOK
<1>11. Evolves BY <1>1, <1>2 DEF Evolves, S, Of, Live, TablesOK
<1>14. ListsShrink BY <1>1 DEF ListsShrink, Of
<1>12. /\ run' \in RunType /\ run'.pc = "deleted" /\ run'.sem = None /\ run'.seen = {} /\ run'.offers = {}
       /\ run'.torn = FALSE /\ run'.stale = FALSE
  BY <1>1 DEF NoRun, RunType
<1>13. RunInv' BY <1>12 DEF RunInv, RunSemesterOK, Running
<1> QED BY <1>1, <1>10, <1>11, <1>13, <1>14, RequestsUnmoved DEF CatalogueInv

-----------------------------------------------------------------------------
(***************************************************************************)
(* The invariant, and what follows from it                                 *)
(***************************************************************************)
LEMMA CatalogueInit == Init => CatalogueInv
<1> SUFFICES ASSUME Init PROVE CatalogueInv OBVIOUS
<1>1. /\ state \in [Ids -> {"unissued", "live", "deleted"}]
      /\ \A i \in Ids : state[i] = IF i \in DOMAIN Seed THEN "live" ELSE "unissued"
      /\ \A i \in Ids : refs[i] = IF i \in DOMAIN Seed THEN Seed[i] ELSE {}
  BY DEF Init
<1>2. refs \in [Ids -> SUBSET Ids] BY SeedAssumption DEF Init
<1>3. Live = DOMAIN Seed BY <1>1, SeedAssumption DEF Live
<1>4. \A i \in Ids : IF state[i] = "live" THEN refs[i] \subseteq Live ELSE refs[i] = {}
  BY <1>1, <1>3, SeedAssumption
<1>5. ASSUME NEW i \in DOMAIN Seed
      PROVE  /\ \A y \in Seed[i] : Kind(y) \in NamedBy(Kind(i))
             /\ \A s, t \in Of("Semester", Seed[i]) : s = t
  <2>1. i \in Ids /\ Kind(i) \in Kinds /\ Kind(i) # "Schedule" /\ Seed[i] \subseteq Ids
    BY SeedAssumption, SchemaAssumption, IdsHaveKind DEF Kind
  <2>2. \A j \in Kinds : /\ Of(j, Seed[i]) # {} => j \in NamedBy(Kind(i))
                         /\ j = "Semester" => \A s, t \in Of(j, Seed[i]) : s = t
    BY <2>1, SchemaAssumption, FieldFits
  <2>3. \A y \in Seed[i] : Kind(y) \in NamedBy(Kind(i))
    BY <2>1, <2>2, IdsHaveKind DEF Of, Kind
  <2> QED BY <2>2, <2>3 DEF Kinds
<1>6. TablesOK BY <1>1, <1>2, <1>4, <1>5, SeedAssumption DEF TablesOK, Of
<1>7. SameSemester
  <2> SUFFICES ASSUME NEW o \in Live, Table[o] = "Offering", NEW y \in refs[o], Kind(y) # "Semester"
               PROVE  SemesterOf(refs[y]) = SemesterOf(refs[o])
    BY DEF SameSemester, Of
  <2>1. o \in DOMAIN Seed /\ o \in Ids /\ y \in Seed[o] BY <1>1, <1>3, SeedAssumption
  <2>2. y \in DOMAIN Seed /\ y \in Ids BY <2>1, SeedAssumption
  <2> QED BY <2>1, <2>2, <1>1, SchemaAssumption DEF Kind
<1>8. RequestInv
  <2>1. NoReq \in RequestType /\ NoReq.pc = "unsent" /\ NoReq.op = "none" /\ NoReq.row = None /\ NoReq.body = {}
    BY DEF NoReq, RequestType, Pcs
  <2>2. RequestFits(NoReq) BY <2>1 DEF RequestFits
  <2>3. RequestOK(NoReq, state, refs) BY <2>1, <2>2 DEF RequestOK
  <2>4. ListInv BY <2>1 DEF ListInv, Init
  <2> QED BY <2>1, <2>3, <2>4 DEF RequestInv, Init
<1>9. RunInv
  <2>1. /\ NoRun \in RunType /\ NoRun.pc = "none" /\ NoRun.sem = None /\ NoRun.seen = {} /\ NoRun.offers = {}
        /\ NoRun.torn = FALSE /\ NoRun.stale = FALSE
    BY DEF NoRun, RunType
  <2> QED BY <2>1 DEF RunInv, RunSemesterOK, Running, Init
<1> QED BY <1>6, <1>7, <1>8, <1>9 DEF CatalogueInv, SchemaInv

\* Every step keeps the invariant; and a stored schedule, unless it deletes the
\* run.
LEMMA CatalogueStep ==
  ASSUME CatalogueInv, [Next]_vars
  PROVE  CatalogueInv' /\ (SchedulesStay \/ run'.pc = "deleted")
<1>0. HandlerInv BY DEF HandlerInv, CatalogueInv, RunInv
<1>1. ASSUME UNCHANGED <<state, refs>> PROVE SchedulesStay
  BY <1>1 DEF SchedulesStay, Of, Live
<1>2. ASSUME NEW q \in Requests, Handle(q) PROVE CatalogueInv' /\ SchedulesStay
  <2>1. CASE Moves(q) BY <2>1, <1>1, MoveKeeps DEF Moves
  <2>2. CASE Writes(q) BY <2>2, WriteKeeps DEF Writes
  <2>3. CASE Clears(q) BY <2>3, ClearKeeps
  <2>4. CASE Fills(q) BY <2>4, FillKeeps
  <2> QED BY <1>0, <1>2, <2>1, <2>2, <2>3, <2>4, HandlersMoveOrWrite
<1>10. ASSUME NEW q \in Requests, NEW p \in Requests, Deadlock(q, p) PROVE CatalogueInv' /\ SchedulesStay
  <2>1. PICK v \in {q, p} : req' = [req EXCEPT ![v] = [NoReq EXCEPT !.pc = "deadlock"]]
    BY <1>10 DEF Deadlock
  <2>2. UNCHANGED <<state, refs, run>> BY <1>10 DEF Deadlock
  <2>3. RequestOK([NoReq EXCEPT !.pc = "deadlock"], state, refs) BY AnsweredOK
  <2>4. [NoReq EXCEPT !.pc = "deadlock"].pc # "fill" BY DEF NoReq
  <2>5. v \in Requests /\ Moves(v) BY <2>1, <2>2, <2>3, <2>4 DEF Moves
  <2> QED BY <2>2, <2>5, <1>1, MoveKeeps
<1>3. ASSUME NEW s \in Semesters, CreateRun(s) PROVE CatalogueInv' /\ SchedulesStay
  BY <1>1, <1>3, CreateRunKeeps DEF CreateRun
<1>4. CASE StartRun BY <1>1, <1>4, StartRunKeeps DEF StartRun
<1>5. ASSUME NEW k \in Loads, Read(k) PROVE CatalogueInv' /\ SchedulesStay
  BY <1>1, <1>5, ReadKeeps DEF Read
<1>6. CASE Map BY <1>1, <1>6, MapKeeps DEF Map
<1>7. CASE Persist BY <1>7, PersistKeeps
<1>8. CASE DeleteRun
  <2>1. run'.pc = "deleted" BY <1>8 DEF DeleteRun, NoRun
  <2> QED BY <1>8, <2>1, DeleteRunKeeps
<1>9. CASE UNCHANGED vars
  <2>1. UNCHANGED <<state, refs, req, run>> BY <1>9 DEF vars
  <2>2. RunInv' BY <2>1 DEF CatalogueInv, RunInv, RunSemesterOK, Running, Live
  <2> QED BY <1>1, <2>1, <2>2, TablesUnmoved, RequestsUnmoved DEF CatalogueInv
<1> QED BY <1>2, <1>3, <1>4, <1>5, <1>6, <1>7, <1>8, <1>9, <1>10 DEF Next

LEMMA CatalogueAlways == Spec => []CatalogueInv
<1>1. CatalogueInv /\ [Next]_vars => CatalogueInv' BY CatalogueStep
<1> QED BY CatalogueInit, <1>1, PTL DEF Spec

\* The tables are as the schema has them: no live row names one that is gone.
THEOREM CatalogueTypeCorrect == Spec => []TypeOK
<1>1. CatalogueInv => TypeOK
  BY DEF CatalogueInv, SchemaInv, TablesOK, RequestInv, RequestType, RunInv, RunType, TypeOK, Live
<1> QED BY CatalogueAlways, <1>1, PTL

\* An offering and all it names stay of one semester, whatever edits race.
THEOREM SameSemesterCorrect == Spec => []SameSemester
<1>1. CatalogueInv => SameSemester BY DEF CatalogueInv, SchemaInv
<1> QED BY CatalogueAlways, <1>1, PTL

\* Every 404, 422 and 500, and every 409 of a patch of a list, has its cause.
THEOREM RefusalsHaveCauseCorrect == Spec => []RefusalsHaveCause
<1>1. CatalogueInv => RefusalsHaveCause
  <2> SUFFICES ASSUME CatalogueInv, NEW q \in Requests
               PROVE  /\ req[q].pc \in {"404", "422"} => Gone(req[q])
                      /\ req[q].pc = "500" => \/ req[q].op = "delete" /\ KindOf(req[q]) \in {"Slot", "Semester"}
                                              \/ req[q].op = "patch" /\ req[q].field = "Facility" /\ Gone(req[q])
                                              \/ req[q].twice \/ req[q].met
                      /\ req[q].pc = "409" /\ req[q].op = "patch" => req[q].met
    BY DEF RefusalsHaveCause, Gone
  <2>1. HandlerInv BY DEF HandlerInv, CatalogueInv, RunInv
  <2> QED BY <2>1, RequestIs DEF RequestOK
<1> QED BY CatalogueAlways, <1>1, PTL

\* A run that reads the tables one by one is broken only by an edit under it.
THEOREM OnlyEditsBreakRunsCorrect == Spec => []OnlyEditsBreakRuns
<1>1. CatalogueInv => OnlyEditsBreakRuns
  BY WholeRun DEF OnlyEditsBreakRuns, CatalogueInv, RunInv
<1> QED BY CatalogueAlways, <1>1, PTL

\* No edit changes a stored schedule.
THEOREM ScheduleKeptCorrect == Spec => ScheduleKept
<1>1. CatalogueInv /\ [Next]_vars =>
        [\A i \in Of("Schedule", Live) : refs'[i] = refs[i] \/ run'.pc = "deleted"]_vars
  BY CatalogueStep DEF SchedulesStay
<1> QED BY CatalogueAlways, <1>1, PTL DEF Spec, ScheduleKept
=============================================================================
