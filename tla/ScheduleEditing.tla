-------------------------- MODULE ScheduleEditing --------------------------
(***************************************************************************)
(* The schedule of a finished run, edited by hand: the block that is       *)
(* clicked in the viewer, the conflicts its form warns of, the request     *)
(* that carries what was changed, the handler that reads, stores and       *)
(* audits it (ScheduleViewerPage.tsx, ManualOverrideModal.tsx,             *)
(* putOverrideAssignment, scheduleRunRepo.ts and audit.ts).  Several       *)
(* people edit one schedule.  That the run itself is cancelled or deleted  *)
(* meanwhile is RunLifecycle's, and the order of the answers of a viewer   *)
(* is ManagementPage's matter: here a viewer shows some schedule that was  *)
(* stored once.                                                            *)
(***************************************************************************)
EXTENDS Naturals, FiniteSets

CONSTANTS
  Sessions,    \* the assignments of the run
  Rooms, Slots,
  Lecturers,
  Team,        \* session -> the lecturers of its offering
  Schedules,   \* the schedules to start from
  Editors,     \* people with the viewer open
  Saves,       \* requests that can be in flight
  MaxSaves,    \* bound: the requests they make
  Nothing      \* no form, no request

Fields == {"room", "slots", "lecturers"}
Places == [room : Rooms, slots : (SUBSET Slots) \ {{}}, lecturers : SUBSET Lecturers]

ASSUME EditingAssumption ==
  /\ Team \in [Sessions -> (SUBSET Lecturers) \ {{}}]
  /\ Schedules \subseteq [Sessions -> Places]
  /\ MaxSaves \in Nat

\* A form: the session that was clicked, as it was shown then.
Forms == [session : Sessions, seen : Places]

\* A request, its user, the schedule of the viewer, and what the handler reads
\* and stores.
Overrides == [by : Editors, session : Sessions, seen : Places, place : Places,
              basis : [Sessions -> Places], step : {"sent", "read", "stored"},
              existing : Places, updated : Places]

ASSUME NothingAssumption == Nothing \notin Forms /\ Nothing \notin Overrides

VARIABLES
  stored,   \* the ScheduleAssignment rows with their slots and lecturers
  shown,    \* the schedule each viewer shows
  editing,  \* the form of each viewer: its session as it was clicked
  save,     \* the requests in flight
  made,     \* how many there were
  trail,    \* the AuditLog rows: session, field and the value after
  first,    \* history: the schedule before all edits
  lost,     \* history: the audit of a stored edit was not written
  old,      \* history: an edit of an outdated schedule was stored
  warned    \* history: an edit was saved although the form warned

auditVars == <<trail, first, lost>>
editVars == <<stored, shown, editing, save, made, auditVars, old, warned>>

\* resolveSessionLecturers: a session without lecturers of its own, as older
\* runs have them, is taught by all lecturers of its offering.
Teaching(s, place) == IF place.lecturers = {} THEN Team[s] ELSE place.lecturers

\* The session as a form shows it.
Filled(s, place) == [place EXCEPT !.lecturers = Teaching(s, place)]

\* Mutant: lecturers are not compared.
RoomConflicts(schedule, s, place) ==
  {o \in Sessions \ {s} : /\ schedule[o].slots \cap place.slots # {}
                          /\ schedule[o].room = place.room}

\* The other sessions at an overlapping time in the room, or with a lecturer.
Conflicts(schedule, s, place) ==
  {o \in Sessions \ {s} :
     /\ schedule[o].slots \cap place.slots # {}
     /\ \/ schedule[o].room = place.room
        \/ Teaching(o, schedule[o]) \cap Teaching(s, place) # {}}

EditInit ==
  /\ stored \in Schedules
  /\ shown = [e \in Editors |-> stored]
  /\ editing = [e \in Editors |-> Nothing]
  /\ save = [k \in Saves |-> Nothing]
  /\ made = 0
  /\ trail = {} /\ first = stored /\ lost = FALSE
  /\ old = FALSE /\ warned = FALSE

\* The schedule is fetched: at the start, after a save, or when the run is
\* selected again.  A form that is open keeps its session, and compares it
\* with the new ones.
Reload(e) ==
  /\ shown' = [shown EXCEPT ![e] = stored]
  /\ UNCHANGED <<stored, editing, save, made, auditVars, old, warned>>

ClickBlock(e, s) ==
  /\ editing[e] = Nothing
  /\ editing' = [editing EXCEPT ![e] = [session |-> s, seen |-> Filled(s, shown[e][s])]]
  /\ UNCHANGED <<stored, shown, save, made, auditVars, old, warned>>

CloseForm(e) ==
  /\ editing[e] # Nothing
  /\ editing' = [editing EXCEPT ![e] = Nothing]
  /\ UNCHANGED <<stored, shown, save, made, auditVars, old, warned>>

\* getValidationError: as many slots as before, a lecturer, and a change.
Valid(seen, place) ==
  /\ Cardinality(place.slots) = Cardinality(seen.slots)
  /\ place.lecturers # {}
  /\ place # seen

\* Mutant: the request names every field of the form.
WholeForm(seen, place) == Fields

\* The fields the request names: those that differ from the form as it opened.
Body(seen, place) == {f \in Fields : place[f] # seen[f]}

\* A form stays open until its request is answered; it can be closed, and
\* another one saved, before that.
SaveForm(e, k) ==
  LET form == editing[e] IN
  /\ form # Nothing /\ save[k] = Nothing /\ made < MaxSaves
  /\ \E place \in {p \in Places : Valid(form.seen, p)} :
       /\ save' = [save EXCEPT ![k] =
            [by |-> e, session |-> form.session, seen |-> form.seen, place |-> place,
             basis |-> shown[e], step |-> "sent", existing |-> place, updated |-> place]]
       /\ warned' = (warned \/ Conflicts(shown[e], form.session, place) # {})
  /\ made' = made + 1
  /\ UNCHANGED <<stored, shown, editing, auditVars, old>>

At(k, step) == save[k] # Nothing /\ save[k].step = step
Done(k) == save' = [save EXCEPT ![k] = Nothing]

\* findAssignmentById: what the audit will compare with.
FindAssignment(k) ==
  /\ At(k, "sent")
  /\ save' = [save EXCEPT ![k].step = "read", ![k].existing = stored[save[k].session]]
  /\ UNCHANGED <<stored, shown, editing, made, auditVars, old, warned>>

\* assertOverrideLecturersValid: lecturers of another semester, or with none
\* of the competencies, are refused; rooms and times are not looked at.
Refuse(k) ==
  /\ At(k, "read")
  /\ "lecturers" \in Body(save[k].seen, save[k].place)
  /\ Done(k)
  /\ UNCHANGED <<stored, shown, editing, made, auditVars, old, warned>>

\* The fields of the body over the row.
Overwritten(row, named, place) == [f \in Fields |-> IF f \in named THEN place[f] ELSE row[f]]

\* Mutant: the slots and lecturers as update returned them, before their rows
\* were replaced.
ReturnedByUpdate(row, named, place) ==
  [row EXCEPT !.room = Overwritten(row, named, place).room]

\* finalSlots and finalLecturers: of the body where it names them.
Returned(row, named, place) == Overwritten(row, named, place)

\* overrideAssignment, one transaction on the row, whatever it holds by then.
Override(k) ==
  LET s == save[k].session
      named == Body(save[k].seen, save[k].place)
  IN /\ At(k, "read")
     /\ stored' = [stored EXCEPT ![s] = Overwritten(@, named, save[k].place)]
     /\ save' = [save EXCEPT ![k].step = "stored",
                             ![k].updated = Returned(stored[s], named, save[k].place)]
     /\ old' = (old \/ save[k].basis # stored \/ save[k].seen # Filled(s, stored[s]))
     /\ UNCHANGED <<shown, editing, made, auditVars, warned>>

\* diff of audit.ts: the keys whose values differ.
Diff(before, after) == {f \in Fields : before[f] # after[f]}

\* The AuditLog row is inserted, or that fails.
Create(entry) ==
  \/ trail' = trail \cup entry /\ UNCHANGED lost
  \/ lost' = TRUE /\ UNCHANGED trail

\* writeAudit: an entry of what differs between the row as it was read and as
\* it was stored.  It swallows every failure.
WriteAudit(k) ==
  LET entry == {[session |-> save[k].session, field |-> f, after |-> save[k].updated[f]] :
                  f \in Diff(save[k].existing, save[k].updated)}
  IN Create(entry) /\ UNCHANGED first

\* The form that is open by then is closed, unless the answer does not arrive.
Answer(k) ==
  /\ At(k, "stored")
  /\ WriteAudit(k)
  /\ Done(k)
  /\ \/ editing' = [editing EXCEPT ![save[k].by] = Nothing]
     \/ UNCHANGED editing
  /\ UNCHANGED <<stored, shown, made, old, warned>>

\* The request does not arrive, or the API ends: the form stays.
Lose(k) ==
  /\ save[k] # Nothing
  /\ Done(k)
  /\ lost' = (lost \/ At(k, "stored"))
  /\ UNCHANGED <<stored, shown, editing, made, trail, first, old, warned>>

EditNext ==
  \/ \E e \in Editors : \/ Reload(e) \/ CloseForm(e)
                        \/ \E s \in Sessions : ClickBlock(e, s)
                        \/ \E k \in Saves : SaveForm(e, k)
  \/ \E k \in Saves : \/ FindAssignment(k) \/ Refuse(k) \/ Override(k)
                      \/ Answer(k) \/ Lose(k)

EditSpec == EditInit /\ [][EditNext]_editVars

-----------------------------------------------------------------------------
(* Properties                                                              *)

ClashFree(schedule) ==
  \A s, o \in Sessions : s # o /\ schedule[s].slots \cap schedule[o].slots # {} =>
    /\ schedule[s].room # schedule[o].room
    /\ Teaching(s, schedule[s]) \cap Teaching(o, schedule[o]) = {}

\* As long as nobody saves over a warning, and nobody saves a form that was
\* opened on an outdated schedule, edits bring no clash into the schedule:
\* the conflicts the form sees in its viewer's schedule are all there are,
\* and what is stored is what it showed.
NoClashUnseen == ~old /\ ~warned /\ ClashFree(first) => ClashFree(stored)

\* An edit changes in the stored schedule only what its user changed in the
\* form, however old the schedule it was made on: the concurrent edit of
\* another field, and the lecturers a session never had, stay.
OnlyWhatChanged ==
  [][\A s \in Sessions, f \in Fields : stored'[s][f] # stored[s][f] =>
       \E k \in Saves : /\ At(k, "read") /\ At(k, "stored")'
                        /\ save[k].session = s
                        /\ save[k].place[f] # save[k].seen[f]]_editVars

\* The trail accounts for the schedule: once the edits of a session have been
\* answered, every value it did not start with stands in an entry, however the
\* edits interleaved and although each compares with a row that may be
\* outdated by the time it stores; unless an entry was lost.
TrailAccounts ==
  ~lost =>
    \A s \in Sessions, f \in Fields :
      \/ stored[s][f] = first[s][f]
      \/ \E e \in trail : e.session = s /\ e.field = f /\ e.after = stored[s][f]
      \/ \E k \in Saves : save[k] # Nothing /\ save[k].session = s
=============================================================================
