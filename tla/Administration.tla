-------------------------- MODULE Administration --------------------------
(***************************************************************************)
(* What administrators do to the rows everything else hangs from: create,  *)
(* activate and delete of src/api/routes/semesters.ts with the transaction *)
(* of semesterRepo.activate under READ COMMITTED row locks, patch of       *)
(* timeslots.ts, register of auth.ts, patch and remove of users.ts.  Each  *)
(* is a read and, some awaits later, a write that relies on it.            *)
(***************************************************************************)
EXTENDS Naturals, FiniteSets

CONSTANTS
  Requests,   \* requests in flight at once
  Semesters,  \* rows of the semesters table
  Planned,    \* those that are still to be created
  Times,      \* times of day, ordered
  Users,      \* the email addresses an account can have
  Admins,     \* the accounts that start as administrators
  Concerns,   \* which of the three a behaviour is about
  None        \* no row, no request

ASSUME TimesAssumption == Times \subseteq Nat
ASSUME ConcernsAssumption == Concerns \subseteq {"semesters", "slot", "accounts"}
ASSUME RowsAssumption == Planned \subseteq Semesters /\ Admins \subseteq Users
ASSUME NoneAssumption == None \notin Requests

VARIABLES
  concern,     \* chosen at the start: the three share no row
  exists,      \* the semesters created and not deleted
  planned,     \* the semesters not created
  active,      \* committed isActive
  lock,        \* row locks: the request whose transaction holds each semester
  slot,        \* a time slot: [start, end]
  account,     \* role and isActive of each account; "none": not registered
  claim,       \* role in each account's access token, or none
  req,         \* the requests
  overlapped   \* history: two requests have been in flight at once

rows == <<exists, planned, active, lock, slot, account, claim>>
vars == <<concern, rows, req, overlapped>>

NoReq == [pc |-> "idle", row |-> None, snap |-> {}, by |-> None, put |-> [f \in {} |-> None]]

Init ==
  /\ concern \in Concerns
  /\ exists = Semesters \ Planned
  /\ planned = Planned
  /\ active = {}
  /\ lock = [s \in Semesters |-> None]
  /\ slot \in {w \in [start : Times, end : Times] : w.start < w.end}
  /\ account = [u \in Users |-> IF u \in Admins THEN [role |-> "ADMIN", isActive |-> TRUE]
                                               ELSE [role |-> "none", isActive |-> FALSE]]
  /\ claim = [u \in Users |-> account[u].role]
  /\ req = [q \in Requests |-> NoReq]
  /\ overlapped = FALSE

Sends(q, r) ==
  /\ req[q].pc = "idle"
  /\ req' = [req EXCEPT ![q] = r]
  /\ overlapped' = (overlapped \/ \E p \in Requests : req[p].pc # "idle")
  /\ UNCHANGED <<concern, rows>>

Moves(q, pc) == req' = [req EXCEPT ![q].pc = pc]
Ends(q) == req' = [req EXCEPT ![q] = NoReq]

-----------------------------------------------------------------------------
(* Semesters: activate is updateMany of the others, then update of its own *)

PostSemester(q, s) ==
  concern = "semesters" /\ Sends(q, [NoReq EXCEPT !.pc = "insert", !.row = s])

\* The new row is not active; a code that is taken violates its uniqueness (409).
InsertSemester(q) ==
  LET s == req[q].row IN
  /\ req[q].pc = "insert"
  /\ Ends(q)
  /\ exists' = exists \cup ({s} \cap planned)
  /\ planned' = planned \ {s}
  /\ UNCHANGED <<concern, active, lock, slot, account, claim, overlapped>>

Free(s, q) == lock[s] \in {None, q}
Held(q) == {s \in Semesters : lock[s] = q}
Release(q) == lock' = [s \in Semesters |-> IF lock[s] = q THEN None ELSE lock[s]]

\* The updateMany takes its snapshot: the other rows that are active.
Activate(q, s) ==
  concern = "semesters" /\ s \in exists /\ Sends(q, [NoReq EXCEPT !.pc = "clear", !.row = s, !.snap = active \ {s}])

\* Mutant: the two statements are no transaction.
ClearRowNow(q, s) ==
  /\ req[q].pc = "clear" /\ s \in req[q].snap
  /\ Free(s, q)
  /\ active' = active \ {s}
  /\ req' = [req EXCEPT ![q].snap = @ \ {s}]
  /\ UNCHANGED <<concern, exists, planned, lock, slot, account, claim, overlapped>>

\* One row of it: locked, and looked at again once the lock is there.
ClearRow(q, s) ==
  /\ req[q].pc = "clear" /\ s \in req[q].snap
  /\ Free(s, q)
  /\ lock' = IF s \in active THEN [lock EXCEPT ![s] = q] ELSE lock
  /\ req' = [req EXCEPT ![q].snap = @ \ {s}]
  /\ UNCHANGED <<concern, exists, planned, active, slot, account, claim, overlapped>>

\* update of the target; a row deleted meanwhile rolls back (P2025, 500).
SetRow(q) ==
  LET s == req[q].row IN
  /\ req[q].pc = "clear" /\ req[q].snap = {}
  /\ Free(s, q)
  /\ IF s \in exists
     THEN lock' = [lock EXCEPT ![s] = q] /\ Moves(q, "commit")
     ELSE Release(q) /\ Ends(q)
  /\ UNCHANGED <<concern, exists, planned, active, slot, account, claim, overlapped>>

\* Mutant: the others are not cleared.
CommitOwnRow(q) ==
  /\ req[q].pc = "commit"
  /\ active' = active \cup {req[q].row}
  /\ Release(q) /\ Ends(q)
  /\ UNCHANGED <<concern, exists, planned, slot, account, claim, overlapped>>

Commit(q) ==
  /\ req[q].pc = "commit"
  /\ active' = (active \ Held(q)) \cup {req[q].row}
  /\ Release(q) /\ Ends(q)
  /\ UNCHANGED <<concern, exists, planned, slot, account, claim, overlapped>>

\* Two transactions that wait for each other: the database aborts one.
Waits(q) ==
  IF req[q].pc = "clear" THEN (IF req[q].snap = {} THEN {req[q].row} ELSE req[q].snap) ELSE {}
Deadlocked(q) ==
  \E p \in Requests \ {q} : Waits(q) \cap Held(p) # {} /\ Waits(p) \cap Held(q) # {}
Abort(q) ==
  /\ Deadlocked(q)
  /\ Release(q) /\ Ends(q)
  /\ UNCHANGED <<concern, exists, planned, active, slot, account, claim, overlapped>>

\* remove: find, isActive and the related rows, then the delete.
Remove(q, s) ==
  /\ concern = "semesters"
  /\ s \in exists \ active
  /\ Sends(q, [NoReq EXCEPT !.pc = "delete", !.row = s])

DeleteRow(q) ==
  LET s == req[q].row IN
  /\ req[q].pc = "delete"
  /\ Free(s, q)
  /\ exists' = exists \ {s}
  /\ active' = active \ {s}
  /\ Ends(q)
  /\ UNCHANGED <<concern, planned, lock, slot, account, claim, overlapped>>

-----------------------------------------------------------------------------
(* Time slots: the bounds are validated against the row as it was found    *)

Merged(w, put) == [f \in DOMAIN w |-> IF f \in DOMAIN put THEN put[f] ELSE w[f]]

Ordered(w, put) == Merged(w, put).start < Merged(w, put).end

PatchSlot(q) ==
  /\ concern = "slot"
  /\ \E F \in SUBSET {"start", "end"} \ {{}} : \E put \in [F -> Times] :
       /\ Ordered(slot, put)
       /\ Sends(q, [NoReq EXCEPT !.pc = "slot", !.put = put])

WriteSlot(q) ==
  /\ req[q].pc = "slot"
  /\ slot' = Merged(slot, req[q].put)
  /\ Ends(q)
  /\ UNCHANGED <<concern, exists, planned, active, lock, account, claim, overlapped>>

-----------------------------------------------------------------------------
(* Accounts: the guards look at the claims of the access token             *)

\* Mutant: users may demote and deactivate themselves.
Anyone(u, v, put) == TRUE

Permitted(u, v, put) ==
  u = v => /\ "role" \in DOMAIN put => put["role"] = "ADMIN"
           /\ "isActive" \in DOMAIN put => put["isActive"]

Registered(u) == account[u].role # "none"

\* postRegister hashes the password before it inserts the account.
Register(q, u, v) ==
  /\ concern = "accounts"
  /\ claim[u] = "ADMIN"
  /\ \E role \in {"ADMIN", "USER"} :
       Sends(q, [NoReq EXCEPT !.pc = "register", !.row = v, !.by = u,
                              !.put = [role |-> role, isActive |-> TRUE]])

\* An email that is taken violates its uniqueness (409), whoever was first.
CreateUser(q) ==
  LET v == req[q].row IN
  /\ req[q].pc = "register"
  /\ Ends(q)
  /\ account' = [account EXCEPT ![v] = IF Registered(v) THEN @ ELSE req[q].put]
  /\ UNCHANGED <<concern, exists, planned, active, lock, slot, claim, overlapped>>

\* patch of the role or of isActive, by u on v.
PatchUser(q, u, v) ==
  /\ concern = "accounts"
  /\ claim[u] = "ADMIN"
  /\ Registered(v)
  /\ \E put \in [{"role"} -> {"ADMIN", "USER"}] \cup [{"isActive"} -> BOOLEAN] :
       /\ Permitted(u, v, put)
       /\ Sends(q, [NoReq EXCEPT !.pc = "user", !.row = v, !.by = u, !.put = put])

\* remove deactivates an account, which must be another's and active (409).
RemoveUser(q, u, v) ==
  LET put == [f \in {"isActive"} |-> FALSE] IN
  /\ concern = "accounts"
  /\ claim[u] = "ADMIN"
  /\ Permitted(u, v, put)
  /\ account[v].isActive
  /\ Sends(q, [NoReq EXCEPT !.pc = "user", !.row = v, !.by = u, !.put = put])

WriteUser(q) ==
  /\ req[q].pc = "user"
  /\ account' = [account EXCEPT ![req[q].row] = Merged(@, req[q].put)]
  /\ Ends(q)
  /\ UNCHANGED <<concern, exists, planned, active, lock, slot, claim, overlapped>>

\* The access token expires, and a login or postRefresh mints one from the row.
RenewClaim(u) ==
  /\ concern = "accounts"
  /\ claim' = [claim EXCEPT ![u] = IF account[u].isActive THEN account[u].role ELSE "none"]
  /\ UNCHANGED <<concern, exists, planned, active, lock, slot, account, req, overlapped>>

-----------------------------------------------------------------------------
Next ==
  \/ \E q \in Requests :
       \/ \E s \in Semesters : PostSemester(q, s) \/ Activate(q, s) \/ ClearRow(q, s) \/ Remove(q, s)
       \/ InsertSemester(q) \/ SetRow(q) \/ Commit(q) \/ Abort(q) \/ DeleteRow(q)
       \/ PatchSlot(q) \/ WriteSlot(q)
       \/ CreateUser(q) \/ WriteUser(q)
       \/ \E u, v \in Users : Register(q, u, v) \/ PatchUser(q, u, v) \/ RemoveUser(q, u, v)
  \/ \E u \in Users : RenewClaim(u)

Spec == Init /\ [][Next]_vars

-----------------------------------------------------------------------------
\* The shape of the rows and of the requests; a lock has a holder at work.
TypeOK ==
  /\ concern \in Concerns
  /\ active \subseteq exists /\ exists \subseteq Semesters \ planned
  /\ lock \in [Semesters -> Requests \cup {None}]
  /\ slot \in [start : Times, end : Times]
  /\ account \in [Users -> [role : {"ADMIN", "USER", "none"}, isActive : BOOLEAN]]
  /\ claim \in [Users -> {"ADMIN", "USER", "none"}]
  /\ overlapped \in BOOLEAN
  /\ \A q \in Requests : req[q].pc \in {"idle", "insert", "clear", "commit", "delete", "slot",
                                          "register", "user"}
  /\ \A s \in Semesters : lock[s] # None => req[lock[s]].pc \in {"clear", "commit"}

\* Activations alone never leave the system without an active semester, in
\* whatever order their statements and commits fall; only a delete does.
ActivationKeepsOne ==
  [][active # {} /\ active' = {} => exists' # exists]_vars

\* Requests that do not overlap leave at most one active semester, and a slot
\* whose start is before its end however its bounds were patched.
KeptInTurn == ~overlapped => Cardinality(active) <= 1 /\ slot.start < slot.end

ActiveAdmins == {u \in Users : account[u] = [role |-> "ADMIN", isActive |-> TRUE]}

\* The last active administrator goes only by the hand of one who is no active
\* administrator any more: a stale token, or a request overtaken on its way.
LastAdminByStale ==
  [][ActiveAdmins # {} /\ ActiveAdmins' = {} =>
       \E q \in Requests : req[q].pc = "user" /\ req'[q].pc = "idle" /\ req[q].by \notin ActiveAdmins]_vars

\* repo/semesterRepo.ts:124: the transaction cannot leave multiple rows active.
OneActive == Cardinality(active) <= 1
=============================================================================
