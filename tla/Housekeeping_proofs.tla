------------------------ MODULE Housekeeping_proofs ------------------------
(***************************************************************************)
(* What holds of semesters, slots and accounts, of the editing of a        *)
(* schedule and of the rate limiter, for any number of rows, of users and  *)
(* of requests.                                                            *)
(***************************************************************************)
EXTENDS Administration, ScheduleEditing, RateLimit, FiniteSetTheorems, SequenceTheorems,
        WellFoundedInduction, TLAPS

-----------------------------------------------------------------------------
(***************************************************************************)
(* Administration: an activation leaves an active semester, the last       *)
(* administrator goes only by a stale request, and requests in turn keep   *)
(* one active semester and an ordered slot.                                *)
(***************************************************************************)

Roles == {"ADMIN", "USER"}
Accounts == [role : Roles \cup {"none"}, isActive : BOOLEAN]

\* A request has the fields of NoReq.
Shape(r) == DOMAIN r = {"pc", "row", "snap", "by", "put"}

\* What a request carries at each of its stages.
Fits(r) ==
  /\ Shape(r)
  /\ r.pc \in {"idle", "insert", "clear", "commit", "delete", "slot", "register", "user"}
  /\ r.pc \in {"insert", "clear", "commit", "delete"} => r.row \in Semesters
  /\ r.pc = "clear" => r.snap \subseteq Semesters
  /\ r.pc = "register" => r.row \in Users /\ r.put \in Accounts
  /\ r.pc = "user" =>
       /\ r.row \in Users /\ r.by \in Users
       /\ "role" \in DOMAIN r.put => r.put["role"] \in Roles
       /\ "isActive" \in DOMAIN r.put => r.put["isActive"] \in BOOLEAN
       /\ Permitted(r.by, r.row, r.put)

AdminTypeOK ==
  /\ active \subseteq Semesters /\ exists \subseteq Semesters
  /\ lock \in [Semesters -> Requests \cup {None}]
  /\ account \in [Users -> Accounts]
  /\ overlapped \in BOOLEAN
  /\ req = [q \in Requests |-> req[q]]
  /\ \A q \in Requests : Fits(req[q])

LEMMA NoReqFits == Fits(NoReq)
BY DEF Fits, NoReq, Shape

LEMMA MergedAccount ==
  ASSUME NEW w \in Accounts, NEW put,
         "role" \in DOMAIN put => put["role"] \in Roles,
         "isActive" \in DOMAIN put => put["isActive"] \in BOOLEAN
  PROVE  Merged(w, put) \in Accounts
BY DEF Merged, Accounts, Roles

LEMMA AdminTypeInit == ASSUME Init PROVE AdminTypeOK
<1>1. active \subseteq Semesters /\ exists \subseteq Semesters
  BY RowsAssumption DEF Init
<1>2. lock \in [Semesters -> Requests \cup {None}]
  BY DEF Init
<1>3. account \in [Users -> Accounts]
  BY DEF Init, Accounts, Roles
<1>4. req = [q \in Requests |-> NoReq]
  BY DEF Init
<1>5. overlapped \in BOOLEAN
  BY DEF Init
<1> QED BY <1>1, <1>2, <1>3, <1>4, <1>5, NoReqFits DEF AdminTypeOK

\* A step that sends a request, moves one on or ends one.
LEMMA RequestsFit ==
  ASSUME AdminTypeOK, NEW q \in Requests, NEW r, Fits(r), req' = [req EXCEPT ![q] = r]
  PROVE  /\ req' = [p \in Requests |-> req'[p]]
         /\ req'[q] = r
         /\ \A p \in Requests \ {q} : req'[p] = req[p]
         /\ \A p \in Requests : Fits(req'[p])
BY DEF AdminTypeOK

\* A request that ends, or moves on, still fits.
LEMMA EndsFit ==
  ASSUME AdminTypeOK, NEW q \in Requests, Ends(q)
  PROVE  /\ req' = [p \in Requests |-> req'[p]]
         /\ req'[q].pc = "idle"
         /\ \A p \in Requests \ {q} : req'[p] = req[p]
         /\ \A p \in Requests : Fits(req'[p])
BY NoReqFits, RequestsFit DEF Ends, NoReq

LEMMA AdminTypeStep == ASSUME AdminTypeOK, [Next]_vars PROVE AdminTypeOK'
<1> USE DEF rows
<1>1. ASSUME NEW q \in Requests, NEW r, Fits(r), Sends(q, r) PROVE AdminTypeOK'
  <2>1. req' = [req EXCEPT ![q] = r]
    BY <1>1 DEF Sends
  <2>2. overlapped' \in BOOLEAN
    BY <1>1 DEF Sends, AdminTypeOK
  <2> QED BY <1>1, <2>1, <2>2, RequestsFit DEF AdminTypeOK, Sends
<1>2. ASSUME NEW q \in Requests, Ends(q), UNCHANGED overlapped,
             active' \subseteq Semesters, exists' \subseteq Semesters,
             lock' \in [Semesters -> Requests \cup {None}], account' \in [Users -> Accounts]
      PROVE  AdminTypeOK'
  BY <1>2, EndsFit DEF AdminTypeOK
<1>3. ASSUME NEW q \in Requests, NEW s \in Semesters,
             PostSemester(q, s) \/ Activate(q, s) \/ Remove(q, s)
      PROVE  AdminTypeOK'
  <2>1. ASSUME NEW pc \in {"insert", "delete"} PROVE Fits([NoReq EXCEPT !.pc = pc, !.row = s])
    <3> DEFINE r == [NoReq EXCEPT !.pc = pc, !.row = s]
    <3>1. Shape(r) /\ r.pc = pc /\ r.row = s
      BY DEF Shape, NoReq
    <3> HIDE DEF r
    <3>2. Fits(r)
      BY <3>1 DEF Fits
    <3> QED BY <3>2 DEF r
  <2>2. ASSUME Activate(q, s)
        PROVE  Fits([NoReq EXCEPT !.pc = "clear", !.row = s, !.snap = active \ {s}])
    <3> DEFINE r == [NoReq EXCEPT !.pc = "clear", !.row = s, !.snap = active \ {s}]
    <3>1. Shape(r) /\ r.pc = "clear" /\ r.row = s /\ r.snap = active \ {s}
      BY DEF Shape, NoReq
    <3>2. active \subseteq Semesters
      BY DEF AdminTypeOK
    <3> HIDE DEF r
    <3>3. Fits(r)
      BY <3>1, <3>2 DEF Fits
    <3> QED BY <3>3 DEF r
  <2> QED BY <1>1, <1>3, <2>1, <2>2 DEF PostSemester, Activate, Remove
<1>4. ASSUME NEW q \in Requests, InsertSemester(q) PROVE AdminTypeOK'
  <2>1. exists' \subseteq Semesters
    BY <1>4 DEF InsertSemester, AdminTypeOK, Fits
  <2> QED BY <1>2, <1>4, <2>1 DEF InsertSemester, AdminTypeOK
<1>5. ASSUME NEW q \in Requests, NEW s \in Semesters, ClearRow(q, s) PROVE AdminTypeOK'
  <2> DEFINE r == [req[q] EXCEPT !.snap = @ \ {s}]
  <2>1. Fits(req[q]) /\ req[q].pc = "clear"
    BY <1>5 DEF ClearRow, AdminTypeOK
  <2>2. Fits(r)
    BY <2>1 DEF Fits, Shape
  <2>3. req' = [req EXCEPT ![q] = r]
    BY <1>5 DEF ClearRow
  <2>4. lock' \in [Semesters -> Requests \cup {None}]
    BY <1>5 DEF ClearRow, AdminTypeOK
  <2> HIDE DEF r
  <2> QED BY <1>5, <2>2, <2>3, <2>4, RequestsFit DEF ClearRow, AdminTypeOK
<1>6. ASSUME NEW q \in Requests, SetRow(q) PROVE AdminTypeOK'
  <2>1. Fits(req[q]) /\ req[q].pc = "clear"
    BY <1>6 DEF SetRow, AdminTypeOK
  <2>2. CASE req[q].row \in exists
    <3> DEFINE r == [req[q] EXCEPT !.pc = "commit"]
    <3>1. Fits(r)
      BY <2>1 DEF Fits, Shape
    <3>2. req' = [req EXCEPT ![q] = r]
      BY <1>6, <2>2 DEF SetRow, Moves
    <3>3. lock' \in [Semesters -> Requests \cup {None}]
      BY <1>6, <2>2 DEF SetRow, AdminTypeOK
    <3> HIDE DEF r
    <3> QED BY <1>6, <3>1, <3>2, <3>3, RequestsFit DEF SetRow, AdminTypeOK
  <2>3. CASE req[q].row \notin exists
    BY <1>2, <1>6, <2>3 DEF SetRow, Release, AdminTypeOK
  <2> QED BY <2>2, <2>3
<1>7. ASSUME NEW q \in Requests, Commit(q) \/ Abort(q) PROVE AdminTypeOK'
  <2>1. active' \subseteq Semesters
    BY <1>7 DEF Commit, Abort, AdminTypeOK, Fits, Held
  <2> QED BY <1>2, <1>7, <2>1 DEF Commit, Abort, Release, AdminTypeOK
<1>8. ASSUME NEW q \in Requests, DeleteRow(q) PROVE AdminTypeOK'
  BY <1>2, <1>8 DEF DeleteRow, AdminTypeOK
<1>9. ASSUME NEW q \in Requests, PatchSlot(q) PROVE AdminTypeOK'
  <2>1. ASSUME NEW put PROVE Fits([NoReq EXCEPT !.pc = "slot", !.put = put])
    <3> DEFINE r == [NoReq EXCEPT !.pc = "slot", !.put = put]
    <3>1. Shape(r) /\ r.pc = "slot"
      BY DEF Shape, NoReq
    <3> HIDE DEF r
    <3>2. Fits(r)
      BY <3>1 DEF Fits
    <3> QED BY <3>2 DEF r
  <2> QED BY <1>1, <1>9, <2>1 DEF PatchSlot
<1>10. ASSUME NEW q \in Requests, WriteSlot(q) PROVE AdminTypeOK'
  BY <1>2, <1>10 DEF WriteSlot, AdminTypeOK
<1>11. ASSUME NEW q \in Requests, NEW u \in Users, NEW v \in Users, Register(q, u, v)
       PROVE  AdminTypeOK'
  <2>1. PICK role \in Roles :
          Sends(q, [NoReq EXCEPT !.pc = "register", !.row = v, !.by = u,
                                 !.put = [role |-> role, isActive |-> TRUE]])
    BY <1>11 DEF Register, Roles
  <2>2. [role |-> role, isActive |-> TRUE] \in Accounts
    BY DEF Accounts
  <2>3. ASSUME NEW put \in Accounts
        PROVE  Fits([NoReq EXCEPT !.pc = "register", !.row = v, !.by = u, !.put = put])
    <3> DEFINE r == [NoReq EXCEPT !.pc = "register", !.row = v, !.by = u, !.put = put]
    <3>1. Shape(r) /\ r.pc = "register" /\ r.row = v /\ r.put = put
      BY DEF Shape, NoReq
    <3> HIDE DEF r
    <3>2. Fits(r)
      BY <3>1 DEF Fits
    <3> QED BY <3>2 DEF r
  <2> QED BY <1>1, <2>1, <2>2, <2>3
<1>12. ASSUME NEW q \in Requests, CreateUser(q) PROVE AdminTypeOK'
  <2>1. account' \in [Users -> Accounts]
    BY <1>12 DEF CreateUser, AdminTypeOK, Fits
  <2> QED BY <1>2, <1>12, <2>1 DEF CreateUser, AdminTypeOK
<1>13. ASSUME NEW q \in Requests, NEW u \in Users, NEW v \in Users,
              PatchUser(q, u, v) \/ RemoveUser(q, u, v)
       PROVE  AdminTypeOK'
  <2>1. PICK put : /\ \/ put \in [{"role"} -> {"ADMIN", "USER"}] \cup [{"isActive"} -> BOOLEAN]
                      \/ put = [f \in {"isActive"} |-> FALSE]
                   /\ Permitted(u, v, put)
                   /\ Sends(q, [NoReq EXCEPT !.pc = "user", !.row = v, !.by = u, !.put = put])
    BY <1>13 DEF PatchUser, RemoveUser
  <2>2. /\ "role" \in DOMAIN put => put["role"] \in Roles
        /\ "isActive" \in DOMAIN put => put["isActive"] \in BOOLEAN
    <3>1. CASE put \in [{"role"} -> {"ADMIN", "USER"}]
      BY <3>1 DEF Roles
    <3>2. CASE put \in [{"isActive"} -> BOOLEAN]
      BY <3>2
    <3>3. CASE put = [f \in {"isActive"} |-> FALSE]
      BY <3>3
    <3> QED BY <2>1, <3>1, <3>2, <3>3
  <2>3. Fits([NoReq EXCEPT !.pc = "user", !.row = v, !.by = u, !.put = put])
    <3> DEFINE r == [NoReq EXCEPT !.pc = "user", !.row = v, !.by = u, !.put = put]
    <3>1. Shape(r) /\ r.pc = "user" /\ r.row = v /\ r.by = u /\ r.put = put
      BY DEF Shape, NoReq
    <3> HIDE DEF r
    <3>2. Fits(r)
      BY <2>1, <2>2, <3>1 DEF Fits
    <3> QED BY <3>2 DEF r
  <2> QED BY <1>1, <2>1, <2>3
<1>14. ASSUME NEW q \in Requests, WriteUser(q) PROVE AdminTypeOK'
  <2>1. Fits(req[q]) /\ req[q].pc = "user"
    BY <1>14 DEF WriteUser, AdminTypeOK
  <2>2. Merged(account[req[q].row], req[q].put) \in Accounts
    BY <2>1, MergedAccount DEF Fits, AdminTypeOK
  <2>3. account' \in [Users -> Accounts]
    BY <1>14, <2>2 DEF WriteUser, AdminTypeOK
  <2> QED BY <1>2, <1>14, <2>3 DEF WriteUser, AdminTypeOK
<1>15. ASSUME NEW u \in Users, RenewClaim(u) PROVE AdminTypeOK'
  BY <1>15 DEF RenewClaim, AdminTypeOK
<1>16. CASE UNCHANGED vars
  BY <1>16 DEF vars, AdminTypeOK
<1> QED BY <1>3, <1>4, <1>5, <1>6, <1>7, <1>8, <1>9, <1>10, <1>11, <1>12, <1>13, <1>14, <1>15,
           <1>16 DEF Next

\* Type correctness, of what each request carries too.
THEOREM AdminTypeCorrect == Spec => []AdminTypeOK
BY AdminTypeInit, AdminTypeStep, PTL DEF Spec

-----------------------------------------------------------------------------
(* Activations.  A transaction that is about to commit holds the lock of its *)
(* target, which therefore nobody has deleted; whoever holds a lock is in a  *)
(* transaction.                                                              *)

LockInv ==
  /\ \A s \in Semesters : lock[s] # None => req[lock[s]].pc \in {"clear", "commit"}
  /\ \A q \in Requests : req[q].pc = "commit" => lock[req[q].row] = q /\ req[q].row \in exists
  /\ active \subseteq exists

LEMMA LockInit == ASSUME Init PROVE LockInv
BY DEF Init, LockInv, NoReq

\* A step of a request that is in no transaction, before and after.
LEMMA LockOther ==
  ASSUME AdminTypeOK, LockInv, NEW q \in Requests,
         req[q].pc \notin {"clear", "commit"}, req'[q].pc # "commit",
         \A p \in Requests \ {q} : req'[p] = req[p],
         UNCHANGED lock,
         \A s \in exists : s \in exists' \/ lock[s] = None,
         active' \subseteq exists'
  PROVE  LockInv'
<1>1. \A s \in Semesters : lock[s] # q
  BY NoneAssumption DEF LockInv
<1>2. ASSUME NEW s \in Semesters, lock[s] # None
      PROVE  req'[lock[s]].pc \in {"clear", "commit"}
  <2>1. lock[s] \in Requests \ {q}
    BY <1>1, <1>2 DEF AdminTypeOK
  <2> QED BY <1>2, <2>1 DEF LockInv
<1>3. ASSUME NEW p \in Requests, req'[p].pc = "commit"
      PROVE  lock[req'[p].row] = p /\ req'[p].row \in exists'
  <2>1. p # q /\ req'[p] = req[p]
    BY <1>3
  <2>2. lock[req[p].row] = p /\ req[p].row \in exists
    BY <1>3, <2>1 DEF LockInv
  <2> QED BY <2>1, <2>2, NoneAssumption
<1> QED BY <1>2, <1>3 DEF LockInv

\* A transaction that ends releases its locks, and no other's.
LEMMA LockReleased ==
  ASSUME AdminTypeOK, LockInv, NEW q \in Requests, Release(q), Ends(q), UNCHANGED exists,
         active' \subseteq exists
  PROVE  LockInv'
<1>1. req'[q].pc = "idle" /\ \A p \in Requests \ {q} : req'[p] = req[p]
  BY EndsFit
<1>2. \A s \in Semesters : lock'[s] = IF lock[s] = q THEN None ELSE lock[s]
  BY DEF Release
<1>3. ASSUME NEW s \in Semesters, lock'[s] # None
      PROVE  req'[lock'[s]].pc \in {"clear", "commit"}
  <2>1. lock'[s] = lock[s] /\ lock[s] # q /\ lock[s] # None
    BY <1>2, <1>3
  <2>2. lock[s] \in Requests \ {q}
    BY <2>1 DEF AdminTypeOK
  <2> QED BY <1>1, <2>1, <2>2 DEF LockInv
<1>4. ASSUME NEW p \in Requests, req'[p].pc = "commit"
      PROVE  lock'[req'[p].row] = p /\ req'[p].row \in exists'
  <2>1. p # q /\ req'[p] = req[p]
    BY <1>1, <1>4
  <2>2. req[p].row \in Semesters
    BY <1>4, <2>1 DEF AdminTypeOK, Fits
  <2> QED BY <1>2, <1>4, <2>1, <2>2 DEF LockInv
<1> QED BY <1>3, <1>4 DEF LockInv

LEMMA LockStep == ASSUME AdminTypeOK, LockInv, [Next]_vars PROVE LockInv'
<1> USE DEF rows
<1>0. lock \in [Semesters -> Requests \cup {None}] /\ DOMAIN lock = Semesters
  BY DEF AdminTypeOK
<1>1. ASSUME NEW q \in Requests, NEW r, Sends(q, r), r.pc # "commit" PROVE LockInv'
  <2>1. req'[q] = r /\ \A p \in Requests \ {q} : req'[p] = req[p]
    BY <1>1 DEF Sends, AdminTypeOK
  <2>2. req[q].pc = "idle" /\ UNCHANGED <<lock, exists, active>>
    BY <1>1 DEF Sends
  <2> QED BY <1>1, <2>1, <2>2, LockOther DEF LockInv
<1>2. ASSUME NEW q \in Requests, Ends(q), req[q].pc \notin {"clear", "commit"},
             UNCHANGED lock, \A s \in exists : s \in exists' \/ lock[s] = None,
             active' \subseteq exists'
      PROVE  LockInv'
  BY <1>2, EndsFit, LockOther
<1>3. ASSUME NEW q \in Requests, NEW s \in Semesters, PostSemester(q, s) PROVE LockInv'
  <2>1. [NoReq EXCEPT !.pc = "insert", !.row = s].pc # "commit"
    BY DEF NoReq
  <2> QED BY <1>1, <1>3, <2>1 DEF PostSemester
<1>4. ASSUME NEW q \in Requests, NEW s \in Semesters, Activate(q, s) PROVE LockInv'
  <2>1. [NoReq EXCEPT !.pc = "clear", !.row = s, !.snap = active \ {s}].pc # "commit"
    BY DEF NoReq
  <2> QED BY <1>1, <1>4, <2>1 DEF Activate
<1>5. ASSUME NEW q \in Requests, NEW s \in Semesters, Remove(q, s) PROVE LockInv'
  <2>1. [NoReq EXCEPT !.pc = "delete", !.row = s].pc # "commit"
    BY DEF NoReq
  <2> QED BY <1>1, <1>5, <2>1 DEF Remove
<1>6. ASSUME NEW q \in Requests, InsertSemester(q) PROVE LockInv'
  BY <1>2, <1>6 DEF InsertSemester, LockInv
<1>7. ASSUME NEW q \in Requests, NEW s \in Semesters, ClearRow(q, s) PROVE LockInv'
  <2>1. /\ req'[q].pc = "clear" /\ req[q].pc = "clear"
        /\ \A p \in Requests \ {q} : req'[p] = req[p]
    BY <1>7 DEF ClearRow, AdminTypeOK, Fits, Shape
  <2>2. /\ \A o \in Semesters : lock'[o] = lock[o] \/ (lock'[o] = q /\ lock[o] = None)
        /\ UNCHANGED <<exists, active>>
    BY <1>0, <1>7 DEF ClearRow, Free
  <2>3. ASSUME NEW o \in Semesters, lock'[o] # None
        PROVE  req'[lock'[o]].pc \in {"clear", "commit"}
    <3>1. lock'[o] = q \/ (lock'[o] = lock[o] /\ lock[o] \in Requests \ {q})
      BY <1>0, <2>2, <2>3
    <3> QED BY <2>1, <2>3, <3>1 DEF LockInv
  <2>4. ASSUME NEW p \in Requests, req'[p].pc = "commit"
        PROVE  lock'[req'[p].row] = p /\ req'[p].row \in exists'
    <3>1. req'[p] = req[p]
      BY <2>1, <2>4
    <3>2. req[p].row \in Semesters
      BY <2>4, <3>1 DEF AdminTypeOK, Fits
    <3> QED BY <2>2, <2>4, <3>1, <3>2, NoneAssumption DEF LockInv
  <2> QED BY <2>2, <2>3, <2>4 DEF LockInv
<1>8. ASSUME NEW q \in Requests, SetRow(q) PROVE LockInv'
  <2>1. CASE req[q].row \notin exists
    BY <1>8, <2>1, LockReleased DEF SetRow, LockInv
  <2>2. CASE req[q].row \in exists
    <3> DEFINE s == req[q].row
    <3>1. /\ req'[q].pc = "commit" /\ req'[q].row = s /\ req[q].pc = "clear"
          /\ \A p \in Requests \ {q} : req'[p] = req[p]
      BY <1>8, <2>2 DEF SetRow, Moves, AdminTypeOK, Fits, Shape
    <3>2. s \in Semesters
      BY <3>1 DEF AdminTypeOK, Fits
    <3>3. /\ lock[s] \in {None, q} /\ lock'[s] = q
          /\ \A o \in Semesters \ {s} : lock'[o] = lock[o]
          /\ UNCHANGED <<exists, active>>
      BY <1>8, <2>2, <3>2 DEF SetRow, Free, AdminTypeOK
    <3> HIDE DEF s
    <3>4. ASSUME NEW o \in Semesters, lock'[o] # None
          PROVE  req'[lock'[o]].pc \in {"clear", "commit"}
      <4>1. lock'[o] = q \/ (lock'[o] = lock[o] /\ lock[o] \in Requests \ {q})
        BY <1>0, <3>3, <3>4
      <4> QED BY <3>1, <3>4, <4>1 DEF LockInv
    <3>5. ASSUME NEW p \in Requests, req'[p].pc = "commit"
          PROVE  lock'[req'[p].row] = p /\ req'[p].row \in exists'
      <4>1. CASE p = q
        BY <2>2, <3>1, <3>3, <4>1 DEF s
      <4>2. CASE p # q
        <5>1. req'[p] = req[p] /\ req[p].row \in Semesters
          BY <3>1, <3>5, <4>2 DEF AdminTypeOK, Fits
        <5>2. lock[req[p].row] = p /\ req[p].row \in exists
          BY <3>5, <5>1 DEF LockInv
        <5> QED BY <3>3, <4>2, <5>1, <5>2, NoneAssumption
      <4> QED BY <4>1, <4>2
    <3> QED BY <3>3, <3>4, <3>5 DEF LockInv
  <2> QED BY <2>1, <2>2
<1>9. ASSUME NEW q \in Requests, Commit(q) PROVE LockInv'
  <2>1. active' \subseteq exists /\ UNCHANGED exists
    BY <1>9 DEF Commit, LockInv
  <2> QED BY <1>9, <2>1, LockReleased DEF Commit
<1>10. ASSUME NEW q \in Requests, Abort(q) PROVE LockInv'
  BY <1>10, LockReleased DEF Abort, LockInv
<1>11. ASSUME NEW q \in Requests, DeleteRow(q) PROVE LockInv'
  <2>1. lock[req[q].row] = None
    <3>1. req[q].row \in Semesters /\ req[q].pc = "delete"
      BY <1>11 DEF DeleteRow, AdminTypeOK, Fits
    <3>2. lock[req[q].row] # q
      BY <3>1, NoneAssumption DEF LockInv
    <3> QED BY <1>11, <3>2 DEF DeleteRow, Free
  <2> QED BY <1>2, <1>11, <2>1 DEF DeleteRow, LockInv
<1>12. ASSUME NEW q \in Requests, PatchSlot(q) PROVE LockInv'
  <2>1. \A put : [NoReq EXCEPT !.pc = "slot", !.put = put].pc # "commit"
    BY DEF NoReq
  <2> QED BY <1>1, <1>12, <2>1 DEF PatchSlot
<1>13. ASSUME NEW q \in Requests, NEW u \in Users, NEW v \in Users,
              Register(q, u, v) \/ PatchUser(q, u, v) \/ RemoveUser(q, u, v)
       PROVE  LockInv'
  <2>1. \A put : /\ [NoReq EXCEPT !.pc = "register", !.row = v, !.by = u, !.put = put].pc # "commit"
                 /\ [NoReq EXCEPT !.pc = "user", !.row = v, !.by = u, !.put = put].pc # "commit"
    BY DEF NoReq
  <2> QED BY <1>1, <1>13, <2>1 DEF Register, PatchUser, RemoveUser
<1>14. ASSUME NEW q \in Requests, WriteSlot(q) \/ CreateUser(q) \/ WriteUser(q) PROVE LockInv'
  BY <1>2, <1>14 DEF WriteSlot, CreateUser, WriteUser, LockInv
<1>15. ASSUME NEW u \in Users, RenewClaim(u) PROVE LockInv'
  BY <1>15 DEF RenewClaim, LockInv
<1>16. CASE UNCHANGED vars
  BY <1>16 DEF vars, LockInv
<1> QED BY <1>3, <1>4, <1>5, <1>6, <1>7, <1>8, <1>9, <1>10, <1>11, <1>12, <1>13, <1>14, <1>15,
           <1>16 DEF Next

THEOREM LocksCorrect == Spec => []LockInv
BY LockInit, LockStep, AdminTypeCorrect, PTL DEF Spec

\* Activations alone never leave the system without an active semester
\* (semesterRepo.activate under READ COMMITTED; semesters.ts remove).
THEOREM ActivationKeepsOneCorrect == Spec => ActivationKeepsOne
<1> DEFINE Step == active # {} /\ active' = {} => exists' # exists
<1>1. ASSUME AdminTypeOK, LockInv, [Next]_vars PROVE Step
  <2> SUFFICES ASSUME active # {}, active' = {} PROVE exists' # exists
    OBVIOUS
  <2>1. PICK q \in Requests : Commit(q) \/ DeleteRow(q)
    BY ZenonT(60), <1>1 DEF Next, vars, rows, Sends, PostSemester, InsertSemester, Activate, ClearRow, Remove,
                SetRow, Abort, PatchSlot, WriteSlot, CreateUser, WriteUser, Register, PatchUser,
                RemoveUser, RenewClaim
  <2>2. DeleteRow(q)
    BY <2>1 DEF Commit
  <2>3. active = {req[q].row} /\ exists' = exists \ {req[q].row}
    BY <2>2 DEF DeleteRow
  <2> QED BY <1>1, <2>3 DEF LockInv
<1> QED BY <1>1, AdminTypeCorrect, LocksCorrect, PTL DEF Spec, ActivationKeepsOne

-----------------------------------------------------------------------------
(* Accounts.  A write by one who is an active administrator when it lands    *)
(* leaves him one: the guard forbids what it would take from himself.        *)

\* The last active administrator goes only by the hand of one who is none
\* (patch and remove of users.ts, register of auth.ts).
THEOREM LastAdminByStaleCorrect == Spec => LastAdminByStale
<1> DEFINE Step ==
      ActiveAdmins # {} /\ ActiveAdmins' = {} =>
        \E q \in Requests : req[q].pc = "user" /\ req'[q].pc = "idle" /\ req[q].by \notin ActiveAdmins
<1>1. ASSUME AdminTypeOK, [Next]_vars PROVE Step
  <2> SUFFICES ASSUME ActiveAdmins # {}, ActiveAdmins' = {}
               PROVE  \E q \in Requests : /\ req[q].pc = "user" /\ req'[q].pc = "idle"
                                          /\ req[q].by \notin ActiveAdmins
    OBVIOUS
  <2>1. account' # account
    BY DEF ActiveAdmins
  <2>2. PICK q \in Requests : CreateUser(q) \/ WriteUser(q)
    BY ZenonT(60), <1>1, <2>1 DEF Next, vars, rows, Sends, PostSemester, InsertSemester, Activate, ClearRow,
         Remove, SetRow, Commit, Abort, DeleteRow, PatchSlot, WriteSlot, Register, PatchUser,
         RemoveUser, RenewClaim
  <2>3. PICK u \in Users : account[u] = [role |-> "ADMIN", isActive |-> TRUE]
    BY DEF ActiveAdmins
  <2>4. Fits(req[q]) /\ account \in [Users -> Accounts]
    BY <1>1 DEF AdminTypeOK
  <2>5. account'[u] # account[u]
    BY <2>3 DEF ActiveAdmins
  <2>6. ~CreateUser(q)
    <3> SUFFICES ASSUME CreateUser(q) PROVE FALSE
      OBVIOUS
    <3>1. req[q].row = u /\ ~Registered(u)
      BY <2>4, <2>5 DEF CreateUser
    <3> QED BY <2>3, <3>1 DEF Registered
  <2>7. req[q].pc = "user" /\ req'[q].pc = "idle"
    BY <1>1, <2>2, <2>6, EndsFit DEF WriteUser
  <2>8. req[q].by \notin ActiveAdmins
    <3> SUFFICES ASSUME req[q].by \in ActiveAdmins PROVE FALSE
      OBVIOUS
    <3> DEFINE by == req[q].by
               put == req[q].put
    <3>1. by \in Users /\ account[by] = [role |-> "ADMIN", isActive |-> TRUE]
      BY DEF ActiveAdmins
    <3>2. account'[by] # account[by]
      BY <3>1 DEF ActiveAdmins
    <3>3. req[q].row = by /\ account'[by] = Merged(account[by], put)
      BY <2>2, <2>4, <2>6, <3>1, <3>2 DEF WriteUser
    <3>4. /\ "role" \in DOMAIN put => put["role"] = "ADMIN"
          /\ "isActive" \in DOMAIN put => put["isActive"] = TRUE
      BY <2>4, <2>7, <3>3 DEF Fits, Permitted
    <3> HIDE DEF by, put
    <3> DEFINE merged == Merged([role |-> "ADMIN", isActive |-> TRUE], put)
    <3>5. merged.role = "ADMIN" /\ merged.isActive = TRUE
      BY <3>4 DEF Merged
    <3>6. merged \in Accounts
      <4>1. [role |-> "ADMIN", isActive |-> TRUE] \in Accounts
        BY DEF Accounts, Roles
      <4> QED BY <3>4, <4>1, MergedAccount DEF Roles
    <3> HIDE DEF merged
    <3>7. merged = [role |-> "ADMIN", isActive |-> TRUE]
      BY <3>5, <3>6 DEF Accounts
    <3> QED BY <3>1, <3>2, <3>3, <3>7 DEF merged
  <2> QED BY <2>7, <2>8
<1> QED BY <1>1, AdminTypeCorrect, PTL DEF Spec, LastAdminByStale

-----------------------------------------------------------------------------
(* Requests in turn.  With one request at a time an activation that is to    *)
(* commit has locked every active semester but its own, and a patch that is  *)
(* to be written was validated against the slot as it still is.              *)

Covered(q) ==
  /\ req[q].pc = "clear" => active \subseteq {req[q].row} \cup req[q].snap \cup Held(q)
  /\ req[q].pc = "commit" => active \subseteq {req[q].row} \cup Held(q)
  /\ req[q].pc = "slot" => Ordered(slot, req[q].put)

Alone == \A p, q \in Requests : req[p].pc # "idle" /\ req[q].pc # "idle" => p = q

TurnInv ==
  overlapped \/ /\ Alone
                /\ \A q \in Requests : Covered(q)
                /\ \A a, b \in active : a = b
                /\ slot.start < slot.end

LEMMA TurnInit == ASSUME Init PROVE TurnInv
BY DEF Init, TurnInv, Alone, Covered, NoReq

\* A step of the one request that is in flight: it alone must be covered after.
LEMMA TurnOf ==
  ASSUME TurnInv, NEW q \in Requests, req[q].pc # "idle", UNCHANGED overlapped,
         \A p \in Requests \ {q} : req'[p] = req[p],
         ~overlapped => /\ Covered(q)'
                        /\ \A a, b \in active' : a = b
                        /\ slot'.start < slot'.end
  PROVE  TurnInv'
<1> SUFFICES ASSUME ~overlapped PROVE TurnInv'
  BY DEF TurnInv
<1>1. \A p \in Requests \ {q} : req'[p].pc = "idle"
  BY DEF TurnInv, Alone
<1>2. ASSUME NEW p \in Requests PROVE Covered(p)'
  <2>1. CASE p = q
    BY <2>1 DEF Covered, Held
  <2>2. CASE p # q
    BY <1>1, <2>2 DEF Covered
  <2> QED BY <2>1, <2>2
<1>3. Alone'
  BY <1>1 DEF Alone
<1> QED BY <1>2, <1>3 DEF TurnInv

LEMMA TurnStep == ASSUME AdminTypeOK, LockInv, TurnInv, [Next]_vars PROVE TurnInv'
<1> USE DEF rows
<1>0. /\ lock \in [Semesters -> Requests \cup {None}]
      /\ \A q \in Requests : Fits(req[q])
  BY DEF AdminTypeOK
\* A request that is sent while another is in flight overlaps it.
<1>1. ASSUME NEW q \in Requests, NEW r, Sends(q, r),
             r.pc \notin {"clear", "commit", "slot"}
               \/ (r.pc = "clear" /\ active \subseteq {r.row} \cup r.snap)
               \/ (r.pc = "slot" /\ Ordered(slot, r.put))
      PROVE  TurnInv'
  <2> SUFFICES ASSUME ~overlapped' PROVE TurnInv'
    BY DEF TurnInv
  <2>1. /\ ~overlapped /\ \A p \in Requests : req[p].pc = "idle"
        /\ UNCHANGED <<active, slot>>
    BY <1>1 DEF Sends
  <2>2. req'[q] = r /\ \A p \in Requests \ {q} : req'[p] = req[p]
    BY <1>1 DEF Sends, AdminTypeOK
  <2>3. Covered(q)'
    BY <1>1, <2>1, <2>2 DEF Covered
  <2>4. ASSUME NEW p \in Requests \ {q} PROVE Covered(p)'
    BY <2>1, <2>2 DEF Covered
  <2>5. Covered(q)' /\ \A p \in Requests \ {q} : Covered(p)'
    BY <2>3, <2>4
  <2>6. \A p \in Requests : Covered(p)'
    <3>1. ASSUME NEW p \in Requests PROVE Covered(p)'
      <4>1. CASE p = q
        BY <2>3, <4>1 DEF Covered, Held
      <4>2. CASE p # q
        BY <2>4, <4>2
      <4> QED BY <4>1, <4>2
    <3> QED BY <3>1
  <2>7. Alone'
    BY <2>1, <2>2 DEF Alone
  <2> QED BY <2>1, <2>6, <2>7 DEF TurnInv
\* A request that ends is covered.
<1>2. ASSUME NEW q \in Requests, Ends(q), req[q].pc # "idle", UNCHANGED overlapped,
             ~overlapped => /\ \A a, b \in active' : a = b
                            /\ slot'.start < slot'.end
      PROVE  TurnInv'
  <2>1. Covered(q)'
    BY <1>2, EndsFit DEF Covered
  <2> QED BY <1>2, <2>1, EndsFit, TurnOf
<1>3. ASSUME NEW q \in Requests, NEW s \in Semesters, PostSemester(q, s) PROVE TurnInv'
  <2>1. [NoReq EXCEPT !.pc = "insert", !.row = s].pc = "insert"
    BY DEF NoReq
  <2> QED BY <1>1, <1>3, <2>1 DEF PostSemester
<1>4. ASSUME NEW q \in Requests, NEW s \in Semesters, Activate(q, s) PROVE TurnInv'
  <2> DEFINE r == [NoReq EXCEPT !.pc = "clear", !.row = s, !.snap = active \ {s}]
  <2>1. r.pc = "clear" /\ r.row = s /\ r.snap = active \ {s}
    BY DEF NoReq
  <2>2. Sends(q, r)
    BY <1>4 DEF Activate
  <2> HIDE DEF r
  <2> QED BY <1>1, <2>1, <2>2
<1>5. ASSUME NEW q \in Requests, NEW s \in Semesters, Remove(q, s) PROVE TurnInv'
  <2>1. [NoReq EXCEPT !.pc = "delete", !.row = s].pc = "delete"
    BY DEF NoReq
  <2> QED BY <1>1, <1>5, <2>1 DEF Remove
<1>6. ASSUME NEW q \in Requests, InsertSemester(q) \/ Abort(q) \/ CreateUser(q) \/ WriteUser(q)
      PROVE  TurnInv'
  <2>1. req[q].pc # "idle"
    <3>1. CASE Abort(q)
      <4>1. PICK p \in Requests : Waits(q) \cap Held(p) # {}
        BY <3>1 DEF Abort, Deadlocked
      <4> QED BY <4>1 DEF Waits
    <3> QED BY <1>6, <3>1 DEF InsertSemester, CreateUser, WriteUser
  <2> QED BY <1>2, <1>6, <2>1 DEF InsertSemester, Abort, CreateUser, WriteUser, TurnInv
<1>7. ASSUME NEW q \in Requests, NEW s \in Semesters, ClearRow(q, s) PROVE TurnInv'
  <2>1. /\ req'[q].pc = "clear" /\ req[q].pc = "clear"
        /\ req'[q].row = req[q].row /\ req'[q].snap = req[q].snap \ {s}
        /\ \A p \in Requests \ {q} : req'[p] = req[p]
    BY <1>0, <1>7 DEF ClearRow, AdminTypeOK, Fits, Shape
  <2>2. /\ UNCHANGED <<active, slot, overlapped>>
        /\ \A o \in Semesters : lock[o] = q => lock'[o] = q
        /\ s \in active => lock'[s] = q
    BY <1>0, <1>7 DEF ClearRow
  <2>3. ~overlapped => Covered(q)'
    BY <1>7, <2>1, <2>2 DEF TurnInv, Covered, Held
  <2> QED BY <2>1, <2>2, <2>3, TurnOf DEF TurnInv
<1>8. ASSUME NEW q \in Requests, SetRow(q) PROVE TurnInv'
  <2>1. CASE req[q].row \notin exists
    BY <1>2, <1>8, <2>1 DEF SetRow, TurnInv
  <2>2. CASE req[q].row \in exists
    <3>1. /\ req'[q].pc = "commit" /\ req'[q].row = req[q].row /\ req[q].pc = "clear"
          /\ req[q].snap = {}
          /\ \A p \in Requests \ {q} : req'[p] = req[p]
      BY <1>0, <1>8, <2>2 DEF SetRow, Moves, AdminTypeOK, Fits, Shape
    <3>2. /\ UNCHANGED <<active, slot, overlapped>>
          /\ \A o \in Semesters : lock[o] = q => lock'[o] = q
      BY <1>0, <1>8, <2>2 DEF SetRow
    <3>3. ~overlapped => Covered(q)'
      BY <3>1, <3>2 DEF TurnInv, Covered, Held
    <3> QED BY <3>1, <3>2, <3>3, TurnOf DEF TurnInv
  <2> QED BY <2>1, <2>2
<1>9. ASSUME NEW q \in Requests, Commit(q) PROVE TurnInv'
  <2>1. ~overlapped => active' \subseteq {req[q].row}
    BY <1>9 DEF Commit, TurnInv, Covered
  <2> QED BY <1>2, <1>9, <2>1 DEF Commit, TurnInv
<1>10. ASSUME NEW q \in Requests, DeleteRow(q) PROVE TurnInv'
  BY <1>2, <1>10 DEF DeleteRow, TurnInv
<1>11. ASSUME NEW q \in Requests, PatchSlot(q) PROVE TurnInv'
  <2>1. PICK put : Ordered(slot, put) /\ Sends(q, [NoReq EXCEPT !.pc = "slot", !.put = put])
    BY <1>11 DEF PatchSlot
  <2> DEFINE r == [NoReq EXCEPT !.pc = "slot", !.put = put]
  <2>2. r.pc = "slot" /\ r.put = put
    BY DEF NoReq
  <2>3. Sends(q, r)
    BY <2>1
  <2> HIDE DEF r
  <2> QED BY <1>1, <2>1, <2>2, <2>3
<1>12. ASSUME NEW q \in Requests, WriteSlot(q) PROVE TurnInv'
  <2>1. ~overlapped => slot'.start < slot'.end
    BY <1>12 DEF WriteSlot, TurnInv, Covered, Ordered
  <2> QED BY <1>2, <1>12, <2>1 DEF WriteSlot, TurnInv
<1>13. ASSUME NEW q \in Requests, NEW u \in Users, NEW v \in Users,
              Register(q, u, v) \/ PatchUser(q, u, v) \/ RemoveUser(q, u, v)
       PROVE  TurnInv'
  <2>1. \A put :
          /\ [NoReq EXCEPT !.pc = "register", !.row = v, !.by = u, !.put = put].pc = "register"
          /\ [NoReq EXCEPT !.pc = "user", !.row = v, !.by = u, !.put = put].pc = "user"
    BY DEF NoReq
  <2> QED BY <1>1, <1>13, <2>1 DEF Register, PatchUser, RemoveUser
<1>14. ASSUME NEW u \in Users, RenewClaim(u) PROVE TurnInv'
  BY <1>14 DEF RenewClaim, TurnInv, Alone, Covered, Held
<1>15. CASE UNCHANGED vars
  BY <1>15 DEF vars, TurnInv, Alone, Covered, Held
<1> QED BY <1>3, <1>4, <1>5, <1>6, <1>7, <1>8, <1>9, <1>10, <1>11, <1>12, <1>13, <1>14, <1>15
        DEF Next

\* Requests that do not overlap leave at most one active semester, and a slot
\* that starts before it ends (semesterRepo.activate, timeslots.ts patch).
THEOREM KeptInTurnCorrect == Spec => []KeptInTurn
<1>1. ASSUME TurnInv PROVE KeptInTurn
  <2> SUFFICES ASSUME \A a, b \in active : a = b PROVE Cardinality(active) <= 1
    BY <1>1 DEF TurnInv, KeptInTurn
  <2>1. CASE active = {}
    BY <2>1, FS_EmptySet
  <2>2. CASE active # {}
    <3>1. PICK a : active = {a}
      BY <2>2
    <3> QED BY <3>1, FS_Singleton
  <2> QED BY <2>1, <2>2
<1> QED BY <1>1, TurnInit, TurnStep, AdminTypeCorrect, LocksCorrect, PTL DEF Spec

-----------------------------------------------------------------------------
(***************************************************************************)
(* Schedule editing: an edit changes what its user changed, the audit trail *)
(* accounts for the schedule, and no clash comes in unseen.                *)
(***************************************************************************)

EditTypeOK ==
  /\ stored \in [Sessions -> Places]
  /\ shown \in [Editors -> [Sessions -> Places]]
  /\ editing \in [Editors -> Forms \cup {Nothing}]
  /\ save \in [Saves -> Overrides \cup {Nothing}]
  /\ made \in Nat
  /\ first \in [Sessions -> Places]
  /\ lost \in BOOLEAN /\ old \in BOOLEAN /\ warned \in BOOLEAN

\* The row that a transaction leaves is a place again: it has its slots from
\* the body or from before.
LEMMA OverwrittenIsPlace ==
  ASSUME NEW row \in Places, NEW place \in Places, NEW named
  PROVE  Overwritten(row, named, place) \in Places
BY DEF Overwritten, Places, Fields

LEMMA FilledIsPlace ==
  ASSUME NEW s \in Sessions, NEW place \in Places
  PROVE  Filled(s, place) \in Places
BY EditingAssumption DEF Filled, Teaching, Places

\* What a transaction does to its request, and to the schedule.
LEMMA OverrideStep ==
  ASSUME EditTypeOK, NEW k \in Saves, Override(k)
  PROVE  LET s == save[k].session
             row == Overwritten(stored[s], Body(save[k].seen, save[k].place), save[k].place)
             after == [save[k] EXCEPT !.step = "stored", !.updated = row]
         IN /\ save[k] \in Overrides
            /\ s \in Sessions
            /\ row \in Places
            /\ stored' = [stored EXCEPT ![s] = row]
            /\ after \in Overrides
            /\ save' = [save EXCEPT ![k] = after]
            /\ At(k, "stored")'
<1> DEFINE s == save[k].session
           row == Overwritten(stored[s], Body(save[k].seen, save[k].place), save[k].place)
           after == [save[k] EXCEPT !.step = "stored", !.updated = row]
<1>1. save[k] \in Overrides
  BY DEF EditTypeOK, Override, At
<1>2. s \in Sessions /\ save[k].place \in Places /\ stored[s] \in Places
  BY <1>1 DEF Overrides, EditTypeOK
<1>3. row \in Places
  BY <1>2, OverwrittenIsPlace
<1>4. after \in Overrides /\ after.step = "stored"
  BY <1>1, <1>3 DEF Overrides
<1>5. save' = [save EXCEPT ![k] = after]
  BY DEF Override, Returned
<1>6. stored' = [stored EXCEPT ![s] = row]
  BY DEF Override
<1>7. save'[k] = after
  BY <1>5 DEF EditTypeOK
<1>8. At(k, "stored")'
  <2> HIDE DEF after
  <2> QED BY <1>4, <1>7, NothingAssumption DEF At
<1> QED BY <1>1, <1>2, <1>3, <1>4, <1>5, <1>6, <1>8

LEMMA EditTypeInit == ASSUME EditInit PROVE EditTypeOK
<1>1. stored \in [Sessions -> Places] /\ first = stored
  BY EditingAssumption DEF EditInit
<1>2. shown \in [Editors -> [Sessions -> Places]]
  BY <1>1 DEF EditInit
<1>3. editing \in [Editors -> Forms \cup {Nothing}]
  BY DEF EditInit
<1>4. save \in [Saves -> Overrides \cup {Nothing}]
  BY DEF EditInit
<1>5. /\ made \in Nat
      /\ lost \in BOOLEAN /\ old \in BOOLEAN /\ warned \in BOOLEAN
  BY DEF EditInit
<1> QED BY <1>1, <1>2, <1>3, <1>4, <1>5 DEF EditTypeOK

LEMMA EditTypeStep == ASSUME EditTypeOK, [EditNext]_editVars PROVE EditTypeOK'
<1> USE NothingAssumption DEF EditTypeOK, auditVars
<1>1. ASSUME NEW e \in Editors, Reload(e) PROVE EditTypeOK'
  BY <1>1 DEF Reload
<1>2. ASSUME NEW e \in Editors, CloseForm(e) PROVE EditTypeOK'
  BY <1>2 DEF CloseForm
<1>3. ASSUME NEW e \in Editors, NEW s \in Sessions, ClickBlock(e, s) PROVE EditTypeOK'
  <2>1. Filled(s, shown[e][s]) \in Places
    BY FilledIsPlace
  <2> QED BY <1>3, <2>1 DEF ClickBlock, Forms
<1>4. ASSUME NEW e \in Editors, NEW k \in Saves, SaveForm(e, k) PROVE EditTypeOK'
  <2>1. editing[e] \in Forms
    BY <1>4 DEF SaveForm
  <2> QED BY <1>4, <2>1 DEF SaveForm, Forms, Overrides
<1>5. ASSUME NEW k \in Saves, FindAssignment(k) PROVE EditTypeOK'
  <2>1. save[k] \in Overrides
    BY <1>5 DEF FindAssignment, At
  <2>2. [save[k] EXCEPT !.step = "read", !.existing = stored[save[k].session]] \in Overrides
    BY <2>1 DEF Overrides
  <2> QED BY <1>5, <2>2 DEF FindAssignment
<1>6. ASSUME NEW k \in Saves, Refuse(k) PROVE EditTypeOK'
  BY <1>6 DEF Refuse, Done
<1>7. ASSUME NEW k \in Saves, Override(k) PROVE EditTypeOK'
  <2> DEFINE s == save[k].session
             row == Overwritten(stored[s], Body(save[k].seen, save[k].place), save[k].place)
  <2>1. s \in Sessions /\ row \in Places /\ stored' = [stored EXCEPT ![s] = row]
    BY <1>7, OverrideStep
  <2>2. stored' \in [Sessions -> Places]
    <3> HIDE DEF s, row
    <3> QED BY <2>1
  <2>3. save' \in [Saves -> Overrides \cup {Nothing}]
    BY <1>7, OverrideStep
  <2>4. old' \in BOOLEAN
    BY <1>7 DEF Override
  <2> QED BY <1>7, <2>2, <2>3, <2>4 DEF Override
<1>8. ASSUME NEW k \in Saves, Answer(k) PROVE EditTypeOK'
  <2>1. save[k] \in Overrides
    BY <1>8 DEF Answer, At
  <2>2. save[k].by \in Editors
    BY <2>1 DEF Overrides
  <2> QED BY <1>8, <2>2 DEF Answer, Done, WriteAudit, Create
<1>9. ASSUME NEW k \in Saves, Lose(k) PROVE EditTypeOK'
  BY <1>9 DEF Lose, Done, At
<1>10. CASE UNCHANGED editVars
  BY <1>10 DEF editVars
<1> QED BY <1>1, <1>2, <1>3, <1>4, <1>5, <1>6, <1>7, <1>8, <1>9, <1>10 DEF EditNext

\* Type correctness.
THEOREM EditTypeCorrect == EditSpec => []EditTypeOK
BY EditTypeInit, EditTypeStep, PTL DEF EditSpec

-----------------------------------------------------------------------------
(* What an edit changes.                                                   *)

\* Of all steps only a transaction changes the schedule.
LEMMA OnlyOverrideStores ==
  ASSUME EditTypeOK, [EditNext]_editVars, stored' # stored
  PROVE  \E k \in Saves : Override(k)
BY DEF EditNext, editVars, Reload, CloseForm, ClickBlock, SaveForm, FindAssignment, Refuse,
       Answer, Lose

\* An edit changes in the stored schedule only what its user changed in the
\* form (overrideAssignment, and the body ManualOverrideModal builds).
THEOREM OnlyWhatChangedCorrect == EditSpec => OnlyWhatChanged
<1> DEFINE Step ==
      \A s \in Sessions, f \in Fields : stored'[s][f] # stored[s][f] =>
        \E k \in Saves : /\ At(k, "read") /\ At(k, "stored")'
                         /\ save[k].session = s
                         /\ save[k].place[f] # save[k].seen[f]
<1>1. ASSUME EditTypeOK, [EditNext]_editVars PROVE Step
  <2> SUFFICES ASSUME NEW s \in Sessions, NEW f \in Fields, stored'[s][f] # stored[s][f]
               PROVE  \E k \in Saves : /\ At(k, "read") /\ At(k, "stored")'
                                       /\ save[k].session = s
                                       /\ save[k].place[f] # save[k].seen[f]
    OBVIOUS
  <2>1. PICK k \in Saves : Override(k)
    BY <1>1, OnlyOverrideStores
  <2> DEFINE row == Overwritten(stored[save[k].session],
                                Body(save[k].seen, save[k].place), save[k].place)
  <2>2. /\ save[k].session \in Sessions
        /\ stored' = [stored EXCEPT ![save[k].session] = row]
        /\ At(k, "stored")'
    BY <1>1, <2>1, OverrideStep
  <2>3. save[k].session = s /\ stored'[s] = row
    <3> HIDE DEF row
    <3> QED BY <1>1, <2>2 DEF EditTypeOK
  <2>4. f \in Body(save[k].seen, save[k].place)
    BY <1>1, <2>3 DEF Overwritten
  <2> QED BY <2>1, <2>2, <2>3, <2>4 DEF Override, Body
<1> QED BY <1>1, EditTypeCorrect, PTL DEF EditSpec, OnlyWhatChanged

-----------------------------------------------------------------------------
(* The audit trail.  A value is accounted for when the schedule started     *)
(* with it, when an entry has it, or when a request that stored it will     *)
(* write one, which it does if it read another value.  Both what is stored  *)
(* and what a request has read are accounted for: a request that stores the *)
(* value it read writes no entry, and relies on whoever put it there.       *)

Accounted(s, f, v) ==
  \/ v = first[s][f]
  \/ \E e \in trail : e.session = s /\ e.field = f /\ e.after = v
  \/ \E k \in Saves : /\ At(k, "stored")
                      /\ save[k].session = s
                      /\ save[k].updated[f] = v
                      /\ save[k].existing[f] # v

StoredAccounted == \A s \in Sessions, f \in Fields : Accounted(s, f, stored[s][f])
ReadAccounted ==
  \A k \in Saves : At(k, "read") \/ At(k, "stored") =>
    \A f \in Fields : Accounted(save[k].session, f, save[k].existing[f])

TrailInv == lost \/ (StoredAccounted /\ ReadAccounted)

\* A value stays accounted for as long as no request that stored is taken away.
LEMMA StillAccounted ==
  ASSUME NEW s, NEW f, NEW v,
         first' = first, trail \subseteq trail',
         \A k \in Saves : At(k, "stored") => save'[k] = save[k],
         Accounted(s, f, v)
  PROVE  Accounted(s, f, v)'
BY DEF Accounted, At

\* The invariant is kept when every value that is stored or has been read was
\* stored or read before, or is accounted for by what the step did.
LEMMA TrailKept ==
  ASSUME ~lost, TrailInv,
         \A s, v : \A f \in Fields : Accounted(s, f, v) => Accounted(s, f, v)',
         \A s \in Sessions, f \in Fields :
           stored'[s][f] = stored[s][f] \/ Accounted(s, f, stored[s][f])',
         \A k \in Saves : At(k, "read")' \/ At(k, "stored")' =>
           \/ /\ At(k, "read") \/ At(k, "stored")
              /\ save'[k].session = save[k].session
              /\ save'[k].existing = save[k].existing
           \/ /\ save'[k].session \in Sessions
              /\ save'[k].existing = stored[save'[k].session]
  PROVE  TrailInv'
<1>1. StoredAccounted /\ ReadAccounted
  BY DEF TrailInv
<1>2. StoredAccounted'
  <2> SUFFICES ASSUME NEW s \in Sessions, NEW f \in Fields,
                      NEW v, v = stored'[s][f], stored'[s][f] = stored[s][f]
               PROVE  Accounted(s, f, v)'
    BY DEF StoredAccounted, Accounted
  <2> QED BY <1>1 DEF StoredAccounted
<1>3. ReadAccounted'
  <2> SUFFICES ASSUME NEW k \in Saves, At(k, "read")' \/ At(k, "stored")', NEW f \in Fields,
                      NEW s, s = save'[k].session, NEW v, v = save'[k].existing[f]
               PROVE  Accounted(s, f, v)'
    BY DEF ReadAccounted, Accounted
  <2>1. Accounted(s, f, v)
    BY <1>1 DEF StoredAccounted, ReadAccounted
  <2> QED BY <2>1
<1> QED BY <1>2, <1>3 DEF TrailInv

LEMMA TrailStep ==
  ASSUME EditTypeOK, TrailInv, [EditNext]_editVars
  PROVE  TrailInv'
<1> SUFFICES ASSUME ~lost' PROVE TrailInv'
  BY DEF TrailInv
<1> USE DEF auditVars
\* Steps that touch no request that has read.
<1>1. ASSUME UNCHANGED <<stored, auditVars>>,
             \A k \in Saves : At(k, "read") \/ At(k, "stored") => save'[k] = save[k],
             \A k \in Saves : At(k, "read")' \/ At(k, "stored")' =>
               \/ save'[k] = save[k]
               \/ /\ save'[k].session \in Sessions
                  /\ save'[k].existing = stored[save'[k].session]
      PROVE  TrailInv'
  <2>1. \A s, f, v : Accounted(s, f, v) => Accounted(s, f, v)'
    BY <1>1, StillAccounted
  <2>2. \A k \in Saves : At(k, "read")' \/ At(k, "stored")' =>
          \/ /\ At(k, "read") \/ At(k, "stored")
             /\ save'[k].session = save[k].session
             /\ save'[k].existing = save[k].existing
          \/ /\ save'[k].session \in Sessions
             /\ save'[k].existing = stored[save'[k].session]
    BY <1>1 DEF At
  <2> QED BY <1>1, <2>1, <2>2, TrailKept
<1>2. CASE UNCHANGED <<stored, save, auditVars>>
  BY <1>1, <1>2
<1>3. ASSUME NEW e \in Editors, NEW k \in Saves, SaveForm(e, k) PROVE TrailInv'
  <2>1. /\ UNCHANGED <<stored, auditVars>>
        /\ save[k] = Nothing /\ save'[k].step = "sent"
        /\ \A j \in Saves \ {k} : save'[j] = save[j]
    BY <1>3 DEF SaveForm, EditTypeOK
  <2> QED BY <1>1, <2>1 DEF At
<1>4. ASSUME NEW k \in Saves, FindAssignment(k) PROVE TrailInv'
  <2>1. save[k] \in Overrides
    BY <1>4 DEF FindAssignment, At, EditTypeOK
  <2>2. /\ UNCHANGED <<stored, auditVars>>
        /\ save[k].step = "sent"
        /\ save'[k].session \in Sessions
        /\ save'[k].existing = stored[save'[k].session]
        /\ \A j \in Saves \ {k} : save'[j] = save[j]
    BY <1>4, <2>1 DEF FindAssignment, At, EditTypeOK, Overrides
  <2> QED BY <1>1, <2>2 DEF At
\* Requests that end without a trace: what they read accounted for nothing.
<1>5. ASSUME NEW k \in Saves, UNCHANGED <<stored, trail, first>>, ~lost,
             Done(k), ~At(k, "stored")
      PROVE  TrailInv'
  <2>1. /\ save'[k] = Nothing
        /\ \A j \in Saves \ {k} : save'[j] = save[j]
    BY <1>5 DEF Done, EditTypeOK
  <2>2. \A s, f, v : Accounted(s, f, v) => Accounted(s, f, v)'
    BY <1>5, <2>1, StillAccounted DEF At
  <2>3. \A j \in Saves : At(j, "read")' \/ At(j, "stored")' =>
          /\ At(j, "read") \/ At(j, "stored")
          /\ save'[j] = save[j]
    BY <2>1 DEF At
  <2> QED BY <1>5, <2>2, <2>3, TrailKept
<1>6. ASSUME NEW k \in Saves, Override(k) PROVE TrailInv'
  <2>1. PICK s \in Sessions, row \in Places, after \in Overrides :
          /\ s = save[k].session
          /\ after = [save[k] EXCEPT !.step = "stored", !.updated = row]
          /\ save[k] \in Overrides
          /\ stored' = [stored EXCEPT ![s] = row]
          /\ save' = [save EXCEPT ![k] = after]
          /\ At(k, "stored")'
    <3>1. LET s == save[k].session
              row == Overwritten(stored[s], Body(save[k].seen, save[k].place), save[k].place)
              after == [save[k] EXCEPT !.step = "stored", !.updated = row]
          IN /\ save[k] \in Overrides
             /\ s \in Sessions
             /\ row \in Places
             /\ stored' = [stored EXCEPT ![s] = row]
             /\ after \in Overrides
             /\ save' = [save EXCEPT ![k] = after]
             /\ At(k, "stored")'
      BY <1>6, OverrideStep
    <3> DEFINE row == Overwritten(stored[save[k].session],
                                  Body(save[k].seen, save[k].place), save[k].place)
               after == [save[k] EXCEPT !.step = "stored", !.updated = row]
    <3> USE <3>1
    <3> WITNESS save[k].session \in Sessions, row \in Places, after \in Overrides
    <3> QED OBVIOUS
  <2>2. after.updated = row /\ after.existing = save[k].existing /\ after.session = s
    BY <2>1 DEF Overrides
  <2>3. UNCHANGED auditVars /\ At(k, "read")
    BY <1>6 DEF Override
  <2>4. /\ save'[k] = after
        /\ \A j \in Saves \ {k} : save'[j] = save[j]
        /\ stored'[s] = row
        /\ \A o \in Sessions \ {s} : stored'[o] = stored[o]
    BY <2>1 DEF EditTypeOK
  <2>5. \A o, f, v : Accounted(o, f, v) => Accounted(o, f, v)'
    BY <2>3, <2>4, StillAccounted DEF At
  <2>6. ASSUME NEW f \in Fields PROVE Accounted(s, f, row[f])'
    <3>1. CASE save[k].existing[f] = row[f]
      <4>1. Accounted(s, f, save[k].existing[f])
        BY <2>1, <2>3 DEF TrailInv, ReadAccounted
      <4>2. Accounted(s, f, row[f])
        BY <3>1, <4>1
      <4> QED BY <4>2, <2>5
    <3>2. CASE save[k].existing[f] # row[f]
      <4>1. /\ save'[k].session = s /\ save'[k].updated = row
            /\ save'[k].existing = save[k].existing
        BY <2>2, <2>4
      <4>2. At(k, "stored")'
        BY <2>1
      <4> QED BY <3>2, <4>1, <4>2 DEF Accounted
    <3> QED BY <3>1, <3>2
  <2>7. \A o \in Sessions, f \in Fields :
          stored'[o][f] = stored[o][f] \/ Accounted(o, f, stored[o][f])'
    <3>1. ASSUME NEW o \in Sessions, NEW f \in Fields, o = s
          PROVE  Accounted(o, f, stored[o][f])'
      <4>1. Accounted(s, f, row[f])'
        BY <2>6
      <4> QED BY <2>4, <3>1, <4>1 DEF Accounted
    <3> QED BY <2>4, <3>1
  <2>8. \A j \in Saves : At(j, "read")' \/ At(j, "stored")' =>
          /\ At(j, "read") \/ At(j, "stored")
          /\ save'[j].session = save[j].session
          /\ save'[j].existing = save[j].existing
    BY <2>1, <2>2, <2>3, <2>4 DEF At
  <2> QED BY <2>3, <2>5, <2>7, <2>8, TrailKept
\* The entry takes over what the request that stored accounted for.
<1>7. ASSUME NEW k \in Saves, Answer(k) PROVE TrailInv'
  <2> DEFINE entry == {[session |-> save[k].session, field |-> f, after |-> save[k].updated[f]] :
                         f \in Diff(save[k].existing, save[k].updated)}
  <2>1. /\ UNCHANGED <<stored, first, lost>>
        /\ trail' = trail \cup entry
    BY <1>7 DEF Answer, WriteAudit, Create
  <2>2. /\ save'[k] = Nothing
        /\ \A j \in Saves \ {k} : save'[j] = save[j]
    BY <1>7 DEF Answer, Done, EditTypeOK
  <2>3. ASSUME NEW s, NEW f \in Fields, NEW v, Accounted(s, f, v)
        PROVE  Accounted(s, f, v)'
    <3>1. CASE v = first[s][f] \/ \E e \in trail : e.session = s /\ e.field = f /\ e.after = v
      BY <2>1, <3>1 DEF Accounted
    <3>2. CASE /\ save[k].session = s
               /\ save[k].updated[f] = v
               /\ save[k].existing[f] # v
      <4>1. [session |-> s, field |-> f, after |-> v] \in trail'
        BY <2>1, <3>2 DEF Diff
      <4> QED BY <4>1 DEF Accounted
    <3>3. CASE \E j \in Saves \ {k} : /\ At(j, "stored")
                                      /\ save[j].session = s
                                      /\ save[j].updated[f] = v
                                      /\ save[j].existing[f] # v
      BY <2>2, <3>3 DEF Accounted, At
    <3> QED BY <2>3, <3>1, <3>2, <3>3 DEF Accounted
  <2>4. \A j \in Saves : At(j, "read")' \/ At(j, "stored")' =>
          /\ At(j, "read") \/ At(j, "stored")
          /\ save'[j] = save[j]
    BY <2>2 DEF At
  <2> QED BY <2>1, <2>3, <2>4, TrailKept
<1>8. ASSUME NEW k \in Saves, Lose(k) PROVE TrailInv'
  <2>1. UNCHANGED <<stored, trail, first>> /\ ~lost /\ Done(k) /\ ~At(k, "stored")
    BY <1>8 DEF Lose
  <2> QED BY <1>5, <2>1
<1>9. ASSUME NEW k \in Saves, Refuse(k) PROVE TrailInv'
  <2>1. UNCHANGED <<stored, trail, first>> /\ ~lost /\ Done(k) /\ ~At(k, "stored")
    BY <1>9 DEF Refuse, At
  <2> QED BY <1>5, <2>1
<1>10. CASE [\E e \in Editors : \/ Reload(e) \/ CloseForm(e)
                               \/ \E s \in Sessions : ClickBlock(e, s)]_editVars
  BY <1>2, <1>10 DEF Reload, CloseForm, ClickBlock, editVars
<1> QED BY <1>3, <1>4, <1>6, <1>7, <1>8, <1>9, <1>10 DEF EditNext

\* The trail accounts for the schedule, though handlers interleave between
\* findAssignmentById, overrideAssignment and writeAudit.
THEOREM TrailAccountsCorrect == EditSpec => []TrailAccounts
<1>1. ASSUME EditInit PROVE TrailInv
  BY <1>1 DEF EditInit, TrailInv, StoredAccounted, ReadAccounted, Accounted, At
<1>2. ASSUME TrailInv PROVE TrailAccounts
  BY <1>2 DEF TrailInv, StoredAccounted, Accounted, TrailAccounts, At
<1> QED BY <1>1, <1>2, EditTypeCorrect, TrailStep, PTL DEF EditSpec

-----------------------------------------------------------------------------
(* Clashes.  A request that was saved without a warning would clash with    *)
(* nothing in the schedule its viewer showed; if that is still the schedule *)
(* when it is stored, the row it leaves is the place of the form.           *)

Unwarned ==
  \A k \in Saves : save[k] # Nothing =>
    /\ save[k].place.lecturers # {}
    /\ Conflicts(save[k].basis, save[k].session, save[k].place) = {}

\* Whether a request is warned of does not depend on the state.
LEMMA RequestUnwarned ==
  ASSUME NEW k, NEW basis, NEW s, NEW place,
         save'[k].basis = basis, save'[k].session = s, save'[k].place = place,
         place.lecturers # {}, Conflicts(basis, s, place) = {}
  PROVE  /\ save'[k].place.lecturers # {}
         /\ Conflicts(save[k].basis, save[k].session, save[k].place)' = {}
BY DEF Conflicts

ClashInv == NoClashUnseen /\ (warned \/ Unwarned)

\* The fields that the body does not name are those of the row, so the row is
\* what the form shows, with lecturers of its own or its offering's.
LEMMA RowIsForm ==
  ASSUME NEW s \in Sessions, NEW old0 \in Places, NEW place \in Places, place.lecturers # {}
  PROVE  LET row == Overwritten(old0, Body(Filled(s, old0), place), place)
         IN /\ row.slots = place.slots /\ row.room = place.room
            /\ Teaching(s, row) = Teaching(s, place)
<1> DEFINE seen == Filled(s, old0)
           row == Overwritten(old0, Body(seen, place), place)
<1>1. seen.slots = old0.slots /\ seen.room = old0.room /\ seen.lecturers = Teaching(s, old0)
  BY DEF Filled, Places
<1>2. \A f \in Fields : row[f] = IF place[f] # seen[f] THEN place[f] ELSE old0[f]
  BY DEF Overwritten, Body
<1>3. "room" \in Fields /\ "slots" \in Fields /\ "lecturers" \in Fields
  BY DEF Fields
<1> HIDE DEF row, seen
<1>4. row.slots = place.slots /\ row.room = place.room
  BY <1>1, <1>2, <1>3
<1>5. Teaching(s, row) = Teaching(s, place)
  BY <1>1, <1>2, <1>3 DEF Teaching
<1> QED BY <1>4, <1>5 DEF row, seen

LEMMA ClashStep ==
  ASSUME EditTypeOK, ClashInv, [EditNext]_editVars
  PROVE  ClashInv'
<1> USE DEF auditVars
\* Steps that store nothing and save nothing.
<1>1. ASSUME UNCHANGED <<stored, first, old, warned>>,
             \A k \in Saves : save'[k] # Nothing =>
               /\ save[k] # Nothing
               /\ save'[k].session = save[k].session /\ save'[k].place = save[k].place
               /\ save'[k].basis = save[k].basis
      PROVE  ClashInv'
  <2>1. NoClashUnseen'
    BY <1>1 DEF ClashInv, NoClashUnseen, ClashFree
  <2>2. Unwarned => Unwarned'
    BY <1>1, RequestUnwarned DEF Unwarned
  <2> QED BY <1>1, <2>1, <2>2 DEF ClashInv
<1>2. CASE UNCHANGED <<stored, save, first, old, warned>>
  BY <1>1, <1>2
<1>3. ASSUME NEW e \in Editors, NEW k \in Saves, SaveForm(e, k) PROVE ClashInv'
  <2>1. PICK place \in Places :
          /\ place.lecturers # {}
          /\ save'[k].place = place /\ save'[k].session = editing[e].session
          /\ save'[k].basis = shown[e]
          /\ warned' = (warned \/ Conflicts(shown[e], editing[e].session, place) # {})
    BY <1>3 DEF SaveForm, Valid, EditTypeOK
  <2>2. UNCHANGED <<stored, first, old>> /\ \A j \in Saves \ {k} : save'[j] = save[j]
    BY <1>3 DEF SaveForm, EditTypeOK
  <2>3. ASSUME ~warned' PROVE Unwarned'
    <3>1. ~warned /\ Conflicts(shown[e], editing[e].session, place) = {}
      BY <2>1, <2>3
    <3>2. Conflicts(save'[k].basis, save'[k].session, save'[k].place) = {}
      BY <2>1, <3>1
    <3> QED BY <2>1, <2>2, <3>1, <3>2 DEF ClashInv, Unwarned, Conflicts
  <2>4. NoClashUnseen'
    BY <2>1, <2>2, ZenonT(40) DEF ClashInv, NoClashUnseen, ClashFree
  <2> QED BY <2>3, <2>4 DEF ClashInv
<1>4. ASSUME NEW k \in Saves, FindAssignment(k) PROVE ClashInv'
  <2>1. save[k] \in Overrides /\ save[k] # Nothing
    BY <1>4 DEF FindAssignment, At, EditTypeOK
  <2>2. /\ save'[k].session = save[k].session /\ save'[k].place = save[k].place
        /\ save'[k].basis = save[k].basis
        /\ \A j \in Saves \ {k} : save'[j] = save[j]
    BY <1>4, <2>1 DEF FindAssignment, EditTypeOK, Overrides
  <2> QED BY <1>1, <1>4, <2>1, <2>2 DEF FindAssignment
<1>5. ASSUME NEW k \in Saves, Done(k), UNCHANGED <<stored, first, old, warned>> PROVE ClashInv'
  <2>1. save'[k] = Nothing /\ \A j \in Saves \ {k} : save'[j] = save[j]
    BY <1>5 DEF Done, EditTypeOK
  <2> QED BY <1>1, <1>5, <2>1
<1>6. ASSUME NEW k \in Saves, Override(k) PROVE ClashInv'
  <2> DEFINE s == save[k].session
             place == save[k].place
             row == Overwritten(stored[s], Body(save[k].seen, place), place)
             after == [save[k] EXCEPT !.step = "stored", !.updated = row]
  <2>1. /\ save[k] \in Overrides /\ save[k] # Nothing
        /\ s \in Sessions /\ place \in Places /\ row \in Places
        /\ stored' = [stored EXCEPT ![s] = row]
        /\ save' = [save EXCEPT ![k] = after]
    BY <1>6, OverrideStep DEF Override, At, Overrides
  <2>2. after.session = s /\ after.place = place /\ after.basis = save[k].basis
    BY <2>1 DEF Overrides
  <2>3. UNCHANGED <<first, warned>>
    BY <1>6 DEF Override
  <2>4. warned' \/ Unwarned'
    <3> HIDE DEF after
    <3>1. save'[k] = after /\ \A j \in Saves \ {k} : save'[j] = save[j]
      BY <2>1 DEF EditTypeOK
    <3>2. ASSUME Unwarned PROVE Unwarned'
      <4> SUFFICES ASSUME NEW j \in Saves, save'[j] # Nothing
                   PROVE  /\ save'[j].place.lecturers # {}
                          /\ Conflicts(save[j].basis, save[j].session, save[j].place)' = {}
        BY DEF Unwarned
      <4>1. /\ save[j] # Nothing
            /\ save'[j].basis = save[j].basis
            /\ save'[j].session = save[j].session
            /\ save'[j].place = save[j].place
        BY <2>1, <2>2, <3>1
      <4>2. /\ save[j].place.lecturers # {}
            /\ Conflicts(save[j].basis, save[j].session, save[j].place) = {}
        BY <3>2, <4>1 DEF Unwarned
      <4> QED BY <4>1, <4>2, RequestUnwarned
    <3> QED BY <2>3, <3>2 DEF ClashInv
  <2>5. ASSUME ~old', ~warned, ClashFree(first) PROVE ClashFree(stored)'
    <3>1. ~old /\ save[k].basis = stored /\ save[k].seen = Filled(s, stored[s])
      BY <1>6, <2>5 DEF Override
    <3>2. ClashFree(stored) /\ place.lecturers # {} /\ Conflicts(stored, s, place) = {}
      BY <2>1, <2>5, <3>1 DEF ClashInv, NoClashUnseen, Unwarned
    <3>3. row.slots = place.slots /\ row.room = place.room /\ Teaching(s, row) = Teaching(s, place)
      BY <2>1, <3>1, <3>2, RowIsForm DEF EditTypeOK
    <3>4. \A o \in Sessions \ {s} : stored[o].slots \cap row.slots # {} =>
            /\ stored[o].room # row.room
            /\ Teaching(o, stored[o]) \cap Teaching(s, row) = {}
      BY <3>2, <3>3 DEF Conflicts
    <3> HIDE DEF row, s, place
    <3>5. stored'[s] = row /\ \A o \in Sessions \ {s} : stored'[o] = stored[o]
      BY <2>1 DEF EditTypeOK
    <3>6. ASSUME NEW o \in Sessions, NEW p \in Sessions, o # p,
                 stored'[o].slots \cap stored'[p].slots # {}
          PROVE  /\ stored'[o].room # stored'[p].room
                 /\ Teaching(o, stored'[o]) \cap Teaching(p, stored'[p]) = {}
      <4>1. CASE o = s
        BY <3>4, <3>5, <3>6, <4>1
      <4>2. CASE p = s
        BY <3>4, <3>5, <3>6, <4>2
      <4>3. CASE o # s /\ p # s
        BY <3>2, <3>5, <3>6, <4>3 DEF ClashFree
      <4> QED BY <4>1, <4>2, <4>3
    <3> QED BY <3>6 DEF ClashFree, Teaching
  <2>6. NoClashUnseen'
    <3>1. ClashFree(first)' => ClashFree(first)
      BY <2>3 DEF ClashFree
    <3> QED BY <2>3, <2>5, <3>1 DEF NoClashUnseen
  <2> QED BY <2>4, <2>6 DEF ClashInv
<1>7. ASSUME NEW k \in Saves, Refuse(k) \/ Answer(k) \/ Lose(k) PROVE ClashInv'
  BY <1>5, <1>7 DEF Refuse, Answer, WriteAudit, Lose
<1>8. CASE [\E e \in Editors : \/ Reload(e) \/ CloseForm(e)
                              \/ \E s \in Sessions : ClickBlock(e, s)]_editVars
  BY <1>2, <1>8 DEF Reload, CloseForm, ClickBlock, editVars
<1> QED BY <1>3, <1>4, <1>6, <1>7, <1>8 DEF EditNext

\* Edits that were not warned of and not made on an outdated schedule bring no
\* clash in (ManualOverrideModal's conflicts, and overrideAssignment).
THEOREM NoClashUnseenCorrect == EditSpec => []NoClashUnseen
<1>1. ASSUME EditInit PROVE ClashInv
  BY <1>1 DEF EditInit, ClashInv, NoClashUnseen, Unwarned
<1>2. ASSUME ClashInv PROVE NoClashUnseen
  BY <1>2 DEF ClashInv
<1> QED BY <1>1, <1>2, EditTypeCorrect, ClashStep, PTL DEF EditSpec

-----------------------------------------------------------------------------
(***************************************************************************)
(* Rate limiting: the log holds the hits of the window, and whoever waits as *)
(* told is let in.                                                         *)
(***************************************************************************)

Less == {p \in Nat \X Nat : p[1] < p[2]}
LEMMA LessWF == IsWellFoundedOn(Less, Nat)
  BY NatLessThanWellFounded DEF OpToRel, Less
\* A set of naturals that has a member has a least one.
LEMMA LeastNatural ==
  ASSUME NEW S \in SUBSET Nat, S # {}
  PROVE  \E n \in S : \A m \in S : n <= m
<1>1. PICK n \in S : \A m \in S : <<m, n>> \notin Less
  BY LessWF, WFMin
<1>2. ASSUME NEW m \in S PROVE n <= m
  <2>1. m \in Nat /\ n \in Nat /\ <<m, n>> \notin Less BY <1>1
  <2>2. ~(m < n) BY <2>1 DEF Less
  <2> QED BY <2>1, <2>2
<1> QED BY <1>2

-----------------------------------------------------------------------------
(* The window log                                                          *)

\* What has been forgotten of the log is out of the window, what is kept is the
\* rest of it, and whoever was refused has been told to wait for its head.
LogFits ==
  /\ now \in Nat /\ bucket \in Seq(Nat) /\ hits \in Seq(Nat) /\ retryAt \in Nat \cup {-1}
  /\ Len(bucket) <= Len(hits) /\ Len(bucket) <= Max
  /\ \A i \in 1..Len(hits) : hits[i] <= now
  /\ \A i, j \in 1..Len(hits) : i <= j => hits[i] <= hits[j]
  /\ \A i \in 1..Len(bucket) : bucket[i] = hits[Len(hits) - Len(bucket) + i]
  /\ \A i \in 1..(Len(hits) - Len(bucket)) : ~Fresh(hits[i])
HeadAwaited == retryAt # -1 => Len(bucket) > 0 /\ retryAt >= bucket[1] + Window

LogInv == LogFits /\ HeadAwaited /\ WindowHolds

\* The loop over the head of the bucket ends.
LEMMA FirstFreshIs ==
  ASSUME LogFits
  PROVE  /\ FirstFresh \in 1..(Len(bucket) + 1)
         /\ \A i \in 1..(FirstFresh - 1) : ~Fresh(bucket[i])
         /\ FirstFresh <= Len(bucket) => Fresh(bucket[FirstFresh])
<1> DEFINE S == {n \in 1..(Len(bucket) + 1) : n <= Len(bucket) => Fresh(bucket[n])}
<1>1. Len(bucket) \in Nat BY DEF LogFits
<1>2. Len(bucket) + 1 \in S BY <1>1
<1>3. S \in SUBSET Nat BY <1>1
<1>4. PICK n \in S : \A m \in S : n <= m
  <2> HIDE DEF S
  <2> QED BY <1>2, <1>3, LeastNatural
<1>5. ASSUME NEW i \in 1..(n - 1) PROVE ~Fresh(bucket[i])
  <2>1. i \in 1..(Len(bucket) + 1) /\ i <= Len(bucket) /\ i < n BY <1>1
  <2>2. i \notin S BY <1>3, <1>4, <2>1
  <2> QED BY <2>1, <2>2
<1>6. n \in 1..(Len(bucket) + 1) /\ (n <= Len(bucket) => Fresh(bucket[n])) OBVIOUS
<1> HIDE DEF S
<1>7. \E m \in 1..(Len(bucket) + 1) :
        /\ \A i \in 1..(m - 1) : ~Fresh(bucket[i])
        /\ m <= Len(bucket) => Fresh(bucket[m])
  BY <1>5, <1>6
<1> QED BY <1>7 DEF FirstFresh

\* What is kept is the end of the log, and all of it that is in the window.
LEMMA KeptIs ==
  ASSUME LogFits
  PROVE  /\ Kept \in Seq(Nat) /\ Len(Kept) \in Nat
         /\ Len(Kept) <= Len(bucket)
         /\ \A i \in 1..Len(Kept) : Kept[i] = hits[Len(hits) - Len(Kept) + i]
         /\ \A i \in 1..(Len(hits) - Len(Kept)) : ~Fresh(hits[i])
         /\ Len(Kept) = Len(bucket) /\ Len(bucket) > 0 => Fresh(bucket[1])
<1> DEFINE n == FirstFresh
           b == Len(bucket)
           h == Len(hits)
<1>1. n \in 1..(b + 1) /\ b \in Nat /\ h \in Nat /\ b <= h BY FirstFreshIs DEF LogFits
<1>2. bucket \in Seq(Nat) BY DEF LogFits
<1>3. \A i \in n..b : bucket[i] \in Nat BY <1>1, <1>2, ElementOfSeq
<1>4. /\ Kept \in Seq(Nat)
      /\ Len(Kept) = b - n + 1
      /\ \A i \in 1..(b - n + 1) : Kept[i] = bucket[n + i - 1]
  BY <1>1, <1>2, <1>3, SubSeqProperties DEF Kept
<1> HIDE DEF n
<1>5. ASSUME NEW i \in 1..Len(Kept) PROVE Kept[i] = hits[h - Len(Kept) + i]
  <2>1. n + i - 1 \in 1..b /\ i \in 1..(b - n + 1) BY <1>1, <1>4
  <2>2. bucket[n + i - 1] = hits[h - b + (n + i - 1)] BY <2>1 DEF LogFits
  <2>3. h - b + (n + i - 1) = h - Len(Kept) + i BY <1>1, <1>4
  <2> QED BY <1>4, <2>1, <2>2, <2>3
<1>6. ASSUME NEW i \in 1..(h - Len(Kept)) PROVE ~Fresh(hits[i])
  <2>1. CASE i <= h - b BY <2>1, <1>1 DEF LogFits
  <2>2. CASE i > h - b
    <3>1. i - (h - b) \in 1..(n - 1) /\ i - (h - b) \in 1..b BY <2>2, <1>1, <1>4
    <3>2. ~Fresh(bucket[i - (h - b)]) BY <3>1, FirstFreshIs DEF n
    <3>3. bucket[i - (h - b)] = hits[h - b + (i - (h - b))] BY <3>1 DEF LogFits
    <3>4. h - b + (i - (h - b)) = i BY <1>1
    <3> QED BY <3>2, <3>3, <3>4
  <2> QED BY <2>1, <2>2, <1>1
<1>7. Len(Kept) = b /\ b > 0 => n = 1 /\ n <= b BY <1>1, <1>4
<1> QED BY <1>1, <1>4, <1>5, <1>6, <1>7, FirstFreshIs DEF n

\* Whole seconds that are no less than the wait.
LEMMA RoundedUp ==
  ASSUME NEW wait \in Nat
  PROVE  /\ (wait + Second - 1) \div Second \in Nat
         /\ ((wait + Second - 1) \div Second) * Second >= wait
<1> DEFINE a == wait + Second - 1
<1>1. a \in Nat /\ Second \in Nat /\ Second > 0 BY SecondAssumption
<1>2. a - Second < (a \div Second) * Second /\ a \div Second \in Nat
  <2> HIDE DEF a
  <2>1. (a \div Second) * Second > a - Second BY <1>1
  <2>2. a \div Second \in Int /\ a \div Second >= 0 BY <1>1
  <2> QED BY <2>1, <2>2, <1>1
<1> DEFINE p == (a \div Second) * Second
<1>3. p \in Int BY <1>1, <1>2
<1>4. p > wait - 1
  <2>1. a - Second = wait - 1 BY <1>1
  <2> HIDE DEF a
  <2> QED BY <1>2, <2>1
<1> HIDE DEF p
<1>5. p >= wait BY <1>3, <1>4
<1> QED BY <1>2, <1>5 DEF p

LEMMA RetryAfterIs ==
  ASSUME LogFits, Len(Kept) >= Max
  PROVE  /\ Len(Kept) > 0 /\ Kept[1] \in Nat
         /\ RetryAfter \in Nat /\ RetryAfter * Second \in Nat
         /\ now + RetryAfter * Second >= Kept[1] + Window
<1>1. Len(Kept) \in Nat /\ Len(Kept) > 0 BY KeptIs, MaxAssumption
<1>2. Kept[1] \in Nat BY <1>1, KeptIs, ElementOfSeq
<1>3. Fresh(Kept[1])
  <2>1. 1 \in 1..Len(Kept) BY <1>1
  <2> DEFINE n == FirstFresh
  <2>2. n \in 1..(Len(bucket) + 1) /\ Len(bucket) \in Nat /\ bucket \in Seq(Nat)
    BY FirstFreshIs DEF LogFits
  <2>3. /\ Len(Kept) = Len(bucket) - n + 1
        /\ \A i \in 1..(Len(bucket) - n + 1) : Kept[i] = bucket[n + i - 1]
    <3>1. \A i \in n..Len(bucket) : bucket[i] \in Nat BY <2>2, ElementOfSeq
    <3> QED BY <2>2, <3>1, SubSeqProperties DEF Kept
  <2>4. n <= Len(bucket) /\ n + 1 - 1 = n BY <1>1, <2>2, <2>3
  <2> QED BY <2>1, <2>3, <2>4, FirstFreshIs
<1> DEFINE wait == Kept[1] + Window - now
<1>4. now \in Nat /\ Window \in Nat /\ Second \in Nat /\ Second > 0
  BY WindowAssumption, SecondAssumption DEF LogFits
<1>5. wait \in Nat BY <1>2, <1>3, <1>4 DEF Fresh
<1> DEFINE secs == (wait + Second - 1) \div Second
<1>6. secs \in Nat /\ secs * Second >= wait /\ secs * Second \in Nat
  <2> HIDE DEF wait
  <2>1. secs \in Nat /\ secs * Second >= wait BY <1>5, RoundedUp
  <2> HIDE DEF secs
  <2> QED BY <2>1, <1>4
<1>7. RetryAfter = IF secs = 0 THEN 1 ELSE secs BY DEF RetryAfter
<1> HIDE DEF secs
<1>8. RetryAfter \in Nat /\ RetryAfter * Second \in Nat /\ RetryAfter * Second >= wait
  <2>1. CASE secs = 0 BY <2>1, <1>4, <1>5, <1>6, <1>7
  <2>2. CASE secs # 0 BY <2>2, <1>6, <1>7
  <2> QED BY <2>1, <2>2
<1> QED BY <1>1, <1>2, <1>4, <1>8

-----------------------------------------------------------------------------
(* A hit and a tick                                                        *)

LEMMA HitFits == LogInv /\ Hit => LogInv'
<1> SUFFICES ASSUME LogInv, Hit PROVE LogInv'
  OBVIOUS
<1> USE MaxAssumption, WindowAssumption
<1> DEFINE k == Len(Kept)
           h == Len(hits)
<1>1. /\ now \in Nat /\ hits \in Seq(Nat) /\ h \in Nat /\ now' = now
      /\ \A i \in 1..h : hits[i] \in Nat /\ hits[i] <= now
  BY ElementOfSeq DEF LogInv, LogFits, Hit
<1>2. /\ Kept \in Seq(Nat) /\ k \in Nat /\ k <= Len(bucket) /\ k <= h /\ k <= Max
      /\ \A i \in 1..k : Kept[i] = hits[h - k + i]
      /\ \A i \in 1..(h - k) : ~Fresh(hits[i])
  BY KeptIs, <1>1 DEF LogInv, LogFits
<1>3. CASE k < Max
  <2>1. /\ bucket' = Append(Kept, now) /\ hits' = Append(hits, now) /\ retryAt' = -1
    BY <1>3 DEF Hit
  <2>2. /\ bucket' \in Seq(Nat) /\ Len(bucket') = k + 1 /\ bucket'[k + 1] = now
        /\ \A i \in 1..k : bucket'[i] = Kept[i]
    BY <1>1, <1>2, <2>1, AppendProperties
  <2>3. /\ hits' \in Seq(Nat) /\ Len(hits') = h + 1 /\ hits'[h + 1] = now
        /\ \A i \in 1..h : hits'[i] = hits[i]
    BY <1>1, <2>1, AppendProperties
  <2>4. \A i \in 1..(h + 1) : hits'[i] <= now' BY <1>1, <2>3, SMTT(30)
  <2>5. \A i, j \in 1..(h + 1) : i <= j => hits'[i] <= hits'[j]
    <3> SUFFICES ASSUME NEW i \in 1..(h + 1), NEW j \in 1..(h + 1), i <= j
                 PROVE  hits'[i] <= hits'[j]
      OBVIOUS
    <3>1. CASE j = h + 1 BY <3>1, <1>1, <2>3, <2>4
    <3>2. CASE j # h + 1
      <4>1. i \in 1..h /\ j \in 1..h BY <3>2, <1>1
      <4> QED BY <4>1, <2>3 DEF LogInv, LogFits
    <3> QED BY <3>1, <3>2
  <2>6. \A i \in 1..(k + 1) : bucket'[i] = hits'[(h + 1) - (k + 1) + i]
    <3> SUFFICES ASSUME NEW i \in 1..(k + 1) PROVE bucket'[i] = hits'[(h + 1) - (k + 1) + i]
      OBVIOUS
    <3>1. (h + 1) - (k + 1) + i = h - k + i BY <1>1, <1>2
    <3>2. CASE i = k + 1
      <4>1. h - k + i = h + 1 BY <3>2, <1>1, <1>2
      <4> QED BY <4>1, <3>1, <3>2, <2>2, <2>3
    <3>3. CASE i # k + 1
      <4>1. i \in 1..k /\ h - k + i \in 1..h BY <3>3, <1>1, <1>2
      <4> QED BY <4>1, <3>1, <1>2, <2>2, <2>3
    <3> QED BY <3>2, <3>3
  <2>7. \A i \in 1..((h + 1) - (k + 1)) : ~Fresh(hits[i])'
    <3> SUFFICES ASSUME NEW i \in 1..((h + 1) - (k + 1)) PROVE ~Fresh(hits[i])'
      OBVIOUS
    <3>1. i \in 1..(h - k) /\ i \in 1..h BY <1>1, <1>2
    <3>2. hits'[i] = hits[i] /\ ~Fresh(hits[i]) BY <3>1, <1>2, <2>3
    <3> QED BY <3>2, <1>1 DEF Fresh
  <2>8. LogFits'
    <3>1. k + 1 <= h + 1 /\ k + 1 <= Max BY <1>1, <1>2, <1>3
    <3>2. now' \in Nat /\ retryAt' \in Nat \cup {-1} BY <1>1, <2>1
    <3> HIDE DEF h, k
    <3> QED BY <3>1, <3>2, <2>2, <2>3, <2>4, <2>5, <2>6, <2>7 DEF LogFits
  <2>9. WindowHolds'
    <3> SUFFICES ASSUME NEW i \in 1..(h + 1), NEW j \in i..(h + 1),
                        hits'[j] - hits'[i] < Window
                 PROVE  j - i < Max
      BY <2>3 DEF WindowHolds
    <3>1. CASE j = h + 1
      <4>1. CASE i = h + 1 BY <3>1, <4>1, <1>1
      <4>2. CASE i # h + 1
        <5>1. i \in 1..h BY <4>2, <1>1
        <5>2. hits'[i] = hits[i] /\ hits'[j] = now /\ hits[i] \in Nat BY <5>1, <3>1, <2>3, <1>1
        <5>3. Fresh(hits[i]) BY <5>2, <1>1 DEF Fresh
        <5>4. i \notin 1..(h - k) BY <5>3, <1>2
        <5>5. i > h - k BY <5>1, <5>4, <1>1, <1>2
        <5> QED BY <5>1, <5>5, <3>1, <1>1, <1>2, <1>3
      <4> QED BY <4>1, <4>2
    <3>2. CASE j # h + 1
      <4>1. i \in 1..h /\ j \in i..h /\ j \in 1..h BY <3>2, <1>1
      <4>2. hits[j] - hits[i] < Window BY <4>1, <2>3
      <4> QED BY <4>1, <4>2 DEF LogInv, WindowHolds
    <3> QED BY <3>1, <3>2
  <2> QED BY <2>1, <2>8, <2>9 DEF LogInv, HeadAwaited
<1>4. CASE ~(k < Max)
  <2>1. /\ bucket' = Kept /\ hits' = hits /\ retryAt' = now + RetryAfter * Second
    BY <1>4 DEF Hit
  <2>2. /\ k > 0 /\ Kept[1] \in Nat /\ RetryAfter * Second \in Nat
        /\ retryAt' >= Kept[1] + Window
    <3>1. k >= Max BY <1>2, <1>4
    <3> QED BY <3>1, <2>1, RetryAfterIs DEF LogInv
  <2>3. retryAt' \in Nat /\ now' \in Nat
    <3> DEFINE p == RetryAfter * Second
    <3>1. p \in Nat /\ retryAt' = now + p BY <2>1, <2>2
    <3> HIDE DEF p
    <3> QED BY <3>1, <1>1
  <2>4. \A i \in 1..(h - k) : ~Fresh(hits[i])'
    BY <1>1, <1>2, <2>1 DEF Fresh
  <2>5. LogFits'
    <3>1. \A i, j \in 1..h : i <= j => hits[i] <= hits[j] BY DEF LogInv, LogFits
    <3> HIDE DEF h, k
    <3>2. Len(bucket)' = k /\ Len(hits)' = h BY <2>1 DEF h, k
    <3> QED BY <1>1, <1>2, <2>1, <2>3, <2>4, <3>1, <3>2 DEF LogFits
  <2>6. HeadAwaited' BY <2>1, <2>2 DEF HeadAwaited
  <2>7. WindowHolds' BY <2>1 DEF WindowHolds, LogInv
  <2> QED BY <2>5, <2>6, <2>7 DEF LogInv
<1> QED BY <1>3, <1>4

LEMMA TickFits == LogInv /\ Tick => LogInv'
<1> SUFFICES ASSUME LogInv, Tick PROVE LogInv'
  OBVIOUS
<1>1. /\ now \in Nat /\ now' = now + 1 /\ Window \in Nat
      /\ bucket' = bucket /\ hits' = hits /\ retryAt' = retryAt
      /\ hits \in Seq(Nat) /\ Len(hits) \in Nat
      /\ bucket \in Seq(Nat) /\ Len(bucket) \in Nat /\ Len(bucket) <= Len(hits)
  BY WindowAssumption DEF LogInv, LogFits, Tick
<1>2. \A i \in 1..Len(hits) : hits[i] \in Nat BY <1>1, ElementOfSeq
<1>3. \A i \in 1..Len(hits)' : hits'[i] <= now' BY <1>1, <1>2 DEF LogInv, LogFits
<1>4. \A i \in 1..(Len(hits)' - Len(bucket)') : ~Fresh(hits[i])'
  <2> SUFFICES ASSUME NEW i \in 1..(Len(hits) - Len(bucket)) PROVE ~Fresh(hits[i])'
    BY <1>1
  <2>1. i \in 1..Len(hits) BY <1>1
  <2>2. ~Fresh(hits[i]) BY DEF LogInv, LogFits
  <2> QED BY <1>1, <1>2, <2>1, <2>2 DEF Fresh
<1>5. LogFits' BY <1>1, <1>3, <1>4 DEF LogInv, LogFits
<1> QED BY <1>1, <1>5 DEF LogInv, HeadAwaited, WindowHolds

LEMMA LogAlways == LimiterSpec => []LogInv
<1>1. LimiterInit => LogInv
  BY MaxAssumption, EmptySeq DEF LimiterInit, LogInv, LogFits, HeadAwaited, WindowHolds
<1>2. LogInv /\ [LimiterNext]_limiterVars => LogInv'
  <2> SUFFICES ASSUME LogInv, [LimiterNext]_limiterVars PROVE LogInv'
    OBVIOUS
  <2>1. CASE UNCHANGED limiterVars
    BY <2>1 DEF limiterVars, LogInv, LogFits, HeadAwaited, WindowHolds, Fresh
  <2> QED BY <2>1, HitFits, TickFits DEF LimiterNext
<1> QED BY <1>1, <1>2, PTL DEF LimiterSpec

\* In no window of the clock does hit let more than max attempts through, for
\* any max and window, however attempts, refusals and time are interleaved.
THEOREM WindowHoldsCorrect == LimiterSpec => []WindowHolds
<1>1. LogInv => WindowHolds BY DEF LogInv
<1> QED BY <1>1, LogAlways, PTL

\* Retry-After, which is in whole seconds, is long enough: the head of the log
\* is out of the window when it has passed.
THEOREM RetryIsEnoughCorrect == LimiterSpec => []RetryIsEnough
<1>1. LogInv => RetryIsEnough
  <2> SUFFICES ASSUME LogInv, retryAt # -1, now >= retryAt PROVE Len(Kept) < Max
    BY DEF RetryIsEnough
  <2>1. /\ now \in Nat /\ retryAt \in Nat /\ Len(bucket) \in Nat /\ Len(bucket) > 0 /\ Len(bucket) <= Max
        /\ retryAt >= bucket[1] + Window /\ bucket \in Seq(Nat)
    BY DEF LogInv, LogFits, HeadAwaited
  <2>2. bucket[1] \in Nat BY <2>1, ElementOfSeq
  <2>3. ~Fresh(bucket[1]) BY <2>1, <2>2, WindowAssumption DEF Fresh
  <2>4. /\ Len(Kept) \in Nat /\ Len(Kept) <= Len(bucket)
        /\ Len(Kept) = Len(bucket) /\ Len(bucket) > 0 => Fresh(bucket[1])
    BY KeptIs DEF LogInv
  <2> QED BY <2>1, <2>3, <2>4, MaxAssumption
<1> QED BY <1>1, LogAlways, PTL
=============================================================================
