---------------------------- MODULE RunContract ----------------------------
(***************************************************************************)
(* What a schedule run is to the people who use it: it is submitted, it    *)
(* begins, it is decided once, and it can be removed when it is not        *)
(* running.  A decision is for ever, and a run that has begun or waits is  *)
(* decided in the end.  README.md draws this machine under "Run lifecycle  *)
(* states"; RunLifecycle is the program that has to implement it.          *)
(***************************************************************************)
CONSTANT Runs

VARIABLES
  status,    \* the state each run is in
  assigned   \* the runs that have a schedule

vars == <<status, assigned>>

Init == status = [r \in Runs |-> "none"] /\ assigned = {}

Moves(r, from, to) == status[r] \in from /\ status' = [status EXCEPT ![r] = to]

Submit(r) == Moves(r, {"none"}, "QUEUED") /\ UNCHANGED assigned

Begin(r) == Moves(r, {"QUEUED"}, "RUNNING") /\ UNCHANGED assigned

\* The schedule appears while the run is running, and only once.
Schedule(r) ==
  /\ status[r] = "RUNNING"
  /\ r \notin assigned
  /\ assigned' = assigned \cup {r}
  /\ UNCHANGED status

Succeed(r) ==
  /\ r \in assigned
  /\ \E v \in {"COMPLETED", "STAGNATED"} : Moves(r, {"RUNNING"}, v)
  /\ UNCHANGED assigned

Refuse(r) ==
  /\ r \notin assigned
  /\ \E v \in {"PRE_GA_EMPTY", "SSA_INFEASIBLE"} : Moves(r, {"RUNNING"}, v)
  /\ UNCHANGED assigned

Fail(r) == Moves(r, {"QUEUED", "RUNNING"}, "FAILED") /\ UNCHANGED assigned

Cancel(r) == Moves(r, {"QUEUED", "RUNNING"}, "CANCELLED") /\ UNCHANGED assigned

Remove(r) ==
  /\ status[r] \notin {"none", "RUNNING"}
  /\ status' = [status EXCEPT ![r] = "deleted"]
  /\ assigned' = assigned \ {r}

Decide(r) == Succeed(r) \/ Refuse(r) \/ Fail(r) \/ Cancel(r)

Next ==
  \E r \in Runs : Submit(r) \/ Begin(r) \/ Schedule(r) \/ Decide(r) \/ Remove(r)

Spec == Init /\ [][Next]_vars

\* Once submitted, a run is driven to its decision.
FairSpec == Spec /\ \A r \in Runs : WF_vars(Decide(r))
=============================================================================
