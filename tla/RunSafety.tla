----------------------------- MODULE RunSafety -----------------------------
(***************************************************************************)
(* What the run lifecycle promises.  Each property names the faults under  *)
(* which it holds; the runs and the theorems fix those faults.             *)
(***************************************************************************)
EXTENDS RunLifecycle

CallRecords == [pc : CallPcs, run : Runs \cup {None}, key : Keys \cup {None},
                body : Bodies \cup {None}]
JobRecords == [state : {"none", "wait", "active", "completed", "failed"},
               run : Runs \cup {None}, stalled : 0..MaxStalled]
WorkerRecords == [pc : WorkerPcs, job : JobIds \cup {None}, run : Runs \cup {None},
                  gen : 0..Generations, cancelled : BOOLEAN, verdict : Statuses \cup {"none"}]

\* The shape of the rows, of Redis and of the two processes' local state.
Shape ==
  /\ status \in [Runs -> Statuses \cup NotLive]
  /\ request \in [Runs -> [key : Keys \cup {None}, body : Bodies \cup {None}]]
  /\ generationsRun \in [Runs -> 0..Generations]
  /\ history \in [Runs -> SUBSET (1..Generations)]
  /\ assigned \subseteq Runs
  /\ overridden \subseteq Runs
  /\ cancelKey \subseteq Runs
  /\ job \in [JobIds -> JobRecords]
  /\ published \in [Runs -> Statuses \cup {"none"}]
  /\ call \in [Calls -> CallRecords]
  /\ worker \in [Workers -> WorkerRecords]

\* Program points of a request that is about a row.
RowPcs == {"enqueue", "markFailed", "setFlag", "cancelRow", "eraseRow", "overrideRow", "202"}

\* Whatever works on a row knows which one.
RunsKnown ==
  /\ \A c \in Calls : call[c].pc \in RowPcs => call[c].run \in Runs
  /\ \A j \in JobIds : job[j].state \in {"wait", "active"} => job[j].run \in Runs
  /\ \A w \in Workers : worker[w].pc # "idle" => worker[w].run \in Runs /\ worker[w].job \in JobIds

\* What the worker's local variables hold at each program point: the outcome it
\* is about to write, and a generation number the configuration allows.
LocalsFit(x) ==
  /\ x.pc = "generation" => x.gen < Generations
  /\ x.pc = "finishEmpty" => x.verdict \in {"PRE_GA_EMPTY", "SSA_INFEASIBLE"}
  /\ x.pc \in {"saveStats", "persist", "finish"} \/ (x.pc = "saveHistory" /\ ~x.cancelled)
       => x.verdict \in {"COMPLETED", "STAGNATED"}

WorkerLocals == \A w \in Workers : LocalsFit(worker[w])

\* Type correctness of the rows, of Redis, of the requests and of the worker.
TypeOK == Shape /\ RunsKnown /\ WorkerLocals

\* A run shown as COMPLETED or STAGNATED has its schedule and the fitness
\* history its generationsRun announces: the worker's four separate writes
\* (history, stats, assignments, status) never leave a finished run without
\* one of them, whatever is cancelled, deleted, thrown, crashed or redelivered.
ResultsComplete ==
  \A r \in Runs : status[r] \in {"COMPLETED", "STAGNATED"} =>
    /\ r \in assigned
    /\ 1..generationsRun[r] \subseteq history[r]

\* Why: the announced history is stored before generationsRun, and the schedule
\* before the status, by whichever execution of the job gets there first.
ResultsInv ==
  /\ \A r \in Runs : status[r] # "deleted" => 1..generationsRun[r] \subseteq history[r]
  /\ \A r \in Runs : status[r] \in {"COMPLETED", "STAGNATED"} => r \in assigned
  /\ \A w \in Workers : worker[w].pc = "saveStats" /\ status[worker[w].run] # "deleted"
                       => 1..worker[w].gen \subseteq history[worker[w].run]
  /\ \A w \in Workers : worker[w].pc = "finish" /\ status[worker[w].run] # "deleted"
                       => worker[w].run \in assigned

\* A deleted run leaves nothing behind, even when the worker is in the middle
\* of it: no write of the worker or of an override revives one of its rows.
NoDebris ==
  \A r \in Runs : ~Live(r) => r \notin assigned \cup overridden /\ history[r] = {}

\* A 202 for an Idempotency-Key names a run that was created for that key and
\* that body, on the fast path and on the lost race of two first POSTs alike.
ReplayFaithful ==
  \A c \in Calls : call[c].pc = "202" =>
    request[call[c].run] = [key |-> call[c].key, body |-> call[c].body]

\* Why: a row's key and body are written once, by the insert that creates it.
RequestInv ==
  \A c \in Calls : call[c].pc \in {"enqueue", "202"} =>
    /\ status[call[c].run] # "none"
    /\ request[call[c].run].key = call[c].key
    /\ request[call[c].run].body = call[c].body

\* Unless the worker crashes, the worker's verdict on a run is its last word:
\* only a late cancel or a delete can still replace it.
VerdictStands ==
  \A r \in Runs : status[r] \in Verdicts => status'[r] \in {status[r], "CANCELLED", "deleted"}
VerdictIsFinal == [][VerdictStands]_vars

\* Unless the worker crashes or cannot write FAILED, a final state announced to
\* the streams is the state the row holds, until a cancel or a delete.
AnnouncedIsStored ==
  \A r \in Runs : published[r] \in Terminal =>
    status[r] \in {published[r], "CANCELLED", "deleted"}

\* Unless the worker crashes, a finished run's fitness history is that of the
\* one execution that produced it: generations 1..generationsRun and no other.
HistoryIsExact ==
  \A r \in Runs : status[r] \in {"COMPLETED", "STAGNATED"} => history[r] = 1..generationsRun[r]

\* Something will still move a QUEUED or RUNNING run: the request that is
\* creating it, or a job that is waiting or in progress.
HasDriver(r) ==
  \/ \E c \in Calls : call[c].run = r /\ call[c].pc \in {"enqueue", "markFailed"}
  \/ \E j \in JobIds : job[j].run = r /\ job[j].state \in {"wait", "active"}

\* No run waits for nobody.  It takes a crash, a failed FAILED write, an error
\* before the worker's try block, or a key reused after a delete to break it.
NeverAbandoned == \A r \in Runs : status[r] \in Cancellable => HasDriver(r)

\* Every run that is created is finally decided, or deleted, and stays so.
Settled(r) == status[r] \in Terminal \cup NotLive
Settles == \A r \in Runs : <>[]Settled(r)

\* The contract a client sees, over the row's status and its assignments.
Contract == INSTANCE RunContract WITH Runs <- Runs, status <- status, assigned <- assigned

\* With no cancel, no delete and no crash the whole machinery of handlers,
\* queue and worker implements that contract, its progress included.
ImplementsContract == Contract!FairSpec

-----------------------------------------------------------------------------
(* What a document of the repository says, and an interleaving contradicts. *)

\* docs/api_and_database_design.md:1158: cancel flips the status to CANCELLED
\* and the worker cleanly exits, so a CANCELLED run stays CANCELLED.
CancelledIsFinal ==
  [][\A r \in Runs : status[r] = "CANCELLED" => status'[r] \in {"CANCELLED", "deleted"}]_vars
=============================================================================
