--------------------------- MODULE RunLifecycle ---------------------------
(***************************************************************************)
(* The life of a schedule run: the HTTP handlers of                        *)
(* src/api/routes/schedule-runs.ts, the ScheduleRun rows of Postgres, the  *)
(* ga-pipeline job queue and the cancellation keys of Redis, and the       *)
(* worker of src/worker/index.ts.  Every await of a handler or of the      *)
(* worker is a step boundary: one action is what runs between two awaits   *)
(* plus the one database or Redis command it issues.                       *)
(***************************************************************************)
EXTENDS Naturals, FiniteSets

CONSTANTS
  Runs,         \* ScheduleRun ids that can be issued (cuid: never reused)
  Keys,         \* values of the Idempotency-Key header
  Bodies,       \* request bodies: (semesterId, canonical config) pairs
  Calls,        \* requests the API process can have in flight
  Workers,      \* job slots: GA_PIPELINE_DEFAULT_CONCURRENCY of them
  Generations,  \* config.generations of every run
  MaxStalled,   \* BullMQ's maxStalledCount
  Ops,          \* the request kinds clients make
  Faults,       \* the faults that can happen
  None          \* no run, key, body or job

AllOps == {"create", "cancel", "delete", "override"}

\* enqueue, markFailed, failUpdate, publish: that one command fails.
\* enqueueLost: the job is queued, and the answer of the queue is lost.
\* throw / throwEarly: anything fails inside / before the worker's try block.
\* cancelWrite: the cancel handler's database write fails.
\* apiCrash, workerCrash: the process dies (docker restarts it).
\* ttl: a cancellation key outlives its 600 s.  retention: BullMQ forgets a
\* finished job.
AllFaults == {"enqueue", "enqueueLost", "markFailed", "failUpdate", "publish", "throw",
              "throwEarly", "cancelWrite", "apiCrash", "workerCrash", "ttl", "retention"}

ASSUME OpsAssumption == Ops \subseteq AllOps
ASSUME FaultsAssumption == Faults \subseteq AllFaults
ASSUME GenerationsAssumption == Generations \in Nat \ {0}
ASSUME MaxStalledAssumption == MaxStalled \in Nat
ASSUME NoneAssumption == None \notin Runs \cup Keys \cup Bodies
ASSUME JobIdsAssumption == Runs \cap Keys = {}

VARIABLES
  status,         \* ScheduleRun.status; "none" before the insert, "deleted" after
  request,        \* the row's idempotencyKey and (semesterId, configJson)
  generationsRun, \* ScheduleRun.generationsRun
  history,        \* generations with a FitnessHistory row, per run
  assigned,       \* runs with their ScheduleAssignment rows (one transaction)
  overridden,     \* runs with a manualOverride assignment
  cancelKey,      \* runs with a live ga:run:<id>:cancel key
  job,            \* the ga-pipeline queue, by jobId
  published,      \* last state event on ga-progress:<runId>
  call,           \* in-flight API requests
  worker          \* in-flight jobs

content == <<request, generationsRun, history, assigned, overridden>>
rows == <<status, content>>
redis == <<cancelKey, job, published>>
vars == <<rows, redis, call, worker>>

Verdicts == {"COMPLETED", "STAGNATED", "PRE_GA_EMPTY", "SSA_INFEASIBLE", "FAILED"}
Terminal == Verdicts \cup {"CANCELLED"}
Cancellable == {"QUEUED", "RUNNING"}
Statuses == Cancellable \cup Terminal
NotLive == {"none", "deleted"}

\* PUT .../assignments: an admin may edit a STAGNATED schedule too.
Overridable(role) == IF role = "admin" THEN {"COMPLETED", "STAGNATED"} ELSE {"COMPLETED"}

Live(r) == status[r] \notin NotLive

\* Mutant: the child tables do not reference ScheduleRun.
NoForeignKey(r) == TRUE

\* FitnessHistory and ScheduleAssignment rows need their ScheduleRun.
ForeignKey(r) == Live(r)

\* resolveJobId: the idempotency key when there is one, else the run id.
JobIds == Runs \cup Keys
JobId(r, k) == IF k = None THEN r ELSE k

Unqueued == [state |-> "none", run |-> None, stalled |-> 0]
NoCall == [pc |-> "idle", run |-> None, key |-> None, body |-> None]
NoWork == [pc |-> "idle", job |-> None, run |-> None, gen |-> 0,
           cancelled |-> FALSE, verdict |-> "none"]

Answers == {"200", "202", "204", "404", "409", "422", "500", "503"}
CreatePcs == {"lookup", "count", "insert"}
CallPcs == {"idle", "relookup", "enqueue", "markFailed", "setFlag", "cancelRow",
            "eraseRow", "overrideRow"} \cup CreatePcs \cup Answers

EarlyPcs == {"read", "flag", "cancelEarly", "dropFlagEarly"}
TryPcs == {"start", "pipeline", "poll", "generation", "saveHistory", "dropFlag", "reread",
           "cancelLate", "finishEmpty", "saveStats", "persist", "finish"}
WorkerPcs == {"idle", "fail", "publish", "ack"} \cup EarlyPcs \cup TryPcs

Init ==
  /\ status = [r \in Runs |-> "none"]
  /\ request = [r \in Runs |-> [key |-> None, body |-> None]]
  /\ generationsRun = [r \in Runs |-> 0]
  /\ history = [r \in Runs |-> {}]
  /\ assigned = {}
  /\ overridden = {}
  /\ cancelKey = {}
  /\ job = [j \in JobIds |-> Unqueued]
  /\ published = [r \in Runs |-> "none"]
  /\ call = [c \in Calls |-> NoCall]
  /\ worker = [w \in Workers |-> NoWork]

-----------------------------------------------------------------------------
(* API: POST /schedule-runs                                                *)

CallGoes(c, pc) == call' = [call EXCEPT ![c].pc = pc]

RowsWithKey(k) == {r \in Runs : Live(r) /\ request[r].key = k}

\* Bound: a create starts only while a run id is left for it to insert.
RunIdLeft == Cardinality({c \in Calls : call[c].pc \in CreatePcs})
               < Cardinality({r \in Runs : status[r] = "none"})

PostCreate(c, k, b) ==
  /\ "create" \in Ops
  /\ call[c].pc = "idle"
  /\ RunIdLeft
  /\ call' = [call EXCEPT ![c] = [pc |-> IF k = None THEN "count" ELSE "lookup",
                                  run |-> None, key |-> k, body |-> b]]
  /\ UNCHANGED <<rows, redis, worker>>

\* Mutant: the stored body is not compared.
AnyBody(c, r) == TRUE

SameBody(c, r) == request[r].body = call[c].body

\* The answer to a key that already names row r: the original 202, or a conflict.
AnswerReplay(c, r) ==
  call' = [call EXCEPT ![c].run = r,
                       ![c].pc = IF SameBody(c, r) THEN "202" ELSE "409"]

LookupKey(c) ==
  /\ call[c].pc = "lookup"
  /\ \/ \E r \in RowsWithKey(call[c].key) : AnswerReplay(c, r)
     \/ RowsWithKey(call[c].key) = {} /\ CallGoes(c, "count")
  /\ UNCHANGED <<rows, redis, worker>>

\* The semester has no offerings (422), or it has some.
CountOfferings(c) ==
  /\ call[c].pc = "count"
  /\ CallGoes(c, "422") \/ CallGoes(c, "insert")
  /\ UNCHANGED <<rows, redis, worker>>

KeyTaken(k) == k # None /\ RowsWithKey(k) # {}

\* idempotencyKey is unique: the insert makes a QUEUED row or violates it.
InsertRow(c) ==
  /\ call[c].pc = "insert"
  /\ \/ /\ KeyTaken(call[c].key)
        /\ CallGoes(c, "relookup")
        /\ UNCHANGED rows
     \/ /\ ~KeyTaken(call[c].key)
        /\ \E r \in Runs :
             /\ status[r] = "none"
             /\ status' = [status EXCEPT ![r] = "QUEUED"]
             /\ request' = [request EXCEPT ![r] = [key |-> call[c].key, body |-> call[c].body]]
             /\ call' = [call EXCEPT ![c].run = r, ![c].pc = "enqueue"]
        /\ UNCHANGED <<generationsRun, history, assigned, overridden>>
  /\ UNCHANGED <<redis, worker>>

\* Lost the race on the unique key: replay the winner's row if it is still there.
RelookupKey(c) ==
  /\ call[c].pc = "relookup"
  /\ \/ \E r \in RowsWithKey(call[c].key) : AnswerReplay(c, r)
     \/ RowsWithKey(call[c].key) = {} /\ CallGoes(c, "500")
  /\ UNCHANGED <<rows, redis, worker>>

\* BullMQ's add is a no-op when the jobId is still known, in any state.
AddJob(j, r) ==
  job' = IF job[j].state = "none"
         THEN [job EXCEPT ![j] = [state |-> "wait", run |-> r, stalled |-> 0]]
         ELSE job

Enqueue(c) ==
  /\ call[c].pc = "enqueue"
  /\ \/ /\ AddJob(JobId(call[c].run, call[c].key), call[c].run)
        /\ CallGoes(c, "202")
     \/ /\ "enqueue" \in Faults
        /\ CallGoes(c, "markFailed")
        /\ UNCHANGED job
     \/ /\ "enqueueLost" \in Faults
        /\ AddJob(JobId(call[c].run, call[c].key), call[c].run)
        /\ CallGoes(c, "markFailed")
  /\ UNCHANGED <<rows, cancelKey, published, worker>>

\* Mutant: the enqueue error is answered, and the row forgotten.
MarkFailedSkipped(c) ==
  call[c].pc = "markFailed" /\ CallGoes(c, "503") /\ UNCHANGED <<rows, redis, worker>>

\* Best effort: the row may be gone, or the write may fail, and it is still a 503.
MarkFailed(c) ==
  /\ call[c].pc = "markFailed"
  /\ \/ /\ Live(call[c].run)
        /\ status' = [status EXCEPT ![call[c].run] = "FAILED"]
     \/ /\ ~Live(call[c].run) \/ "markFailed" \in Faults
        /\ UNCHANGED status
  /\ CallGoes(c, "503")
  /\ UNCHANGED <<content, redis, worker>>

-----------------------------------------------------------------------------
(* API: cancel, delete and override.  Each reads the row, decides, and     *)
(* writes in a later step without looking again.                           *)

CallStarts(c, pc, r) == call' = [call EXCEPT ![c] = [NoCall EXCEPT !.pc = pc, !.run = r]]

PostCancel(c, r) ==
  /\ "cancel" \in Ops
  /\ call[c].pc = "idle"
  /\ status[r] \in Cancellable
  /\ CallStarts(c, "setFlag", r)
  /\ UNCHANGED <<rows, redis, worker>>

RequestCancellation(c) ==
  /\ call[c].pc = "setFlag"
  /\ cancelKey' = cancelKey \cup {call[c].run}
  /\ CallGoes(c, "cancelRow")
  /\ UNCHANGED <<rows, job, published, worker>>

CancelRow(c) ==
  /\ call[c].pc = "cancelRow"
  /\ \/ /\ Live(call[c].run)
        /\ status' = [status EXCEPT ![call[c].run] = "CANCELLED"]
        /\ CallGoes(c, "200")
     \/ /\ ~Live(call[c].run) \/ "cancelWrite" \in Faults
        /\ CallGoes(c, "500")
        /\ UNCHANGED status
  /\ UNCHANGED <<content, redis, worker>>

DeleteRun(c, r) ==
  /\ "delete" \in Ops
  /\ call[c].pc = "idle"
  /\ Live(r)
  /\ status[r] # "RUNNING"
  /\ CallStarts(c, "eraseRow", r)
  /\ UNCHANGED <<rows, redis, worker>>

\* Mutant: fitness history is not cascaded.
CascadeAssignments(r) ==
  /\ assigned' = assigned \ {r}
  /\ overridden' = overridden \ {r}
  /\ UNCHANGED history

\* onDelete: Cascade, from the run to its assignments and its fitness history.
Cascade(r) ==
  /\ history' = [history EXCEPT ![r] = {}]
  /\ assigned' = assigned \ {r}
  /\ overridden' = overridden \ {r}

EraseRow(c) ==
  LET r == call[c].run IN
  /\ call[c].pc = "eraseRow"
  /\ \/ /\ Live(r)
        /\ status' = [status EXCEPT ![r] = "deleted"]
        /\ Cascade(r)
        /\ CallGoes(c, "204")
     \/ /\ ~Live(r)
        /\ CallGoes(c, "404")
        /\ UNCHANGED <<status, history, assigned, overridden>>
  /\ UNCHANGED <<request, generationsRun, redis, worker>>

PutOverride(c, r, role) ==
  /\ "override" \in Ops
  /\ call[c].pc = "idle"
  /\ r \in assigned
  /\ status[r] \in Overridable(role)
  /\ CallStarts(c, "overrideRow", r)
  /\ UNCHANGED <<rows, redis, worker>>

\* The lecturers are rejected (422), or the transaction updates the assignment.
OverrideRow(c) ==
  LET r == call[c].run IN
  /\ call[c].pc = "overrideRow"
  /\ \/ /\ r \in assigned
        /\ overridden' = overridden \cup {r}
        /\ CallGoes(c, "200")
     \/ /\ \/ CallGoes(c, "422")
           \/ r \notin assigned /\ CallGoes(c, "404")
        /\ UNCHANGED overridden
  /\ UNCHANGED <<status, request, generationsRun, history, assigned, redis, worker>>

\* The client reads the answer; the slot takes a new request.
Answered(c) ==
  /\ call[c].pc \in Answers
  /\ call' = [call EXCEPT ![c] = NoCall]
  /\ UNCHANGED <<rows, redis, worker>>

ApiCrash ==
  /\ "apiCrash" \in Faults
  /\ \E c \in Calls : call[c].pc # "idle"
  /\ call' = [c \in Calls |-> NoCall]
  /\ UNCHANGED <<rows, redis, worker>>

-----------------------------------------------------------------------------
(* Redis: the queue (BullMQ) and the expiring keys                         *)

TakeJob(w, j) ==
  /\ worker[w].pc = "idle"
  /\ job[j].state = "wait"
  /\ job' = [job EXCEPT ![j].state = "active"]
  /\ worker' = [worker EXCEPT ![w] = [NoWork EXCEPT !.pc = "read", !.job = j,
                                                    !.run = job[j].run]]
  /\ UNCHANGED <<rows, cancelKey, published, call>>

\* Mutant: attempts: 2.
JobRetried(w) == IF worker[w].verdict = "FAILED" THEN "wait" ELSE "completed"

\* attempts: 1.
JobOutcome(w) == IF worker[w].verdict = "FAILED" THEN "failed" ELSE "completed"

\* processGaPipelineJob returned, or threw: BullMQ files the job.
AckJob(w) ==
  /\ worker[w].pc = "ack"
  /\ job' = [job EXCEPT ![worker[w].job].state = JobOutcome(w)]
  /\ worker' = [worker EXCEPT ![w] = NoWork]
  /\ UNCHANGED <<rows, cancelKey, published, call>>

WorkerCrash(w) ==
  /\ "workerCrash" \in Faults
  /\ worker[w].pc # "idle"
  /\ worker' = [worker EXCEPT ![w] = NoWork]
  /\ UNCHANGED <<rows, redis, call>>

\* Mutant: one redelivery too many.
MayRedeliverAgain(j) == job[j].stalled <= MaxStalled

MayRedeliver(j) == job[j].stalled < MaxStalled

\* An active job no worker holds is delivered again MaxStalled times, then failed.
StalledJob(j) ==
  /\ job[j].state = "active"
  /\ \A w \in Workers : worker[w].job # j
  /\ job' = IF MayRedeliver(j)
            THEN [job EXCEPT ![j].state = "wait", ![j].stalled = @ + 1]
            ELSE [job EXCEPT ![j].state = "failed"]
  /\ UNCHANGED <<rows, cancelKey, published, call, worker>>

\* removeOnComplete / removeOnFail: the jobId becomes free again.
ForgetJob(j) ==
  /\ "retention" \in Faults
  /\ job[j].state \in {"completed", "failed"}
  /\ job' = [job EXCEPT ![j] = Unqueued]
  /\ UNCHANGED <<rows, cancelKey, published, call, worker>>

ExpireCancelKey(r) ==
  /\ "ttl" \in Faults
  /\ r \in cancelKey
  /\ cancelKey' = cancelKey \ {r}
  /\ UNCHANGED <<rows, job, published, call, worker>>

-----------------------------------------------------------------------------
(* Worker: processGaPipelineJob                                            *)

WorkerGoes(w, pc) == worker' = [worker EXCEPT ![w].pc = pc]
Says(w, s) == worker' = [worker EXCEPT ![w].pc = "publish", ![w].verdict = s]
Decides(w, s, pc) == worker' = [worker EXCEPT ![w].pc = pc, ![w].verdict = s]

\* prisma.scheduleRun.update of the status, which throws when the row is gone.
WriteStatus(w, s) ==
  \/ /\ Live(worker[w].run)
     /\ status' = [status EXCEPT ![worker[w].run] = s]
     /\ Says(w, s)
  \/ /\ ~Live(worker[w].run)
     /\ WorkerGoes(w, "fail")
     /\ UNCHANGED status

\* No row: the job fails at once, outside the try block.
ReadRun(w) ==
  LET r == worker[w].run IN
  /\ worker[w].pc = "read"
  /\ \/ ~Live(r) /\ Decides(w, "FAILED", "ack")
     \/ status[r] = "CANCELLED" /\ Says(w, "CANCELLED")
     \/ Live(r) /\ status[r] # "CANCELLED" /\ WorkerGoes(w, "flag")
  /\ UNCHANGED <<rows, redis, call>>

CheckFlag(w) ==
  /\ worker[w].pc = "flag"
  /\ WorkerGoes(w, IF worker[w].run \in cancelKey THEN "cancelEarly" ELSE "start")
  /\ UNCHANGED <<rows, redis, call>>

CancelEarly(w) ==
  /\ worker[w].pc = "cancelEarly"
  /\ \/ /\ Live(worker[w].run)
        /\ status' = [status EXCEPT ![worker[w].run] = "CANCELLED"]
        /\ Says(w, "CANCELLED")
     \/ /\ ~Live(worker[w].run)
        /\ Decides(w, "FAILED", "ack")
        /\ UNCHANGED status
  /\ UNCHANGED <<content, redis, call>>

\* clearCancellation on the early-exit path, after the publish.
DropFlagEarly(w) ==
  /\ worker[w].pc = "dropFlagEarly"
  /\ cancelKey' = cancelKey \ {worker[w].run}
  /\ WorkerGoes(w, "ack")
  /\ UNCHANGED <<rows, job, published, call>>

StartRun(w) ==
  /\ worker[w].pc = "start"
  /\ WriteStatus(w, "RUNNING")
  /\ UNCHANGED <<content, redis, call>>

\* Pre-GA and SSA: no candidate, no perfect matching, or on to the GA loop.
Pipeline(w) ==
  /\ worker[w].pc = "pipeline"
  /\ \/ Decides(w, "PRE_GA_EMPTY", "finishEmpty")
     \/ Decides(w, "SSA_INFEASIBLE", "finishEmpty")
     \/ WorkerGoes(w, "poll")
  /\ UNCHANGED <<rows, redis, call>>

GenerationsLeft(w) == worker[w].gen < Generations

\* The head of the GA loop: out of generations, told to stop, or one more.
PollCancel(w) ==
  /\ worker[w].pc = "poll"
  /\ \/ /\ ~GenerationsLeft(w)
        /\ Decides(w, "COMPLETED", "saveHistory")
     \/ /\ GenerationsLeft(w)
        /\ IF worker[w].run \in cancelKey
           THEN worker' = [worker EXCEPT ![w].pc = "saveHistory", ![w].cancelled = TRUE]
           ELSE WorkerGoes(w, "generation")
  /\ UNCHANGED <<rows, redis, call>>

\* One generation: it stagnates, finds a perfect schedule, or breeds the next.
Generation(w) ==
  /\ worker[w].pc = "generation"
  /\ \E exit \in {<<"STAGNATED", "saveHistory">>, <<"COMPLETED", "saveHistory">>,
                  <<worker[w].verdict, "poll">>} :
       worker' = [worker EXCEPT ![w].gen = @ + 1, ![w].verdict = exit[1], ![w].pc = exit[2]]
  /\ UNCHANGED <<rows, redis, call>>

\* Mutant: rows for every configured generation.
AllGenerations(w) == 1..Generations

\* pendingFitnessRows: one row per generation that ran.
PendingRows(w) == 1..worker[w].gen

\* createMany with skipDuplicates; a deleted run fails its foreign key.
SaveHistory(w) ==
  LET r == worker[w].run IN
  /\ worker[w].pc = "saveHistory"
  /\ \/ /\ ForeignKey(r) \/ PendingRows(w) = {}
        /\ history' = [history EXCEPT ![r] = @ \cup PendingRows(w)]
        /\ WorkerGoes(w, IF worker[w].cancelled THEN "dropFlag" ELSE "saveStats")
     \/ /\ ~ForeignKey(r) /\ PendingRows(w) # {}
        /\ WorkerGoes(w, "fail")
        /\ UNCHANGED history
  /\ UNCHANGED <<status, request, generationsRun, assigned, overridden, redis, call>>

DropFlag(w) ==
  /\ worker[w].pc = "dropFlag"
  /\ cancelKey' = cancelKey \ {worker[w].run}
  /\ WorkerGoes(w, "reread")
  /\ UNCHANGED <<rows, job, published, call>>

RereadRun(w) ==
  LET r == worker[w].run IN
  /\ worker[w].pc = "reread"
  /\ \/ Live(r) /\ status[r] # "CANCELLED" /\ WorkerGoes(w, "cancelLate")
     \/ ~Live(r) /\ Says(w, "CANCELLED")
     \/ status[r] = "CANCELLED" /\ Says(w, "CANCELLED")
  /\ UNCHANGED <<rows, redis, call>>

CancelLate(w) ==
  /\ worker[w].pc = "cancelLate"
  /\ WriteStatus(w, "CANCELLED")
  /\ UNCHANGED <<content, redis, call>>

FinishEmpty(w) ==
  /\ worker[w].pc = "finishEmpty"
  /\ WriteStatus(w, worker[w].verdict)
  /\ UNCHANGED <<content, redis, call>>

\* Mutant: the stats update carries the terminal status, before the schedule.
SaveStatsFinishes(w) ==
  LET r == worker[w].run IN
  /\ worker[w].pc = "saveStats"
  /\ Live(r)
  /\ generationsRun' = [generationsRun EXCEPT ![r] = worker[w].gen]
  /\ status' = [status EXCEPT ![r] = worker[w].verdict]
  /\ WorkerGoes(w, "persist")
  /\ UNCHANGED <<request, history, assigned, overridden, redis, call>>

SaveStats(w) ==
  LET r == worker[w].run IN
  /\ worker[w].pc = "saveStats"
  /\ \/ /\ Live(r)
        /\ generationsRun' = [generationsRun EXCEPT ![r] = worker[w].gen]
        /\ WorkerGoes(w, "persist")
     \/ /\ ~Live(r)
        /\ WorkerGoes(w, "fail")
        /\ UNCHANGED generationsRun
  /\ UNCHANGED <<status, request, history, assigned, overridden, redis, call>>

\* One transaction: it needs the row, and no assignment of this run yet.
PersistAssignments(w) ==
  LET r == worker[w].run IN
  /\ worker[w].pc = "persist"
  /\ \/ /\ ForeignKey(r) /\ r \notin assigned
        /\ assigned' = assigned \cup {r}
        /\ WorkerGoes(w, "finish")
     \/ /\ ~ForeignKey(r) \/ r \in assigned
        /\ WorkerGoes(w, "fail")
        /\ UNCHANGED assigned
  /\ UNCHANGED <<status, request, generationsRun, history, overridden, redis, call>>

\* Mutant: the outcome is announced, and never stored.
FinishUnstored(w) ==
  worker[w].pc = "finish" /\ Says(w, worker[w].verdict) /\ UNCHANGED <<rows, redis, call>>

FinishRun(w) ==
  /\ worker[w].pc = "finish"
  /\ WriteStatus(w, worker[w].verdict)
  /\ UNCHANGED <<content, redis, call>>

\* Mutant: the catch block does not write FAILED.
FailRunSilently(w) ==
  worker[w].pc = "fail" /\ Says(w, "FAILED") /\ UNCHANGED <<rows, redis, call>>

\* The catch block: FAILED if that can be written, and said in any case.
FailRun(w) ==
  LET r == worker[w].run IN
  /\ worker[w].pc = "fail"
  /\ \/ Live(r) /\ status' = [status EXCEPT ![r] = "FAILED"]
     \/ (~Live(r) \/ "failUpdate" \in Faults) /\ UNCHANGED status
  /\ Says(w, "FAILED")
  /\ UNCHANGED <<content, redis, call>>

Throw(w) ==
  /\ "throw" \in Faults
  /\ worker[w].pc \in TryPcs
  /\ WorkerGoes(w, "fail")
  /\ UNCHANGED <<rows, redis, call>>

ThrowEarly(w) ==
  /\ "throwEarly" \in Faults
  /\ worker[w].pc \in EarlyPcs
  /\ Decides(w, "FAILED", "ack")
  /\ UNCHANGED <<rows, redis, call>>

\* Where the worker continues after a state event.
AfterPublish(w) ==
  CASE worker[w].verdict = "RUNNING" -> "pipeline"
    [] worker[w].verdict = "CANCELLED" /\ ~worker[w].cancelled -> "dropFlagEarly"
    [] OTHER -> "ack"

\* safePublish: a failed publish is logged and forgotten.
Publish(w) ==
  /\ worker[w].pc = "publish"
  /\ \/ published' = [published EXCEPT ![worker[w].run] = worker[w].verdict]
     \/ "publish" \in Faults /\ UNCHANGED published
  /\ WorkerGoes(w, AfterPublish(w))
  /\ UNCHANGED <<rows, cancelKey, job, call>>

-----------------------------------------------------------------------------
ApiStep(c) ==
  \/ LookupKey(c) \/ CountOfferings(c) \/ InsertRow(c) \/ RelookupKey(c)
  \/ Enqueue(c) \/ MarkFailed(c)
  \/ RequestCancellation(c) \/ CancelRow(c) \/ EraseRow(c) \/ OverrideRow(c)
  \/ Answered(c)

ClientRequest(c) ==
  \/ \E k \in Keys \cup {None}, b \in Bodies : PostCreate(c, k, b)
  \/ \E r \in Runs : \/ PostCancel(c, r)
                     \/ DeleteRun(c, r)
                     \/ \E role \in {"user", "admin"} : PutOverride(c, r, role)

WorkerStep(w) ==
  \/ ReadRun(w) \/ CheckFlag(w) \/ CancelEarly(w) \/ DropFlagEarly(w)
  \/ StartRun(w) \/ Pipeline(w) \/ PollCancel(w) \/ Generation(w) \/ SaveHistory(w)
  \/ DropFlag(w) \/ RereadRun(w) \/ CancelLate(w) \/ FinishEmpty(w)
  \/ SaveStats(w) \/ PersistAssignments(w) \/ FinishRun(w)
  \/ FailRun(w) \/ Publish(w) \/ AckJob(w)

WorkerFault(w) == Throw(w) \/ ThrowEarly(w) \/ WorkerCrash(w)

\* Everything but the progress of a job.
OtherStep ==
  \/ \E c \in Calls : ClientRequest(c) \/ ApiStep(c)
  \/ ApiCrash
  \/ \E w \in Workers : WorkerFault(w)
  \/ \E w \in Workers, j \in JobIds : TakeJob(w, j)
  \/ \E j \in JobIds : StalledJob(j) \/ ForgetJob(j)
  \/ \E r \in Runs : ExpireCancelKey(r)

Next == OtherStep \/ \E w \in Workers : WorkerStep(w)

Spec == Init /\ [][Next]_vars

\* A handler or a job that has begun is driven by the event loop, a free
\* worker slot fetches a waiting job, and the stalled-job check is periodic.
\* Nobody promises that a client calls, or that a fault happens.
Fairness ==
  /\ \A c \in Calls : WF_vars(ApiStep(c))
  /\ \A w \in Workers : WF_vars(WorkerStep(w))
  /\ \A w \in Workers : WF_vars(\E j \in JobIds : TakeJob(w, j))
  /\ \A j \in JobIds : WF_vars(StalledJob(j))

FairSpec == Spec /\ Fairness
=============================================================================
