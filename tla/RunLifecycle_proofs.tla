------------------------ MODULE RunLifecycle_proofs ------------------------
(***************************************************************************)
(* Proofs about RunLifecycle for every set of runs, keys, requests and     *)
(* workers, every number of generations, and every choice of Ops and       *)
(* Faults: no theorem here assumes that a fault is absent.                 *)
(***************************************************************************)
EXTENDS RunSafety, TLAPS

-----------------------------------------------------------------------------
(* Type correctness                                                        *)

USE OpsAssumption, FaultsAssumption, GenerationsAssumption, MaxStalledAssumption,
    NoneAssumption, JobIdsAssumption

\* Moving a worker to another program point keeps its record well-formed.
LEMMA WorkerGoesType ==
  ASSUME NEW w \in Workers, NEW p \in WorkerPcs, worker \in [Workers -> WorkerRecords],
         WorkerGoes(w, p)
  PROVE  worker' \in [Workers -> WorkerRecords]
BY DEF WorkerGoes, WorkerRecords

LEMMA DecidesType ==
  ASSUME NEW w \in Workers, NEW p \in WorkerPcs, NEW s \in Statuses,
         worker \in [Workers -> WorkerRecords], Decides(w, s, p)
  PROVE  worker' \in [Workers -> WorkerRecords]
<1>1. worker[w] \in WorkerRecords
  OBVIOUS
<1>2. [worker[w] EXCEPT !.pc = p, !.verdict = s] \in WorkerRecords
  BY <1>1 DEF WorkerRecords
<1> QED
  BY <1>2 DEF Decides

LEMMA SaysType ==
  ASSUME NEW w \in Workers, NEW s \in Statuses \cup {"none"}, worker \in [Workers -> WorkerRecords],
         Says(w, s)
  PROVE  worker' \in [Workers -> WorkerRecords]
<1>1. worker[w] \in WorkerRecords /\ "publish" \in WorkerPcs
  BY DEF WorkerPcs
<1>2. [worker[w] EXCEPT !.pc = "publish", !.verdict = s] \in WorkerRecords
  BY <1>1 DEF WorkerRecords
<1> QED
  BY <1>2 DEF Says

LEMMA CallGoesType ==
  ASSUME NEW c \in Calls, NEW p \in CallPcs, call \in [Calls -> CallRecords],
         CallGoes(c, p)
  PROVE  call' \in [Calls -> CallRecords]
BY DEF CallGoes, CallRecords

\* A request that learns the run it is about.
LEMMA CallLearnsType ==
  ASSUME NEW c \in Calls, NEW r \in Runs, NEW p \in CallPcs,
         call \in [Calls -> CallRecords],
         call' = [call EXCEPT ![c].run = r, ![c].pc = p]
  PROVE  call' \in [Calls -> CallRecords]
<1>1. call[c] \in CallRecords
  OBVIOUS
<1>2. [call[c] EXCEPT !.run = r, !.pc = p] \in CallRecords
  BY <1>1 DEF CallRecords
<1> QED
  BY <1>2

LEMMA AnswerReplayType ==
  ASSUME NEW c \in Calls, NEW r \in Runs, call \in [Calls -> CallRecords],
         AnswerReplay(c, r)
  PROVE  call' \in [Calls -> CallRecords]
<1> USE DEF CallPcs, Answers
<1>1. CASE SameBody(c, r)
  BY <1>1, CallLearnsType DEF AnswerReplay
<1>2. CASE ~SameBody(c, r)
  BY <1>2, CallLearnsType DEF AnswerReplay
<1> QED
  BY <1>1, <1>2

LEMMA ApiStepShape ==
  ASSUME TypeOK, NEW c \in Calls, ApiStep(c)
  PROVE  Shape'
<1> USE DEF rows, content, redis, CallPcs, Answers, CreatePcs, TypeOK
<1>1. CASE LookupKey(c)
  BY <1>1, CallGoesType, AnswerReplayType DEF LookupKey, Shape, RowsWithKey
<1>2. CASE CountOfferings(c)
  BY <1>2, CallGoesType DEF CountOfferings, Shape
<1>3. CASE InsertRow(c)
  <2>1. call[c] \in CallRecords
    BY DEF Shape
  <2>2. CASE CallGoes(c, "relookup") /\ UNCHANGED rows
    BY <1>3, <2>2, CallGoesType DEF InsertRow, Shape
  <2>3. ASSUME NEW r \in Runs,
               status' = [status EXCEPT ![r] = "QUEUED"],
               request' = [request EXCEPT ![r] = [key |-> call[c].key, body |-> call[c].body]],
               call' = [call EXCEPT ![c].run = r, ![c].pc = "enqueue"],
               UNCHANGED <<generationsRun, history, assigned, overridden>>
        PROVE  Shape'
    <3>1. call' \in [Calls -> CallRecords]
      BY <2>3, CallLearnsType DEF Shape
    <3>2. request' \in [Runs -> [key : Keys \cup {None}, body : Bodies \cup {None}]]
      BY <2>1, <2>3 DEF Shape, CallRecords
    <3> QED
      BY <1>3, <2>3, <3>1, <3>2 DEF InsertRow, Shape, Statuses, Cancellable
  <2> QED
    BY <1>3, <2>2, <2>3 DEF InsertRow
<1>4. CASE RelookupKey(c)
  BY <1>4, CallGoesType, AnswerReplayType DEF RelookupKey, Shape, RowsWithKey
<1>5. CASE Enqueue(c)
  <2>1. call[c].run \in Runs
    BY <1>5 DEF Enqueue, RunsKnown, RowPcs
  <2>2. [state |-> "wait", run |-> call[c].run, stalled |-> 0] \in JobRecords
    BY <2>1 DEF JobRecords
  <2>3. job' \in [JobIds -> JobRecords]
    BY <1>5, <2>2 DEF Enqueue, AddJob, Shape
  <2> QED
    BY <1>5, <2>3, CallGoesType DEF Enqueue, Shape
<1>6. CASE MarkFailed(c)
  BY <1>6, CallGoesType DEF MarkFailed, Shape, Statuses, Terminal, Verdicts
<1>7. CASE RequestCancellation(c)
  BY <1>7, CallGoesType DEF RequestCancellation, Shape, RunsKnown, RowPcs
<1>8. CASE CancelRow(c)
  BY <1>8, CallGoesType DEF CancelRow, Shape, Statuses, Terminal
<1>9. CASE EraseRow(c)
  BY <1>9, CallGoesType DEF EraseRow, Cascade, Shape, NotLive
<1>10. CASE OverrideRow(c)
  BY <1>10, CallGoesType DEF OverrideRow, Shape
<1>11. CASE Answered(c)
  BY <1>11 DEF Answered, Shape, NoCall, CallRecords
<1> QED
  BY <1>1, <1>2, <1>3, <1>4, <1>5, <1>6, <1>7, <1>8, <1>9, <1>10, <1>11 DEF ApiStep

\* Moving a request on keeps its row known, if it has one to know.
LEMMA CallGoesKnown ==
  ASSUME Shape, RunsKnown, NEW c \in Calls, NEW p, CallGoes(c, p),
         p \in RowPcs => call[c].run \in Runs, UNCHANGED <<job, worker>>
  PROVE  RunsKnown'
<1>1. call'[c] = [call[c] EXCEPT !.pc = p] /\ \A d \in Calls \ {c} : call'[d] = call[d]
  BY DEF CallGoes, Shape
<1>2. call'[c].pc = p /\ call'[c].run = call[c].run
  BY <1>1 DEF Shape, CallRecords
<1> QED
  BY <1>1, <1>2 DEF RunsKnown

LEMMA CallLearnsKnown ==
  ASSUME Shape, RunsKnown, NEW c \in Calls, NEW r \in Runs, NEW p,
         call' = [call EXCEPT ![c].run = r, ![c].pc = p], UNCHANGED <<job, worker>>
  PROVE  RunsKnown'
<1>1. call'[c].run = r /\ \A d \in Calls \ {c} : call'[d] = call[d]
  BY DEF Shape, CallRecords
<1> QED
  BY <1>1 DEF RunsKnown

\* A request names its row from the insert or the lookup on.
LEMMA ApiStepRuns ==
  ASSUME TypeOK, NEW c \in Calls, ApiStep(c)
  PROVE  RunsKnown'
<1> USE DEF rows, content, redis, TypeOK
<1> DEFINE Plain(p) == CallGoes(c, p) /\ UNCHANGED <<job, worker>>
<1>0. ASSUME NEW p, p \notin RowPcs \/ call[c].run \in Runs, Plain(p)
      PROVE  RunsKnown'
  BY <1>0, CallGoesKnown
<1> USE DEF RowPcs
<1>1. CASE LookupKey(c)
  BY <1>1, <1>0, CallLearnsKnown DEF LookupKey, AnswerReplay, RowsWithKey
<1>2. CASE CountOfferings(c)
  BY <1>2, <1>0 DEF CountOfferings
<1>3. CASE InsertRow(c)
  <2>1. CASE CallGoes(c, "relookup") /\ UNCHANGED rows
    BY <1>3, <2>1, <1>0 DEF InsertRow
  <2>2. CASE \E r \in Runs : call' = [call EXCEPT ![c].run = r, ![c].pc = "enqueue"]
    <3>1. UNCHANGED <<job, worker>>
      BY <1>3 DEF InsertRow
    <3> QED
      BY <2>2, <3>1, CallLearnsKnown
  <2> QED
    BY <1>3, <2>1, <2>2 DEF InsertRow
<1>4. CASE RelookupKey(c)
  BY <1>4, <1>0, CallLearnsKnown DEF RelookupKey, AnswerReplay, RowsWithKey
<1>5. CASE Enqueue(c)
  <2>1. call[c].run \in Runs
    BY <1>5 DEF Enqueue, RunsKnown
  <2>2. \A j \in JobIds : job'[j].state \in {"wait", "active"} => job'[j].run \in Runs
    <3>1. CASE UNCHANGED job
      BY <3>1 DEF RunsKnown
    <3>2. CASE AddJob(JobId(call[c].run, call[c].key), call[c].run)
      BY <3>2, <2>1 DEF AddJob, RunsKnown, Shape
    <3> QED
      BY <1>5, <3>1, <3>2 DEF Enqueue
  <2>3. /\ call'[c].run = call[c].run
        /\ \A d \in Calls \ {c} : call'[d] = call[d]
    BY <1>5 DEF Enqueue, CallGoes, Shape, CallRecords
  <2> QED
    BY <1>5, <2>1, <2>2, <2>3 DEF Enqueue, RunsKnown
<1>6. CASE MarkFailed(c)
  BY <1>6, <1>0 DEF MarkFailed
<1>7. CASE RequestCancellation(c)
  BY <1>7, <1>0 DEF RequestCancellation, RunsKnown
<1>8. CASE CancelRow(c)
  BY <1>8, <1>0 DEF CancelRow
<1>9. CASE EraseRow(c)
  BY <1>9, <1>0 DEF EraseRow
<1>10. CASE OverrideRow(c)
  BY <1>10, <1>0 DEF OverrideRow
<1>11. CASE Answered(c)
  BY <1>11 DEF Answered, NoCall, Shape, RunsKnown
<1> QED
  BY <1>1, <1>2, <1>3, <1>4, <1>5, <1>6, <1>7, <1>8, <1>9, <1>10, <1>11 DEF ApiStep

LEMMA ClientRequestType ==
  ASSUME TypeOK, NEW c \in Calls, ClientRequest(c)
  PROVE  TypeOK'
<1> USE DEF rows, content, redis, TypeOK
<1>0. UNCHANGED worker
  BY DEF ClientRequest, PostCreate, PostCancel, DeleteRun, PutOverride
<1>1. WorkerLocals'
  BY <1>0 DEF WorkerLocals
<1>2. ASSUME NEW k \in Keys \cup {None}, NEW b \in Bodies, PostCreate(c, k, b)
      PROVE  Shape' /\ RunsKnown'
  BY <1>2 DEF PostCreate, Shape, CallRecords, CallPcs, CreatePcs, RunsKnown, RowPcs
<1>3. ASSUME NEW r \in Runs, NEW pc \in {"setFlag", "eraseRow", "overrideRow"},
             CallStarts(c, pc, r), UNCHANGED <<rows, redis, worker>>
      PROVE  Shape' /\ RunsKnown'
  <2>1. [NoCall EXCEPT !.pc = pc, !.run = r] \in CallRecords
    BY <1>3 DEF NoCall, CallRecords, CallPcs
  <2>2. Shape'
    BY <1>3, <2>1 DEF CallStarts, Shape
  <2>3. RunsKnown'
    BY <1>3, <2>1 DEF CallStarts, Shape, RunsKnown, NoCall
  <2> QED
    BY <2>2, <2>3
<1> QED
  BY <1>1, <1>2, <1>3 DEF ClientRequest, PostCancel, DeleteRun, PutOverride

\* Every action of the worker but AckJob keeps the job in hand.
LEMMA WorkerKeepsJob ==
  ASSUME Shape, RunsKnown, NEW w \in Workers, worker[w].pc # "idle",
         worker' \in [Workers -> WorkerRecords],
         worker'[w].run = worker[w].run, worker'[w].job = worker[w].job,
         \A v \in Workers \ {w} : worker'[v] = worker[v], UNCHANGED <<job, call>>
  PROVE  RunsKnown'
BY DEF RunsKnown

LEMMA WorkerMoves ==
  ASSUME Shape, RunsKnown, NEW w \in Workers, worker[w].pc # "idle", UNCHANGED <<job, call>>,
         \/ \E p \in WorkerPcs : WorkerGoes(w, p)
         \/ \E s \in Statuses, p \in WorkerPcs : Decides(w, s, p)
         \/ \E s \in Statuses \cup {"none"} : Says(w, s)
  PROVE  worker' \in [Workers -> WorkerRecords] /\ RunsKnown'
<1>1. worker' \in [Workers -> WorkerRecords]
  BY WorkerGoesType, DecidesType, SaysType DEF Shape
<1>2. \A v \in Workers \ {w} : worker'[v] = worker[v]
  BY DEF WorkerGoes, Decides, Says, Shape
<1>3. worker[w] \in WorkerRecords
  BY DEF Shape
<1>4. worker'[w].run = worker[w].run /\ worker'[w].job = worker[w].job
  <2> DEFINE Kept == worker'[w].run = worker[w].run /\ worker'[w].job = worker[w].job
  <2>1. ASSUME NEW p, WorkerGoes(w, p)
        PROVE  Kept
    BY <1>3, <2>1 DEF WorkerGoes, Shape, WorkerRecords
  <2>2. ASSUME NEW p, NEW s, Decides(w, s, p)
        PROVE  Kept
    BY <1>3, <2>2 DEF Decides, Shape, WorkerRecords
  <2>3. ASSUME NEW s, Says(w, s)
        PROVE  Kept
    BY <1>3, <2>3 DEF Says, Shape, WorkerRecords
  <2> QED
    BY <2>1, <2>2, <2>3
<1> QED
  BY <1>1, <1>2, <1>4, WorkerKeepsJob

LEMMA WriteStatusType ==
  ASSUME Shape, RunsKnown, NEW w \in Workers, NEW s \in Statuses, worker[w].pc # "idle",
         WriteStatus(w, s), UNCHANGED <<content, redis, call>>
  PROVE  Shape' /\ RunsKnown'
<1> USE DEF content, redis
<1>1. status' \in [Runs -> Statuses \cup NotLive]
  BY DEF WriteStatus, Shape
<1>2. worker' \in [Workers -> WorkerRecords] /\ RunsKnown'
  <2>1. CASE Says(w, s)
    BY <2>1, WorkerMoves
  <2>2. CASE WorkerGoes(w, "fail")
    BY <2>2, WorkerMoves DEF WorkerPcs
  <2> QED
    BY <2>1, <2>2 DEF WriteStatus
<1> QED
  BY <1>1, <1>2 DEF Shape

LEMMA WorkerStepShape ==
  ASSUME TypeOK, NEW w \in Workers, WorkerStep(w)
  PROVE  Shape' /\ RunsKnown'
<1> USE DEF rows, content, redis, TypeOK, WorkerPcs, EarlyPcs, TryPcs, Statuses, Terminal,
            Verdicts, Cancellable
<1>0. worker[w] \in WorkerRecords
  BY DEF Shape
<1>1. CASE ReadRun(w)
  BY <1>1, WorkerMoves DEF ReadRun, Shape
<1>2. CASE CheckFlag(w)
  BY <1>2, WorkerMoves DEF CheckFlag, Shape
<1>3. CASE CancelEarly(w)
  BY <1>3, WorkerMoves DEF CancelEarly, Shape
<1>4. CASE DropFlagEarly(w)
  BY <1>4, WorkerMoves DEF DropFlagEarly, Shape
<1>5. CASE StartRun(w)
  BY <1>5, WriteStatusType DEF StartRun
<1>6. CASE Pipeline(w)
  BY <1>6, WorkerMoves DEF Pipeline, Shape
<1>7. CASE PollCancel(w)
  <2>1. CASE ~GenerationsLeft(w)
    BY <1>7, <2>1, WorkerMoves DEF PollCancel, Shape
  <2>2. CASE worker[w].run \notin cancelKey /\ GenerationsLeft(w)
    BY <1>7, <2>2, WorkerMoves DEF PollCancel, Shape
  <2>3. CASE worker' = [worker EXCEPT ![w].pc = "saveHistory", ![w].cancelled = TRUE]
    <3>0. [worker[w] EXCEPT !.pc = "saveHistory", !.cancelled = TRUE] \in WorkerRecords
      BY <1>0 DEF WorkerRecords
    <3>1. worker' \in [Workers -> WorkerRecords]
      BY <2>3, <3>0 DEF Shape
    <3>2. /\ worker'[w].run = worker[w].run
          /\ worker'[w].job = worker[w].job
          /\ \A v \in Workers \ {w} : worker'[v] = worker[v]
      BY <2>3 DEF Shape, WorkerRecords
    <3> QED
      BY <1>7, <3>1, <3>2, WorkerKeepsJob DEF PollCancel, Shape
  <2> QED
    BY <1>7, <2>1, <2>2, <2>3 DEF PollCancel
<1>8. CASE Generation(w)
  <2>0. PICK exit \in {<<"STAGNATED", "saveHistory">>, <<"COMPLETED", "saveHistory">>,
                     <<worker[w].verdict, "poll">>} :
          worker' = [worker EXCEPT ![w].gen = @ + 1, ![w].verdict = exit[1], ![w].pc = exit[2]]
    BY <1>8 DEF Generation
  <2> exit[1] \in Statuses \cup {"none"} /\ exit[2] \in WorkerPcs
    BY <1>0 DEF WorkerRecords
  <2>1. worker[w].gen + 1 \in 0..Generations
    BY <1>0, <1>8 DEF Generation, WorkerRecords, WorkerLocals, LocalsFit
  <2>2. [worker[w] EXCEPT !.gen = @ + 1, !.verdict = exit[1], !.pc = exit[2]] \in WorkerRecords
    BY <1>0, <2>1 DEF WorkerRecords
  <2>4. worker' \in [Workers -> WorkerRecords]
    BY <2>0, <2>2 DEF Shape
  <2>3. /\ worker'[w].run = worker[w].run
        /\ worker'[w].job = worker[w].job
        /\ \A u \in Workers \ {w} : worker'[u] = worker[u]
    BY <1>0, <2>0 DEF Shape, WorkerRecords
  <2> QED
    BY <1>8, <2>3, <2>4, WorkerKeepsJob DEF Generation, Shape
<1>9. CASE SaveHistory(w)
  <2>1. PendingRows(w) \in SUBSET (1..Generations)
    BY <1>0 DEF PendingRows, WorkerRecords
  <2>2. history' \in [Runs -> SUBSET (1..Generations)]
    BY <1>9, <2>1 DEF SaveHistory, Shape
  <2>3. \E p \in WorkerPcs : WorkerGoes(w, p)
    BY <1>9 DEF SaveHistory
  <2> QED
    BY <1>9, <2>2, <2>3, WorkerMoves DEF SaveHistory, Shape
<1>10. CASE DropFlag(w)
  BY <1>10, WorkerMoves DEF DropFlag, Shape
<1>11. CASE RereadRun(w)
  BY <1>11, WorkerMoves DEF RereadRun, Shape
<1>12. CASE CancelLate(w)
  BY <1>12, WriteStatusType DEF CancelLate
<1>13. CASE FinishEmpty(w)
  BY <1>13, WriteStatusType DEF FinishEmpty, WorkerLocals, LocalsFit
<1>14. CASE SaveStats(w)
  BY <1>0, <1>14, WorkerMoves DEF SaveStats, Shape, WorkerRecords
<1>15. CASE PersistAssignments(w)
  BY <1>15, WorkerMoves DEF PersistAssignments, Shape, RunsKnown
<1>16. CASE FinishRun(w)
  BY <1>16, WriteStatusType DEF FinishRun, WorkerLocals, LocalsFit
<1>17. CASE FailRun(w)
  BY <1>17, WorkerMoves DEF FailRun, Shape
<1>18. CASE Publish(w)
  <2>1. \E p \in WorkerPcs : WorkerGoes(w, p)
    BY <1>18 DEF Publish, AfterPublish
  <2> QED
    BY <1>0, <1>18, <2>1, WorkerMoves DEF Publish, Shape, WorkerRecords
<1>19. CASE AckJob(w)
  <2>1. worker' \in [Workers -> WorkerRecords]
    BY <1>19, <1>0 DEF AckJob, NoWork, Shape, WorkerRecords
  <2>2. worker[w].job \in JobIds /\ JobOutcome(w) \in {"completed", "failed"}
    BY <1>19 DEF AckJob, JobOutcome, RunsKnown
  <2>3. job' \in [JobIds -> JobRecords]
    <3>1. [job[worker[w].job] EXCEPT !.state = JobOutcome(w)] \in JobRecords
      BY <2>2 DEF Shape, JobRecords
    <3> QED
      BY <1>19, <2>2, <3>1 DEF AckJob, Shape
  <2>4. \A j \in JobIds : job'[j].run = job[j].run /\ (j # worker[w].job => job'[j] = job[j])
    <3>1. [job[worker[w].job] EXCEPT !.state = JobOutcome(w)].run = job[worker[w].job].run
      BY <2>2 DEF Shape, JobRecords
    <3> QED
      BY <1>19, <2>2, <3>1 DEF AckJob, Shape
  <2>5. job'[worker[w].job].state \notin {"wait", "active"}
    BY <1>19, <2>2 DEF AckJob, Shape, JobRecords
  <2>6. RunsKnown'
    BY <1>19, <2>2, <2>4, <2>5 DEF AckJob, RunsKnown, Shape, NoWork
  <2> QED
    BY <1>19, <2>1, <2>3, <2>6 DEF AckJob, Shape
<1> QED
  BY <1>1, <1>2, <1>3, <1>4, <1>5, <1>6, <1>7, <1>8, <1>9, <1>10, <1>11, <1>12, <1>13,
     <1>14, <1>15, <1>16, <1>17, <1>18, <1>19 DEF WorkerStep

\* The three ways the worker moves on, seen from its local variables.
LEMMA WorkerGoesFits ==
  ASSUME Shape, WorkerLocals, NEW w \in Workers, NEW p, WorkerGoes(w, p),
         LocalsFit([worker[w] EXCEPT !.pc = p])
  PROVE  WorkerLocals'
<1>1. worker'[w] = [worker[w] EXCEPT !.pc = p] /\ \A v \in Workers \ {w} : worker'[v] = worker[v]
  BY DEF WorkerGoes, Shape
<1> QED
  BY <1>1 DEF WorkerLocals

LEMMA DecidesFits ==
  ASSUME Shape, WorkerLocals, NEW w \in Workers, NEW s, NEW p, Decides(w, s, p),
         p \in {"ack", "finishEmpty", "saveHistory"},
         p = "finishEmpty" => s \in {"PRE_GA_EMPTY", "SSA_INFEASIBLE"},
         p = "saveHistory" => s \in {"COMPLETED", "STAGNATED"}
  PROVE  WorkerLocals'
<1>1. /\ worker'[w] = [worker[w] EXCEPT !.pc = p, !.verdict = s]
      /\ \A v \in Workers \ {w} : worker'[v] = worker[v]
  BY DEF Decides, Shape
<1>2. worker'[w].pc = p /\ worker'[w].verdict = s
  BY <1>1 DEF Shape, WorkerRecords
<1> QED
  BY <1>1, <1>2 DEF WorkerLocals, LocalsFit

LEMMA SaysFits ==
  ASSUME Shape, WorkerLocals, NEW w \in Workers, NEW s, Says(w, s)
  PROVE  WorkerLocals'
<1>1. worker'[w].pc = "publish" /\ \A v \in Workers \ {w} : worker'[v] = worker[v]
  BY DEF Says, Shape, WorkerRecords
<1> QED
  BY <1>1 DEF WorkerLocals, LocalsFit

LEMMA WriteStatusFits ==
  ASSUME Shape, WorkerLocals, NEW w \in Workers, NEW s, WriteStatus(w, s)
  PROVE  WorkerLocals'
<1>1. CASE Says(w, s)
  BY <1>1, SaysFits
<1>2. CASE WorkerGoes(w, "fail")
  <2>1. LocalsFit([worker[w] EXCEPT !.pc = "fail"])
    BY DEF LocalsFit, Shape, WorkerRecords
  <2> QED
    BY <1>2, <2>1, WorkerGoesFits
<1> QED
  BY <1>1, <1>2 DEF WriteStatus

LEMMA WorkerStepFits ==
  ASSUME TypeOK, NEW w \in Workers, WorkerStep(w)
  PROVE  WorkerLocals'
<1> USE DEF TypeOK
<1>0. worker[w] \in WorkerRecords
  BY DEF Shape
<1> DEFINE Free == {"idle", "ack", "fail", "flag", "start", "cancelEarly", "cancelLate", "poll",
                    "dropFlag", "reread", "pipeline", "dropFlagEarly"}
<1>00. ASSUME NEW p \in Free, WorkerGoes(w, p)
       PROVE  WorkerLocals'
  <2>1. LocalsFit([worker[w] EXCEPT !.pc = p])
    BY <1>0, <1>00 DEF LocalsFit, WorkerRecords
  <2> QED
    BY <1>00, <2>1, WorkerGoesFits
<1>1. CASE ReadRun(w)
  BY <1>1, <1>00, SaysFits, DecidesFits DEF ReadRun
<1>2. CASE CheckFlag(w)
  BY <1>2, <1>00 DEF CheckFlag
<1>3. CASE CancelEarly(w)
  BY <1>3, SaysFits, DecidesFits DEF CancelEarly
<1>4. CASE DropFlagEarly(w)
  BY <1>4, <1>00 DEF DropFlagEarly
<1>5. CASE StartRun(w)
  BY <1>5, WriteStatusFits DEF StartRun
<1>6. CASE Pipeline(w)
  BY <1>6, <1>00, DecidesFits DEF Pipeline
<1>7. CASE PollCancel(w)
  <2>1. CASE Decides(w, "COMPLETED", "saveHistory")
    BY <2>1, DecidesFits
  <2>2. CASE worker' = [worker EXCEPT ![w].pc = "saveHistory", ![w].cancelled = TRUE]
    <3>1. /\ worker'[w] = [worker[w] EXCEPT !.pc = "saveHistory", !.cancelled = TRUE]
          /\ \A v \in Workers \ {w} : worker'[v] = worker[v]
      BY <2>2 DEF Shape
    <3>2. worker'[w].pc = "saveHistory" /\ worker'[w].cancelled
      BY <1>0, <3>1 DEF WorkerRecords
    <3> QED
      BY <3>1, <3>2 DEF WorkerLocals, LocalsFit
  <2>3. CASE WorkerGoes(w, "generation") /\ GenerationsLeft(w)
    <3>1. LocalsFit([worker[w] EXCEPT !.pc = "generation"])
      BY <1>0, <2>3 DEF LocalsFit, WorkerRecords, GenerationsLeft
    <3> QED
      BY <2>3, <3>1, WorkerGoesFits
  <2> QED
    BY <1>7, <2>1, <2>2, <2>3 DEF PollCancel
<1>8. CASE Generation(w)
  <2>1. PICK exit \in {<<"STAGNATED", "saveHistory">>, <<"COMPLETED", "saveHistory">>,
                     <<worker[w].verdict, "poll">>} :
          worker' = [worker EXCEPT ![w].gen = @ + 1, ![w].verdict = exit[1], ![w].pc = exit[2]]
    BY <1>8 DEF Generation
  <2>2. /\ worker'[w] = [worker[w] EXCEPT !.gen = @ + 1, !.verdict = exit[1], !.pc = exit[2]]
        /\ \A v \in Workers \ {w} : worker'[v] = worker[v]
    BY <2>1 DEF Shape
  <2>3. worker'[w].pc = exit[2] /\ worker'[w].verdict = exit[1]
    BY <1>0, <2>2 DEF WorkerRecords
  <2>4. \/ worker'[w].pc = "poll"
        \/ worker'[w].pc = "saveHistory" /\ worker'[w].verdict \in {"COMPLETED", "STAGNATED"}
    BY <2>3
  <2> QED
    BY <2>2, <2>4 DEF WorkerLocals, LocalsFit
<1>9. CASE SaveHistory(w)
  <2>1. CASE ~worker[w].cancelled /\ WorkerGoes(w, "saveStats")
    <3>1. worker[w].verdict \in {"COMPLETED", "STAGNATED"}
      BY <1>9, <2>1 DEF SaveHistory, WorkerLocals, LocalsFit
    <3>2. LocalsFit([worker[w] EXCEPT !.pc = "saveStats"])
      BY <1>0, <3>1 DEF LocalsFit, WorkerRecords
    <3> QED
      BY <2>1, <3>2, WorkerGoesFits
  <2> QED
    BY <1>9, <1>00, <2>1 DEF SaveHistory
<1>10. CASE DropFlag(w)
  BY <1>10, <1>00 DEF DropFlag
<1>11. CASE RereadRun(w)
  BY <1>11, <1>00, SaysFits DEF RereadRun
<1>12. CASE CancelLate(w)
  BY <1>12, WriteStatusFits DEF CancelLate
<1>13. CASE FinishEmpty(w)
  BY <1>13, WriteStatusFits DEF FinishEmpty
<1>14. CASE SaveStats(w)
  <2>1. LocalsFit([worker[w] EXCEPT !.pc = "persist"])
    BY <1>0, <1>14 DEF SaveStats, LocalsFit, WorkerLocals, WorkerRecords
  <2> QED
    BY <1>14, <1>00, <2>1, WorkerGoesFits DEF SaveStats
<1>15. CASE PersistAssignments(w)
  <2>1. LocalsFit([worker[w] EXCEPT !.pc = "finish"])
    BY <1>0, <1>15 DEF PersistAssignments, LocalsFit, WorkerLocals, WorkerRecords
  <2> QED
    BY <1>15, <1>00, <2>1, WorkerGoesFits DEF PersistAssignments
<1>16. CASE FinishRun(w)
  BY <1>16, WriteStatusFits DEF FinishRun
<1>17. CASE FailRun(w)
  BY <1>17, SaysFits DEF FailRun
<1>18. CASE Publish(w)
  BY <1>18, <1>00 DEF Publish, AfterPublish
<1>19. CASE AckJob(w)
  <2>1. worker'[w] = NoWork /\ \A v \in Workers \ {w} : worker'[v] = worker[v]
    BY <1>19 DEF AckJob, Shape
  <2> QED
    BY <2>1 DEF WorkerLocals, LocalsFit, NoWork
<1> QED
  BY <1>1, <1>2, <1>3, <1>4, <1>5, <1>6, <1>7, <1>8, <1>9, <1>10, <1>11, <1>12, <1>13,
     <1>14, <1>15, <1>16, <1>17, <1>18, <1>19 DEF WorkerStep

LEMMA WorkerFaultType ==
  ASSUME TypeOK, NEW w \in Workers, WorkerFault(w)
  PROVE  TypeOK'
<1> USE DEF rows, content, redis, TypeOK
<1>1. CASE Throw(w)
  <2>1. LocalsFit([worker[w] EXCEPT !.pc = "fail"])
    BY DEF LocalsFit, Shape, WorkerRecords
  <2>2. worker' \in [Workers -> WorkerRecords] /\ RunsKnown'
    BY <1>1, WorkerMoves DEF Throw, TryPcs, WorkerPcs
  <2> QED
    BY <1>1, <2>1, <2>2, WorkerGoesFits DEF Throw, Shape
<1>2. CASE ThrowEarly(w)
  <2>1. WorkerLocals'
    BY <1>2, DecidesFits DEF ThrowEarly
  <2>2. worker' \in [Workers -> WorkerRecords] /\ RunsKnown'
    BY <1>2, WorkerMoves DEF ThrowEarly, EarlyPcs, WorkerPcs, Statuses, Terminal, Verdicts
  <2> QED
    BY <1>2, <2>1, <2>2 DEF ThrowEarly, Shape
<1>3. CASE WorkerCrash(w)
  <2>1. NoWork \in WorkerRecords /\ NoWork.pc = "idle" /\ LocalsFit(NoWork)
    BY DEF NoWork, WorkerRecords, WorkerPcs, LocalsFit
  <2>2. worker'[w] = NoWork /\ \A v \in Workers \ {w} : worker'[v] = worker[v]
    BY <1>3 DEF WorkerCrash, Shape
  <2>3. Shape'
    BY <1>3, <2>1 DEF WorkerCrash, Shape
  <2> QED
    BY <1>3, <2>1, <2>2, <2>3 DEF WorkerCrash, RunsKnown, WorkerLocals
<1> QED
  BY <1>1, <1>2, <1>3 DEF WorkerFault

\* A job handed to a free worker slot.
LEMMA TakeJobType ==
  ASSUME TypeOK, NEW w \in Workers, NEW j \in JobIds, TakeJob(w, j)
  PROVE  TypeOK'
<1> USE DEF rows, content, redis, TypeOK
<1> DEFINE rec == [NoWork EXCEPT !.pc = "read", !.job = j, !.run = job[j].run]
<1>0. worker' = [worker EXCEPT ![w] = rec]
  BY DEF TakeJob
<1>1. job[j] \in JobRecords /\ job[j].run \in Runs
  BY DEF TakeJob, Shape, RunsKnown
<1>2. /\ rec \in WorkerRecords
      /\ rec.pc = "read" /\ rec.run \in Runs /\ rec.job \in JobIds
  <2>1. NoWork \in WorkerRecords /\ "read" \in WorkerPcs
    BY DEF NoWork, WorkerRecords, WorkerPcs, EarlyPcs
  <2> QED
    BY <1>1, <2>1 DEF WorkerRecords
<1>3. [job[j] EXCEPT !.state = "active"] \in JobRecords
  BY <1>1 DEF JobRecords
<1>4. Shape'
  <2> HIDE DEF rec
  <2> QED
    BY <1>0, <1>2, <1>3 DEF TakeJob, Shape
<1>5. worker'[w] = rec /\ \A v \in Workers \ {w} : worker'[v] = worker[v]
  BY <1>0 DEF Shape
<1>6. \A i \in JobIds : job'[i].run = job[i].run /\ (i # j => job'[i] = job[i])
  BY <1>1 DEF TakeJob, Shape, JobRecords
<1>7. RunsKnown'
  BY <1>1, <1>2, <1>5, <1>6 DEF TakeJob, RunsKnown
<1>8. WorkerLocals'
  BY <1>2, <1>5 DEF WorkerLocals, LocalsFit
<1> QED
  BY <1>4, <1>7, <1>8

LEMMA RedisType ==
  ASSUME TypeOK,
         \/ \E j \in JobIds : StalledJob(j) \/ ForgetJob(j)
         \/ \E r \in Runs : ExpireCancelKey(r)
  PROVE  TypeOK'
<1> USE DEF rows, content, redis, TypeOK
<1>1. WorkerLocals'
  BY DEF StalledJob, ForgetJob, ExpireCancelKey, WorkerLocals
<1>2. ASSUME NEW j \in JobIds, StalledJob(j)
      PROVE  Shape' /\ RunsKnown'
  <2>1. job[j] \in JobRecords /\ job[j].run \in Runs
    BY <1>2 DEF StalledJob, Shape, RunsKnown
  <2>2. CASE MayRedeliver(j)
    <3>0. job[j].stalled + 1 \in 0..MaxStalled
      BY <2>1, <2>2 DEF MayRedeliver, JobRecords
    <3>1. [job[j] EXCEPT !.state = "wait", !.stalled = @ + 1] \in JobRecords
      BY <2>1, <3>0 DEF JobRecords
    <3>2. job' = [job EXCEPT ![j] = [job[j] EXCEPT !.state = "wait", !.stalled = @ + 1]]
      BY <1>2, <2>2 DEF StalledJob
    <3>3. \A i \in JobIds : job'[i].run = job[i].run /\ (i # j => job'[i] = job[i])
      BY <2>1, <3>2 DEF Shape, JobRecords
    <3>4. Shape'
      BY <1>2, <3>1, <3>2 DEF StalledJob, Shape
    <3> QED
      BY <1>2, <2>1, <3>3, <3>4 DEF StalledJob, RunsKnown
  <2>3. CASE ~MayRedeliver(j)
    <3>1. job' \in [JobIds -> JobRecords]
      BY <1>2, <2>1, <2>3 DEF StalledJob, Shape, JobRecords
    <3>2. \A i \in JobIds : job'[i].run = job[i].run /\ (i # j => job'[i] = job[i])
      BY <1>2, <2>1, <2>3 DEF StalledJob, Shape, JobRecords
    <3> QED
      BY <1>2, <2>1, <3>1, <3>2 DEF StalledJob, Shape, RunsKnown
  <2> QED
    BY <2>2, <2>3
<1>3. ASSUME NEW j \in JobIds, ForgetJob(j)
      PROVE  Shape' /\ RunsKnown'
  <2>1. Unqueued \in JobRecords /\ Unqueued.state = "none"
    BY DEF Unqueued, JobRecords
  <2> QED
    BY <1>3, <2>1 DEF ForgetJob, Shape, RunsKnown
<1>4. ASSUME NEW r \in Runs, ExpireCancelKey(r)
      PROVE  Shape' /\ RunsKnown'
  BY <1>4 DEF ExpireCancelKey, Shape, RunsKnown
<1> QED
  BY <1>1, <1>2, <1>3, <1>4

LEMMA TypeInit == Init => TypeOK
<1> USE DEF Init, TypeOK
<1>1. Init => Shape
  BY DEF Shape, NotLive, CallRecords, CallPcs, JobRecords, WorkerRecords, WorkerPcs,
         Unqueued, NoCall, NoWork
<1>2. Init => RunsKnown /\ WorkerLocals
  BY DEF RunsKnown, WorkerLocals, LocalsFit, RowPcs, Unqueued, NoCall, NoWork
<1> QED
  BY <1>1, <1>2

LEMMA TypeNext == TypeOK /\ [Next]_vars => TypeOK'
<1> SUFFICES ASSUME TypeOK, [Next]_vars
             PROVE  TypeOK'
  OBVIOUS
<1>1. ASSUME NEW c \in Calls, ApiStep(c)
      PROVE  TypeOK'
  <2>1. UNCHANGED worker
    BY <1>1 DEF ApiStep, LookupKey, CountOfferings, InsertRow, RelookupKey, Enqueue, MarkFailed,
                RequestCancellation, CancelRow, EraseRow, OverrideRow, Answered
  <2> QED
    BY <1>1, <2>1, ApiStepShape, ApiStepRuns DEF TypeOK, WorkerLocals
<1>2. CASE ApiCrash
  BY <1>2 DEF ApiCrash, TypeOK, Shape, RunsKnown, RowPcs, WorkerLocals, NoCall, CallRecords, CallPcs,
              rows, content, redis
<1>3. ASSUME NEW w \in Workers, WorkerStep(w)
      PROVE  TypeOK'
  BY <1>3, WorkerStepShape, WorkerStepFits DEF TypeOK
<1>4. CASE UNCHANGED vars
  BY <1>4 DEF vars, rows, content, redis, TypeOK, Shape, RunsKnown, WorkerLocals
<1> QED
  BY <1>1, <1>2, <1>3, <1>4, ClientRequestType, WorkerFaultType, TakeJobType, RedisType DEF Next, OtherStep

\* The rows, Redis, the requests and the worker's locals keep their types, and
\* whatever works on a row knows which one.
THEOREM TypeCorrect == Spec => []TypeOK
BY TypeInit, TypeNext, PTL DEF Spec

-----------------------------------------------------------------------------
(* Completeness of the results of a finished run                           *)

\* A step that keeps the rows of every run it does not delete, finishes only
\* runs that have their schedule, and brings no worker to its stats or final
\* write.
LEMMA ResultsKept ==
  ASSUME TypeOK, ResultsInv,
         \A r \in Runs : status'[r] # "deleted" =>
           /\ status[r] # "deleted"
           /\ history'[r] = history[r]
           /\ generationsRun'[r] = generationsRun[r]
           /\ r \in assigned => r \in assigned'
           /\ status'[r] \in {"COMPLETED", "STAGNATED"} =>
                status[r] \in {"COMPLETED", "STAGNATED"} \/ r \in assigned,
         \A v \in Workers : worker'[v] = worker[v] \/ worker'[v].pc \notin {"saveStats", "finish"}
  PROVE  ResultsInv'
<1>1. \A v \in Workers : worker'[v].pc \in {"saveStats", "finish"} =>
         worker'[v] = worker[v] /\ worker[v].run \in Runs
  BY DEF TypeOK, RunsKnown
<1> QED
  BY <1>1 DEF ResultsInv

\* The worker writes a status of the run it works on.
LEMMA ResultsWriteStatus ==
  ASSUME TypeOK, ResultsInv, NEW w \in Workers, NEW s \in Statuses,
         worker[w].pc # "idle", WriteStatus(w, s), UNCHANGED content,
         s \in {"COMPLETED", "STAGNATED"} /\ Live(worker[w].run) => worker[w].run \in assigned
  PROVE  ResultsInv'
<1> USE DEF content
<1>1. worker[w].run \in Runs /\ s # "deleted"
  BY DEF TypeOK, RunsKnown, Statuses, Cancellable, Terminal, Verdicts
<1>2. CASE Live(worker[w].run) /\ status' = [status EXCEPT ![worker[w].run] = s] /\ Says(w, s)
  <2>1. \A v \in Workers : worker'[v] = worker[v] \/ worker'[v].pc = "publish"
    BY <1>2 DEF Says, TypeOK, Shape, WorkerRecords
  <2>2. status \in [Runs -> Statuses \cup NotLive] /\ status[worker[w].run] # "deleted"
    BY <1>1, <1>2 DEF TypeOK, Shape, Live, NotLive
  <2> QED
    BY <1>1, <1>2, <2>1, <2>2, ResultsKept
<1>3. CASE UNCHANGED status /\ WorkerGoes(w, "fail")
  <2>1. \A v \in Workers : worker'[v] = worker[v] \/ worker'[v].pc = "fail"
    BY <1>3 DEF WorkerGoes, TypeOK, Shape, WorkerRecords
  <2> QED
    BY <1>3, <2>1, ResultsKept
<1> QED
  BY <1>2, <1>3 DEF WriteStatus

LEMMA ResultsApiStep ==
  ASSUME TypeOK, ResultsInv, NEW c \in Calls, ApiStep(c)
  PROVE  ResultsInv'
<1> USE DEF rows, content, redis
<1>0. status \in [Runs -> Statuses \cup NotLive] /\ history \in [Runs -> SUBSET (1..Generations)]
  BY DEF TypeOK, Shape
<1>1. CASE UNCHANGED <<rows, worker>>
  BY <1>1, ResultsKept
<1>2. CASE InsertRow(c)
  BY <1>0, <1>1, <1>2, ResultsKept DEF InsertRow
<1>3. CASE MarkFailed(c)
  BY <1>0, <1>1, <1>3, ResultsKept DEF MarkFailed, Live, NotLive
<1>4. CASE CancelRow(c)
  BY <1>0, <1>1, <1>4, ResultsKept DEF CancelRow, Live, NotLive
<1>5. CASE EraseRow(c)
  BY <1>0, <1>5, ResultsKept DEF EraseRow, Cascade, Live, NotLive
<1>6. CASE OverrideRow(c)
  BY <1>6, ResultsKept DEF OverrideRow
<1> QED
  BY <1>1, <1>2, <1>3, <1>4, <1>5, <1>6
     DEF ApiStep, LookupKey, CountOfferings, RelookupKey, Enqueue, RequestCancellation, Answered

\* The four writes that make a result, and every other step of the worker.
LEMMA ResultsWorkerStep ==
  ASSUME TypeOK, ResultsInv, NEW w \in Workers, WorkerStep(w)
  PROVE  ResultsInv'
<1> USE DEF rows, content, redis
<1> DEFINE r == worker[w].run
<1>0. /\ status \in [Runs -> Statuses \cup NotLive]
      /\ history \in [Runs -> SUBSET (1..Generations)]
      /\ generationsRun \in [Runs -> 0..Generations]
      /\ worker \in [Workers -> WorkerRecords]
  BY DEF TypeOK, Shape
<1>00. worker[w].pc # "idle" => r \in Runs
  BY DEF TypeOK, RunsKnown
<1>1. ASSUME NEW p, p \notin {"saveStats", "finish"}, UNCHANGED rows,
             worker' = [worker EXCEPT ![w] = [worker[w] EXCEPT !.pc = p]]
      PROVE  ResultsInv'
  <2>1. \A v \in Workers : worker'[v] = worker[v] \/ worker'[v].pc = p
    BY <1>0, <1>1 DEF WorkerRecords
  <2> QED
    BY <1>1, <2>1, ResultsKept
<1>2. ASSUME NEW p, NEW s, p \notin {"saveStats", "finish"}, UNCHANGED rows, Decides(w, s, p)
      PROVE  ResultsInv'
  <2>1. \A v \in Workers : worker'[v] = worker[v] \/ worker'[v].pc = p
    BY <1>0, <1>2 DEF Decides, WorkerRecords
  <2> QED
    BY <1>2, <2>1, ResultsKept
<1>f. ASSUME WorkerGoes(w, "fail"), UNCHANGED rows
       PROVE  ResultsInv'
  <2>1. \A v \in Workers : worker'[v] = worker[v] \/ worker'[v].pc = "fail"
    BY <1>0, <1>f DEF WorkerGoes, WorkerRecords
  <2> QED
    BY <1>f, <2>1, ResultsKept
<1>3. CASE ReadRun(w) \/ CheckFlag(w) \/ DropFlagEarly(w) \/ DropFlag(w) \/ RereadRun(w)
  BY <1>1, <1>2, <1>3
     DEF ReadRun, CheckFlag, DropFlagEarly, DropFlag, RereadRun, WorkerGoes, Says, Decides
<1>4. CASE Pipeline(w)
  BY <1>1, <1>2, <1>4 DEF Pipeline, WorkerGoes
<1>5. CASE PollCancel(w)
  <2>1. \A v \in Workers : worker'[v] = worker[v] \/ worker'[v].pc \in {"saveHistory", "generation"}
    BY <1>0, <1>5 DEF PollCancel, Decides, WorkerGoes, WorkerRecords
  <2> QED
    BY <1>5, <2>1, ResultsKept DEF PollCancel
<1>6. CASE Generation(w)
  <2>1. \A v \in Workers : worker'[v] = worker[v] \/ worker'[v].pc \in {"saveHistory", "poll"}
    BY <1>0, <1>6 DEF Generation, WorkerRecords
  <2> QED
    BY <1>6, <2>1, ResultsKept DEF Generation
<1>7. CASE Publish(w)
  <2>1. AfterPublish(w) \notin {"saveStats", "finish"}
    BY DEF AfterPublish
  <2> QED
    BY <1>1, <1>7, <2>1 DEF Publish, WorkerGoes
<1>8. CASE AckJob(w)
  <2>1. \A v \in Workers : worker'[v] = worker[v] \/ worker'[v].pc = "idle"
    BY <1>0, <1>8 DEF AckJob, NoWork
  <2> QED
    BY <1>8, <2>1, ResultsKept DEF AckJob
<1>9. CASE CancelEarly(w)
  <2>1. \A v \in Workers : worker'[v] = worker[v] \/ worker'[v].pc \in {"publish", "ack"}
    BY <1>0, <1>9 DEF CancelEarly, Says, Decides, WorkerRecords
  <2> QED
    BY <1>0, <1>9, <2>1, ResultsKept DEF CancelEarly, Live, NotLive
<1>10. CASE StartRun(w) \/ CancelLate(w)
  BY <1>10, ResultsWriteStatus
     DEF StartRun, CancelLate, Statuses, Cancellable, Terminal
<1>11. CASE FinishEmpty(w)
  <2>1. worker[w].verdict \in {"PRE_GA_EMPTY", "SSA_INFEASIBLE"}
    BY <1>11 DEF FinishEmpty, TypeOK, WorkerLocals, LocalsFit
  <2> QED
    BY <1>11, <2>1, ResultsWriteStatus DEF FinishEmpty, Statuses, Terminal, Verdicts
<1>12. CASE FinishRun(w)
  <2>1. worker[w].verdict \in {"COMPLETED", "STAGNATED"}
    BY <1>12 DEF FinishRun, TypeOK, WorkerLocals, LocalsFit
  <2>2. Live(r) => r \in assigned
    BY <1>12 DEF FinishRun, ResultsInv, Live, NotLive
  <2> QED
    BY <1>12, <2>1, <2>2, ResultsWriteStatus DEF FinishRun, Statuses, Terminal, Verdicts
<1>13. CASE FailRun(w)
  <2>1. \A v \in Workers : worker'[v] = worker[v] \/ worker'[v].pc = "publish"
    BY <1>0, <1>13 DEF FailRun, Says, WorkerRecords
  <2> QED
    BY <1>0, <1>13, <2>1, ResultsKept DEF FailRun, Live, NotLive
<1>14. CASE SaveHistory(w)
  <2>1. CASE WorkerGoes(w, "fail") /\ UNCHANGED rows
    BY <2>1, <1>f
  <2>2. CASE /\ history' = [history EXCEPT ![r] = @ \cup PendingRows(w)]
             /\ WorkerGoes(w, IF worker[w].cancelled THEN "dropFlag" ELSE "saveStats")
             /\ UNCHANGED <<status, generationsRun, assigned>>
    <3>1. /\ worker'[w].gen = worker[w].gen /\ worker'[w].run = r
          /\ worker'[w].pc \in {"dropFlag", "saveStats"}
          /\ \A v \in Workers \ {w} : worker'[v] = worker[v]
      BY <1>0, <2>2 DEF WorkerGoes, WorkerRecords
    <3>2. r \in Runs
      BY <1>00, <1>14 DEF SaveHistory
    <3>3. /\ \A q \in Runs : history[q] \subseteq history'[q]
          /\ 1..worker[w].gen \subseteq history'[r]
      BY <1>0, <2>2, <3>2 DEF PendingRows
    <3>4. \A v \in Workers : worker[v].pc # "idle" => worker[v].run \in Runs
      BY DEF TypeOK, RunsKnown
    <3>5. \A v \in Workers : worker'[v].pc = "saveStats" /\ status'[worker'[v].run] # "deleted"
                           => 1..worker'[v].gen \subseteq history'[worker'[v].run]
      <4>1. CASE worker'[w].pc = "saveStats"
        BY <2>2, <3>1, <3>3, <3>4, <4>1 DEF ResultsInv
      <4>2. CASE worker'[w].pc = "dropFlag"
        BY <2>2, <3>1, <3>3, <3>4, <4>2 DEF ResultsInv
      <4> QED
        BY <3>1, <4>1, <4>2
    <3>6. \A v \in Workers : worker'[v].pc = "finish" /\ status'[worker'[v].run] # "deleted"
                           => worker'[v].run \in assigned'
      BY <2>2, <3>1 DEF ResultsInv
    <3>7. \A q \in Runs : status'[q] # "deleted" => 1..generationsRun'[q] \subseteq history'[q]
      BY <2>2, <3>3 DEF ResultsInv
    <3>8. \A q \in Runs : status'[q] \in {"COMPLETED", "STAGNATED"} => q \in assigned'
      BY <2>2 DEF ResultsInv
    <3> QED
      BY <3>5, <3>6, <3>7, <3>8 DEF ResultsInv
  <2> QED
    BY <1>14, <2>1, <2>2 DEF SaveHistory
<1>15. CASE SaveStats(w)
  <2>1. CASE WorkerGoes(w, "fail") /\ UNCHANGED rows
    BY <2>1, <1>f
  <2>2. CASE /\ Live(r)
             /\ generationsRun' = [generationsRun EXCEPT ![r] = worker[w].gen]
             /\ WorkerGoes(w, "persist")
             /\ UNCHANGED <<status, history, assigned>>
    <3>1. \A v \in Workers : worker'[v] = worker[v] \/ worker'[v].pc = "persist"
      BY <1>0, <2>2 DEF WorkerGoes, WorkerRecords
    <3>2. r \in Runs /\ 1..worker[w].gen \subseteq history[r]
      BY <1>00, <1>15, <2>2 DEF SaveStats, ResultsInv, Live, NotLive
    <3>3. \A q \in Runs : status'[q] # "deleted" => 1..generationsRun'[q] \subseteq history'[q]
      BY <1>0, <2>2, <3>2 DEF ResultsInv
    <3>4. \A v \in Workers : worker'[v].pc \in {"saveStats", "finish"} => worker'[v] = worker[v]
      BY <3>1
    <3>5. \A q \in Runs : status'[q] \in {"COMPLETED", "STAGNATED"} => q \in assigned'
      BY <2>2 DEF ResultsInv
    <3>6. \A v \in Workers : worker'[v].pc = "saveStats" /\ status'[worker'[v].run] # "deleted"
                           => 1..worker'[v].gen \subseteq history'[worker'[v].run]
      BY <2>2, <3>4 DEF ResultsInv
    <3>7. \A v \in Workers : worker'[v].pc = "finish" /\ status'[worker'[v].run] # "deleted"
                           => worker'[v].run \in assigned'
      BY <2>2, <3>4 DEF ResultsInv
    <3> QED
      BY <3>3, <3>5, <3>6, <3>7 DEF ResultsInv
  <2> QED
    BY <1>15, <2>1, <2>2 DEF SaveStats
<1>16. CASE PersistAssignments(w)
  <2>1. CASE WorkerGoes(w, "fail") /\ UNCHANGED rows
    BY <2>1, <1>f
  <2>2. CASE /\ assigned' = assigned \cup {r}
             /\ WorkerGoes(w, "finish")
             /\ UNCHANGED <<status, generationsRun, history>>
    <3>1. worker'[w].run = r /\ worker'[w].pc = "finish"
      BY <1>0, <2>2 DEF WorkerGoes, WorkerRecords
    <3>2. \A v \in Workers \ {w} : worker'[v] = worker[v]
      BY <1>0, <2>2 DEF WorkerGoes
    <3>3. \A v \in Workers : worker'[v].pc = "saveStats" /\ status'[worker'[v].run] # "deleted"
                           => 1..worker'[v].gen \subseteq history'[worker'[v].run]
      BY <2>2, <3>1, <3>2 DEF ResultsInv
    <3>4. \A v \in Workers : worker'[v].pc = "finish" /\ status'[worker'[v].run] # "deleted"
                           => worker'[v].run \in assigned'
      BY <2>2, <3>1, <3>2 DEF ResultsInv
    <3>5. /\ \A q \in Runs : status'[q] # "deleted" => 1..generationsRun'[q] \subseteq history'[q]
          /\ \A q \in Runs : status'[q] \in {"COMPLETED", "STAGNATED"} => q \in assigned'
      BY <2>2 DEF ResultsInv
    <3> QED
      BY <3>3, <3>4, <3>5 DEF ResultsInv
  <2> QED
    BY <1>16, <2>1, <2>2 DEF PersistAssignments
<1> QED
  BY <1>3, <1>4, <1>5, <1>6, <1>7, <1>8, <1>9, <1>10, <1>11, <1>12, <1>13, <1>14, <1>15, <1>16
     DEF WorkerStep

LEMMA ResultsInit == Init => ResultsInv
BY DEF Init, ResultsInv, NoWork

LEMMA ResultsNext == TypeOK /\ ResultsInv /\ [Next]_vars => ResultsInv'
<1> SUFFICES ASSUME TypeOK, ResultsInv, [Next]_vars
             PROVE  ResultsInv'
  OBVIOUS
<1> USE DEF rows, content, redis
<1>1. CASE UNCHANGED <<rows, worker>>
  BY <1>1, ResultsKept
<1>2. ASSUME NEW c \in Calls, ClientRequest(c)
      PROVE  ResultsInv'
  BY <1>1, <1>2 DEF ClientRequest, PostCreate, PostCancel, DeleteRun, PutOverride
<1>3. ASSUME NEW w \in Workers, WorkerFault(w)
      PROVE  ResultsInv'
  <2>1. \A v \in Workers : worker'[v] = worker[v] \/ worker'[v].pc \in {"fail", "ack", "idle"}
    BY <1>3 DEF WorkerFault, Throw, ThrowEarly, WorkerCrash, WorkerGoes, Decides, NoWork,
                TypeOK, Shape, WorkerRecords
  <2> QED
    BY <1>3, <2>1, ResultsKept DEF WorkerFault, Throw, ThrowEarly, WorkerCrash
<1>4. ASSUME NEW w \in Workers, NEW j \in JobIds, TakeJob(w, j)
      PROVE  ResultsInv'
  <2>1. [NoWork EXCEPT !.pc = "read", !.job = j, !.run = job[j].run].pc = "read"
    BY DEF NoWork
  <2>2. \A v \in Workers : worker'[v] = worker[v] \/ worker'[v].pc = "read"
    BY <1>4, <2>1 DEF TakeJob, TypeOK, Shape
  <2> QED
    BY <1>4, <2>2, ResultsKept DEF TakeJob
<1>5. ASSUME NEW j \in JobIds, StalledJob(j) \/ ForgetJob(j)
      PROVE  ResultsInv'
  BY <1>1, <1>5 DEF StalledJob, ForgetJob
<1>6. ASSUME NEW r \in Runs, ExpireCancelKey(r)
      PROVE  ResultsInv'
  BY <1>1, <1>6 DEF ExpireCancelKey
<1>7. CASE ApiCrash
  BY <1>1, <1>7 DEF ApiCrash
<1>8. CASE UNCHANGED vars
  BY <1>1, <1>8 DEF vars
<1> QED
  BY <1>2, <1>3, <1>4, <1>5, <1>6, <1>7, <1>8, ResultsApiStep, ResultsWorkerStep DEF Next, OtherStep

\* Under every fault, a run shown as COMPLETED or STAGNATED has its schedule and
\* the fitness history that its generationsRun announces.
THEOREM ResultsCorrect == Spec => []ResultsComplete
<1>1. ResultsInv => ResultsComplete
  <2> SUFFICES ASSUME ResultsInv, NEW r \in Runs, status[r] \in {"COMPLETED", "STAGNATED"}
               PROVE  r \in assigned /\ 1..generationsRun[r] \subseteq history[r]
    BY DEF ResultsComplete
  <2> QED
    BY DEF ResultsInv
<1> QED
  BY <1>1, TypeCorrect, ResultsInit, ResultsNext, PTL DEF Spec

-----------------------------------------------------------------------------
(* Deletion leaves nothing behind                                          *)

\* A step that gives no row of its own to a run that is not there.
LEMMA DebrisKept ==
  ASSUME NoDebris,
         \A r \in Runs : status'[r] \in NotLive =>
           /\ status[r] \in NotLive
           /\ history'[r] = history[r]
           /\ r \in assigned' \cup overridden' => r \in assigned \cup overridden
  PROVE  NoDebris'
BY DEF NoDebris, Live

\* A status other than "none" and "deleted" is written.
LEMMA DebrisStatus ==
  ASSUME TypeOK, NoDebris, NEW r \in Runs, NEW s \in Statuses,
         status' = [status EXCEPT ![r] = s], UNCHANGED <<history, assigned, overridden>>
  PROVE  NoDebris'
<1>1. s \notin NotLive
  BY DEF Statuses, Cancellable, Terminal, Verdicts, NotLive
<1>2. \A q \in Runs : status'[q] \in NotLive => status[q] \in NotLive
  BY <1>1 DEF TypeOK, Shape
<1> QED
  BY <1>2, DebrisKept

LEMMA DebrisWriteStatus ==
  ASSUME TypeOK, NoDebris, NEW w \in Workers, NEW s \in Statuses,
         worker[w].pc # "idle", WriteStatus(w, s), UNCHANGED content
  PROVE  NoDebris'
<1>1. worker[w].run \in Runs
  BY DEF TypeOK, RunsKnown
<1>2. CASE UNCHANGED status
  BY <1>2, DebrisKept DEF content
<1> QED
  BY <1>1, <1>2, DebrisStatus DEF WriteStatus, content

LEMMA DebrisApiStep ==
  ASSUME TypeOK, NoDebris, NEW c \in Calls, ApiStep(c)
  PROVE  NoDebris'
<1> USE DEF rows, content, redis
<1>0. /\ status \in [Runs -> Statuses \cup NotLive]
      /\ history \in [Runs -> SUBSET (1..Generations)]
      /\ call[c].pc \in RowPcs => call[c].run \in Runs
  BY DEF TypeOK, Shape, RunsKnown
<1>1. CASE UNCHANGED rows
  BY <1>1, DebrisKept
<1>2. CASE InsertRow(c)
  BY <1>1, <1>2, DebrisStatus DEF InsertRow, Statuses, Cancellable
<1>3. CASE MarkFailed(c)
  BY <1>0, <1>1, <1>3, DebrisStatus DEF MarkFailed, RowPcs, Statuses, Terminal, Verdicts
<1>4. CASE CancelRow(c)
  BY <1>0, <1>1, <1>4, DebrisStatus DEF CancelRow, RowPcs, Statuses, Terminal
<1>5. CASE EraseRow(c)
  <2>1. CASE UNCHANGED <<status, history, assigned, overridden>>
    BY <2>1, DebrisKept
  <2>2. CASE status' = [status EXCEPT ![call[c].run] = "deleted"] /\ Cascade(call[c].run)
    <3>1. call[c].run \in Runs
      BY <1>0, <1>5 DEF EraseRow, RowPcs
    <3>2. /\ history'[call[c].run] = {} /\ call[c].run \notin assigned' \cup overridden'
          /\ \A q \in Runs \ {call[c].run} :
               status'[q] = status[q] /\ history'[q] = history[q]
          /\ assigned' \subseteq assigned /\ overridden' \subseteq overridden
      BY <1>0, <2>2, <3>1 DEF Cascade
    <3> QED
      BY <3>2 DEF NoDebris, Live
  <2> QED
    BY <1>5, <2>1, <2>2 DEF EraseRow
<1>6. CASE OverrideRow(c)
  BY <1>6, DebrisKept DEF OverrideRow
<1> QED
  BY <1>1, <1>2, <1>3, <1>4, <1>5, <1>6
     DEF ApiStep, LookupKey, CountOfferings, RelookupKey, Enqueue, RequestCancellation, Answered

LEMMA DebrisWorkerStep ==
  ASSUME TypeOK, NoDebris, NEW w \in Workers, WorkerStep(w)
  PROVE  NoDebris'
<1> USE DEF rows, content, redis
<1> DEFINE r == worker[w].run
<1>0. /\ status \in [Runs -> Statuses \cup NotLive]
      /\ history \in [Runs -> SUBSET (1..Generations)]
      /\ worker[w].pc # "idle" => r \in Runs
  BY DEF TypeOK, Shape, RunsKnown
<1>1. CASE UNCHANGED <<status, history, assigned, overridden>>
  BY <1>1, DebrisKept
<1>2. CASE CancelEarly(w)
  BY <1>0, <1>1, <1>2, DebrisStatus DEF CancelEarly, Statuses, Terminal
<1>3. CASE StartRun(w) \/ CancelLate(w)
  BY <1>3, DebrisWriteStatus DEF StartRun, CancelLate, Statuses, Cancellable, Terminal
<1>4. CASE FinishEmpty(w)
  <2>1. worker[w].verdict \in {"PRE_GA_EMPTY", "SSA_INFEASIBLE"}
    BY <1>4 DEF FinishEmpty, TypeOK, WorkerLocals, LocalsFit
  <2> QED
    BY <1>4, <2>1, DebrisWriteStatus DEF FinishEmpty, Statuses, Terminal, Verdicts
<1>5. CASE FinishRun(w)
  <2>1. worker[w].verdict \in {"COMPLETED", "STAGNATED"}
    BY <1>5 DEF FinishRun, TypeOK, WorkerLocals, LocalsFit
  <2> QED
    BY <1>5, <2>1, DebrisWriteStatus DEF FinishRun, Statuses, Terminal, Verdicts
<1>6. CASE FailRun(w)
  BY <1>0, <1>1, <1>6, DebrisStatus DEF FailRun, Statuses, Terminal, Verdicts
<1>7. CASE SaveHistory(w)
  <2>1. CASE /\ ForeignKey(r) \/ PendingRows(w) = {}
             /\ history' = [history EXCEPT ![r] = @ \cup PendingRows(w)]
    <3>1. \A q \in Runs : status[q] \in NotLive => history'[q] = history[q]
      BY <1>0, <2>1 DEF ForeignKey, Live
    <3> QED
      BY <1>7, <3>1, DebrisKept DEF SaveHistory
  <2> QED
    BY <1>1, <1>7, <2>1 DEF SaveHistory
<1>8. CASE PersistAssignments(w)
  BY <1>1, <1>8, DebrisKept DEF PersistAssignments, ForeignKey, Live
<1> QED
  BY <1>1, <1>2, <1>3, <1>4, <1>5, <1>6, <1>7, <1>8
     DEF WorkerStep, ReadRun, CheckFlag, DropFlagEarly, Pipeline, PollCancel, Generation,
         DropFlag, RereadRun, SaveStats, Publish, AckJob

LEMMA DebrisNext == TypeOK /\ NoDebris /\ [Next]_vars => NoDebris'
<1> SUFFICES ASSUME TypeOK, NoDebris, [Next]_vars
             PROVE  NoDebris'
  OBVIOUS
<1> USE DEF rows, content, redis
<1>1. CASE UNCHANGED rows
  BY <1>1, DebrisKept
<1>2. ASSUME NEW c \in Calls, ClientRequest(c)
      PROVE  NoDebris'
  BY <1>1, <1>2 DEF ClientRequest, PostCreate, PostCancel, DeleteRun, PutOverride
<1>3. ASSUME NEW w \in Workers, WorkerFault(w)
      PROVE  NoDebris'
  BY <1>1, <1>3 DEF WorkerFault, Throw, ThrowEarly, WorkerCrash
<1>4. ASSUME NEW w \in Workers, NEW j \in JobIds, TakeJob(w, j)
      PROVE  NoDebris'
  BY <1>1, <1>4 DEF TakeJob
<1>5. ASSUME NEW j \in JobIds, StalledJob(j) \/ ForgetJob(j)
      PROVE  NoDebris'
  BY <1>1, <1>5 DEF StalledJob, ForgetJob
<1>6. ASSUME NEW r \in Runs, ExpireCancelKey(r)
      PROVE  NoDebris'
  BY <1>1, <1>6 DEF ExpireCancelKey
<1>7. CASE ApiCrash
  BY <1>1, <1>7 DEF ApiCrash
<1>8. CASE UNCHANGED vars
  BY <1>1, <1>8 DEF vars
<1> QED
  BY <1>2, <1>3, <1>4, <1>5, <1>6, <1>7, <1>8, DebrisApiStep, DebrisWorkerStep DEF Next, OtherStep

\* Under every fault, no assignment, override or fitness row of a run that is not
\* there: whatever the worker or an override was doing when it was deleted.
THEOREM DeletionIsClean == Spec => []NoDebris
<1>1. Init => NoDebris
  BY DEF Init, NoDebris
<1> QED
  BY <1>1, TypeCorrect, DebrisNext, PTL DEF Spec

-----------------------------------------------------------------------------
(* Replays of an Idempotency-Key                                           *)

\* A step that leaves the known rows' requests alone, and accepts no request.
LEMMA RequestKept ==
  ASSUME TypeOK, RequestInv,
         \A r \in Runs : status[r] # "none" => status'[r] # "none" /\ request'[r] = request[r],
         \A d \in Calls : call'[d] = call[d] \/ call'[d].pc \notin {"enqueue", "202"}
  PROVE  RequestInv'
<1>1. \A d \in Calls : call[d].pc \in {"enqueue", "202"} => call[d].run \in Runs
  BY DEF TypeOK, RunsKnown, RowPcs
<1> QED
  BY <1>1 DEF RequestInv

\* The answer to a key that already names a row.
LEMMA RequestReplay ==
  ASSUME TypeOK, RequestInv, NEW c \in Calls, NEW r \in RowsWithKey(call[c].key),
         AnswerReplay(c, r), UNCHANGED rows
  PROVE  RequestInv'
<1> USE DEF rows, content
<1>1. r \in Runs /\ status[r] # "none" /\ request[r].key = call[c].key
  BY DEF RowsWithKey, Live, NotLive
<1>2. call[c] \in CallRecords /\ \A d \in Calls \ {c} : call'[d] = call[d]
  BY DEF TypeOK, Shape, AnswerReplay
<1>3. CASE SameBody(c, r)
  <2>1. call'[c].run = r /\ call'[c].key = call[c].key /\ call'[c].body = call[c].body
    BY <1>2 DEF AnswerReplay, TypeOK, Shape, CallRecords
  <2> QED
    BY <1>1, <1>2, <1>3, <2>1 DEF SameBody, RequestInv
<1>4. CASE ~SameBody(c, r)
  <2>1. call'[c].pc = "409"
    BY <1>2, <1>4 DEF AnswerReplay, TypeOK, Shape, CallRecords
  <2> QED
    BY <1>2, <2>1, RequestKept
<1> QED
  BY <1>3, <1>4

LEMMA RequestApiStep ==
  ASSUME TypeOK, RequestInv, NEW c \in Calls, ApiStep(c)
  PROVE  RequestInv'
<1> USE DEF rows, content, redis
<1>0. /\ status \in [Runs -> Statuses \cup NotLive]
      /\ call \in [Calls -> CallRecords] /\ call[c] \in CallRecords
      /\ call[c].pc \in RowPcs => call[c].run \in Runs
  BY DEF TypeOK, Shape, RunsKnown
<1>1. ASSUME NEW p, p \notin {"enqueue", "202"}, CallGoes(c, p), UNCHANGED request,
             \A r \in Runs : status[r] # "none" => status'[r] # "none"
      PROVE  RequestInv'
  <2>1. \A d \in Calls : call'[d] = call[d] \/ call'[d].pc = p
    BY <1>0, <1>1 DEF CallGoes, CallRecords
  <2> QED
    BY <1>1, <2>1, RequestKept
<1>2. CASE LookupKey(c)
  BY <1>1, <1>2, RequestReplay DEF LookupKey
<1>3. CASE CountOfferings(c)
  BY <1>1, <1>3 DEF CountOfferings
<1>4. CASE InsertRow(c)
  <2>1. CASE CallGoes(c, "relookup") /\ UNCHANGED rows
    BY <1>1, <2>1
  <2>2. ASSUME NEW r \in Runs, status[r] = "none",
               status' = [status EXCEPT ![r] = "QUEUED"],
               request' = [request EXCEPT ![r] = [key |-> call[c].key, body |-> call[c].body]],
               call' = [call EXCEPT ![c].run = r, ![c].pc = "enqueue"]
        PROVE  RequestInv'
    <3>1. /\ call'[c].run = r /\ call'[c].key = call[c].key /\ call'[c].body = call[c].body
          /\ \A d \in Calls \ {c} : call'[d] = call[d]
      BY <1>0, <2>2 DEF CallRecords
    <3>2. status'[r] # "none" /\ request'[r].key = call[c].key /\ request'[r].body = call[c].body
      BY <1>0, <2>2 DEF TypeOK, Shape
    <3>3. \A q \in Runs \ {r} : status'[q] = status[q] /\ request'[q] = request[q]
      BY <2>2
    <3>4. \A d \in Calls : call[d].pc \in {"enqueue", "202"} => call[d].run \in Runs
      BY DEF TypeOK, RunsKnown, RowPcs
    <3>5. \A d \in Calls : call[d].pc \in {"enqueue", "202"} => call[d].run \in Runs \ {r}
      BY <2>2, <3>4 DEF RequestInv
    <3>6. ASSUME NEW d \in Calls \ {c}, call'[d].pc \in {"enqueue", "202"}
          PROVE  /\ status'[call'[d].run] # "none"
                 /\ request'[call'[d].run].key = call'[d].key
                 /\ request'[call'[d].run].body = call'[d].body
      BY <3>1, <3>3, <3>5, <3>6 DEF RequestInv
    <3>7. /\ status'[call'[c].run] # "none"
          /\ request'[call'[c].run].key = call'[c].key
          /\ request'[call'[c].run].body = call'[c].body
      BY <3>1, <3>2
    <3> QED
      BY <3>6, <3>7 DEF RequestInv
  <2> QED
    BY <1>4, <2>1, <2>2 DEF InsertRow
<1>5. CASE RelookupKey(c)
  BY <1>1, <1>5, RequestReplay DEF RelookupKey
<1>6. CASE Enqueue(c)
  <2>1. CASE CallGoes(c, "markFailed")
    BY <1>1, <1>6, <2>1 DEF Enqueue
  <2>2. CASE CallGoes(c, "202")
    <3>1. /\ call'[c].run = call[c].run /\ call'[c].key = call[c].key
          /\ call'[c].body = call[c].body
          /\ \A d \in Calls \ {c} : call'[d] = call[d]
      BY <1>0, <2>2 DEF CallGoes, CallRecords
    <3> QED
      BY <1>6, <3>1 DEF Enqueue, RequestInv
  <2> QED
    BY <1>6, <2>1, <2>2 DEF Enqueue
<1>7. CASE MarkFailed(c)
  BY <1>0, <1>1, <1>7 DEF MarkFailed
<1>8. CASE RequestCancellation(c)
  BY <1>1, <1>8 DEF RequestCancellation
<1>9. CASE CancelRow(c)
  BY <1>0, <1>1, <1>9 DEF CancelRow
<1>10. CASE EraseRow(c)
  BY <1>0, <1>1, <1>10 DEF EraseRow
<1>11. CASE OverrideRow(c)
  BY <1>0, <1>1, <1>11 DEF OverrideRow
<1>12. CASE Answered(c)
  <2>1. NoCall.pc = "idle"
    BY DEF NoCall
  <2>2. \A d \in Calls : call'[d] = call[d] \/ call'[d].pc = "idle"
    BY <1>0, <1>12, <2>1 DEF Answered
  <2> QED
    BY <1>12, <2>2, RequestKept DEF Answered
<1> QED
  BY <1>2, <1>3, <1>4, <1>5, <1>6, <1>7, <1>8, <1>9, <1>10, <1>11, <1>12 DEF ApiStep

\* A new request, for any of the four operations, starts before its answer.
LEMMA RequestClient ==
  ASSUME TypeOK, RequestInv, NEW c \in Calls, ClientRequest(c)
  PROVE  RequestInv'
<1> USE DEF rows, content, redis
<1>1. \A d \in Calls : call'[d] = call[d] \/ call'[d].pc \notin {"enqueue", "202"}
  <2>1. CASE \E k \in Keys \cup {None}, b \in Bodies : PostCreate(c, k, b)
    BY <2>1 DEF PostCreate, TypeOK, Shape
  <2>2. ASSUME NEW r \in Runs, NEW p \in {"setFlag", "eraseRow", "overrideRow"}, CallStarts(c, p, r)
        PROVE  \A d \in Calls : call'[d] = call[d] \/ call'[d].pc = p
    BY <2>2 DEF CallStarts, NoCall, TypeOK, Shape
  <2> QED
    BY <2>1, <2>2 DEF ClientRequest, PostCancel, DeleteRun, PutOverride
<1> QED
  BY <1>1, RequestKept DEF ClientRequest, PostCreate, PostCancel, DeleteRun, PutOverride

\* The worker changes the status of a row, never its key nor its body.
LEMMA RequestWorkerStep ==
  ASSUME TypeOK, RequestInv, NEW w \in Workers, WorkerStep(w)
  PROVE  RequestInv'
<1> USE DEF rows, content, redis
<1>0. status \in [Runs -> Statuses \cup NotLive]
  BY DEF TypeOK, Shape
<1>1. UNCHANGED <<request, call>>
  BY DEF WorkerStep, ReadRun, CheckFlag, CancelEarly, DropFlagEarly, StartRun, Pipeline,
         PollCancel, Generation, SaveHistory, DropFlag, RereadRun, CancelLate, FinishEmpty,
         SaveStats, PersistAssignments, FinishRun, FailRun, Publish, AckJob
<1>2. CASE UNCHANGED status
  BY <1>1, <1>2, RequestKept
<1>3. ASSUME NEW r, NEW s, s # "none", status' = [status EXCEPT ![r] = s]
      PROVE  RequestInv'
  BY <1>0, <1>1, <1>3, RequestKept
<1>4. CASE CancelEarly(w) \/ FailRun(w)
  BY <1>2, <1>3, <1>4 DEF CancelEarly, FailRun
<1>5. CASE StartRun(w) \/ CancelLate(w)
  BY <1>2, <1>3, <1>5 DEF StartRun, CancelLate, WriteStatus
<1>6. CASE FinishEmpty(w) \/ FinishRun(w)
  <2>1. worker[w].verdict # "none"
    BY <1>6 DEF FinishEmpty, FinishRun, TypeOK, WorkerLocals, LocalsFit
  <2> QED
    BY <1>2, <1>3, <1>6, <2>1 DEF FinishEmpty, FinishRun, WriteStatus
<1> QED
  BY <1>2, <1>4, <1>5, <1>6
     DEF WorkerStep, ReadRun, CheckFlag, DropFlagEarly, Pipeline, PollCancel, Generation,
         SaveHistory, DropFlag, RereadRun, SaveStats, PersistAssignments, Publish, AckJob

LEMMA RequestNext == TypeOK /\ RequestInv /\ [Next]_vars => RequestInv'
<1> SUFFICES ASSUME TypeOK, RequestInv, [Next]_vars
             PROVE  RequestInv'
  OBVIOUS
<1> USE DEF rows, content, redis
<1>1. CASE UNCHANGED <<rows, call>>
  BY <1>1, RequestKept
<1>2. ASSUME NEW w \in Workers, WorkerFault(w)
      PROVE  RequestInv'
  BY <1>1, <1>2 DEF WorkerFault, Throw, ThrowEarly, WorkerCrash
<1>3. ASSUME NEW w \in Workers, NEW j \in JobIds, TakeJob(w, j)
      PROVE  RequestInv'
  BY <1>1, <1>3 DEF TakeJob
<1>4. ASSUME NEW j \in JobIds, StalledJob(j) \/ ForgetJob(j)
      PROVE  RequestInv'
  BY <1>1, <1>4 DEF StalledJob, ForgetJob
<1>5. ASSUME NEW r \in Runs, ExpireCancelKey(r)
      PROVE  RequestInv'
  BY <1>1, <1>5 DEF ExpireCancelKey
<1>6. CASE ApiCrash
  BY <1>6, RequestKept DEF ApiCrash, NoCall
<1>7. CASE UNCHANGED vars
  BY <1>1, <1>7 DEF vars
<1> QED
  BY <1>2, <1>3, <1>4, <1>5, <1>6, <1>7, RequestApiStep, RequestClient, RequestWorkerStep DEF Next, OtherStep

\* Under every fault, and for any number of racing requests, a 202 names a run
\* that was created for the key and the body of the request it answers.
THEOREM ReplaysCorrect == Spec => []ReplayFaithful
<1>1. Init => RequestInv
  BY DEF Init, RequestInv, NoCall
<1>2. TypeOK /\ RequestInv => ReplayFaithful
  <2> SUFFICES ASSUME TypeOK, RequestInv, NEW c \in Calls, call[c].pc = "202"
               PROVE  request[call[c].run] = [key |-> call[c].key, body |-> call[c].body]
    BY DEF ReplayFaithful
  <2>1. call[c].run \in Runs
    BY DEF TypeOK, RunsKnown, RowPcs
  <2>2. request[call[c].run] \in [key : Keys \cup {None}, body : Bodies \cup {None}]
    BY <2>1 DEF TypeOK, Shape
  <2> QED
    BY <2>2 DEF RequestInv
<1> QED
  BY <1>1, <1>2, TypeCorrect, RequestNext, PTL DEF Spec

-----------------------------------------------------------------------------
(***************************************************************************)
(* The verdict of a run, its driver and its contract. Where a run has one  *)
(* driver at a time, its verdict is final, what was announced is what is   *)
(* stored, and its history is that of one execution; no run waits for      *)
(* nobody; and the handlers, the queue and the worker implement            *)
(* RunContract: for any sets of runs, keys, requests and workers, any      *)
(* number of generations, and every fault but the few that each theorem    *)
(* names.                                                                  *)
(***************************************************************************)
\* A second execution of a run needs a worker that dies, or a job that was
\* queued although the request was told otherwise.
OneExecution == "workerCrash" \notin Faults /\ "enqueueLost" \notin Faults

Creates(c) == call[c].pc \in {"enqueue", "markFailed"}
Queued(j) == job[j].state \in {"wait", "active"}
Busy(w) == worker[w].pc # "idle"

-----------------------------------------------------------------------------
(* A run has one driver: the request that creates it, then its job, then   *)
(* the worker that holds this job.                                         *)

OneCreator ==
  \A c, d \in Calls : Creates(c) /\ Creates(d) /\ call[c].run = call[d].run => c = d

OneJob ==
  /\ \A i, j \in JobIds : Queued(i) /\ Queued(j) /\ job[i].run = job[j].run => i = j
  /\ \A c \in Calls, j \in JobIds : Creates(c) /\ Queued(j) => job[j].run # call[c].run

OneWorker ==
  /\ \A w \in Workers : Busy(w) => /\ job[worker[w].job].state = "active"
                                   /\ job[worker[w].job].run = worker[w].run
  /\ \A v, w \in Workers : Busy(v) /\ Busy(w) /\ worker[v].job = worker[w].job => v = w
  /\ \A j \in JobIds : job[j].state = "active" => \E w \in Workers : Busy(w) /\ worker[w].job = j

\* A run that was not created has no driver, and nothing was said of it.
Uncreated ==
  \A r \in Runs : status[r] = "none" =>
    /\ published[r] = "none"
    /\ \A c \in Calls : Creates(c) => call[c].run # r
    /\ \A j \in JobIds : Queued(j) => job[j].run # r

DriverInv == OneCreator /\ OneJob /\ OneWorker /\ Uncreated

\* The three ways a worker moves keep the rest of its record.
LEMMA GoesFields ==
  ASSUME Shape, NEW w \in Workers, NEW p, WorkerGoes(w, p)
  PROVE  /\ worker'[w].pc = p /\ worker'[w].verdict = worker[w].verdict
         /\ worker'[w].run = worker[w].run /\ worker'[w].job = worker[w].job
         /\ worker'[w].gen = worker[w].gen
         /\ \A v \in Workers \ {w} : worker'[v] = worker[v]
BY DEF Shape, WorkerRecords, WorkerGoes

LEMMA SaysFields ==
  ASSUME Shape, NEW w \in Workers, NEW s, Says(w, s)
  PROVE  /\ worker'[w].pc = "publish" /\ worker'[w].verdict = s
         /\ worker'[w].run = worker[w].run /\ worker'[w].job = worker[w].job
         /\ worker'[w].gen = worker[w].gen
         /\ \A v \in Workers \ {w} : worker'[v] = worker[v]
BY DEF Shape, WorkerRecords, Says

LEMMA DecidesFields ==
  ASSUME Shape, NEW w \in Workers, NEW s, NEW p, Decides(w, s, p)
  PROVE  /\ worker'[w].pc = p /\ worker'[w].verdict = s
         /\ worker'[w].run = worker[w].run /\ worker'[w].job = worker[w].job
         /\ worker'[w].gen = worker[w].gen
         /\ \A v \in Workers \ {w} : worker'[v] = worker[v]
BY DEF Shape, WorkerRecords, Decides

\* The steps of a job in hand that are neither its first nor its last.
JobSteps(w) ==
  /\ worker[w].pc # "idle" /\ worker'[w].pc # "idle"
  /\ worker'[w].run = worker[w].run /\ worker'[w].job = worker[w].job
  /\ \A v \in Workers \ {w} : worker'[v] = worker[v]
  /\ UNCHANGED <<call, job>>

\* A worker writes no row and no event but those of its own run.
OwnRow(w) ==
  /\ \A q \in Runs \ {worker[w].run} :
       /\ status'[q] = status[q] /\ published'[q] = published[q]
       /\ history'[q] = history[q] /\ generationsRun'[q] = generationsRun[q]
  /\ \A q \in Runs : status'[q] = "none" => status[q] = "none"

LEMMA WriteStatusOwn ==
  ASSUME TypeOK, NEW w \in Workers, NEW s, s # "none", WriteStatus(w, s),
         worker[w].pc # "idle", UNCHANGED <<content, redis, call>>
  PROVE  JobSteps(w) /\ OwnRow(w)
<1>1. JobSteps(w)
  BY GoesFields, SaysFields DEF JobSteps, WriteStatus, TypeOK, redis
<1>2. OwnRow(w)
  BY DEF OwnRow, WriteStatus, TypeOK, Shape, content, redis
<1> QED BY <1>1, <1>2

LEMMA WorkerOwnRow ==
  ASSUME TypeOK, NEW w \in Workers, WorkerStep(w), ~AckJob(w)
  PROVE  JobSteps(w) /\ OwnRow(w)
<1> USE DEF rows, content, redis
<1>0. Shape /\ worker[w] \in WorkerRecords
  BY DEF TypeOK, Shape
<1>1. ASSUME UNCHANGED <<rows, published>> PROVE OwnRow(w)
  BY <1>1 DEF OwnRow
<1>2. ASSUME NEW p, WorkerGoes(w, p), p # "idle", worker[w].pc # "idle", UNCHANGED <<call, job>>
      PROVE  JobSteps(w)
  BY <1>0, <1>2, GoesFields DEF JobSteps
<1>3. ASSUME NEW s, Says(w, s), worker[w].pc # "idle", UNCHANGED <<call, job>>
      PROVE  JobSteps(w)
  BY <1>0, <1>3, SaysFields DEF JobSteps
<1>4. ASSUME NEW s, NEW p, Decides(w, s, p), p # "idle", worker[w].pc # "idle", UNCHANGED <<call, job>>
      PROVE  JobSteps(w)
  BY <1>0, <1>4, DecidesFields DEF JobSteps
<1>5. CASE ReadRun(w)
  BY <1>5, <1>1, <1>2, <1>3, <1>4 DEF ReadRun
<1>6. CASE CheckFlag(w)
  BY <1>6, <1>1, <1>2 DEF CheckFlag
<1>7. CASE CancelEarly(w)
  <2>1. JobSteps(w)
    BY <1>7, <1>3, <1>4 DEF CancelEarly
  <2>2. OwnRow(w)
    BY <1>7, <1>0 DEF CancelEarly, OwnRow, Shape
  <2> QED BY <2>1, <2>2
<1>8. CASE DropFlagEarly(w) \/ DropFlag(w)
  BY <1>8, <1>1, <1>2 DEF DropFlagEarly, DropFlag
<1>9. CASE StartRun(w) \/ CancelLate(w)
  BY <1>9, WriteStatusOwn DEF StartRun, CancelLate
<1>10. CASE Pipeline(w)
  BY <1>10, <1>1, <1>2, <1>4 DEF Pipeline
<1>11. CASE PollCancel(w)
  <2>1. ASSUME worker' = [worker EXCEPT ![w].pc = "saveHistory", ![w].cancelled = TRUE]
        PROVE  JobSteps(w)
    BY <1>0, <1>11, <2>1 DEF JobSteps, PollCancel, Shape, WorkerRecords
  <2> QED
    BY <1>11, <2>1, <1>1, <1>2, <1>4 DEF PollCancel
<1>12. CASE Generation(w)
  <2>1. ASSUME NEW v, NEW p, p # "idle",
               worker' = [worker EXCEPT ![w].gen = @ + 1, ![w].verdict = v, ![w].pc = p]
        PROVE  JobSteps(w)
    <3>1. /\ worker'[w] = [worker[w] EXCEPT !.gen = @ + 1, !.verdict = v, !.pc = p]
          /\ \A u \in Workers \ {w} : worker'[u] = worker[u]
      BY <1>0, <2>1 DEF Shape
    <3>2. worker'[w].pc = p /\ worker'[w].run = worker[w].run /\ worker'[w].job = worker[w].job
      BY <1>0, <3>1 DEF WorkerRecords
    <3> QED
      BY <1>12, <2>1, <3>1, <3>2 DEF JobSteps, Generation
  <2>2. PICK exit \in {<<"STAGNATED", "saveHistory">>, <<"COMPLETED", "saveHistory">>,
                     <<worker[w].verdict, "poll">>} :
          worker' = [worker EXCEPT ![w].gen = @ + 1, ![w].verdict = exit[1], ![w].pc = exit[2]]
    BY <1>12 DEF Generation
  <2>3. exit[2] # "idle"
    OBVIOUS
  <2>4. JobSteps(w)
    BY <2>1, <2>2, <2>3
  <2> QED
    BY <1>12, <2>4, <1>1 DEF Generation
<1>13. CASE SaveHistory(w)
  <2>1. JobSteps(w)
    BY <1>13, <1>2 DEF SaveHistory
  <2>2. OwnRow(w)
    BY <1>13, <1>0 DEF SaveHistory, OwnRow, Shape
  <2> QED BY <2>1, <2>2
<1>14. CASE RereadRun(w)
  BY <1>14, <1>1, <1>2, <1>3 DEF RereadRun
<1>15. CASE FinishEmpty(w) \/ FinishRun(w)
  <2>1. worker[w].verdict # "none"
    BY <1>15 DEF FinishEmpty, FinishRun, TypeOK, WorkerLocals, LocalsFit
  <2> QED
    BY <1>15, <2>1, WriteStatusOwn DEF FinishEmpty, FinishRun
<1>16. CASE SaveStats(w)
  <2>1. JobSteps(w)
    BY <1>16, <1>2 DEF SaveStats
  <2>2. OwnRow(w)
    BY <1>16, <1>0 DEF SaveStats, OwnRow, Shape
  <2> QED BY <2>1, <2>2
<1>17. CASE PersistAssignments(w)
  <2>1. JobSteps(w)
    BY <1>17, <1>2 DEF PersistAssignments
  <2>2. OwnRow(w)
    BY <1>17 DEF PersistAssignments, OwnRow
  <2> QED BY <2>1, <2>2
<1>18. CASE FailRun(w)
  <2>1. JobSteps(w)
    BY <1>18, <1>3 DEF FailRun
  <2>2. OwnRow(w)
    BY <1>18, <1>0 DEF FailRun, OwnRow, Shape
  <2> QED BY <2>1, <2>2
<1>19. CASE Publish(w)
  <2>1. AfterPublish(w) # "idle"
    BY DEF AfterPublish
  <2>2. JobSteps(w)
    BY <1>19, <2>1, <1>2 DEF Publish
  <2>3. OwnRow(w)
    BY <1>19, <1>0 DEF Publish, OwnRow, Shape
  <2> QED BY <2>2, <2>3
<1> QED
  BY <1>5, <1>6, <1>7, <1>8, <1>9, <1>10, <1>11, <1>12, <1>13, <1>14, <1>15, <1>16, <1>17,
     <1>18, <1>19 DEF WorkerStep

-----------------------------------------------------------------------------
(* One driver                                                              *)

\* Requests may end; jobs and the workers on them stay; no run is created.
LEMMA DriverFrame ==
  ASSUME TypeOK, DriverInv, UNCHANGED job,
         \A c \in Calls : Creates(c)' => Creates(c) /\ call'[c].run = call[c].run,
         \A w \in Workers : /\ Busy(w)' <=> Busy(w)
                            /\ worker'[w].job = worker[w].job /\ worker'[w].run = worker[w].run,
         \A r \in Runs : status'[r] = "none" => status[r] = "none" /\ published'[r] = published[r]
  PROVE  DriverInv'
<1>1. OneCreator'
  BY DEF DriverInv, OneCreator
<1>2. OneJob'
  BY DEF DriverInv, OneJob, Queued
<1>3. OneWorker'
  BY DEF DriverInv, OneWorker
<1>4. Uncreated'
  BY DEF DriverInv, Uncreated, Queued
<1> QED
  BY <1>1, <1>2, <1>3, <1>4 DEF DriverInv

\* The run of a worker exists, and nobody else drives it.
LEMMA Sole ==
  ASSUME TypeOK, DriverInv, NEW w \in Workers, Busy(w)
  PROVE  /\ worker[w].run \in Runs /\ worker[w].job \in JobIds
         /\ status[worker[w].run] # "none"
         /\ \A c \in Calls : Creates(c) => call[c].run # worker[w].run
         /\ \A j \in JobIds : job[j].state = "wait" => job[j].run # worker[w].run
         /\ \A v \in Workers \ {w} : Busy(v) => worker[v].run # worker[w].run
<1>1. worker[w].run \in Runs /\ worker[w].job \in JobIds
  BY DEF TypeOK, RunsKnown, Busy
<1>2. /\ Queued(worker[w].job) /\ job[worker[w].job].state = "active"
      /\ job[worker[w].job].run = worker[w].run
  BY DEF DriverInv, OneWorker, Queued
<1>3. status[worker[w].run] # "none"
  BY <1>1, <1>2 DEF DriverInv, Uncreated
<1>4. \A c \in Calls : Creates(c) => call[c].run # worker[w].run
  BY <1>1, <1>2 DEF DriverInv, OneJob
<1>5. \A j \in JobIds : job[j].state = "wait" => job[j].run # worker[w].run
  BY <1>1, <1>2 DEF DriverInv, OneJob, Queued
<1>6. ASSUME NEW v \in Workers \ {w}, Busy(v), worker[v].run = worker[w].run
      PROVE  FALSE
  <2>1. worker[v].job \in JobIds
    BY <1>6 DEF TypeOK, RunsKnown, Busy
  <2>2. Queued(worker[v].job) /\ job[worker[v].job].run = worker[v].run
    BY <1>6 DEF DriverInv, OneWorker, Queued
  <2>3. worker[v].job = worker[w].job
    BY <1>1, <1>2, <1>6, <2>1, <2>2 DEF DriverInv, OneJob
  <2> QED
    BY <1>6, <2>3 DEF DriverInv, OneWorker
<1> QED
  BY <1>1, <1>3, <1>4, <1>5, <1>6

\* The other request that creates a run is about another run, and so are the jobs.
LEMMA SoleCreator ==
  ASSUME TypeOK, DriverInv, NEW c \in Calls, Creates(c)
  PROVE  /\ call[c].run \in Runs /\ status[call[c].run] # "none"
         /\ \A d \in Calls \ {c} : Creates(d) => call[d].run # call[c].run
         /\ \A j \in JobIds : Queued(j) => job[j].run # call[c].run
         /\ \A w \in Workers : Busy(w) => worker[w].run # call[c].run
<1>1. call[c].run \in Runs
  BY DEF TypeOK, RunsKnown, RowPcs, Creates
<1>2. status[call[c].run] # "none"
  BY <1>1 DEF DriverInv, Uncreated
<1>3. \A d \in Calls \ {c} : Creates(d) => call[d].run # call[c].run
  BY DEF DriverInv, OneCreator
<1>4. \A j \in JobIds : Queued(j) => job[j].run # call[c].run
  BY DEF DriverInv, OneJob
<1>5. \A w \in Workers : Busy(w) => worker[w].run # call[c].run
  BY Sole
<1> QED
  BY <1>1, <1>2, <1>3, <1>4, <1>5

\* The step from one program point of a request to another.
LEMMA CallGoesFields ==
  ASSUME Shape, NEW c \in Calls, NEW p, CallGoes(c, p)
  PROVE  /\ call'[c].pc = p /\ call'[c].run = call[c].run
         /\ \A d \in Calls \ {c} : call'[d] = call[d]
<1>1. call[c] \in CallRecords
  BY DEF Shape
<1>2. call'[c] = [call[c] EXCEPT !.pc = p] /\ \A d \in Calls \ {c} : call'[d] = call[d]
  BY DEF CallGoes, Shape
<1> QED
  BY <1>1, <1>2 DEF CallRecords

LEMMA DriverInsert ==
  ASSUME TypeOK, DriverInv, NEW c \in Calls, InsertRow(c), call'[c].pc = "enqueue"
  PROVE  DriverInv'
<1> USE DEF rows, redis
<1>0. Shape /\ call[c] \in CallRecords
  BY DEF TypeOK, Shape
<1>1. PICK r \in Runs : /\ status[r] = "none" /\ status' = [status EXCEPT ![r] = "QUEUED"]
                        /\ call' = [call EXCEPT ![c].run = r, ![c].pc = "enqueue"]
  <2>1. ~CallGoes(c, "relookup")
    BY <1>0, CallGoesFields
  <2> QED
    BY <2>1 DEF InsertRow
<1>2. call'[c].run = r /\ \A d \in Calls \ {c} : call'[d] = call[d]
  <2>1. call'[c] = [call[c] EXCEPT !.run = r, !.pc = "enqueue"]
    BY <1>0, <1>1 DEF Shape
  <2> QED
    BY <1>0, <1>1, <2>1 DEF CallRecords, Shape
<1>3. UNCHANGED <<job, worker, published>>
  BY DEF InsertRow
<1>9. /\ \A d \in Calls \ {c} : Creates(d)' => Creates(d) /\ call'[d].run = call[d].run /\ call[d].run # r
      /\ \A j \in JobIds : Queued(j) => job[j].run # r
      /\ \A j \in JobIds : Queued(j)' <=> Queued(j)
  BY <1>1, <1>2, <1>3 DEF DriverInv, Uncreated, Creates, Queued
<1>4. OneCreator'
  BY <1>2, <1>9 DEF DriverInv, OneCreator
<1>5. OneJob'
  BY <1>2, <1>3, <1>9 DEF DriverInv, OneJob
<1>6. OneWorker'
  BY <1>3 DEF DriverInv, OneWorker, Busy
<1>7. \A q \in Runs : status'[q] = "none" => q # r /\ status[q] = "none"
  BY <1>0, <1>1 DEF Shape
<1>8. Uncreated'
  BY <1>2, <1>3, <1>7 DEF DriverInv, Uncreated, Creates, Queued
<1> QED
  BY <1>4, <1>5, <1>6, <1>8 DEF DriverInv

\* What AddJob leaves: the job of run r, if its id was free, and the other jobs.
LEMMA AddJobFields ==
  ASSUME Shape, NEW j \in JobIds, NEW r, AddJob(j, r)
  PROVE  /\ \A i \in JobIds \ {j} : job'[i] = job[i]
         /\ \/ job[j].state # "none" /\ job'[j] = job[j]
            \/ /\ job[j].state = "none"
               /\ job'[j].state = "wait" /\ job'[j].run = r
BY DEF AddJob, Shape

LEMMA DriverEnqueue ==
  ASSUME TypeOK, DriverInv, NEW c \in Calls, call[c].pc = "enqueue", CallGoes(c, "202"),
         AddJob(JobId(call[c].run, call[c].key), call[c].run),
         UNCHANGED <<status, published, worker>>
  PROVE  DriverInv'
<1> DEFINE j == JobId(call[c].run, call[c].key)
           r == call[c].run
<1>1. Shape /\ Creates(c) /\ r \in Runs /\ call[c] \in CallRecords
  BY DEF TypeOK, Shape, RunsKnown, RowPcs, Creates
<1>2. j \in JobIds
  BY <1>1 DEF JobId, JobIds, CallRecords
<1> HIDE DEF j
<1>3. /\ \A i \in JobIds \ {j} : job'[i] = job[i]
      /\ \/ job[j].state # "none" /\ job'[j] = job[j]
         \/ job[j].state = "none" /\ job'[j].state = "wait" /\ job'[j].run = r
  BY <1>1, <1>2, AddJobFields DEF j
<1>4. /\ ~Creates(c)' /\ \A d \in Calls \ {c} : call'[d] = call[d]
  BY <1>1, CallGoesFields DEF Creates
<1>5. OneCreator'
  BY <1>4 DEF DriverInv, OneCreator, Creates
<1>6. \A i \in JobIds : Queued(i)' =>
        \/ Queued(i) /\ job'[i] = job[i]
        \/ i = j /\ ~Queued(j) /\ job'[j].run = r
  BY <1>3 DEF Queued
<1>7. /\ \A d \in Calls \ {c} : Creates(d) => call[d].run # r
      /\ \A i \in JobIds : Queued(i) => job[i].run # r
      /\ status[r] # "none"
  BY <1>1, SoleCreator
<1>8. OneJob'
  BY <1>2, <1>4, <1>6, <1>7 DEF DriverInv, OneJob, Creates
<1>9. OneWorker'
  <2>1. \A i \in JobIds : job[i].state = "active" \/ job'[i].state = "active" => job'[i] = job[i]
    BY <1>3
  <2>2. \A w \in Workers : Busy(w) => worker[w].job \in JobIds
    BY DEF TypeOK, RunsKnown, Busy
  <2> QED
    BY <2>1, <2>2 DEF DriverInv, OneWorker, Busy
<1>10. Uncreated'
  BY <1>4, <1>6, <1>7 DEF DriverInv, Uncreated, Creates
<1> QED
  BY <1>5, <1>8, <1>9, <1>10 DEF DriverInv

LEMMA DriverTake ==
  ASSUME TypeOK, DriverInv, NEW w \in Workers, NEW j \in JobIds, TakeJob(w, j)
  PROVE  DriverInv'
<1> USE DEF rows
<1>0. Shape
  BY DEF TypeOK
<1>1. /\ job[j].state = "wait" /\ job'[j].state = "active" /\ job'[j].run = job[j].run
      /\ \A i \in JobIds \ {j} : job'[i] = job[i]
  BY <1>0 DEF TakeJob, Shape, JobRecords
<1>2. /\ ~Busy(w) /\ Busy(w)' /\ worker'[w].job = j /\ worker'[w].run = job[j].run
      /\ \A v \in Workers \ {w} : worker'[v] = worker[v]
  BY <1>0 DEF TakeJob, Shape, Busy, NoWork
<1>3. UNCHANGED <<status, published, call>>
  BY DEF TakeJob
<1>4. OneCreator' /\ OneJob'
  BY <1>1, <1>3 DEF DriverInv, OneCreator, OneJob, Creates, Queued
<1>5. OneWorker'
  <2>1. \A v \in Workers : Busy(v) => worker[v].job \in JobIds \ {j} /\ v # w
    BY <1>1, <1>2 DEF TypeOK, RunsKnown, DriverInv, OneWorker, Busy
  <2>2. \A v \in Workers : Busy(v)' => v = w \/ (Busy(v) /\ worker'[v] = worker[v])
    BY <1>2 DEF Busy
  <2>3. \A v \in Workers : Busy(v)' => job'[worker'[v].job].state = "active"
                                       /\ job'[worker'[v].job].run = worker'[v].run
    BY <1>1, <1>2, <2>1, <2>2 DEF DriverInv, OneWorker
  <2>4. \A u, v \in Workers : Busy(u)' /\ Busy(v)' /\ worker'[u].job = worker'[v].job => u = v
    BY <1>2, <2>1, <2>2 DEF DriverInv, OneWorker
  <2>5. \A i \in JobIds : job'[i].state = "active" =>
          \E v \in Workers : Busy(v)' /\ worker'[v].job = i
    BY <1>1, <1>2, <2>1 DEF DriverInv, OneWorker, Busy
  <2> QED
    BY <2>3, <2>4, <2>5 DEF OneWorker
<1>6. Uncreated'
  BY <1>1, <1>3 DEF DriverInv, Uncreated, Creates, Queued
<1> QED
  BY <1>4, <1>5, <1>6 DEF DriverInv

LEMMA DriverAck ==
  ASSUME TypeOK, DriverInv, NEW w \in Workers, AckJob(w)
  PROVE  DriverInv'
<1> USE DEF rows
<1> DEFINE j == worker[w].job
<1>0. Shape /\ Busy(w) /\ j \in JobIds
  BY DEF TypeOK, RunsKnown, AckJob, Busy
<1>1. /\ job'[j].state \notin {"wait", "active"}
      /\ \A i \in JobIds \ {j} : job'[i] = job[i]
  BY <1>0 DEF AckJob, JobOutcome, Shape, JobRecords
<1>2. ~Busy(w)' /\ \A v \in Workers \ {w} : worker'[v] = worker[v]
  BY <1>0 DEF AckJob, Shape, Busy, NoWork
<1>3. UNCHANGED <<status, published, call>>
  BY DEF AckJob
<1>4. \A i \in JobIds : Queued(i)' => Queued(i) /\ job'[i] = job[i]
  BY <1>1 DEF Queued
<1>5. OneCreator' /\ OneJob'
  BY <1>3, <1>4 DEF DriverInv, OneCreator, OneJob, Creates
<1>6. OneWorker'
  <2>1. \A v \in Workers \ {w} : Busy(v) => worker[v].job \in JobIds \ {j}
    BY <1>0 DEF TypeOK, RunsKnown, DriverInv, OneWorker, Busy
  <2> QED
    BY <1>0, <1>1, <1>2, <2>1 DEF DriverInv, OneWorker, Busy
<1>7. Uncreated'
  BY <1>3, <1>4 DEF DriverInv, Uncreated, Creates
<1> QED
  BY <1>5, <1>6, <1>7 DEF DriverInv

LEMMA DriverForget ==
  ASSUME TypeOK, DriverInv, NEW j \in JobIds, ForgetJob(j)
  PROVE  DriverInv'
<1> USE DEF rows
<1>1. /\ ~Queued(j) /\ ~Queued(j)' /\ job'[j].state # "active"
      /\ \A i \in JobIds \ {j} : job'[i] = job[i]
  BY DEF ForgetJob, Queued, Unqueued, TypeOK, Shape
<1>2. UNCHANGED <<status, published, call, worker>>
  BY DEF ForgetJob
<1>3. \A i \in JobIds : Queued(i)' => Queued(i) /\ job'[i] = job[i]
  BY <1>1 DEF Queued
<1>4. OneCreator' /\ OneJob'
  BY <1>2, <1>3 DEF DriverInv, OneCreator, OneJob, Creates
<1>5. OneWorker'
  BY <1>1, <1>2 DEF DriverInv, OneWorker, Busy, Queued, TypeOK, RunsKnown
<1>6. Uncreated'
  BY <1>2, <1>3 DEF DriverInv, Uncreated, Creates
<1> QED
  BY <1>4, <1>5, <1>6 DEF DriverInv

\* A job in progress is held by a worker: nothing stalls.
LEMMA NothingStalls ==
  ASSUME DriverInv, NEW j \in JobIds
  PROVE  ~StalledJob(j)
BY DEF DriverInv, OneWorker, StalledJob

LEMMA DriverApiStep ==
  ASSUME OneExecution, TypeOK, DriverInv, NEW c \in Calls, ApiStep(c)
  PROVE  DriverInv'
<1> USE DEF rows, content, redis
<1>0. Shape /\ call[c] \in CallRecords
  BY DEF TypeOK, Shape
<1>1. ASSUME UNCHANGED <<job, worker, published>>,
             \A d \in Calls : Creates(d)' => Creates(d) /\ call'[d].run = call[d].run,
             \A r \in Runs : status'[r] = "none" => status[r] = "none"
      PROVE  DriverInv'
  BY <1>1, DriverFrame DEF Busy
<1>2. ASSUME NEW p, p \notin {"enqueue", "markFailed"}, CallGoes(c, p)
      PROVE  \A d \in Calls : Creates(d)' => Creates(d) /\ call'[d].run = call[d].run
  BY <1>0, <1>2, CallGoesFields DEF Creates
<1>3. ASSUME NEW r, AnswerReplay(c, r)
      PROVE  \A d \in Calls : Creates(d)' => Creates(d) /\ call'[d].run = call[d].run
  <2>1. call'[c].pc \in {"202", "409"} /\ \A d \in Calls \ {c} : call'[d] = call[d]
    BY <1>0, <1>3 DEF AnswerReplay, Shape, CallRecords
  <2> QED
    BY <2>1 DEF Creates
<1>4. CASE LookupKey(c) \/ RelookupKey(c)
  BY <1>1, <1>2, <1>3, <1>4 DEF LookupKey, RelookupKey
<1>5. CASE CountOfferings(c) \/ RequestCancellation(c) \/ OverrideRow(c)
  BY <1>1, <1>2, <1>5 DEF CountOfferings, RequestCancellation, OverrideRow
<1>6. CASE InsertRow(c)
  <2>1. CASE CallGoes(c, "relookup") /\ UNCHANGED rows
    BY <1>1, <1>2, <1>6, <2>1 DEF InsertRow
  <2>2. CASE \E r \in Runs : call' = [call EXCEPT ![c].run = r, ![c].pc = "enqueue"]
    <3>1. call'[c].pc = "enqueue"
      BY <1>0, <2>2 DEF Shape, CallRecords
    <3> QED
      BY <1>6, <3>1, DriverInsert
  <2> QED
    BY <1>6, <2>1, <2>2 DEF InsertRow
<1>7. CASE Enqueue(c)
  <2>1. CASE CallGoes(c, "202") /\ AddJob(JobId(call[c].run, call[c].key), call[c].run)
    BY <1>7, <2>1, DriverEnqueue DEF Enqueue
  <2>2. CASE CallGoes(c, "markFailed") /\ UNCHANGED job
    <3>1. \A d \in Calls : Creates(d)' => Creates(d) /\ call'[d].run = call[d].run
      BY <1>0, <1>7, <2>2, CallGoesFields DEF Enqueue, Creates
    <3> QED
      BY <1>1, <1>7, <2>2, <3>1 DEF Enqueue
  <2> QED
    BY <1>7, <2>1, <2>2 DEF Enqueue, OneExecution
<1>8. CASE MarkFailed(c)
  BY <1>0, <1>1, <1>2, <1>8 DEF MarkFailed, Shape
<1>9. CASE CancelRow(c)
  BY <1>0, <1>1, <1>2, <1>9 DEF CancelRow, Shape
<1>10. CASE EraseRow(c)
  BY <1>0, <1>1, <1>2, <1>10 DEF EraseRow, Shape
<1>11. CASE Answered(c)
  <2>1. \A d \in Calls : Creates(d)' => Creates(d) /\ call'[d].run = call[d].run
    BY <1>0, <1>11 DEF Answered, NoCall, Shape, Creates
  <2> QED
    BY <1>1, <1>11, <2>1 DEF Answered
<1> QED
  BY <1>4, <1>5, <1>6, <1>7, <1>8, <1>9, <1>10, <1>11 DEF ApiStep

\* A client's request begins before it creates anything.
LEMMA ClientCreates ==
  ASSUME TypeOK, NEW c \in Calls, ClientRequest(c)
  PROVE  /\ UNCHANGED <<rows, redis, worker>>
         /\ \A d \in Calls : Creates(d)' => Creates(d) /\ call'[d].run = call[d].run
<1> USE DEF rows, redis
<1>1. \A d \in Calls : call'[d] = call[d] \/ ~Creates(d)'
  <2>1. CASE \E k \in Keys \cup {None}, b \in Bodies : PostCreate(c, k, b)
    BY <2>1 DEF PostCreate, TypeOK, Shape, Creates
  <2>2. ASSUME NEW r \in Runs, NEW p \in {"setFlag", "eraseRow", "overrideRow"}, CallStarts(c, p, r)
        PROVE  \A d \in Calls : call'[d] = call[d] \/ ~Creates(d)'
    BY <2>2 DEF CallStarts, NoCall, TypeOK, Shape, Creates
  <2> QED
    BY <2>1, <2>2 DEF ClientRequest, PostCancel, DeleteRun, PutOverride
<1>2. UNCHANGED <<rows, redis, worker>>
  BY DEF ClientRequest, PostCreate, PostCancel, DeleteRun, PutOverride
<1> QED
  BY <1>1, <1>2 DEF Creates

\* A worker's fault that is not its death.
LEMMA WorkerFaultFields ==
  ASSUME OneExecution, TypeOK, NEW w \in Workers, WorkerFault(w)
  PROVE  /\ JobSteps(w) /\ UNCHANGED <<rows, redis>>
         /\ \/ /\ worker[w].pc \in TryPcs
               /\ worker'[w].pc = "fail" /\ worker'[w].verdict = worker[w].verdict
            \/ /\ "throwEarly" \in Faults /\ worker[w].pc \in EarlyPcs
               /\ worker'[w].pc = "ack" /\ worker'[w].verdict = "FAILED"
<1> USE DEF rows, redis
<1>1. CASE Throw(w)
  BY <1>1, GoesFields DEF Throw, JobSteps, TryPcs, TypeOK
<1>2. CASE ThrowEarly(w)
  BY <1>2, DecidesFields DEF ThrowEarly, JobSteps, EarlyPcs, TypeOK
<1> QED
  BY <1>1, <1>2 DEF WorkerFault, WorkerCrash, OneExecution

LEMMA DriverWorkerStep ==
  ASSUME TypeOK, DriverInv, NEW w \in Workers, JobSteps(w), OwnRow(w)
  PROVE  DriverInv'
<1>1. status[worker[w].run] # "none"
  BY Sole DEF JobSteps, Busy
<1>2. \A r \in Runs : status'[r] = "none" => status[r] = "none" /\ published'[r] = published[r]
  BY <1>1 DEF OwnRow
<1> QED
  BY <1>2, DriverFrame DEF JobSteps, Creates, Busy

LEMMA DriverNext == OneExecution /\ TypeOK /\ DriverInv /\ [Next]_vars => DriverInv'
<1> SUFFICES ASSUME OneExecution, TypeOK, DriverInv, [Next]_vars
             PROVE  DriverInv'
  OBVIOUS
<1> USE DEF rows, redis
<1>1. ASSUME UNCHANGED <<rows, job, published, worker>>,
             \A d \in Calls : Creates(d)' => Creates(d) /\ call'[d].run = call[d].run
      PROVE  DriverInv'
  BY <1>1, DriverFrame DEF Busy
<1>2. ASSUME NEW c \in Calls, ClientRequest(c)
      PROVE  DriverInv'
  BY <1>1, <1>2, ClientCreates
<1>3. CASE ApiCrash
  BY <1>1, <1>3 DEF ApiCrash, NoCall, Creates
<1>4. ASSUME NEW w \in Workers, WorkerFault(w)
      PROVE  DriverInv'
  BY <1>4, WorkerFaultFields, DriverWorkerStep DEF OwnRow, content
<1>5. ASSUME NEW w \in Workers, WorkerStep(w)
      PROVE  DriverInv'
  BY <1>5, WorkerOwnRow, DriverWorkerStep, DriverAck
<1>6. ASSUME NEW r \in Runs, ExpireCancelKey(r)
      PROVE  DriverInv'
  BY <1>1, <1>6 DEF ExpireCancelKey, Creates
<1>7. CASE UNCHANGED vars
  BY <1>1, <1>7 DEF vars, Creates
<1> QED
  BY <1>2, <1>3, <1>4, <1>5, <1>6, <1>7, DriverApiStep, DriverTake, DriverForget, NothingStalls
     DEF Next, OtherStep
-----------------------------------------------------------------------------
(* What the row of a run holds while its driver is on its way.             *)

\* The worker has nothing left to write.
Over(x) == x.pc \in {"dropFlagEarly", "ack"} \/ (x.pc = "publish" /\ x.verdict \in Terminal)

\* Nobody has worked on the run.
Fresh(r) == status[r] \notin Verdicts /\ published[r] \notin Terminal /\ history[r] = {}

Untouched == {"read", "flag", "cancelEarly", "start", "pipeline", "poll", "generation", "saveHistory"}

\* What the one worker on a run has stored of it so far.
HistoryFits(x) ==
  Live(x.run) =>
    /\ x.pc \in Untouched \/ (x.pc = "publish" /\ x.verdict \notin Terminal) => history[x.run] = {}
    /\ x.pc \in {"saveStats", "persist", "finish"} => history[x.run] = 1..x.gen
    /\ x.pc \in {"persist", "finish"} => generationsRun[x.run] = x.gen

\* Between a worker and the row it drives: no verdict before its own, the
\* verdict it is about to announce stored, and none owed when it is done.
WorkFits(x) ==
  /\ x.pc = "publish" => x.verdict \in Terminal \cup {"RUNNING"}
  /\ ~Over(x) => status[x.run] \notin Verdicts /\ published[x.run] \notin Terminal
  /\ "failUpdate" \notin Faults /\ x.pc = "publish" /\ x.verdict \in Terminal =>
       status[x.run] \in {x.verdict, "CANCELLED", "deleted"}
  /\ "failUpdate" \notin Faults /\ "throwEarly" \notin Faults /\ Over(x) =>
       status[x.run] \notin Cancellable
  /\ HistoryFits(x)

RowFits(r) ==
  /\ "failUpdate" \notin Faults /\ published[r] \in Terminal =>
       status[r] \in {published[r], "CANCELLED", "deleted"}
  /\ status[r] \in {"COMPLETED", "STAGNATED"} => history[r] = 1..generationsRun[r]

StageInv ==
  /\ \A c \in Calls : Creates(c) => Fresh(call[c].run)
  /\ \A j \in JobIds : job[j].state = "wait" => Fresh(job[j].run)
  /\ \A w \in Workers : Busy(w) => WorkFits(worker[w])
  /\ \A r \in Runs : RowFits(r)

-----------------------------------------------------------------------------
(* The stages of a run                                                     *)

\* No worker moves, no run is announced, and a row is left alone, cancelled,
\* or deleted with its history.
LEMMA StageSoft ==
  ASSUME TypeOK, StageInv, UNCHANGED <<published, generationsRun, worker>>,
         \A c \in Calls : Creates(c)' => Creates(c) /\ call'[c].run = call[c].run,
         \A j \in JobIds : job'[j].state = "wait" => job[j].state = "wait" /\ job'[j].run = job[j].run,
         \A r \in Runs :
           \/ status'[r] = status[r] /\ history'[r] = history[r]
           \/ status'[r] = "CANCELLED" /\ history'[r] = history[r] /\ Live(r)
           \/ status'[r] = "deleted" /\ history'[r] = {}
  PROVE  StageInv'
<1> USE DEF Verdicts
<1>1. \A r \in Runs : Fresh(r) => Fresh(r)'
  BY DEF Fresh
<1>2. \A c \in Calls : Creates(c)' => Fresh(call[c].run)'
  <2>1. \A c \in Calls : Creates(c) => call[c].run \in Runs
    BY DEF TypeOK, RunsKnown, Creates, RowPcs
  <2> QED
    BY <1>1, <2>1 DEF StageInv
<1>3. \A j \in JobIds : job'[j].state = "wait" => Fresh(job[j].run)'
  <2>1. \A j \in JobIds : job[j].state = "wait" => job[j].run \in Runs
    BY DEF TypeOK, RunsKnown
  <2> QED
    BY <1>1, <2>1 DEF StageInv
<1>4. ASSUME NEW w \in Workers, Busy(w)'
      PROVE  WorkFits(worker[w])'
  <2> DEFINE r == worker[w].run
  <2>1. Busy(w) /\ r \in Runs /\ WorkFits(worker[w]) /\ worker' = worker
    BY <1>4 DEF Busy, TypeOK, RunsKnown, StageInv
  <2>2. /\ status'[r] = status[r] \/ status'[r] \in {"CANCELLED", "deleted"}
        /\ published'[r] = published[r]
    BY <2>1
  <2>3. HistoryFits(worker[w])'
    BY <2>1 DEF WorkFits, HistoryFits, Live, NotLive
  <2> QED
    BY <2>1, <2>2, <2>3 DEF WorkFits, Over, Cancellable
<1>5. ASSUME NEW r \in Runs
      PROVE  RowFits(r)'
  BY DEF StageInv, RowFits
<1> QED
  BY <1>2, <1>3, <1>4, <1>5 DEF StageInv

\* The step of a worker disturbs nothing but its own run.
LEMMA StageFrame ==
  ASSUME TypeOK, DriverInv, StageInv, NEW w \in Workers, JobSteps(w), OwnRow(w),
         WorkFits(worker[w])', RowFits(worker[w].run)'
  PROVE  StageInv'
<1> DEFINE r == worker[w].run
<1>1. /\ r \in Runs
      /\ \A c \in Calls : Creates(c) => call[c].run # r
      /\ \A j \in JobIds : job[j].state = "wait" => job[j].run # r
      /\ \A v \in Workers \ {w} : Busy(v) => worker[v].run # r
  BY Sole DEF JobSteps, Busy
<1>2. \A q \in Runs \ {r} : /\ status'[q] = status[q] /\ published'[q] = published[q]
                            /\ history'[q] = history[q] /\ generationsRun'[q] = generationsRun[q]
  BY DEF OwnRow
<1>3. \A c \in Calls : Creates(c)' => Fresh(call[c].run)'
  <2>1. \A c \in Calls : Creates(c) => call[c].run \in Runs
    BY DEF TypeOK, RunsKnown, Creates, RowPcs
  <2> QED
    BY <1>1, <1>2, <2>1 DEF StageInv, Fresh, JobSteps, Creates
<1>4. \A j \in JobIds : job'[j].state = "wait" => Fresh(job[j].run)'
  <2>1. \A j \in JobIds : job[j].state = "wait" => job[j].run \in Runs
    BY DEF TypeOK, RunsKnown
  <2> QED
    BY <1>1, <1>2, <2>1 DEF StageInv, Fresh, JobSteps
<1>5. ASSUME NEW v \in Workers \ {w}, Busy(v)'
      PROVE  WorkFits(worker[v])'
  <2>1. Busy(v) /\ worker'[v] = worker[v] /\ worker[v].run \in Runs \ {r} /\ WorkFits(worker[v])
    BY <1>1, <1>5 DEF JobSteps, Busy, StageInv, TypeOK, RunsKnown
  <2> QED
    BY <1>2, <2>1 DEF WorkFits, HistoryFits, Live, Over
<1>6. ASSUME NEW q \in Runs
      PROVE  RowFits(q)'
  <2>1. CASE q = r
    BY <2>1 DEF JobSteps, RowFits
  <2>2. CASE q # r
    <3>1. RowFits(q)
      BY DEF StageInv
    <3> QED
      BY <1>2, <2>2, <3>1 DEF RowFits
  <2> QED
    BY <2>1, <2>2
<1> QED
  BY <1>3, <1>4, <1>5, <1>6 DEF StageInv

LEMMA StageInsert ==
  ASSUME TypeOK, NoDebris, DriverInv, StageInv, NEW c \in Calls, InsertRow(c), call'[c].pc = "enqueue"
  PROVE  StageInv'
<1> USE DEF rows, redis, Verdicts, Terminal
<1>0. Shape /\ call[c] \in CallRecords
  BY DEF TypeOK, Shape
<1>1. PICK r \in Runs : /\ status[r] = "none" /\ status' = [status EXCEPT ![r] = "QUEUED"]
                        /\ call' = [call EXCEPT ![c].run = r, ![c].pc = "enqueue"]
  <2>1. ~CallGoes(c, "relookup")
    BY <1>0, CallGoesFields
  <2> QED
    BY <2>1 DEF InsertRow
<1>2. call'[c].run = r /\ \A d \in Calls \ {c} : call'[d] = call[d]
  <2>1. call'[c] = [call[c] EXCEPT !.run = r, !.pc = "enqueue"]
    BY <1>0, <1>1 DEF Shape
  <2> QED
    BY <1>0, <1>1, <2>1 DEF CallRecords, Shape
<1>3. UNCHANGED <<job, worker, published, history, generationsRun>>
  <2>1. ~CallGoes(c, "relookup")
    BY <1>0, CallGoesFields
  <2> QED
    BY <2>1 DEF InsertRow
<1>4. /\ status'[r] = "QUEUED" /\ \A q \in Runs \ {r} : status'[q] = status[q]
      /\ published[r] = "none" /\ history[r] = {}
      /\ \A d \in Calls : Creates(d) => call[d].run # r
      /\ \A j \in JobIds : job[j].state = "wait" => job[j].run # r
  BY <1>0, <1>1 DEF Shape, DriverInv, Uncreated, NoDebris, Live, NotLive, Queued
<1>5. \A q \in Runs : Fresh(q) \/ q = r => Fresh(q)'
  BY <1>3, <1>4 DEF Fresh
<1>6. \A d \in Calls : Creates(d)' => Fresh(call[d].run)'
  <2>1. \A d \in Calls : Creates(d) => call[d].run \in Runs
    BY DEF TypeOK, RunsKnown, Creates, RowPcs
  <2> QED
    BY <1>2, <1>5, <2>1 DEF StageInv, Creates
<1>7. \A j \in JobIds : job'[j].state = "wait" => Fresh(job[j].run)'
  <2>1. \A j \in JobIds : job[j].state = "wait" => job[j].run \in Runs
    BY DEF TypeOK, RunsKnown
  <2> QED
    BY <1>3, <1>5, <2>1 DEF StageInv
<1>8. ASSUME NEW w \in Workers, Busy(w)'
      PROVE  WorkFits(worker[w])'
  <2>1. Busy(w) /\ worker' = worker /\ WorkFits(worker[w])
    BY <1>3, <1>8 DEF Busy, StageInv
  <2>2. worker[w].run \in Runs \ {r}
    BY <1>1, <2>1, Sole
  <2> QED
    BY <1>3, <1>4, <2>1, <2>2 DEF WorkFits, HistoryFits, Live, Over
<1>9. \A q \in Runs : RowFits(q)'
  BY <1>3, <1>4 DEF StageInv, RowFits
<1> QED
  BY <1>6, <1>7, <1>8, <1>9 DEF StageInv

LEMMA StageEnqueue ==
  ASSUME TypeOK, StageInv, NEW c \in Calls, call[c].pc = "enqueue", CallGoes(c, "202"),
         AddJob(JobId(call[c].run, call[c].key), call[c].run),
         UNCHANGED <<rows, published, worker>>
  PROVE  StageInv'
<1> USE DEF rows, content
<1> DEFINE j == JobId(call[c].run, call[c].key)
<1>1. Shape /\ Creates(c) /\ call[c] \in CallRecords
  BY DEF TypeOK, Shape, Creates
<1>2. j \in JobIds
  BY <1>1 DEF JobId, JobIds, CallRecords, TypeOK, RunsKnown, RowPcs
<1> HIDE DEF j
<1>3. /\ \A i \in JobIds \ {j} : job'[i] = job[i]
      /\ job'[j] = job[j] \/ job'[j].run = call[c].run
  BY <1>1, <1>2, AddJobFields DEF j
<1>4. \A d \in Calls : Creates(d)' => Creates(d) /\ call'[d].run = call[d].run
  BY <1>1, CallGoesFields DEF Creates
<1>5. \A i \in JobIds : job'[i].state = "wait" => Fresh(job'[i].run)
  BY <1>1, <1>2, <1>3 DEF StageInv
<1> QED
  BY <1>4, <1>5 DEF StageInv, Fresh, Busy, WorkFits, HistoryFits, Live, Over, RowFits

\* FAILED is written by the request that creates the run, which nobody drives yet.
LEMMA StageMarkFailed ==
  ASSUME TypeOK, DriverInv, StageInv, NEW c \in Calls, MarkFailed(c),
         status' = [status EXCEPT ![call[c].run] = "FAILED"]
  PROVE  StageInv'
<1> USE DEF rows, content, redis, Terminal
<1> DEFINE r == call[c].run
<1>0. Shape /\ Creates(c)
  BY DEF TypeOK, MarkFailed, Creates
<1>1. /\ r \in Runs
      /\ \A d \in Calls \ {c} : Creates(d) => call[d].run # r
      /\ \A j \in JobIds : Queued(j) => job[j].run # r
      /\ \A w \in Workers : Busy(w) => worker[w].run # r
  BY <1>0, SoleCreator
<1>2. ~Creates(c)' /\ \A d \in Calls \ {c} : call'[d] = call[d]
  BY <1>0, CallGoesFields DEF MarkFailed, Creates
<1>3. /\ status'[r] = "FAILED" /\ \A q \in Runs \ {r} : status'[q] = status[q]
      /\ UNCHANGED <<job, worker, published, history, generationsRun>>
  BY <1>0, <1>1 DEF Shape, MarkFailed
<1>4. published[r] \notin Terminal
  BY <1>0 DEF StageInv, Fresh
<1>5. \A q \in Runs \ {r} : Fresh(q) => Fresh(q)'
  BY <1>3 DEF Fresh
<1>6. \A d \in Calls : Creates(d)' => Fresh(call[d].run)'
  <2>1. \A d \in Calls \ {c} : Creates(d) => call[d].run \in Runs \ {r}
    BY <1>1 DEF TypeOK, RunsKnown, Creates, RowPcs
  <2> QED
    BY <1>2, <1>5, <2>1 DEF StageInv, Creates
<1>7. \A j \in JobIds : job'[j].state = "wait" => Fresh(job[j].run)'
  <2>1. \A j \in JobIds : job[j].state = "wait" => job[j].run \in Runs \ {r}
    BY <1>1 DEF TypeOK, RunsKnown, Queued
  <2> QED
    BY <1>3, <1>5, <2>1 DEF StageInv
<1>8. ASSUME NEW w \in Workers, Busy(w)'
      PROVE  WorkFits(worker[w])'
  <2>1. Busy(w) /\ worker' = worker /\ WorkFits(worker[w]) /\ worker[w].run \in Runs \ {r}
    BY <1>1, <1>3, <1>8 DEF Busy, StageInv, TypeOK, RunsKnown
  <2> QED
    BY <1>3, <2>1 DEF WorkFits, HistoryFits, Live, Over
<1>9. \A q \in Runs : RowFits(q)'
  BY <1>3, <1>4 DEF StageInv, RowFits
<1> QED
  BY <1>6, <1>7, <1>8, <1>9 DEF StageInv

LEMMA StageApiStep ==
  ASSUME OneExecution, TypeOK, NoDebris, DriverInv, StageInv, NEW c \in Calls, ApiStep(c)
  PROVE  StageInv'
<1> USE DEF rows, content, redis
<1>0. Shape /\ call[c] \in CallRecords
  BY DEF TypeOK, Shape
<1>1. ASSUME UNCHANGED <<status, history, generationsRun, job, worker, published>>,
             \A d \in Calls : Creates(d)' => Creates(d) /\ call'[d].run = call[d].run
      PROVE  StageInv'
  BY <1>1, StageSoft
<1>2. ASSUME NEW p, p \notin {"enqueue", "markFailed"}, CallGoes(c, p)
      PROVE  \A d \in Calls : Creates(d)' => Creates(d) /\ call'[d].run = call[d].run
  BY <1>0, <1>2, CallGoesFields DEF Creates
<1>3. ASSUME NEW r, AnswerReplay(c, r)
      PROVE  \A d \in Calls : Creates(d)' => Creates(d) /\ call'[d].run = call[d].run
  <2>1. call'[c].pc \in {"202", "409"} /\ \A d \in Calls \ {c} : call'[d] = call[d]
    BY <1>0, <1>3 DEF AnswerReplay, Shape, CallRecords
  <2> QED
    BY <2>1 DEF Creates
<1>4. CASE LookupKey(c) \/ RelookupKey(c)
  BY <1>1, <1>2, <1>3, <1>4 DEF LookupKey, RelookupKey
<1>5. CASE CountOfferings(c) \/ RequestCancellation(c) \/ OverrideRow(c)
  BY <1>1, <1>2, <1>5 DEF CountOfferings, RequestCancellation, OverrideRow
<1>6. CASE InsertRow(c)
  <2>1. CASE CallGoes(c, "relookup") /\ UNCHANGED rows
    BY <1>1, <1>2, <1>6, <2>1 DEF InsertRow
  <2>2. CASE \E r \in Runs : call' = [call EXCEPT ![c].run = r, ![c].pc = "enqueue"]
    <3>1. call'[c].pc = "enqueue"
      BY <1>0, <2>2 DEF Shape, CallRecords
    <3> QED
      BY <1>6, <3>1, StageInsert
  <2> QED
    BY <1>6, <2>1, <2>2 DEF InsertRow
<1>7. CASE Enqueue(c)
  <2>1. CASE CallGoes(c, "202") /\ AddJob(JobId(call[c].run, call[c].key), call[c].run)
    BY <1>7, <2>1, StageEnqueue DEF Enqueue
  <2>2. CASE CallGoes(c, "markFailed") /\ UNCHANGED job
    <3>1. \A d \in Calls : Creates(d)' => Creates(d) /\ call'[d].run = call[d].run
      BY <1>0, <1>7, <2>2, CallGoesFields DEF Enqueue, Creates
    <3> QED
      BY <1>1, <1>7, <2>2, <3>1 DEF Enqueue
  <2> QED
    BY <1>7, <2>1, <2>2 DEF Enqueue, OneExecution
<1>8. CASE MarkFailed(c)
  BY <1>1, <1>2, <1>8, StageMarkFailed DEF MarkFailed
<1>9. CASE CancelRow(c)
  <2>1. call[c].run \in Runs
    BY <1>9 DEF CancelRow, TypeOK, RunsKnown, RowPcs
  <2>2. CASE UNCHANGED status
    BY <1>1, <1>2, <1>9, <2>2 DEF CancelRow
  <2>3. CASE status' = [status EXCEPT ![call[c].run] = "CANCELLED"] /\ Live(call[c].run)
    <3>1. \A r \in Runs : \/ status'[r] = status[r]
                          \/ status'[r] = "CANCELLED" /\ Live(r)
      BY <1>0, <2>1, <2>3 DEF Shape
    <3>2. \A d \in Calls : Creates(d)' => Creates(d) /\ call'[d].run = call[d].run
      BY <1>2, <1>9 DEF CancelRow
    <3> QED
      BY <1>9, <3>1, <3>2, StageSoft DEF CancelRow
  <2> QED
    BY <1>9, <2>2, <2>3 DEF CancelRow
<1>10. CASE EraseRow(c)
  <2>1. call[c].run \in Runs
    BY <1>10 DEF EraseRow, TypeOK, RunsKnown, RowPcs
  <2>2. CASE UNCHANGED <<status, history>>
    BY <1>1, <1>2, <1>10, <2>2 DEF EraseRow
  <2>3. CASE status' = [status EXCEPT ![call[c].run] = "deleted"] /\ Cascade(call[c].run)
    <3>1. \A r \in Runs : \/ status'[r] = status[r] /\ history'[r] = history[r]
                          \/ status'[r] = "deleted" /\ history'[r] = {}
      BY <1>0, <2>1, <2>3 DEF Shape, Cascade
    <3>2. \A d \in Calls : Creates(d)' => Creates(d) /\ call'[d].run = call[d].run
      BY <1>2, <1>10 DEF EraseRow
    <3> QED
      BY <1>10, <3>1, <3>2, StageSoft DEF EraseRow
  <2> QED
    BY <1>10, <2>2, <2>3 DEF EraseRow
<1>11. CASE Answered(c)
  <2>1. \A d \in Calls : Creates(d)' => Creates(d) /\ call'[d].run = call[d].run
    BY <1>0, <1>11 DEF Answered, NoCall, Shape, Creates
  <2> QED
    BY <1>1, <1>11, <2>1 DEF Answered
<1> QED
  BY <1>4, <1>5, <1>6, <1>7, <1>8, <1>9, <1>10, <1>11 DEF ApiStep

LEMMA StageTake ==
  ASSUME TypeOK, DriverInv, StageInv, NEW w \in Workers, NEW j \in JobIds, TakeJob(w, j)
  PROVE  StageInv'
<1> USE DEF rows, content
<1>0. Shape
  BY DEF TypeOK
<1>1. /\ job[j].state = "wait" /\ job'[j].state = "active"
      /\ \A i \in JobIds \ {j} : job'[i] = job[i]
  BY <1>0 DEF TakeJob, Shape, JobRecords
<1>2. /\ worker'[w].pc = "read" /\ worker'[w].run = job[j].run
      /\ \A v \in Workers \ {w} : worker'[v] = worker[v]
  BY <1>0 DEF TakeJob, Shape, NoWork
<1>3. UNCHANGED <<rows, published, call>>
  BY DEF TakeJob
<1>4. WorkFits(worker[w])'
  <2>1. Fresh(job[j].run)
    BY <1>1 DEF StageInv
  <2> QED
    BY <1>2, <1>3, <2>1 DEF WorkFits, Fresh, HistoryFits, Over, EarlyPcs, Untouched
<1>5. ASSUME NEW v \in Workers, Busy(v)'
      PROVE  WorkFits(worker[v])'
  <2>1. CASE v = w
    BY <1>4, <2>1
  <2>2. CASE v # w
    <3>1. worker'[v] = worker[v] /\ WorkFits(worker[v])
      BY <1>2, <1>5, <2>2 DEF StageInv, Busy
    <3> QED
      BY <1>3, <3>1 DEF WorkFits, HistoryFits, Live, Over
  <2> QED
    BY <2>1, <2>2
<1> QED
  BY <1>1, <1>3, <1>5 DEF StageInv, Fresh, RowFits, Creates

LEMMA StageAck ==
  ASSUME TypeOK, StageInv, NEW w \in Workers, AckJob(w)
  PROVE  StageInv'
<1> USE DEF rows, content
<1>0. Shape /\ worker[w].job \in JobIds
  BY DEF TypeOK, RunsKnown, AckJob
<1>1. \A i \in JobIds : job'[i].state = "wait" => job'[i] = job[i]
  BY <1>0 DEF AckJob, JobOutcome, Shape, JobRecords
<1>2. ~Busy(w)' /\ \A v \in Workers \ {w} : worker'[v] = worker[v]
  BY <1>0 DEF AckJob, Shape, Busy, NoWork
<1>3. UNCHANGED <<rows, published, call>>
  BY DEF AckJob
<1>4. ASSUME NEW v \in Workers, Busy(v)'
      PROVE  WorkFits(worker[v])'
  <2>1. worker'[v] = worker[v] /\ WorkFits(worker[v])
    BY <1>2, <1>4 DEF StageInv, Busy
  <2> QED
    BY <1>3, <2>1 DEF WorkFits, HistoryFits, Live, Over
<1> QED
  BY <1>1, <1>3, <1>4 DEF StageInv, Fresh, RowFits, Creates

\* The worker goes on, and writes nothing.
LEMMA StageSilent ==
  ASSUME NEW w \in Workers, WorkFits(worker[w]), RowFits(worker[w].run),
         UNCHANGED <<rows, published>>, worker'[w].run = worker[w].run, ~Over(worker[w]),
         worker'[w].pc \notin {"publish", "ack", "dropFlagEarly", "saveStats", "persist", "finish"},
         worker'[w].pc \in Untouched =>
           \/ worker[w].pc \in Untouched
           \/ worker[w].pc = "publish" /\ worker[w].verdict \notin Terminal
  PROVE  WorkFits(worker[w])' /\ RowFits(worker[w].run)'
<1> USE DEF rows, content
<1>1. HistoryFits(worker[w])'
  BY DEF WorkFits, HistoryFits, Live
<1> QED
  BY <1>1 DEF WorkFits, RowFits, Over

\* The worker writes the status of its run and is about to announce it.
LEMMA StageWrites ==
  ASSUME TypeOK, NEW w \in Workers, worker[w].run \in Runs, WorkFits(worker[w]), RowFits(worker[w].run),
         ~Over(worker[w]), NEW s \in Terminal \cup {"RUNNING"},
         status' = [status EXCEPT ![worker[w].run] = s], Live(worker[w].run),
         worker'[w].pc = "publish", worker'[w].verdict = s, worker'[w].run = worker[w].run,
         UNCHANGED <<history, generationsRun, published>>,
         s = "RUNNING" => worker[w].pc \in Untouched,
         s \in {"COMPLETED", "STAGNATED"} => worker[w].pc = "finish"
  PROVE  WorkFits(worker[w])' /\ RowFits(worker[w].run)'
<1> DEFINE r == worker[w].run
<1>1. s \notin Cancellable \/ s = "RUNNING"
  BY DEF TypeOK, Shape, Cancellable, Terminal, Verdicts
<1>2. status'[r] = s
  BY DEF TypeOK, Shape
<1>3. published[r] \notin Terminal
  BY DEF WorkFits
<1>4. HistoryFits(worker[w])'
  BY <1>2 DEF WorkFits, HistoryFits, Untouched, EarlyPcs
<1>5. s = "RUNNING" => s \notin Terminal
  BY DEF Terminal, Verdicts
<1>6. WorkFits(worker[w])'
  BY <1>1, <1>2, <1>3, <1>4, <1>5 DEF WorkFits, Over, Verdicts
<1>7. s \in {"COMPLETED", "STAGNATED"} => history[r] = 1..generationsRun[r]
  BY DEF WorkFits, HistoryFits
<1> QED
  BY <1>2, <1>3, <1>6, <1>7 DEF RowFits

LEMMA StageWriteStatus ==
  ASSUME TypeOK, NEW w \in Workers, worker[w].run \in Runs, WorkFits(worker[w]), RowFits(worker[w].run),
         ~Over(worker[w]), NEW s \in Terminal \cup {"RUNNING"}, WriteStatus(w, s),
         UNCHANGED <<content, published>>,
         s = "RUNNING" => worker[w].pc \in Untouched,
         s \in {"COMPLETED", "STAGNATED"} => worker[w].pc = "finish"
  PROVE  WorkFits(worker[w])' /\ RowFits(worker[w].run)'
<1> USE DEF content
<1>0. Shape
  BY DEF TypeOK
<1>1. CASE Says(w, s) /\ Live(worker[w].run) /\ status' = [status EXCEPT ![worker[w].run] = s]
  <2>1. /\ worker'[w].pc = "publish" /\ worker'[w].verdict = s /\ worker'[w].run = worker[w].run
    BY <1>0, <1>1, SaysFields
  <2> QED
    BY <1>1, <2>1, StageWrites
<1>2. CASE WorkerGoes(w, "fail") /\ UNCHANGED status
  <2>1. worker'[w].pc = "fail" /\ worker'[w].run = worker[w].run
    BY <1>0, <1>2, GoesFields
  <2> QED
    BY <1>2, <2>1, StageSilent DEF Untouched, EarlyPcs, rows
<1> QED
  BY <1>1, <1>2 DEF WriteStatus

LEMMA StageWorkerStep ==
  ASSUME TypeOK, DriverInv, StageInv, NEW w \in Workers, WorkerStep(w), ~AckJob(w)
  PROVE  WorkFits(worker[w])' /\ RowFits(worker[w].run)'
<1> USE DEF rows, content, redis
<1> DEFINE r == worker[w].run
           Fits == WorkFits(worker[w])' /\ RowFits(worker[w].run)'
           Silent == {"publish", "ack", "dropFlagEarly", "saveStats", "persist", "finish"}
<1>0. Shape /\ JobSteps(w) /\ worker'[w].run = r
  BY WorkerOwnRow DEF TypeOK, JobSteps
<1>00. /\ r \in Runs /\ status[r] # "none" /\ WorkFits(worker[w]) /\ RowFits(worker[w].run)
  BY <1>0, Sole DEF JobSteps, StageInv, Busy
<1> USE DEF Untouched, EarlyPcs
<1>1. ASSUME NEW p, WorkerGoes(w, p), p \notin Silent, UNCHANGED <<rows, published>>, ~Over(worker[w]),
             p \in Untouched => worker[w].pc \in Untouched
      PROVE  Fits
  <2>1. worker'[w].pc = p
    BY <1>0, <1>1, GoesFields
  <2> QED
    BY <1>0, <1>00, <1>1, <2>1, StageSilent
<1>2. ASSUME Says(w, "CANCELLED"), UNCHANGED <<rows, published>>, ~Over(worker[w]),
             status[r] \in {"CANCELLED", "deleted"}
      PROVE  Fits
  <2>1. worker'[w].pc = "publish" /\ worker'[w].verdict = "CANCELLED"
    BY <1>0, <1>2, SaysFields
  <2> QED
    BY <1>0, <1>00, <1>2, <2>1 DEF WorkFits, HistoryFits, RowFits, Over, Terminal, Cancellable
<1>3. ASSUME NEW s, Decides(w, s, "ack"), UNCHANGED <<rows, published>>, ~Over(worker[w]), ~Live(r)
      PROVE  Fits
  <2>1. worker'[w].pc = "ack"
    BY <1>0, <1>3, DecidesFields
  <2> QED
    BY <1>0, <1>00, <1>3, <2>1 DEF WorkFits, HistoryFits, RowFits, Over, Live, NotLive, Cancellable
<1>4. ASSUME NEW s, NEW p, Decides(w, s, p), p \in {"finishEmpty", "saveHistory"},
             UNCHANGED <<rows, published>>, ~Over(worker[w]), worker[w].pc \in Untouched
      PROVE  Fits
  <2>1. worker'[w].pc = p
    BY <1>0, <1>4, DecidesFields
  <2> QED
    BY <1>0, <1>00, <1>4, <2>1, StageSilent
<1>5. CASE ReadRun(w)
  <2>1. ~Over(worker[w]) /\ UNCHANGED <<rows, published>>
    BY <1>5 DEF ReadRun, Over
  <2> QED
    BY <1>5, <2>1, <1>1, <1>2, <1>3 DEF ReadRun
<1>6. CASE CheckFlag(w)
  <2>1. ~Over(worker[w]) /\ UNCHANGED <<rows, published>>
    BY <1>6 DEF CheckFlag, Over
  <2> QED
    BY <1>6, <2>1, <1>1 DEF CheckFlag
<1>7. CASE CancelEarly(w)
  <2>1. ~Over(worker[w])
    BY <1>7 DEF CancelEarly, Over
  <2>2. CASE ~Live(r) /\ Decides(w, "FAILED", "ack") /\ UNCHANGED status
    BY <1>7, <2>1, <2>2, <1>3 DEF CancelEarly
  <2>3. CASE Live(r) /\ Says(w, "CANCELLED") /\ status' = [status EXCEPT ![worker[w].run] = "CANCELLED"]
    <3>1. worker'[w].pc = "publish" /\ worker'[w].verdict = "CANCELLED"
      BY <1>0, <2>3, SaysFields
    <3> QED
      BY <1>0, <1>00, <1>7, <2>1, <2>3, <3>1, StageWrites DEF CancelEarly, Terminal
  <2> QED
    BY <1>7, <2>2, <2>3 DEF CancelEarly
<1>8. CASE DropFlagEarly(w)
  <2>1. worker'[w].pc = "ack" /\ UNCHANGED <<rows, published>> /\ Over(worker[w])
    BY <1>0, <1>8, GoesFields DEF DropFlagEarly, Over
  <2> QED
    BY <1>0, <1>00, <2>1 DEF WorkFits, HistoryFits, RowFits, Over
<1>9. CASE StartRun(w) \/ CancelLate(w)
  <2>1. ~Over(worker[w])
    BY <1>9 DEF StartRun, CancelLate, Over
  <2> QED
    BY <1>00, <1>9, <2>1, StageWriteStatus DEF StartRun, CancelLate, Terminal
<1>10. CASE Pipeline(w)
  <2>1. ~Over(worker[w]) /\ UNCHANGED <<rows, published>>
    BY <1>10 DEF Pipeline, Over
  <2> QED
    BY <1>10, <2>1, <1>1, <1>4 DEF Pipeline
<1>11. CASE PollCancel(w)
  <2>1. ~Over(worker[w]) /\ UNCHANGED <<rows, published>>
    BY <1>11 DEF PollCancel, Over
  <2>2. ASSUME worker' = [worker EXCEPT ![w].pc = "saveHistory", ![w].cancelled = TRUE]
        PROVE  Fits
    <3>1. worker'[w] = [worker[w] EXCEPT !.pc = "saveHistory", !.cancelled = TRUE]
      BY <1>0, <2>2 DEF Shape
    <3>2. worker'[w].pc = "saveHistory"
      BY <1>0, <3>1 DEF Shape, WorkerRecords
    <3> QED
      BY <1>0, <1>00, <1>11, <2>1, <3>2, StageSilent DEF PollCancel
  <2> QED
    BY <1>11, <2>1, <2>2, <1>1, <1>4 DEF PollCancel
<1>12. CASE Generation(w)
  <2>1. PICK exit \in {<<"STAGNATED", "saveHistory">>, <<"COMPLETED", "saveHistory">>,
                     <<worker[w].verdict, "poll">>} :
          worker' = [worker EXCEPT ![w].gen = @ + 1, ![w].verdict = exit[1], ![w].pc = exit[2]]
    BY <1>12 DEF Generation
  <2>2. worker'[w] = [worker[w] EXCEPT !.gen = @ + 1, !.verdict = exit[1], !.pc = exit[2]]
    BY <1>0, <2>1 DEF Shape
  <2>3. worker'[w].pc = exit[2] /\ exit[2] \in {"saveHistory", "poll"}
    BY <1>0, <2>2 DEF Shape, WorkerRecords
  <2>4. ~Over(worker[w]) /\ UNCHANGED <<rows, published>> /\ worker[w].pc = "generation"
    BY <1>12 DEF Generation, Over
  <2> QED
    BY <1>0, <1>00, <2>3, <2>4, StageSilent
<1>13. CASE SaveHistory(w)
  <2>1. ~Over(worker[w])
    BY <1>13 DEF SaveHistory, Over
  <2>2. CASE UNCHANGED history /\ WorkerGoes(w, "fail")
    BY <1>13, <2>1, <2>2, <1>1 DEF SaveHistory
  <2>3. CASE /\ history' = [history EXCEPT ![worker[w].run] = @ \cup PendingRows(w)]
             /\ WorkerGoes(w, IF worker[w].cancelled THEN "dropFlag" ELSE "saveStats")
    <3>1. /\ worker'[w].pc \in {"dropFlag", "saveStats"} /\ worker'[w].gen = worker[w].gen
      BY <1>0, <2>3, GoesFields
    <3>2. history'[r] = history[r] \cup 1..worker[w].gen
      BY <1>0, <1>00, <2>3 DEF Shape, PendingRows
    <3>3. UNCHANGED <<status, published, generationsRun>> /\ worker[w].pc = "saveHistory"
      BY <1>13 DEF SaveHistory
    <3>4. HistoryFits(worker[w])'
      BY <1>0, <1>00, <3>1, <3>2, <3>3 DEF WorkFits, HistoryFits, Live
    <3>5. status[r] \notin Verdicts
      BY <1>00, <2>1 DEF WorkFits
    <3> QED
      BY <1>0, <1>00, <2>1, <3>1, <3>3, <3>4, <3>5 DEF WorkFits, RowFits, Over, Verdicts
  <2> QED
    BY <1>13, <2>2, <2>3 DEF SaveHistory
<1>14. CASE DropFlag(w)
  <2>1. ~Over(worker[w]) /\ UNCHANGED <<rows, published>>
    BY <1>14 DEF DropFlag, Over
  <2> QED
    BY <1>14, <2>1, <1>1 DEF DropFlag
<1>15. CASE RereadRun(w)
  <2>1. ~Over(worker[w]) /\ UNCHANGED <<rows, published>>
    BY <1>15 DEF RereadRun, Over
  <2>2. ~Live(r) => status[r] = "deleted"
    BY <1>00 DEF Live, NotLive
  <2> QED
    BY <1>15, <2>1, <2>2, <1>1, <1>2 DEF RereadRun
<1>16. CASE FinishEmpty(w) \/ FinishRun(w)
  <2>1. /\ ~Over(worker[w]) /\ worker[w].verdict \in Terminal
        /\ worker[w].verdict \in {"COMPLETED", "STAGNATED"} => worker[w].pc = "finish"
    BY <1>16 DEF FinishEmpty, FinishRun, Over, TypeOK, WorkerLocals, LocalsFit, Terminal, Verdicts
  <2>2. "RUNNING" \notin Terminal
    BY DEF Terminal, Verdicts
  <2> QED
    BY <1>00, <1>16, <2>1, <2>2, StageWriteStatus DEF FinishEmpty, FinishRun
<1>17. CASE SaveStats(w)
  <2>1. ~Over(worker[w]) /\ UNCHANGED <<status, history, published>> /\ worker[w].pc = "saveStats"
    BY <1>17 DEF SaveStats, Over
  <2>2. CASE UNCHANGED generationsRun /\ WorkerGoes(w, "fail")
    BY <1>17, <2>1, <2>2, <1>1 DEF SaveStats
  <2>3. CASE /\ generationsRun' = [generationsRun EXCEPT ![worker[w].run] = worker[w].gen]
             /\ WorkerGoes(w, "persist")
    <3>1. worker'[w].pc = "persist" /\ worker'[w].gen = worker[w].gen
      BY <1>0, <2>3, GoesFields
    <3>2. generationsRun'[r] = worker[w].gen
      BY <1>0, <1>00, <2>3 DEF Shape
    <3>3. HistoryFits(worker[w])'
      BY <1>0, <1>00, <2>1, <3>1, <3>2 DEF WorkFits, HistoryFits, Live
    <3>4. status[r] \notin Verdicts
      BY <1>00, <2>1 DEF WorkFits
    <3> QED
      BY <1>0, <1>00, <2>1, <3>1, <3>3, <3>4 DEF WorkFits, RowFits, Over, Verdicts
  <2> QED
    BY <1>17, <2>2, <2>3 DEF SaveStats
<1>18. CASE PersistAssignments(w)
  <2>1. ~Over(worker[w]) /\ UNCHANGED <<status, history, generationsRun, published>>
    BY <1>18 DEF PersistAssignments, Over
  <2>2. /\ worker'[w].pc \in {"finish", "fail"} /\ worker'[w].gen = worker[w].gen
        /\ worker[w].pc = "persist"
    BY <1>0, <1>18, GoesFields DEF PersistAssignments
  <2>3. HistoryFits(worker[w])'
    BY <1>0, <1>00, <2>1, <2>2 DEF WorkFits, HistoryFits, Live
  <2> QED
    BY <1>0, <1>00, <2>1, <2>2, <2>3 DEF WorkFits, RowFits, Over
<1>19. CASE FailRun(w)
  <2>1. /\ ~Over(worker[w]) /\ UNCHANGED <<history, generationsRun, published>>
    BY <1>19 DEF FailRun, Over
  <2>2. worker'[w].pc = "publish" /\ worker'[w].verdict = "FAILED"
    BY <1>0, <1>19, SaysFields DEF FailRun
  <2>3. CASE Live(r) /\ status' = [status EXCEPT ![worker[w].run] = "FAILED"]
    BY <1>0, <1>00, <2>1, <2>2, <2>3, StageWrites DEF Terminal, Verdicts
  <2>4. CASE (~Live(r) \/ "failUpdate" \in Faults) /\ UNCHANGED status
    <3>1. "failUpdate" \notin Faults => status'[r] = "deleted"
      BY <1>00, <2>4 DEF Live, NotLive
    <3>2. HistoryFits(worker[w])'
      BY <2>2 DEF HistoryFits, Terminal, Verdicts
    <3> QED
      BY <1>0, <1>00, <2>1, <2>2, <2>4, <3>1, <3>2
         DEF WorkFits, RowFits, Over, Terminal, Verdicts, Cancellable
  <2> QED
    BY <1>19, <2>3, <2>4 DEF FailRun
<1>20. CASE Publish(w)
  <2>1. UNCHANGED <<status, history, generationsRun>> /\ worker[w].pc = "publish"
    BY <1>20 DEF Publish
  <2>2. published'[r] \in {published[r], worker[w].verdict}
    BY <1>0, <1>00, <1>20 DEF Publish, Shape
  <2>3. worker'[w].pc = AfterPublish(w) /\ worker'[w].verdict = worker[w].verdict
    BY <1>0, <1>20, GoesFields DEF Publish
  <2>4. CASE worker[w].verdict = "RUNNING"
    <3>1. worker'[w].pc = "pipeline" /\ ~Over(worker[w]) /\ "RUNNING" \notin Terminal
      BY <2>1, <2>3, <2>4 DEF AfterPublish, Over, Terminal, Verdicts
    <3>2. HistoryFits(worker[w])'
      BY <1>0, <1>00, <2>1, <2>4, <3>1 DEF WorkFits, HistoryFits, Live
    <3> QED
      BY <1>0, <1>00, <2>1, <2>2, <2>4, <3>1, <3>2 DEF WorkFits, RowFits, Over
  <2>5. CASE worker[w].verdict # "RUNNING"
    <3>1. worker'[w].pc \in {"dropFlagEarly", "ack"} /\ Over(worker[w]) /\ worker[w].verdict \in Terminal
      BY <1>00, <2>1, <2>3, <2>5 DEF AfterPublish, WorkFits, Over
    <3>2. HistoryFits(worker[w])'
      BY <3>1 DEF HistoryFits, Untouched
    <3> QED
      BY <1>0, <1>00, <2>1, <2>2, <3>1, <3>2 DEF WorkFits, RowFits, Over
  <2> QED
    BY <2>4, <2>5
<1> QED
  BY <1>5, <1>6, <1>7, <1>8, <1>9, <1>10, <1>11, <1>12, <1>13, <1>14, <1>15, <1>16, <1>17,
     <1>18, <1>19, <1>20 DEF WorkerStep

LEMMA StageFault ==
  ASSUME OneExecution, TypeOK, DriverInv, StageInv, NEW w \in Workers, WorkerFault(w)
  PROVE  StageInv'
<1> USE DEF rows, content, redis
<1>1. /\ JobSteps(w) /\ UNCHANGED <<rows, redis>> /\ worker'[w].run = worker[w].run
      /\ \/ worker[w].pc \in TryPcs /\ worker'[w].pc = "fail"
         \/ /\ "throwEarly" \in Faults /\ worker'[w].pc = "ack"
  BY WorkerFaultFields DEF JobSteps
<1>2. OwnRow(w)
  BY <1>1 DEF OwnRow
<1>3. WorkFits(worker[w]) /\ RowFits(worker[w].run)
  BY <1>1, Sole DEF StageInv, JobSteps, Busy
<1>4. WorkFits(worker[w])' /\ RowFits(worker[w].run)'
  <2>1. CASE worker[w].pc \in TryPcs /\ worker'[w].pc = "fail"
    <3>1. ~Over(worker[w])
      BY <2>1 DEF TryPcs, Over
    <3> QED
      BY <1>1, <1>3, <2>1, <3>1, StageSilent DEF Untouched, EarlyPcs
  <2>2. CASE "throwEarly" \in Faults /\ worker'[w].pc = "ack"
    BY <1>1, <1>3, <2>2 DEF WorkFits, HistoryFits, RowFits, Over, Untouched, EarlyPcs
  <2> QED
    BY <1>1, <2>1, <2>2
<1> QED
  BY <1>1, <1>2, <1>4, StageFrame

LEMMA StageNext == OneExecution /\ TypeOK /\ NoDebris /\ DriverInv /\ StageInv /\ [Next]_vars => StageInv'
<1> SUFFICES ASSUME OneExecution, TypeOK, NoDebris, DriverInv, StageInv, [Next]_vars
             PROVE  StageInv'
  OBVIOUS
<1> USE DEF rows, content, redis
<1>1. ASSUME UNCHANGED <<rows, published, worker>>,
             \A d \in Calls : Creates(d)' => Creates(d) /\ call'[d].run = call[d].run,
             \A j \in JobIds : job'[j].state = "wait" => job'[j] = job[j]
      PROVE  StageInv'
  BY <1>1, StageSoft
<1>2. ASSUME NEW c \in Calls, ClientRequest(c)
      PROVE  StageInv'
  BY <1>1, <1>2, ClientCreates
<1>3. CASE ApiCrash
  BY <1>1, <1>3 DEF ApiCrash, NoCall, Creates
<1>4. ASSUME NEW w \in Workers, WorkerStep(w)
      PROVE  StageInv'
  BY <1>4, WorkerOwnRow, StageWorkerStep, StageFrame, StageAck
<1>5. ASSUME NEW j \in JobIds, ForgetJob(j)
      PROVE  StageInv'
  BY <1>1, <1>5 DEF ForgetJob, Unqueued, TypeOK, Shape, Creates
<1>6. ASSUME NEW r \in Runs, ExpireCancelKey(r)
      PROVE  StageInv'
  BY <1>1, <1>6 DEF ExpireCancelKey, Creates
<1>7. CASE UNCHANGED vars
  BY <1>1, <1>7 DEF vars, Creates
<1> QED
  BY <1>2, <1>3, <1>4, <1>5, <1>6, <1>7, StageApiStep, StageTake, StageFault, NothingStalls
     DEF Next, OtherStep

-----------------------------------------------------------------------------
(* The theorems.                                                           *)

LEMMA DriverInit == Init => DriverInv
BY NoneAssumption
   DEF Init, DriverInv, OneCreator, OneJob, OneWorker, Uncreated, Creates, Queued, Busy,
       Unqueued, NoCall, NoWork

LEMMA StageInit == Init => StageInv
<1> SUFFICES ASSUME Init PROVE StageInv
  OBVIOUS
<1>1. \A c \in Calls : ~Creates(c)
  BY DEF Init, Creates, NoCall
<1>2. \A w \in Workers : ~Busy(w)
  BY DEF Init, Busy, NoWork
<1>3. \A j \in JobIds : job[j].state = "none"
  BY DEF Init, Unqueued
<1>4. \A r \in Runs : RowFits(r)
  BY DEF Init, RowFits, Terminal, Verdicts
<1> QED
  BY <1>1, <1>2, <1>3, <1>4 DEF StageInv

LEMMA StageAlways == OneExecution => (Spec => [](TypeOK /\ NoDebris /\ DriverInv /\ StageInv))
<1> SUFFICES ASSUME OneExecution PROVE Spec => [](TypeOK /\ NoDebris /\ DriverInv /\ StageInv)
  OBVIOUS
<1>1. TypeOK /\ DriverInv /\ [Next]_vars => DriverInv'
  BY DriverNext
<1>2. TypeOK /\ NoDebris /\ DriverInv /\ StageInv /\ [Next]_vars => StageInv'
  BY StageNext
<1> QED
  BY <1>1, <1>2, TypeCorrect, DeletionIsClean, DriverInit, StageInit, PTL DEF Spec

\* A finished run's fitness history is that of the one execution that produced
\* it, generations 1..generationsRun and no other: a redelivery can only come
\* from a dead worker or from a job queued behind the request's back.
THEOREM HistoryCorrect == OneExecution => (Spec => []HistoryIsExact)
<1> SUFFICES ASSUME OneExecution PROVE Spec => []HistoryIsExact
  OBVIOUS
<1>1. StageInv => HistoryIsExact
  BY DEF StageInv, RowFits, HistoryIsExact
<1> QED
  BY <1>1, StageAlways, PTL

\* As long as FAILED can be written, whatever final state the streams were told
\* is the one the row holds, until a cancel or a delete replaces it: safePublish
\* comes after the update of the row on every path of the worker.
THEOREM AnnouncementCorrect ==
  OneExecution /\ "failUpdate" \notin Faults => (Spec => []AnnouncedIsStored)
<1> SUFFICES ASSUME OneExecution, "failUpdate" \notin Faults PROVE Spec => []AnnouncedIsStored
  OBVIOUS
<1>1. StageInv => AnnouncedIsStored
  BY DEF StageInv, RowFits, AnnouncedIsStored
<1> QED
  BY <1>1, StageAlways, PTL

LEMMA WorkerVerdict ==
  ASSUME OneExecution, TypeOK, DriverInv, StageInv, NEW w \in Workers, WorkerStep(w)
  PROVE  VerdictStands
<1> USE DEF rows, content
<1>1. CASE UNCHANGED status
  BY <1>1 DEF VerdictStands
<1>2. CASE worker[w].pc # "idle" /\ ~Over(worker[w]) /\ OwnRow(w)
  <2>1. worker[w].run \in Runs /\ status[worker[w].run] \notin Verdicts
    BY <1>2 DEF StageInv, WorkFits, Busy, TypeOK, RunsKnown
  <2> QED
    BY <1>2, <2>1 DEF VerdictStands, OwnRow
<1>3. WorkerStep(w) => UNCHANGED status \/ (worker[w].pc # "idle" /\ ~Over(worker[w]))
  BY DEF WorkerStep, ReadRun, CheckFlag, CancelEarly, DropFlagEarly, StartRun, Pipeline, PollCancel,
         Generation, SaveHistory, DropFlag, RereadRun, CancelLate, FinishEmpty, SaveStats,
         PersistAssignments, FinishRun, FailRun, Publish, AckJob, Over
<1> QED
  BY <1>1, <1>2, <1>3, WorkerOwnRow DEF AckJob

LEMMA ApiVerdict ==
  ASSUME TypeOK, StageInv, NEW c \in Calls, ApiStep(c)
  PROVE  VerdictStands
<1> USE DEF rows, content
<1>1. CASE UNCHANGED status
  BY <1>1 DEF VerdictStands
<1>2. CASE InsertRow(c)
  BY <1>1, <1>2 DEF InsertRow, VerdictStands, TypeOK, Shape, Verdicts
<1>3. CASE MarkFailed(c)
  <2>1. call[c].run \in Runs /\ status[call[c].run] \notin Verdicts
    BY <1>3 DEF MarkFailed, StageInv, Creates, Fresh, TypeOK, RunsKnown, RowPcs
  <2> QED
    BY <1>1, <1>3, <2>1 DEF MarkFailed, VerdictStands, TypeOK, Shape
<1>4. CASE CancelRow(c)
  BY <1>1, <1>4 DEF CancelRow, VerdictStands, TypeOK, Shape
<1>5. CASE EraseRow(c)
  BY <1>1, <1>5 DEF EraseRow, VerdictStands, TypeOK, Shape
<1>6. CASE LookupKey(c) \/ CountOfferings(c) \/ RelookupKey(c) \/ Enqueue(c)
           \/ RequestCancellation(c) \/ OverrideRow(c) \/ Answered(c)
  BY <1>1, <1>6 DEF LookupKey, CountOfferings, RelookupKey, Enqueue, RequestCancellation,
                    OverrideRow, Answered
<1> QED
  BY <1>2, <1>3, <1>4, <1>5, <1>6 DEF ApiStep

LEMMA VerdictNext ==
  OneExecution /\ TypeOK /\ DriverInv /\ StageInv /\ [Next]_vars => VerdictStands
<1> SUFFICES ASSUME OneExecution, TypeOK, DriverInv, StageInv, [Next]_vars PROVE VerdictStands
  OBVIOUS
<1> USE DEF rows
<1>1. CASE UNCHANGED status
  BY <1>1 DEF VerdictStands
<1>2. ASSUME NEW c \in Calls, ClientRequest(c)
      PROVE  UNCHANGED status
  BY <1>2 DEF ClientRequest, PostCreate, PostCancel, DeleteRun, PutOverride
<1>3. CASE UNCHANGED vars
  BY <1>1, <1>3 DEF vars
<1>4. ASSUME NEW w \in Workers, WorkerFault(w)
      PROVE  UNCHANGED status
  BY <1>4 DEF WorkerFault, Throw, ThrowEarly, WorkerCrash
<1>5. ASSUME NEW w \in Workers, NEW j \in JobIds, TakeJob(w, j)
      PROVE  UNCHANGED status
  BY <1>5 DEF TakeJob
<1>6. ASSUME NEW j \in JobIds, StalledJob(j) \/ ForgetJob(j)
      PROVE  UNCHANGED status
  BY <1>6 DEF StalledJob, ForgetJob
<1>7. ASSUME NEW r \in Runs, ExpireCancelKey(r)
      PROVE  UNCHANGED status
  BY <1>7 DEF ExpireCancelKey
<1>8. CASE ApiCrash
  BY <1>1, <1>8 DEF ApiCrash
<1> QED
  BY <1>1, <1>2, <1>3, <1>4, <1>5, <1>6, <1>7, <1>8, ApiVerdict, WorkerVerdict DEF Next, OtherStep

\* The worker's verdict on a run is its last word: only a late cancel or a
\* delete, which write the row without looking at it again, can replace it.
THEOREM VerdictCorrect == OneExecution => (Spec => VerdictIsFinal)
<1> SUFFICES ASSUME OneExecution PROVE Spec => VerdictIsFinal
  OBVIOUS
<1>1. TypeOK /\ DriverInv /\ StageInv /\ [Next]_vars => [VerdictStands]_vars
  BY VerdictNext
<1> QED
  BY <1>1, StageAlways, PTL DEF Spec, VerdictIsFinal

-----------------------------------------------------------------------------
(***************************************************************************)
(* The driver: a QUEUED or RUNNING run always has the request that creates *)
(* it, or a job that is waiting or in progress.                            *)
(***************************************************************************)

(* The job of a run has an id of its own, so that the add of a job is      *)
(* never the silent no-op of a jobId that is still known.                  *)

\* What may leave a run without a driver: a death, a FAILED that cannot be
\* written, an error before the try block, a key reused after a delete.
NothingDropped ==
  /\ OneExecution
  /\ {"apiCrash", "markFailed", "failUpdate", "throwEarly"} \cap Faults = {}
  /\ "delete" \notin Ops \/ Keys = {}

RowJob(r) == JobId(r, request[r].key)
Created(r) == status[r] # "none"

\* A key is not given twice: while keys are used, no row that has one goes.
Undeleted == Keys # {} =>
  /\ \A r \in Runs : status[r] # "deleted"
  /\ \A c \in Calls : call[c].pc # "eraseRow"

\* Two rows never share a job id, a known id is that of a row, and the id of a
\* row whose job is still to be added is free.
OwnJobIds ==
  /\ \A r, q \in Runs : Created(r) /\ Created(q) /\ RowJob(r) = RowJob(q) => r = q
  /\ \A j \in JobIds : job[j].state # "none" => \E q \in Runs : Created(q) /\ j = RowJob(q)
  /\ \A c \in Calls : call[c].pc = "enqueue" => job[RowJob(call[c].run)].state = "none"

LEMMA RowJobId == Shape => \A r \in Runs : RowJob(r) \in JobIds
BY DEF Shape, RowJob, JobId, JobIds

LEMMA UndeletedWorker ==
  ASSUME TypeOK, NEW w \in Workers, WorkerStep(w)
  PROVE  \A r \in Runs : status'[r] = "deleted" => status[r] = "deleted"
<1> USE DEF rows
<1>1. ASSUME NEW s, s # "deleted",
             \/ status' = [status EXCEPT ![worker[w].run] = s]
             \/ WriteStatus(w, s)
             \/ UNCHANGED status
      PROVE  \A r \in Runs : status'[r] = "deleted" => status[r] = "deleted"
  BY <1>1 DEF WriteStatus, TypeOK, Shape
<1>2. CASE CancelEarly(w) \/ StartRun(w) \/ CancelLate(w) \/ FailRun(w)
  BY <1>1, <1>2 DEF CancelEarly, StartRun, CancelLate, FailRun
<1>3. CASE FinishEmpty(w) \/ FinishRun(w)
  <2>1. worker[w].verdict # "deleted"
    BY <1>3 DEF FinishEmpty, FinishRun, TypeOK, WorkerLocals, LocalsFit
  <2> QED
    BY <1>1, <1>3, <2>1 DEF FinishEmpty, FinishRun
<1>4. CASE UNCHANGED status
  BY <1>4
<1> QED
  BY <1>2, <1>3, <1>4
     DEF WorkerStep, ReadRun, CheckFlag, DropFlagEarly, Pipeline, PollCancel, Generation,
         SaveHistory, DropFlag, RereadRun, SaveStats, PersistAssignments, Publish, AckJob

LEMMA UndeletedNext == NothingDropped /\ TypeOK /\ Undeleted /\ [Next]_vars => Undeleted'
<1> SUFFICES ASSUME NothingDropped, TypeOK, Undeleted, [Next]_vars, Keys # {}
             PROVE  /\ \A r \in Runs : status'[r] # "deleted"
                    /\ \A c \in Calls : call'[c].pc # "eraseRow"
  BY DEF Undeleted
<1> USE DEF rows, content
<1>0. /\ "delete" \notin Ops
      /\ \A r \in Runs : status[r] # "deleted"
      /\ \A c \in Calls : call[c].pc # "eraseRow"
      /\ status \in [Runs -> Statuses \cup NotLive] /\ call \in [Calls -> CallRecords]
  BY DEF NothingDropped, Undeleted, TypeOK, Shape
<1>1. ASSUME NEW c \in Calls, NEW p, CallGoes(c, p), p # "eraseRow"
      PROVE  \A d \in Calls : call'[d].pc # "eraseRow"
  BY <1>0, <1>1, CallGoesFields DEF TypeOK
<1>2. ASSUME NEW c \in Calls, NEW r, AnswerReplay(c, r)
      PROVE  \A d \in Calls : call'[d].pc # "eraseRow"
  BY <1>0, <1>2 DEF AnswerReplay, CallRecords
<1>3. ASSUME NEW c \in Calls, ApiStep(c)
      PROVE  \A d \in Calls : call'[d].pc # "eraseRow"
  <2>1. CASE LookupKey(c) \/ RelookupKey(c)
    BY <1>1, <1>2, <2>1 DEF LookupKey, RelookupKey
  <2>2. CASE CountOfferings(c) \/ Enqueue(c) \/ MarkFailed(c) \/ RequestCancellation(c) \/ CancelRow(c)
    BY <1>1, <2>2 DEF CountOfferings, Enqueue, MarkFailed, RequestCancellation, CancelRow
  <2>3. CASE InsertRow(c)
    <3>1. ASSUME NEW r \in Runs, call' = [call EXCEPT ![c].run = r, ![c].pc = "enqueue"]
          PROVE  \A d \in Calls : call'[d].pc # "eraseRow"
      BY <1>0, <3>1 DEF CallRecords
    <3> QED
      BY <1>1, <2>3, <3>1 DEF InsertRow
  <2>4. CASE OverrideRow(c)
    BY <1>1, <2>4 DEF OverrideRow
  <2>5. CASE Answered(c)
    BY <1>0, <2>5 DEF Answered, NoCall
  <2> QED
    BY <1>0, <1>3, <2>1, <2>2, <2>3, <2>4, <2>5 DEF ApiStep, EraseRow
<1>4. ASSUME NEW c \in Calls, ApiStep(c)
      PROVE  \A r \in Runs : status'[r] # "deleted"
  BY <1>0, <1>4
     DEF ApiStep, LookupKey, CountOfferings, InsertRow, RelookupKey, Enqueue, MarkFailed,
         RequestCancellation, CancelRow, EraseRow, OverrideRow, Answered
<1>5. ASSUME NEW c \in Calls, ClientRequest(c)
      PROVE  /\ UNCHANGED status
             /\ \A d \in Calls : call'[d].pc # "eraseRow"
  <2>1. ASSUME NEW p, NEW r, CallStarts(c, p, r), p # "eraseRow"
        PROVE  \A d \in Calls : call'[d].pc # "eraseRow"
    BY <1>0, <2>1 DEF CallStarts, NoCall
  <2>2. CASE \E r \in Runs : PostCancel(c, r) \/ \E role \in {"user", "admin"} : PutOverride(c, r, role)
    BY <2>1, <2>2 DEF PostCancel, PutOverride
  <2>3. CASE \E k \in Keys \cup {None}, b \in Bodies : PostCreate(c, k, b)
    BY <1>0, <2>3 DEF PostCreate
  <2> QED
    BY <1>0, <1>5, <2>2, <2>3 DEF ClientRequest, DeleteRun
<1>6. ASSUME NEW w \in Workers, WorkerStep(w)
      PROVE  UNCHANGED call
  BY <1>6, WorkerOwnRow DEF JobSteps, AckJob
<1>7. ASSUME NEW w \in Workers, WorkerStep(w)
      PROVE  \A r \in Runs : status'[r] # "deleted"
  BY <1>0, <1>7, UndeletedWorker
<1>8. ASSUME NEW w \in Workers, WorkerFault(w) \/ \E j \in JobIds : TakeJob(w, j)
      PROVE  UNCHANGED <<status, call>>
  BY <1>8 DEF WorkerFault, Throw, ThrowEarly, WorkerCrash, TakeJob
<1>9. ASSUME NEW j \in JobIds, StalledJob(j) \/ ForgetJob(j)
      PROVE  UNCHANGED <<status, call>>
  BY <1>9 DEF StalledJob, ForgetJob
<1>10. ASSUME NEW r \in Runs, ExpireCancelKey(r)
       PROVE  UNCHANGED <<status, call>>
  BY <1>10 DEF ExpireCancelKey
<1>11. CASE UNCHANGED vars
  BY <1>0, <1>11 DEF vars
<1> QED
  BY <1>0, <1>3, <1>4, <1>5, <1>6, <1>7, <1>8, <1>9, <1>10, <1>11
     DEF Next, OtherStep, ApiCrash, NothingDropped

\* The rows keep their ids, no job id comes into use, and no request is created.
LEMMA OwnJobIdsFrame ==
  ASSUME TypeOK, OwnJobIds,
         \A r \in Runs : Created(r)' <=> Created(r),
         \A r \in Runs : Created(r) => request'[r] = request[r],
         \A j \in JobIds : job'[j].state = "none" <=> job[j].state = "none",
         \A c \in Calls : call'[c].pc = "enqueue" => call[c].pc = "enqueue" /\ call'[c].run = call[c].run,
         \A c \in Calls : call[c].pc = "enqueue" => Created(call[c].run)
  PROVE  OwnJobIds'
<1>1. \A r \in Runs : Created(r) => RowJob(r)' = RowJob(r)
  BY DEF RowJob
<1>2. \A c \in Calls : call[c].pc = "enqueue" => call[c].run \in Runs
  BY DEF TypeOK, RunsKnown, RowPcs
<1>3. (\A r, q \in Runs : Created(r) /\ Created(q) /\ RowJob(r) = RowJob(q) => r = q)'
  BY <1>1 DEF OwnJobIds
<1>4. (\A j \in JobIds : job[j].state # "none" => \E q \in Runs : Created(q) /\ j = RowJob(q))'
  BY <1>1 DEF OwnJobIds
<1>5. ASSUME NEW c \in Calls, call'[c].pc = "enqueue"
      PROVE  job'[RowJob(call[c].run)'].state = "none"
  <2>1. call[c].pc = "enqueue" /\ call'[c].run = call[c].run /\ call[c].run \in Runs
    BY <1>2, <1>5
  <2>2. RowJob(call[c].run)' = RowJob(call[c].run)
    BY <1>1, <2>1 DEF RowJob
  <2>3. RowJob(call[c].run) \in JobIds
    BY <2>1, RowJobId DEF TypeOK
  <2> QED
    BY <2>1, <2>2, <2>3 DEF OwnJobIds
<1> QED
  BY <1>3, <1>4, <1>5 DEF OwnJobIds

\* The id of a new row's job: neither a row's id nor a key that a row still has.
LEMMA OwnJobIdsInsert ==
  ASSUME NothingDropped, TypeOK, Undeleted, OwnJobIds, RequestInv,
         NEW c \in Calls, InsertRow(c), call'[c].pc = "enqueue"
  PROVE  OwnJobIds'
<1> USE DEF rows, content, redis
<1> DEFINE k == call[c].key
<1>0. Shape /\ call[c] \in CallRecords /\ k \in Keys \cup {None}
  BY DEF TypeOK, Shape, CallRecords
<1>1. PICK r \in Runs :
        /\ status[r] = "none" /\ ~KeyTaken(k) /\ UNCHANGED job
        /\ status' = [status EXCEPT ![r] = "QUEUED"]
        /\ request' = [request EXCEPT ![r] = [key |-> k, body |-> call[c].body]]
        /\ call' = [call EXCEPT ![c].run = r, ![c].pc = "enqueue"]
  <2>1. ~CallGoes(c, "relookup")
    BY <1>0, CallGoesFields
  <2> QED
    BY <2>1 DEF InsertRow
<1> HIDE DEF k
<1>2. call'[c].run = r /\ \A d \in Calls \ {c} : call'[d] = call[d]
  <2>1. call'[c] = [call[c] EXCEPT !.run = r, !.pc = "enqueue"]
    BY <1>0, <1>1 DEF Shape
  <2> QED
    BY <1>0, <1>1, <2>1 DEF CallRecords, Shape
<1>3. /\ \A q \in Runs : Created(q)' <=> q = r \/ Created(q)
      /\ ~Created(r)
      /\ \A q \in Runs \ {r} : RowJob(q)' = RowJob(q)
      /\ RowJob(r)' = JobId(r, k)
  BY <1>0, <1>1 DEF Shape, Created, RowJob
<1>4. ASSUME NEW q \in Runs, Created(q), RowJob(q) = JobId(r, k)
      PROVE  FALSE
  <2>1. request[q].key \in Keys \cup {None}
    BY <1>0 DEF Shape
  <2>2. k # None /\ request[q].key = k
    BY <1>0, <1>3, <1>4, <2>1, JobIdsAssumption, NoneAssumption DEF RowJob, JobId
  <2>3. Live(q)
    BY <1>0, <1>4, <2>2 DEF Undeleted, Created, Live, NotLive
  <2> QED
    BY <1>1, <2>2, <2>3 DEF KeyTaken, RowsWithKey
<1>5. (\A p, q \in Runs : Created(p) /\ Created(q) /\ RowJob(p) = RowJob(q) => p = q)'
  <2> SUFFICES ASSUME NEW p \in Runs, NEW q \in Runs, Created(p)', Created(q)', RowJob(p)' = RowJob(q)'
               PROVE  p = q
    OBVIOUS
  <2>1. CASE p = r
    BY <1>3, <1>4, <2>1
  <2>2. CASE q = r
    BY <1>3, <1>4, <2>2
  <2>3. CASE p # r /\ q # r
    BY <1>3, <2>3 DEF OwnJobIds
  <2> QED
    BY <2>1, <2>2, <2>3
<1>6. (\A j \in JobIds : job[j].state # "none" => \E q \in Runs : Created(q) /\ j = RowJob(q))'
  BY <1>1, <1>3 DEF OwnJobIds
<1>7. JobId(r, k) \in JobIds
  BY <1>0 DEF JobId, JobIds
<1>8. job[JobId(r, k)].state = "none"
  BY <1>4, <1>7 DEF OwnJobIds
<1>9. ASSUME NEW d \in Calls \ {c}, call[d].pc = "enqueue"
      PROVE  call[d].run \in Runs \ {r} /\ job[RowJob(call[d].run)].state = "none"
  BY <1>1, <1>9 DEF OwnJobIds, RequestInv, TypeOK, RunsKnown, RowPcs
<1>10. ASSUME NEW d \in Calls, call'[d].pc = "enqueue"
       PROVE  (job[RowJob(call[d].run)].state = "none")'
  <2>1. CASE d = c
    BY <1>1, <1>2, <1>3, <1>8, <2>1
  <2>2. CASE d # c
    <3>1. call'[d] = call[d] /\ call[d].run \in Runs \ {r}
      BY <1>2, <1>9, <1>10, <2>2
    <3>2. RowJob(call[d].run)' = RowJob(call[d].run)
      BY <1>3, <3>1 DEF RowJob
    <3> QED
      BY <1>1, <1>9, <1>10, <2>2, <3>1, <3>2
  <2> QED
    BY <2>1, <2>2
<1> QED
  BY <1>5, <1>6, <1>10 DEF OwnJobIds

\* The add takes the id of its own row, and so no other request's.
LEMMA OwnJobIdsEnqueue ==
  ASSUME TypeOK, DriverInv, OwnJobIds, RequestInv, NEW c \in Calls, call[c].pc = "enqueue",
         CallGoes(c, "202"), AddJob(JobId(call[c].run, call[c].key), call[c].run), UNCHANGED rows
  PROVE  OwnJobIds'
<1> USE DEF rows, content
<1> DEFINE r == call[c].run
<1>1. Shape /\ Creates(c) /\ r \in Runs /\ Created(r)
  BY DEF TypeOK, RunsKnown, RowPcs, Creates, RequestInv, Created
<1>2. JobId(r, call[c].key) = RowJob(r)
  BY DEF RowJob, RequestInv
<1>3. RowJob(r) \in JobIds
  BY <1>1, RowJobId
<1>4. \A i \in JobIds \ {RowJob(r)} : job'[i] = job[i]
  BY <1>1, <1>2, <1>3, AddJobFields
<1>5. \A q \in Runs : (Created(q)' <=> Created(q)) /\ RowJob(q)' = RowJob(q)
  BY DEF Created, RowJob
<1>6. call'[c].pc = "202" /\ \A d \in Calls \ {c} : call'[d] = call[d]
  BY <1>1, CallGoesFields
<1>7. ASSUME NEW d \in Calls, call'[d].pc = "enqueue"
      PROVE  (job[RowJob(call[d].run)].state = "none")'
  <2>1. d # c /\ call'[d] = call[d]
    BY <1>6, <1>7
  <2>2. call[d].run \in Runs /\ call[d].run # r /\ Created(call[d].run)
    BY <1>1, <1>7, <2>1, SoleCreator DEF Creates, TypeOK, RunsKnown, RowPcs, RequestInv, Created
  <2>3. RowJob(call[d].run) \in JobIds \ {RowJob(r)}
    BY <1>1, <2>2, RowJobId DEF OwnJobIds
  <2>4. RowJob(call[d].run)' = RowJob(call[d].run)
    BY <2>1 DEF RowJob
  <2> QED
    BY <1>4, <1>7, <2>1, <2>3, <2>4 DEF OwnJobIds
<1>8. (\A j \in JobIds : job[j].state # "none" => \E q \in Runs : Created(q) /\ j = RowJob(q))'
  BY <1>1, <1>4, <1>5 DEF OwnJobIds
<1>9. (\A p, q \in Runs : Created(p) /\ Created(q) /\ RowJob(p) = RowJob(q) => p = q)'
  BY <1>5 DEF OwnJobIds
<1> QED
  BY <1>7, <1>8, <1>9 DEF OwnJobIds

LEMMA OwnJobIdsApiStep ==
  ASSUME NothingDropped, TypeOK, DriverInv, Undeleted, OwnJobIds, RequestInv,
         NEW c \in Calls, ApiStep(c)
  PROVE  OwnJobIds'
<1> USE DEF rows, content, redis
<1>0. Shape /\ call[c] \in CallRecords /\ (call[c].pc \in RowPcs => call[c].run \in Runs)
  BY DEF TypeOK, Shape, RunsKnown
<1>1. \A d \in Calls : call[d].pc = "enqueue" => Created(call[d].run)
  BY DEF RequestInv, Created
<1>2. ASSUME NEW p, p # "enqueue", CallGoes(c, p), UNCHANGED <<request, job>>,
             \A r \in Runs : Created(r)' <=> Created(r)
      PROVE  OwnJobIds'
  <2>1. \A d \in Calls : call'[d].pc = "enqueue" => call[d].pc = "enqueue" /\ call'[d].run = call[d].run
    BY <1>0, <1>2, CallGoesFields
  <2> QED
    BY <1>1, <1>2, <2>1, OwnJobIdsFrame
<1>3. ASSUME NEW r, AnswerReplay(c, r), UNCHANGED <<rows, job>>
      PROVE  OwnJobIds'
  <2>1. call'[c].pc \in {"202", "409"} /\ \A d \in Calls \ {c} : call'[d] = call[d]
    BY <1>0, <1>3 DEF AnswerReplay, Shape, CallRecords
  <2>2. \A q \in Runs : Created(q)' <=> Created(q)
    BY <1>3 DEF Created
  <2> QED
    BY <1>1, <1>3, <2>1, <2>2, OwnJobIdsFrame
<1>4. CASE LookupKey(c) \/ RelookupKey(c)
  BY <1>2, <1>3, <1>4 DEF LookupKey, RelookupKey, Created
<1>5. CASE CountOfferings(c) \/ RequestCancellation(c) \/ OverrideRow(c)
  BY <1>2, <1>5 DEF CountOfferings, RequestCancellation, OverrideRow, Created
<1>6. CASE InsertRow(c)
  <2>1. CASE CallGoes(c, "relookup") /\ UNCHANGED rows
    BY <1>2, <1>6, <2>1 DEF InsertRow, Created
  <2>2. CASE \E r \in Runs : call' = [call EXCEPT ![c].run = r, ![c].pc = "enqueue"]
    <3>1. call'[c].pc = "enqueue"
      BY <1>0, <2>2 DEF Shape, CallRecords
    <3> QED
      BY <1>6, <3>1, OwnJobIdsInsert
  <2> QED
    BY <1>6, <2>1, <2>2 DEF InsertRow
<1>7. CASE Enqueue(c)
  <2>1. CASE CallGoes(c, "202") /\ AddJob(JobId(call[c].run, call[c].key), call[c].run)
    BY <1>7, <2>1, OwnJobIdsEnqueue DEF Enqueue
  <2>2. CASE CallGoes(c, "markFailed") /\ UNCHANGED job
    BY <1>2, <1>7, <2>2 DEF Enqueue, Created
  <2> QED
    BY <1>7, <2>1, <2>2 DEF Enqueue, OneExecution, NothingDropped
<1>8. CASE MarkFailed(c)
  <2>1. \A r \in Runs : Created(r)' <=> Created(r)
    BY <1>0, <1>8 DEF MarkFailed, Shape, Created, Live, NotLive
  <2> QED
    BY <1>2, <1>8, <2>1 DEF MarkFailed
<1>9. CASE CancelRow(c)
  <2>1. \A r \in Runs : Created(r)' <=> Created(r)
    BY <1>0, <1>9 DEF CancelRow, Shape, Created, Live, NotLive
  <2> QED
    BY <1>2, <1>9, <2>1 DEF CancelRow
<1>10. CASE EraseRow(c)
  <2>1. \A r \in Runs : Created(r)' <=> Created(r)
    BY <1>0, <1>10 DEF EraseRow, Shape, Created, Live, NotLive
  <2> QED
    BY <1>2, <1>10, <2>1 DEF EraseRow
<1>11. CASE Answered(c)
  <2>1. \A d \in Calls : call'[d].pc = "enqueue" => call[d].pc = "enqueue" /\ call'[d].run = call[d].run
    BY <1>0, <1>11 DEF Answered, NoCall, Shape
  <2>2. \A r \in Runs : Created(r)' <=> Created(r)
    BY <1>11 DEF Answered, Created
  <2> QED
    BY <1>1, <1>11, <2>1, <2>2, OwnJobIdsFrame DEF Answered
<1> QED
  BY <1>4, <1>5, <1>6, <1>7, <1>8, <1>9, <1>10, <1>11 DEF ApiStep

\* A worker's step creates no row.
LEMMA CreatedWorker ==
  ASSUME TypeOK, DriverInv, NEW w \in Workers, JobSteps(w), OwnRow(w)
  PROVE  \A r \in Runs : Created(r)' <=> Created(r)
<1>1. Created(worker[w].run)
  BY Sole DEF JobSteps, Busy, Created
<1> QED
  BY <1>1 DEF OwnRow, Created

LEMMA WorkerKeepsRequests ==
  ASSUME NEW w \in Workers, WorkerStep(w)
  PROVE  UNCHANGED request
BY DEF WorkerStep, ReadRun, CheckFlag, CancelEarly, DropFlagEarly, StartRun, Pipeline, PollCancel,
       Generation, SaveHistory, DropFlag, RereadRun, CancelLate, FinishEmpty, SaveStats,
       PersistAssignments, FinishRun, FailRun, Publish, AckJob, rows, content

LEMMA OwnJobIdsNext ==
  NothingDropped /\ TypeOK /\ DriverInv /\ Undeleted /\ RequestInv /\ OwnJobIds /\ [Next]_vars
    => OwnJobIds'
<1> SUFFICES ASSUME NothingDropped, TypeOK, DriverInv, Undeleted, RequestInv, OwnJobIds, [Next]_vars
             PROVE  OwnJobIds'
  OBVIOUS
<1> USE DEF rows, content, redis
<1>0. OneExecution /\ Shape
  BY DEF NothingDropped, TypeOK
<1>1. \A d \in Calls : call[d].pc = "enqueue" => Created(call[d].run)
  BY DEF RequestInv, Created
<1>2. ASSUME UNCHANGED request, \A r \in Runs : Created(r)' <=> Created(r),
             \A d \in Calls : call'[d].pc = "enqueue" => call[d].pc = "enqueue" /\ call'[d].run = call[d].run,
             \A j \in JobIds : job'[j].state = "none" <=> job[j].state = "none"
      PROVE  OwnJobIds'
  BY <1>1, <1>2, OwnJobIdsFrame
<1>3. ASSUME UNCHANGED status
      PROVE  \A r \in Runs : Created(r)' <=> Created(r)
  BY <1>3 DEF Created
<1>4. ASSUME NEW c \in Calls, ClientRequest(c)
      PROVE  OwnJobIds'
  <2>1. ASSUME NEW d \in Calls, call'[d].pc = "enqueue"
        PROVE  call[d].pc = "enqueue" /\ call'[d].run = call[d].run
    <3>1. call'[d] = call[d] \/ call'[d].pc \in {"count", "lookup", "setFlag", "eraseRow", "overrideRow"}
      <4>1. CASE \E k \in Keys \cup {None}, b \in Bodies : PostCreate(c, k, b)
        BY <1>0, <4>1 DEF PostCreate, Shape
      <4>2. ASSUME NEW r \in Runs, NEW p \in {"setFlag", "eraseRow", "overrideRow"}, CallStarts(c, p, r)
            PROVE  call'[d] = call[d] \/ call'[d].pc = p
        BY <1>0, <4>2 DEF CallStarts, NoCall, Shape
      <4> QED
        BY <1>4, <4>1, <4>2 DEF ClientRequest, PostCancel, DeleteRun, PutOverride
    <3> QED
      BY <2>1, <3>1
  <2> QED
    BY <1>2, <1>3, <1>4, <2>1, ClientCreates
<1>5. CASE ApiCrash
  BY <1>5 DEF ApiCrash, NothingDropped
<1>6. ASSUME NEW w \in Workers, WorkerStep(w)
      PROVE  OwnJobIds'
  <2>1. CASE AckJob(w)
    <3>1. \A j \in JobIds : job'[j].state = "none" <=> job[j].state = "none"
      <4>1. worker[w].job \in JobIds /\ job[worker[w].job].state = "active"
        BY <2>1, Sole DEF AckJob, DriverInv, OneWorker, Busy
      <4> QED
        BY <1>0, <2>1, <4>1 DEF AckJob, JobOutcome, Shape, JobRecords
    <3> QED
      BY <1>2, <1>3, <2>1, <3>1 DEF AckJob
  <2>2. CASE ~AckJob(w)
    BY <1>2, <1>6, <2>2, WorkerOwnRow, CreatedWorker, WorkerKeepsRequests DEF JobSteps
  <2> QED
    BY <2>1, <2>2
<1>7. ASSUME NEW w \in Workers, WorkerFault(w)
      PROVE  OwnJobIds'
  BY <1>0, <1>2, <1>3, <1>7, WorkerFaultFields DEF JobSteps
<1>8. ASSUME NEW w \in Workers, NEW j \in JobIds, TakeJob(w, j)
      PROVE  OwnJobIds'
  <2>1. \A i \in JobIds : job'[i].state = "none" <=> job[i].state = "none"
    BY <1>0, <1>8 DEF TakeJob, Shape, JobRecords
  <2> QED
    BY <1>2, <1>3, <1>8, <2>1 DEF TakeJob
<1>9. ASSUME NEW j \in JobIds, ForgetJob(j)
      PROVE  OwnJobIds'
  <2>1. \A i \in JobIds : job'[i].state = "none" \/ job'[i] = job[i]
    BY <1>0, <1>9 DEF ForgetJob, Unqueued, Shape
  <2>2. UNCHANGED <<rows, call>>
    BY <1>9 DEF ForgetJob
  <2>3. \A r \in Runs : RowJob(r)' = RowJob(r) /\ (Created(r)' <=> Created(r))
    BY <2>2 DEF RowJob, Created
  <2>4. \A c \in Calls : call[c].pc = "enqueue" =>
          /\ RowJob(call[c].run)' = RowJob(call[c].run) /\ RowJob(call[c].run) \in JobIds
    BY <1>0, <2>2, RowJobId DEF RowJob, TypeOK, RunsKnown, RowPcs
  <2> QED
    BY <2>1, <2>2, <2>3, <2>4 DEF OwnJobIds
<1>10. ASSUME NEW r \in Runs, ExpireCancelKey(r)
       PROVE  OwnJobIds'
  BY <1>2, <1>3, <1>10 DEF ExpireCancelKey
<1>11. CASE UNCHANGED vars
  BY <1>2, <1>3, <1>11 DEF vars
<1> QED
  BY <1>4, <1>5, <1>6, <1>7, <1>8, <1>9, <1>10, <1>11, OwnJobIdsApiStep, NothingStalls
     DEF Next, OtherStep

-----------------------------------------------------------------------------
(* From one driver to the next.                                            *)

LEMMA DrivenKept ==
  ASSUME NeverAbandoned,
         \A r \in Runs : status'[r] \in Cancellable => status[r] \in Cancellable,
         \A c \in Calls : Creates(c) => Creates(c)' /\ call'[c].run = call[c].run,
         \A j \in JobIds : Queued(j) => Queued(j)' /\ job'[j].run = job[j].run
  PROVE  NeverAbandoned'
BY DEF NeverAbandoned, HasDriver, Creates, Queued

LEMMA DrivenApiStep ==
  ASSUME NothingDropped, TypeOK, DriverInv, OwnJobIds, RequestInv, NeverAbandoned,
         NEW c \in Calls, ApiStep(c)
  PROVE  NeverAbandoned'
<1> USE DEF rows, content, redis
<1>0. Shape /\ call[c] \in CallRecords /\ (call[c].pc \in RowPcs => call[c].run \in Runs)
  BY DEF TypeOK, Shape, RunsKnown
<1>1. ASSUME ~Creates(c), \A d \in Calls \ {c} : call'[d] = call[d], UNCHANGED job,
             \A r \in Runs : status'[r] \in Cancellable => status[r] \in Cancellable
      PROVE  NeverAbandoned'
  BY <1>1, DrivenKept DEF Creates, Queued
<1>2. ASSUME NEW p, CallGoes(c, p)
      PROVE  \A d \in Calls \ {c} : call'[d] = call[d]
  BY <1>0, <1>2, CallGoesFields
<1>3. CASE LookupKey(c) \/ RelookupKey(c)
  <2>1. \A d \in Calls \ {c} : call'[d] = call[d]
    BY <1>0, <1>2, <1>3 DEF LookupKey, RelookupKey, AnswerReplay, Shape
  <2> QED
    BY <1>1, <1>3, <2>1 DEF LookupKey, RelookupKey, Creates
<1>4. CASE CountOfferings(c) \/ RequestCancellation(c) \/ OverrideRow(c)
  BY <1>1, <1>2, <1>4 DEF CountOfferings, RequestCancellation, OverrideRow, Creates
<1>5. CASE InsertRow(c)
  <2>1. CASE CallGoes(c, "relookup") /\ UNCHANGED rows
    BY <1>1, <1>2, <1>5, <2>1 DEF InsertRow, Creates
  <2>2. ASSUME NEW r \in Runs, status' = [status EXCEPT ![r] = "QUEUED"],
               call' = [call EXCEPT ![c].run = r, ![c].pc = "enqueue"]
        PROVE  NeverAbandoned'
    <3>1. call'[c] = [call[c] EXCEPT !.run = r, !.pc = "enqueue"]
      BY <1>0, <2>2 DEF Shape
    <3>2. /\ call'[c].run = r /\ call'[c].pc = "enqueue"
          /\ \A d \in Calls \ {c} : call'[d] = call[d]
      BY <1>0, <2>2, <3>1 DEF CallRecords, Shape
    <3>3. HasDriver(r)'
      BY <3>2 DEF HasDriver
    <3>4. ASSUME NEW q \in Runs \ {r}, status'[q] \in Cancellable
          PROVE  HasDriver(q)'
      <4>1. HasDriver(q)
        BY <1>0, <2>2, <3>4 DEF NeverAbandoned, Shape
      <4> QED
        BY <1>5, <3>2, <4>1 DEF HasDriver, InsertRow
    <3> QED
      BY <3>3, <3>4 DEF NeverAbandoned
  <2> QED
    BY <1>5, <2>1, <2>2 DEF InsertRow
<1>6. CASE Enqueue(c)
  <2>0. PICK r \in Runs : r = call[c].run
    BY <1>0, <1>6 DEF Enqueue, RowPcs
  <2>1. /\ Creates(c) /\ UNCHANGED status
        /\ \A d \in Calls \ {c} : call'[d] = call[d]
    BY <1>0, <1>2, <1>6 DEF Enqueue, Creates
  <2>2. CASE CallGoes(c, "markFailed") /\ UNCHANGED job
    <3>1. \A d \in Calls : Creates(d) => Creates(d)' /\ call'[d].run = call[d].run
      BY <1>0, <2>1, <2>2, CallGoesFields DEF Creates
    <3> QED
      BY <2>1, <2>2, <3>1, DrivenKept DEF Queued
  <2>3. CASE AddJob(JobId(r, call[c].key), r)
    <3>1. JobId(r, call[c].key) = RowJob(r) /\ RowJob(r) \in JobIds /\ job[RowJob(r)].state = "none"
      BY <1>0, <1>6, <2>0, RowJobId DEF Enqueue, RowJob, RequestInv, OwnJobIds
    <3>2. /\ \A i \in JobIds \ {RowJob(r)} : job'[i] = job[i]
          /\ job'[RowJob(r)].state = "wait" /\ job'[RowJob(r)].run = r
      BY <1>0, <2>3, <3>1, AddJobFields
    <3>3. HasDriver(r)'
      BY <3>1, <3>2 DEF HasDriver
    <3>4. ASSUME NEW q \in Runs, q # r, HasDriver(q)
          PROVE  HasDriver(q)'
      <4>1. CASE \E d \in Calls : call[d].run = q /\ call[d].pc \in {"enqueue", "markFailed"}
        BY <2>0, <2>1, <3>4, <4>1 DEF HasDriver
      <4>2. CASE \E j \in JobIds : job[j].run = q /\ job[j].state \in {"wait", "active"}
        BY <3>1, <3>2, <4>2 DEF HasDriver
      <4> QED
        BY <3>4, <4>1, <4>2 DEF HasDriver
    <3>5. ASSUME NEW q \in Runs, status'[q] \in Cancellable
          PROVE  HasDriver(q)'
      BY <2>1, <3>3, <3>4, <3>5 DEF NeverAbandoned
    <3> QED
      BY <3>5 DEF NeverAbandoned
  <2> QED
    BY <1>6, <2>0, <2>2, <2>3 DEF Enqueue
<1>7. CASE MarkFailed(c)
  <2> DEFINE r == call[c].run
  <2>1. r \in Runs /\ Creates(c) /\ \A d \in Calls \ {c} : call'[d] = call[d]
    BY <1>0, <1>2, <1>7 DEF MarkFailed, RowPcs, Creates
  <2>2. status'[r] \notin Cancellable
    BY <1>0, <1>7, <2>1 DEF MarkFailed, NothingDropped, Shape, Cancellable, Live, NotLive
  <2>3. ASSUME NEW q \in Runs, status'[q] \in Cancellable
        PROVE  HasDriver(q)'
    <3>1. q # r /\ status[q] \in Cancellable
      BY <1>0, <1>7, <2>2, <2>3 DEF MarkFailed, Shape
    <3>2. HasDriver(q)
      BY <3>1 DEF NeverAbandoned
    <3> QED
      BY <1>7, <2>1, <3>1, <3>2 DEF HasDriver, MarkFailed
  <2> QED
    BY <2>3 DEF NeverAbandoned
<1>8. CASE CancelRow(c)
  <2>1. \A r \in Runs : status'[r] \in Cancellable => status[r] \in Cancellable
    BY <1>0, <1>8 DEF CancelRow, Shape, Cancellable
  <2> QED
    BY <1>1, <1>2, <1>8, <2>1 DEF CancelRow, Creates
<1>9. CASE EraseRow(c)
  <2>1. \A r \in Runs : status'[r] \in Cancellable => status[r] \in Cancellable
    BY <1>0, <1>9 DEF EraseRow, Shape, Cancellable
  <2> QED
    BY <1>1, <1>2, <1>9, <2>1 DEF EraseRow, Creates
<1>10. CASE Answered(c)
  BY <1>0, <1>1, <1>10 DEF Answered, Answers, Shape, Creates
<1> QED
  BY <1>3, <1>4, <1>5, <1>6, <1>7, <1>8, <1>9, <1>10 DEF ApiStep

\* While its worker is at it, a run is driven by the job in progress.
LEMMA DrivenWorkerStep ==
  ASSUME NothingDropped, TypeOK, DriverInv, StageInv, NeverAbandoned,
         NEW w \in Workers, WorkerStep(w)
  PROVE  NeverAbandoned'
<1> USE DEF rows
<1> DEFINE r == worker[w].run
<1>0. Shape
  BY DEF TypeOK
<1>1. CASE AckJob(w)
  <2>1. Busy(w) /\ Over(worker[w]) /\ worker[w].job \in JobIds /\ r \in Runs
    BY <1>1, Sole DEF AckJob, Over, Busy
  <2>2. job[worker[w].job].run = r /\ status[r] \notin Cancellable
    BY <2>1 DEF DriverInv, OneWorker, StageInv, WorkFits, NothingDropped
  <2>3. UNCHANGED <<status, call>> /\ \A i \in JobIds \ {worker[w].job} : job'[i] = job[i]
    BY <1>0, <1>1 DEF AckJob, Shape
  <2>4. ASSUME NEW q \in Runs, status'[q] \in Cancellable
        PROVE  HasDriver(q)'
    <3>1. q # r /\ HasDriver(q)
      BY <2>2, <2>3, <2>4 DEF NeverAbandoned
    <3> QED
      BY <2>2, <2>3, <3>1 DEF HasDriver
  <2> QED
    BY <2>4 DEF NeverAbandoned
<1>2. CASE ~AckJob(w)
  <2>1. JobSteps(w) /\ OwnRow(w)
    BY <1>2, WorkerOwnRow
  <2>2. HasDriver(r)
    BY <2>1, Sole DEF JobSteps, Busy, DriverInv, OneWorker, HasDriver
  <2>3. ASSUME NEW q \in Runs, status'[q] \in Cancellable
        PROVE  HasDriver(q)
    BY <2>1, <2>2, <2>3 DEF OwnRow, NeverAbandoned
  <2> QED
    BY <2>1, <2>3 DEF NeverAbandoned, HasDriver, JobSteps
<1> QED
  BY <1>1, <1>2

LEMMA DrivenNext ==
  NothingDropped /\ TypeOK /\ DriverInv /\ StageInv /\ OwnJobIds /\ RequestInv /\ NeverAbandoned
    /\ [Next]_vars => NeverAbandoned'
<1> SUFFICES ASSUME NothingDropped, TypeOK, DriverInv, StageInv, OwnJobIds, RequestInv,
                    NeverAbandoned, [Next]_vars
             PROVE  NeverAbandoned'
  OBVIOUS
<1> USE DEF rows, redis
<1>0. OneExecution /\ Shape
  BY DEF NothingDropped, TypeOK
<1>1. ASSUME UNCHANGED status,
             \A c \in Calls : Creates(c) => call'[c] = call[c],
             \A j \in JobIds : Queued(j) => Queued(j)' /\ job'[j].run = job[j].run
      PROVE  NeverAbandoned'
  BY <1>1, DrivenKept DEF Creates
<1>2. ASSUME NEW c \in Calls, ClientRequest(c)
      PROVE  NeverAbandoned'
  <2>1. \A d \in Calls : Creates(d) => call'[d] = call[d]
    BY <1>0, <1>2 DEF ClientRequest, PostCreate, PostCancel, DeleteRun, PutOverride, CallStarts,
                      Creates, Shape
  <2> QED
    BY <1>1, <1>2, <2>1, ClientCreates DEF Queued
<1>3. CASE ApiCrash
  BY <1>3 DEF ApiCrash, NothingDropped
<1>4. ASSUME NEW w \in Workers, WorkerFault(w)
      PROVE  NeverAbandoned'
  BY <1>0, <1>1, <1>4, WorkerFaultFields DEF JobSteps, Queued
<1>5. ASSUME NEW w \in Workers, NEW j \in JobIds, TakeJob(w, j)
      PROVE  NeverAbandoned'
  <2>1. \A i \in JobIds : Queued(i) => Queued(i)' /\ job'[i].run = job[i].run
    BY <1>0, <1>5 DEF TakeJob, Queued, Shape, JobRecords
  <2> QED
    BY <1>1, <1>5, <2>1 DEF TakeJob
<1>6. ASSUME NEW j \in JobIds, ForgetJob(j)
      PROVE  NeverAbandoned'
  <2>1. \A i \in JobIds : Queued(i) => Queued(i)' /\ job'[i].run = job[i].run
    BY <1>0, <1>6 DEF ForgetJob, Queued, Shape
  <2> QED
    BY <1>1, <1>6, <2>1 DEF ForgetJob
<1>7. ASSUME NEW r \in Runs, ExpireCancelKey(r)
      PROVE  NeverAbandoned'
  BY <1>1, <1>7 DEF ExpireCancelKey, Queued
<1>8. CASE UNCHANGED vars
  BY <1>1, <1>8 DEF vars, Queued
<1> QED
  BY <1>2, <1>3, <1>4, <1>5, <1>6, <1>7, <1>8, DrivenApiStep, DrivenWorkerStep, NothingStalls
     DEF Next, OtherStep

\* No QUEUED or RUNNING run is ever without the request that creates it or a
\* job that is waiting or in progress: through cancels, lost announcements,
\* refused adds, thrown pipelines and expiring keys, for any keys and bodies.
THEOREM NobodyAbandoned == NothingDropped => (Spec => []NeverAbandoned)
<1> SUFFICES ASSUME NothingDropped PROVE Spec => []NeverAbandoned
  OBVIOUS
<1>1. OneExecution
  BY DEF NothingDropped
<1>2. Init => RequestInv /\ Undeleted /\ OwnJobIds /\ NeverAbandoned
  BY DEF Init, NoCall, Unqueued, RequestInv, Undeleted, OwnJobIds, Created, NeverAbandoned, Cancellable
<1>3. TypeOK /\ Undeleted /\ [Next]_vars => Undeleted'
  BY UndeletedNext
<1>4. TypeOK /\ DriverInv /\ Undeleted /\ RequestInv /\ OwnJobIds /\ [Next]_vars => OwnJobIds'
  BY OwnJobIdsNext
<1>5. TypeOK /\ DriverInv /\ StageInv /\ OwnJobIds /\ RequestInv /\ NeverAbandoned /\ [Next]_vars
        => NeverAbandoned'
  BY DrivenNext
<1>6. Spec => [](TypeOK /\ NoDebris /\ DriverInv /\ StageInv)
  BY <1>1, StageAlways
<1> QED
  BY <1>2, <1>3, <1>4, <1>5, <1>6, RequestNext, PTL DEF Spec

-----------------------------------------------------------------------------
(***************************************************************************)
(* The contract: where a run is neither cancelled nor deleted and has one  *)
(* execution, each step of the handlers, the queue and the worker is a     *)
(* step of RunContract or leaves what it shows alone.                      *)
(***************************************************************************)

\* A cancel and a delete write the row whatever it has become (README.md).
Undisturbed == OneExecution /\ Ops \cap {"cancel", "delete"} = {}

CancelPcs == {"cancelEarly", "dropFlagEarly", "dropFlag", "reread", "cancelLate"}

\* Nothing of a cancel or of a delete is under way.
QuietCalls == \A c \in Calls : call[c].pc \notin {"setFlag", "cancelRow", "eraseRow"}
QuietWorkers ==
  \A w \in Workers : /\ ~worker[w].cancelled /\ worker[w].verdict # "CANCELLED"
                     /\ worker[w].pc \notin CancelPcs
QuietRows == \A r \in Runs : status[r] \notin {"CANCELLED", "deleted"}
Calm == cancelKey = {} /\ QuietCalls /\ QuietWorkers /\ QuietRows

Waiting(r) == status[r] = "QUEUED" /\ r \notin assigned

\* Program points of a worker whose run has begun, and has no schedule yet.
WorkPcs == {"pipeline", "poll", "generation", "saveHistory", "finishEmpty", "saveStats", "persist"}

\* The worker is where the row says it is.
InStep(x) ==
  /\ x.pc \in {"read", "flag", "start"} => Waiting(x.run)
  /\ x.pc \in WorkPcs \/ (x.pc = "publish" /\ x.verdict = "RUNNING") =>
       status[x.run] = "RUNNING" /\ x.run \notin assigned
  /\ x.pc = "finish" => status[x.run] = "RUNNING"
  /\ x.pc = "fail" => status[x.run] \in Cancellable

StepsInv ==
  /\ \A c \in Calls : Creates(c) => Waiting(call[c].run)
  /\ \A j \in JobIds : job[j].state = "wait" => Waiting(job[j].run)
  /\ \A w \in Workers : InStep(worker[w])

-----------------------------------------------------------------------------
(* It stays calm.                                                          *)

LEMMA QuietGoes ==
  ASSUME Shape, QuietWorkers, NEW w \in Workers, NEW p, p \notin CancelPcs, WorkerGoes(w, p)
  PROVE  QuietWorkers'
<1>1. worker'[w] = [worker[w] EXCEPT !.pc = p] /\ \A v \in Workers \ {w} : worker'[v] = worker[v]
  BY DEF Shape, WorkerGoes
<1>2. worker[w] \in WorkerRecords
  BY DEF Shape
<1>3. /\ worker'[w].pc = p /\ worker'[w].cancelled = worker[w].cancelled
      /\ worker'[w].verdict = worker[w].verdict
  BY <1>1, <1>2 DEF WorkerRecords
<1> QED
  BY <1>1, <1>3 DEF QuietWorkers

LEMMA QuietSays ==
  ASSUME Shape, QuietWorkers, NEW w \in Workers, NEW s, s # "CANCELLED", Says(w, s)
  PROVE  QuietWorkers'
<1>1. /\ worker'[w] = [worker[w] EXCEPT !.pc = "publish", !.verdict = s]
      /\ \A v \in Workers \ {w} : worker'[v] = worker[v]
  BY DEF Shape, Says
<1>2. worker[w] \in WorkerRecords
  BY DEF Shape
<1>3. /\ worker'[w].pc = "publish" /\ worker'[w].cancelled = worker[w].cancelled
      /\ worker'[w].verdict = s
  BY <1>1, <1>2 DEF WorkerRecords
<1> QED
  BY <1>1, <1>3 DEF QuietWorkers, CancelPcs

LEMMA QuietDecides ==
  ASSUME Shape, QuietWorkers, NEW w \in Workers, NEW s, s # "CANCELLED",
         NEW p, p \notin CancelPcs, Decides(w, s, p)
  PROVE  QuietWorkers'
<1>1. /\ worker'[w] = [worker[w] EXCEPT !.pc = p, !.verdict = s]
      /\ \A v \in Workers \ {w} : worker'[v] = worker[v]
  BY DEF Shape, Decides
<1>2. worker[w] \in WorkerRecords
  BY DEF Shape
<1>3. worker'[w].pc = p /\ worker'[w].cancelled = worker[w].cancelled /\ worker'[w].verdict = s
  BY <1>1, <1>2 DEF WorkerRecords
<1> QED
  BY <1>1, <1>3 DEF QuietWorkers

LEMMA CalmStatus ==
  ASSUME Shape, QuietRows, NEW r, NEW s, s \notin {"CANCELLED", "deleted"},
         status' = [status EXCEPT ![r] = s]
  PROVE  QuietRows'
BY DEF Shape, QuietRows

LEMMA CalmWriteStatus ==
  ASSUME Shape, QuietWorkers, QuietRows, NEW w \in Workers, NEW s,
         s \notin {"CANCELLED", "deleted"}, WriteStatus(w, s)
  PROVE  QuietWorkers' /\ QuietRows'
<1>1. CASE status' = [status EXCEPT ![worker[w].run] = s] /\ Says(w, s)
  BY <1>1, QuietSays, CalmStatus
<1>2. CASE WorkerGoes(w, "fail") /\ UNCHANGED status
  BY <1>2, QuietGoes DEF CancelPcs, QuietRows
<1> QED
  BY <1>1, <1>2 DEF WriteStatus

LEMMA CalmWorkerStep ==
  ASSUME TypeOK, Calm, NEW w \in Workers, WorkerStep(w)
  PROVE  Calm'
<1> USE DEF rows, content, redis, CancelPcs
<1>0. Shape /\ QuietWorkers /\ QuietRows
  BY DEF TypeOK, Calm
<1>1. worker[w].pc \notin CancelPcs /\ cancelKey = {} /\ ~worker[w].cancelled /\ worker[w].verdict # "CANCELLED"
  BY DEF Calm, QuietWorkers
<1>2. UNCHANGED <<cancelKey, call>>
  BY <1>1 DEF WorkerStep, ReadRun, CheckFlag, CancelEarly, DropFlagEarly, StartRun, Pipeline,
              PollCancel, Generation, SaveHistory, DropFlag, RereadRun, CancelLate, FinishEmpty,
              SaveStats, PersistAssignments, FinishRun, FailRun, Publish, AckJob
<1>3. ASSUME QuietWorkers', QuietRows'
      PROVE  Calm'
  BY <1>2, <1>3 DEF Calm, QuietCalls
<1>4. CASE UNCHANGED status
  <2>1. QuietRows'
    BY <1>0, <1>4 DEF QuietRows
  <2>2. ASSUME NEW p, p \notin CancelPcs, WorkerGoes(w, p)
        PROVE  QuietWorkers'
    BY <1>0, <2>2, QuietGoes
  <2>3. ASSUME NEW s, s # "CANCELLED", Says(w, s)
        PROVE  QuietWorkers'
    BY <1>0, <2>3, QuietSays
  <2>4. ASSUME NEW s, s # "CANCELLED", NEW p, p \notin CancelPcs, Decides(w, s, p)
        PROVE  QuietWorkers'
    BY <1>0, <2>4, QuietDecides
  <2>5. CASE ReadRun(w)
    <3>1. worker[w].run \in Runs
      BY <2>5 DEF ReadRun, TypeOK, RunsKnown
    <3>2. status[worker[w].run] # "CANCELLED"
      BY <1>0, <3>1 DEF QuietRows
    <3> QED
      BY <1>3, <2>1, <2>2, <2>4, <2>5, <3>2 DEF ReadRun
  <2>6. CASE CheckFlag(w)
    BY <1>1, <1>3, <2>1, <2>2, <2>6 DEF CheckFlag
  <2>7. CASE Pipeline(w)
    BY <1>3, <2>1, <2>2, <2>4, <2>7 DEF Pipeline
  <2>8. CASE PollCancel(w)
    BY <1>1, <1>3, <2>1, <2>2, <2>4, <2>8 DEF PollCancel
  <2>9. CASE Generation(w)
    <3>1. PICK exit \in {<<"STAGNATED", "saveHistory">>, <<"COMPLETED", "saveHistory">>,
                         <<worker[w].verdict, "poll">>} :
            worker' = [worker EXCEPT ![w].gen = @ + 1, ![w].verdict = exit[1], ![w].pc = exit[2]]
      BY <2>9 DEF Generation
    <3> DEFINE v == exit[1]
               p == exit[2]
    <3>6. v # "CANCELLED" /\ p \in {"saveHistory", "poll"}
      BY <1>1
    <3> HIDE DEF v, p
    <3>2. /\ worker'[w] = [worker[w] EXCEPT !.gen = @ + 1, !.verdict = v, !.pc = p]
          /\ \A u \in Workers \ {w} : worker'[u] = worker[u]
      BY <1>0, <3>1 DEF Shape, v, p
    <3>3. worker[w] \in WorkerRecords
      BY <1>0 DEF Shape
    <3>4. /\ worker'[w].pc = p /\ worker'[w].cancelled = worker[w].cancelled
          /\ worker'[w].verdict = v
      BY <3>2, <3>3 DEF WorkerRecords
    <3>5. QuietWorkers'
      BY <1>0, <1>1, <3>2, <3>4, <3>6 DEF QuietWorkers
    <3> QED
      BY <1>3, <2>1, <3>5
  <2>10. CASE SaveHistory(w)
    BY <1>1, <1>3, <2>1, <2>2, <2>10 DEF SaveHistory
  <2>11. CASE SaveStats(w) \/ PersistAssignments(w)
    BY <1>3, <2>1, <2>2, <2>11 DEF SaveStats, PersistAssignments
  <2>12. CASE Publish(w)
    <3>1. AfterPublish(w) \notin CancelPcs
      BY <1>1 DEF AfterPublish
    <3> QED
      BY <1>3, <2>1, <2>2, <2>12, <3>1 DEF Publish
  <2>13. CASE AckJob(w)
    <3>1. QuietWorkers'
      BY <1>0, <2>13 DEF AckJob, NoWork, Shape, QuietWorkers
    <3> QED
      BY <1>3, <2>1, <3>1
  <2>14. CASE CancelEarly(w) \/ StartRun(w) \/ CancelLate(w) \/ FinishEmpty(w) \/ FinishRun(w)
    <3>1. ASSUME NEW s, s # "CANCELLED", WriteStatus(w, s)
          PROVE  QuietWorkers'
      BY <2>2, <2>3, <3>1 DEF WriteStatus
    <3> QED
      BY <1>1, <1>3, <2>1, <2>14, <3>1 DEF CancelEarly, StartRun, CancelLate, FinishEmpty, FinishRun
  <2>15. CASE FailRun(w)
    BY <1>3, <2>1, <2>3, <2>15 DEF FailRun
  <2> QED
    BY <1>1, <2>5, <2>6, <2>7, <2>8, <2>9, <2>10, <2>11, <2>12, <2>13, <2>14, <2>15
       DEF WorkerStep, DropFlagEarly, DropFlag, RereadRun
<1>5. CASE StartRun(w) \/ FinishEmpty(w) \/ FinishRun(w)
  <2>1. FinishEmpty(w) \/ FinishRun(w) => worker[w].verdict # "deleted"
    BY DEF TypeOK, WorkerLocals, LocalsFit, FinishEmpty, FinishRun
  <2> QED
    BY <1>0, <1>1, <1>3, <1>5, <2>1, CalmWriteStatus DEF StartRun, FinishEmpty, FinishRun
<1>6. CASE FailRun(w)
  BY <1>0, <1>3, <1>4, <1>6, QuietSays, CalmStatus DEF FailRun
<1> QED
  BY <1>1, <1>4, <1>5, <1>6
     DEF WorkerStep, ReadRun, CheckFlag, CancelEarly, DropFlagEarly, Pipeline, PollCancel, Generation,
         SaveHistory, DropFlag, RereadRun, CancelLate, SaveStats, PersistAssignments, Publish, AckJob

LEMMA CalmApiStep ==
  ASSUME TypeOK, Calm, NEW c \in Calls, ApiStep(c)
  PROVE  Calm'
<1> USE DEF rows, content, redis
<1>0. /\ Shape /\ call[c] \in CallRecords /\ QuietRows /\ QuietWorkers /\ cancelKey = {}
      /\ call[c].pc \notin {"setFlag", "cancelRow", "eraseRow"}
  BY DEF TypeOK, Shape, Calm, QuietCalls
<1>1. UNCHANGED <<cancelKey, worker>>
  BY <1>0 DEF ApiStep, LookupKey, CountOfferings, InsertRow, RelookupKey, Enqueue, MarkFailed,
              RequestCancellation, CancelRow, EraseRow, OverrideRow, Answered
<1>2. QuietWorkers'
  BY <1>0, <1>1 DEF QuietWorkers
<1>3. QuietRows'
  <2>1. UNCHANGED status \/ \E r \in Runs, s \in {"QUEUED", "FAILED"} : status' = [status EXCEPT ![r] = s]
    BY <1>0 DEF ApiStep, LookupKey, CountOfferings, InsertRow, RelookupKey, Enqueue, MarkFailed,
                RequestCancellation, CancelRow, EraseRow, OverrideRow, Answered, TypeOK, RunsKnown, RowPcs
  <2> QED
    BY <1>0, <2>1, CalmStatus DEF QuietRows
<1>4. ASSUME NEW p, p \notin {"setFlag", "cancelRow", "eraseRow"}, CallGoes(c, p)
      PROVE  QuietCalls'
  BY <1>0, <1>4, CallGoesFields DEF Calm, QuietCalls
<1>5. QuietCalls'
  <2>1. CASE LookupKey(c) \/ RelookupKey(c)
    <3>1. ASSUME NEW r, AnswerReplay(c, r)
          PROVE  QuietCalls'
      <4>1. call'[c].pc \in {"202", "409"} /\ \A d \in Calls \ {c} : call'[d] = call[d]
        BY <1>0, <3>1 DEF AnswerReplay, Shape, CallRecords
      <4> QED
        BY <4>1 DEF Calm, QuietCalls
    <3> QED
      BY <1>4, <2>1, <3>1 DEF LookupKey, RelookupKey
  <2>2. CASE CountOfferings(c) \/ Enqueue(c) \/ MarkFailed(c) \/ OverrideRow(c)
    BY <1>4, <2>2 DEF CountOfferings, Enqueue, MarkFailed, OverrideRow
  <2>3. CASE InsertRow(c)
    <3>1. ASSUME NEW r \in Runs, call' = [call EXCEPT ![c].run = r, ![c].pc = "enqueue"]
          PROVE  QuietCalls'
      <4>1. call'[c].pc = "enqueue" /\ \A d \in Calls \ {c} : call'[d] = call[d]
        BY <1>0, <3>1 DEF CallRecords, Shape
      <4> QED
        BY <4>1 DEF Calm, QuietCalls
    <3> QED
      BY <1>4, <2>3, <3>1 DEF InsertRow
  <2>4. CASE Answered(c)
    BY <1>0, <2>4 DEF Answered, NoCall, Shape, Calm, QuietCalls
  <2> QED
    BY <1>0, <2>1, <2>2, <2>3, <2>4 DEF ApiStep, RequestCancellation, CancelRow, EraseRow
<1> QED
  BY <1>0, <1>1, <1>2, <1>3, <1>5 DEF Calm

LEMMA CalmNext == Undisturbed /\ TypeOK /\ Calm /\ [Next]_vars => Calm'
<1> SUFFICES ASSUME Undisturbed, TypeOK, Calm, [Next]_vars PROVE Calm'
  OBVIOUS
<1> USE DEF rows, redis
<1>0. OneExecution /\ Shape
  BY DEF Undisturbed, TypeOK
<1>1. ASSUME UNCHANGED <<status, worker>>, cancelKey' \subseteq cancelKey,
             \A c \in Calls : call'[c].pc \in {"setFlag", "cancelRow", "eraseRow"} => call'[c] = call[c]
      PROVE  Calm'
  BY <1>1 DEF Calm, QuietCalls, QuietWorkers, QuietRows
<1>2. ASSUME NEW c \in Calls, ClientRequest(c)
      PROVE  Calm'
  <2>1. CASE \E k \in Keys \cup {None}, b \in Bodies : PostCreate(c, k, b)
    BY <1>0, <1>1, <2>1 DEF PostCreate, Shape
  <2>2. CASE \E r \in Runs, role \in {"user", "admin"} : PutOverride(c, r, role)
    BY <1>0, <1>1, <2>2 DEF PutOverride, CallStarts, NoCall, Shape
  <2> QED
    BY <1>2, <2>1, <2>2 DEF ClientRequest, PostCancel, DeleteRun, Undisturbed
<1>3. CASE ApiCrash
  BY <1>1, <1>3 DEF ApiCrash, NoCall
<1>4. ASSUME NEW w \in Workers, WorkerFault(w)
      PROVE  Calm'
  <2>1. UNCHANGED <<status, cancelKey, call>>
    BY <1>4 DEF WorkerFault, Throw, ThrowEarly, WorkerCrash
  <2>2. QuietWorkers'
    BY <1>0, <1>4, QuietGoes, QuietDecides
       DEF WorkerFault, Throw, ThrowEarly, WorkerCrash, OneExecution, Calm, CancelPcs
  <2> QED
    BY <2>1, <2>2 DEF Calm, QuietCalls, QuietRows
<1>5. ASSUME NEW w \in Workers, NEW j \in JobIds, TakeJob(w, j)
      PROVE  Calm'
  <2>1. worker'[w] = [NoWork EXCEPT !.pc = "read", !.job = j, !.run = job[j].run]
        /\ \A v \in Workers \ {w} : worker'[v] = worker[v]
    BY <1>0, <1>5 DEF TakeJob, Shape
  <2>2. ~worker'[w].cancelled /\ worker'[w].verdict = "none" /\ worker'[w].pc = "read"
    BY <2>1 DEF NoWork
  <2>3. QuietWorkers'
    BY <2>1, <2>2 DEF Calm, QuietWorkers, CancelPcs
  <2> QED
    BY <1>5, <2>3 DEF TakeJob, Calm, QuietCalls, QuietRows
<1>6. ASSUME NEW j \in JobIds, StalledJob(j) \/ ForgetJob(j)
      PROVE  Calm'
  BY <1>1, <1>6 DEF StalledJob, ForgetJob
<1>7. ASSUME NEW r \in Runs, ExpireCancelKey(r)
      PROVE  Calm'
  BY <1>1, <1>7 DEF ExpireCancelKey
<1>8. CASE UNCHANGED vars
  BY <1>1, <1>8 DEF vars
<1> QED
  BY <1>2, <1>3, <1>4, <1>5, <1>6, <1>7, <1>8, CalmApiStep, CalmWorkerStep DEF Next, OtherStep

-----------------------------------------------------------------------------
(* The worker keeps in step with the row, and each of its writes is a step *)
(* of the contract.                                                        *)

Seen == <<status, assigned>>
ContractStep == [Contract!Next]_Seen

\* What a worker may do to the rows: nothing, or one step of its own run.
LEMMA StepsFrame ==
  ASSUME TypeOK, DriverInv, StepsInv, NEW w \in Workers, JobSteps(w), OwnRow(w),
         assigned' \in {assigned, assigned \cup {worker[w].run}}, InStep(worker[w])'
  PROVE  StepsInv'
<1> DEFINE r == worker[w].run
<1>1. /\ r \in Runs
      /\ \A c \in Calls : Creates(c) => call[c].run # r
      /\ \A j \in JobIds : job[j].state = "wait" => job[j].run # r
      /\ \A v \in Workers \ {w} : Busy(v) => worker[v].run # r
  BY Sole DEF JobSteps, Busy
<1>2. \A q \in Runs \ {r} : status'[q] = status[q] /\ (q \in assigned' <=> q \in assigned)
  BY DEF OwnRow
<1>3. \A c \in Calls : Creates(c)' => Waiting(call[c].run)'
  <2>1. \A c \in Calls : Creates(c) => call[c].run \in Runs
    BY DEF TypeOK, RunsKnown, Creates, RowPcs
  <2> QED
    BY <1>1, <1>2, <2>1 DEF StepsInv, Waiting, JobSteps, Creates
<1>4. \A j \in JobIds : job'[j].state = "wait" => Waiting(job[j].run)'
  <2>1. \A j \in JobIds : job[j].state = "wait" => job[j].run \in Runs
    BY DEF TypeOK, RunsKnown
  <2> QED
    BY <1>1, <1>2, <2>1 DEF StepsInv, Waiting, JobSteps
<1>5. ASSUME NEW v \in Workers \ {w}
      PROVE  InStep(worker[v])'
  <2>1. worker'[v] = worker[v] /\ InStep(worker[v])
    BY DEF JobSteps, StepsInv
  <2>2. CASE Busy(v)
    <3>1. worker[v].run \in Runs \ {r}
      BY <1>1, <2>2 DEF Busy, TypeOK, RunsKnown
    <3> QED
      BY <1>2, <2>1, <3>1 DEF InStep, Waiting
  <2>3. CASE ~Busy(v)
    BY <2>1, <2>3 DEF InStep, Busy, WorkPcs
  <2> QED
    BY <2>2, <2>3
<1> QED
  BY <1>3, <1>4, <1>5 DEF StepsInv

\* The worker writes the outcome, or that the run has begun, and says so.
LEMMA StepsWrite ==
  ASSUME TypeOK, NEW w \in Workers, worker[w].run \in Runs, NEW s, s \in Verdicts \cup {"RUNNING"},
         s = "RUNNING" => worker[w].run \notin assigned,
         status' = [status EXCEPT ![worker[w].run] = s], Says(w, s), UNCHANGED assigned
  PROVE  InStep(worker[w])'
<1>1. worker'[w].pc = "publish" /\ worker'[w].verdict = s /\ worker'[w].run = worker[w].run
  BY SaysFields DEF TypeOK
<1>2. status'[worker[w].run] = s
  BY DEF TypeOK, Shape
<1> QED
  BY <1>1, <1>2 DEF InStep, WorkPcs

\* Where the worker continues without a write.
LEMMA StepsOn ==
  ASSUME NEW w \in Workers, InStep(worker[w]), UNCHANGED <<status, assigned>>,
         worker'[w].run = worker[w].run,
         worker'[w].pc \in {"read", "flag", "start"} => worker[w].pc \in {"read", "flag", "start"},
         worker'[w].pc \in WorkPcs =>
           worker[w].pc \in WorkPcs \/ (worker[w].pc = "publish" /\ worker[w].verdict = "RUNNING"),
         worker'[w].pc = "fail" => worker[w].pc \in {"start", "finish"} \cup WorkPcs,
         worker'[w].pc \notin {"publish", "finish"}
  PROVE  InStep(worker[w])'
BY DEF InStep, Waiting, Cancellable, WorkPcs

LEMMA StepsWorkerStep ==
  ASSUME TypeOK, Calm, DriverInv, StepsInv, ResultsInv, NEW w \in Workers, WorkerStep(w), ~AckJob(w)
  PROVE  InStep(worker[w])' /\ ContractStep /\ assigned' \in {assigned, assigned \cup {worker[w].run}}
<1> USE DEF rows, content, WorkPcs
<1>0. /\ Shape /\ InStep(worker[w]) /\ worker[w].pc \notin CancelPcs /\ ~worker[w].cancelled
      /\ worker[w].verdict # "CANCELLED" /\ cancelKey = {} /\ QuietRows /\ worker[w].pc # "idle"
  BY WorkerOwnRow DEF TypeOK, StepsInv, Calm, QuietWorkers, JobSteps
<1>00. worker[w].run \in Runs /\ Live(worker[w].run)
  BY <1>0, Sole DEF Busy, QuietRows, Live, NotLive
<1> DEFINE r == worker[w].run
<1>01. worker'[w].run = r
  BY WorkerOwnRow DEF JobSteps
<1>1. ASSUME UNCHANGED <<status, assigned>>
      PROVE  ContractStep /\ assigned' \in {assigned, assigned \cup {worker[w].run}}
  BY <1>1 DEF ContractStep, Seen
<1>2. ASSUME NEW p, WorkerGoes(w, p)
      PROVE  worker'[w].pc = p
  BY <1>0, <1>2, GoesFields
<1>3. ASSUME NEW s, NEW p, Decides(w, s, p)
      PROVE  worker'[w].pc = p
  BY <1>0, <1>3, DecidesFields
<1>4. CASE ReadRun(w)
  <2>1. status[r] # "CANCELLED"
    BY <1>0, <1>00 DEF QuietRows
  <2>2. worker'[w].pc = "flag" /\ worker[w].pc = "read"
    BY <1>00, <1>2, <1>4, <2>1 DEF ReadRun
  <2>3. UNCHANGED <<status, assigned>>
    BY <1>4 DEF ReadRun
  <2> QED
    BY <1>0, <1>01, <1>1, <2>2, <2>3, StepsOn
<1>5. CASE CheckFlag(w)
  <2>1. worker'[w].pc = "start" /\ worker[w].pc = "flag"
    BY <1>0, <1>2, <1>5 DEF CheckFlag
  <2>2. UNCHANGED <<status, assigned>>
    BY <1>5 DEF CheckFlag
  <2> QED
    BY <1>0, <1>01, <1>1, <2>1, <2>2, StepsOn
<1>6. CASE StartRun(w)
  <2>1. status' = [status EXCEPT ![r] = "RUNNING"] /\ Says(w, "RUNNING") /\ UNCHANGED assigned
    BY <1>00, <1>6 DEF StartRun, WriteStatus
  <2>2. Waiting(r)
    BY <1>0, <1>6 DEF StartRun, InStep
  <2>3. InStep(worker[w])'
    BY <1>00, <2>1, <2>2, StepsWrite DEF Waiting
  <2>4. Contract!Begin(r)
    BY <2>1, <2>2 DEF Contract!Begin, Contract!Moves, Waiting
  <2> QED
    BY <1>00, <2>1, <2>3, <2>4 DEF ContractStep, Contract!Next
<1>7. CASE Pipeline(w)
  <2>1. worker'[w].pc \in {"finishEmpty", "poll"} /\ worker[w].pc = "pipeline"
    BY <1>2, <1>3, <1>7 DEF Pipeline
  <2>2. UNCHANGED <<status, assigned>>
    BY <1>7 DEF Pipeline
  <2> QED
    BY <1>0, <1>01, <1>1, <2>1, <2>2, StepsOn
<1>8. CASE PollCancel(w)
  <2>1. worker'[w].pc \in {"saveHistory", "generation"} /\ worker[w].pc = "poll"
    BY <1>0, <1>2, <1>3, <1>8 DEF PollCancel
  <2>2. UNCHANGED <<status, assigned>>
    BY <1>8 DEF PollCancel
  <2> QED
    BY <1>0, <1>01, <1>1, <2>1, <2>2, StepsOn
<1>9. CASE Generation(w)
  <2>1. worker'[w].pc \in {"saveHistory", "poll"}
    <3>1. PICK exit \in {<<"STAGNATED", "saveHistory">>, <<"COMPLETED", "saveHistory">>,
                         <<worker[w].verdict, "poll">>} :
            worker' = [worker EXCEPT ![w].gen = @ + 1, ![w].verdict = exit[1], ![w].pc = exit[2]]
      BY <1>9 DEF Generation
    <3> DEFINE v == exit[1]
               p == exit[2]
    <3>2. p \in {"saveHistory", "poll"}
      OBVIOUS
    <3> HIDE DEF v, p
    <3>3. worker'[w] = [worker[w] EXCEPT !.gen = @ + 1, !.verdict = v, !.pc = p]
      BY <1>0, <3>1 DEF Shape, v, p
    <3>4. worker[w] \in WorkerRecords
      BY <1>0 DEF Shape
    <3> QED
      BY <3>2, <3>3, <3>4 DEF WorkerRecords
  <2>2. UNCHANGED <<status, assigned>> /\ worker[w].pc = "generation"
    BY <1>9 DEF Generation
  <2> QED
    BY <1>0, <1>01, <1>1, <2>1, <2>2, StepsOn
<1>10. CASE SaveHistory(w)
  <2>1. worker'[w].pc \in {"saveStats", "fail"} /\ worker[w].pc = "saveHistory"
    BY <1>0, <1>2, <1>10 DEF SaveHistory
  <2>2. UNCHANGED <<status, assigned>>
    BY <1>10 DEF SaveHistory
  <2> QED
    BY <1>0, <1>01, <1>1, <2>1, <2>2, StepsOn
<1>11. CASE SaveStats(w)
  <2>1. worker'[w].pc \in {"persist", "fail"} /\ worker[w].pc = "saveStats"
    BY <1>2, <1>11 DEF SaveStats
  <2>2. UNCHANGED <<status, assigned>>
    BY <1>11 DEF SaveStats
  <2> QED
    BY <1>0, <1>01, <1>1, <2>1, <2>2, StepsOn
<1>12. CASE PersistAssignments(w)
  <2>1. status[r] = "RUNNING" /\ r \notin assigned
    BY <1>0, <1>12 DEF PersistAssignments, InStep
  <2>2. assigned' = assigned \cup {r} /\ UNCHANGED status /\ worker'[w].pc = "finish"
    BY <1>00, <1>2, <1>12, <2>1 DEF PersistAssignments, ForeignKey
  <2>3. InStep(worker[w])'
    BY <1>01, <2>1, <2>2 DEF InStep
  <2>4. Contract!Schedule(r)
    BY <2>1, <2>2 DEF Contract!Schedule
  <2> QED
    BY <1>00, <2>2, <2>3, <2>4 DEF ContractStep, Contract!Next
<1>13. CASE FinishRun(w)
  <2> DEFINE v == worker[w].verdict
  <2>1. status' = [status EXCEPT ![r] = v] /\ Says(w, v) /\ UNCHANGED assigned
    BY <1>00, <1>13 DEF FinishRun, WriteStatus
  <2>2. v \in {"COMPLETED", "STAGNATED"} /\ worker[w].pc = "finish"
    BY <1>13 DEF FinishRun, TypeOK, WorkerLocals, LocalsFit
  <2>3. status[r] = "RUNNING" /\ r \in assigned
    BY <1>0, <1>00, <2>2 DEF InStep, ResultsInv
  <2>4. InStep(worker[w])'
    BY <1>00, <2>1, <2>2, StepsWrite DEF Verdicts
  <2>5. Contract!Succeed(r)
    BY <2>1, <2>2, <2>3 DEF Contract!Succeed, Contract!Moves
  <2> QED
    BY <1>00, <2>1, <2>4, <2>5 DEF ContractStep, Contract!Next, Contract!Decide
<1>14. CASE FinishEmpty(w)
  <2> DEFINE v == worker[w].verdict
  <2>1. status' = [status EXCEPT ![r] = v] /\ Says(w, v) /\ UNCHANGED assigned
    BY <1>00, <1>14 DEF FinishEmpty, WriteStatus
  <2>2. v \in {"PRE_GA_EMPTY", "SSA_INFEASIBLE"} /\ worker[w].pc = "finishEmpty"
    BY <1>14 DEF FinishEmpty, TypeOK, WorkerLocals, LocalsFit
  <2>3. status[r] = "RUNNING" /\ r \notin assigned
    BY <1>0, <2>2 DEF InStep
  <2>4. InStep(worker[w])'
    BY <1>00, <2>1, <2>2, StepsWrite DEF Verdicts
  <2>5. Contract!Refuse(r)
    BY <2>1, <2>2, <2>3 DEF Contract!Refuse, Contract!Moves
  <2> QED
    BY <1>00, <2>1, <2>4, <2>5 DEF ContractStep, Contract!Next, Contract!Decide
<1>15. CASE FailRun(w)
  <2>1. Says(w, "FAILED") /\ UNCHANGED assigned /\ status[r] \in Cancellable
    BY <1>0, <1>15 DEF FailRun, InStep
  <2>2. worker'[w].pc = "publish" /\ worker'[w].verdict = "FAILED"
    BY <1>0, <2>1, SaysFields
  <2>3. InStep(worker[w])'
    BY <2>2 DEF InStep
  <2>4. CASE UNCHANGED status
    BY <1>1, <2>1, <2>3, <2>4
  <2>5. CASE status' = [status EXCEPT ![r] = "FAILED"]
    <3>1. Contract!Fail(r)
      BY <2>1, <2>5 DEF Contract!Fail, Contract!Moves, Cancellable
    <3> QED
      BY <1>00, <2>1, <2>3, <3>1 DEF ContractStep, Contract!Next, Contract!Decide
  <2> QED
    BY <1>15, <2>4, <2>5 DEF FailRun
<1>16. CASE Publish(w)
  <2>1. worker'[w].pc = AfterPublish(w) /\ worker[w].pc = "publish" /\ UNCHANGED <<status, assigned>>
    BY <1>2, <1>16 DEF Publish
  <2>2. CASE worker[w].verdict = "RUNNING"
    BY <1>0, <1>01, <1>1, <2>1, <2>2, StepsOn DEF AfterPublish
  <2>3. CASE worker[w].verdict # "RUNNING"
    <3>1. worker'[w].pc = "ack"
      BY <1>0, <2>1, <2>3 DEF AfterPublish
    <3> QED
      BY <1>1, <2>1, <3>1 DEF InStep
  <2> QED
    BY <2>2, <2>3
<1> QED
  BY <1>0, <1>4, <1>5, <1>6, <1>7, <1>8, <1>9, <1>10, <1>11, <1>12, <1>13, <1>14, <1>15, <1>16
     DEF WorkerStep, CancelPcs, CancelEarly, DropFlagEarly, DropFlag, RereadRun, CancelLate

-----------------------------------------------------------------------------
(* The requests, the queue and the faults.                                 *)

\* No row changes and nobody gets a run who had none.
LEMMA StepsSoft ==
  ASSUME TypeOK, StepsInv, UNCHANGED <<status, assigned, worker>>,
         \A c \in Calls : Creates(c)' => Creates(c) /\ call'[c].run = call[c].run,
         \A j \in JobIds : job'[j].state = "wait" => job[j].state = "wait" /\ job'[j].run = job[j].run
  PROVE  StepsInv' /\ ContractStep
BY DEF StepsInv, Waiting, InStep, ContractStep, Seen

LEMMA StepsInsert ==
  ASSUME TypeOK, NoDebris, DriverInv, StepsInv, NEW c \in Calls, InsertRow(c), call'[c].pc = "enqueue"
  PROVE  StepsInv' /\ ContractStep
<1> USE DEF rows, redis
<1>0. Shape /\ call[c] \in CallRecords /\ ~CallGoes(c, "relookup")
  BY CallGoesFields DEF TypeOK, Shape
<1>1. PICK r \in Runs : /\ status[r] = "none" /\ status' = [status EXCEPT ![r] = "QUEUED"]
                        /\ call' = [call EXCEPT ![c].run = r, ![c].pc = "enqueue"]
  BY <1>0 DEF InsertRow
<1>2. call'[c].run = r /\ \A d \in Calls \ {c} : call'[d] = call[d]
  <2>1. call'[c] = [call[c] EXCEPT !.run = r, !.pc = "enqueue"]
    BY <1>0, <1>1 DEF Shape
  <2> QED
    BY <1>0, <1>1, <2>1 DEF CallRecords, Shape
<1>3. UNCHANGED <<job, worker, assigned>>
  BY <1>0 DEF InsertRow
<1>4. /\ status'[r] = "QUEUED" /\ \A q \in Runs \ {r} : status'[q] = status[q]
      /\ r \notin assigned
  BY <1>0, <1>1 DEF Shape, NoDebris, Live, NotLive
<1>5. \A q \in Runs : Waiting(q) \/ q = r => Waiting(q)'
  BY <1>3, <1>4 DEF Waiting
<1>6. \A d \in Calls : Creates(d)' => Waiting(call[d].run)'
  <2>1. \A d \in Calls : Creates(d) => call[d].run \in Runs
    BY DEF TypeOK, RunsKnown, Creates, RowPcs
  <2> QED
    BY <1>2, <1>5, <2>1 DEF StepsInv, Creates
<1>7. \A j \in JobIds : job'[j].state = "wait" => Waiting(job[j].run)'
  <2>1. \A j \in JobIds : job[j].state = "wait" => job[j].run \in Runs
    BY DEF TypeOK, RunsKnown
  <2> QED
    BY <1>3, <1>5, <2>1 DEF StepsInv
<1>8. ASSUME NEW w \in Workers
      PROVE  InStep(worker[w])'
  <2>1. worker' = worker /\ InStep(worker[w])
    BY <1>3 DEF StepsInv
  <2>2. CASE Busy(w)
    <3>1. worker[w].run \in Runs \ {r}
      BY <1>1, <2>2, Sole
    <3> QED
      BY <1>3, <1>4, <2>1, <3>1 DEF InStep, Waiting
  <2>3. CASE ~Busy(w)
    BY <2>1, <2>3 DEF InStep, Busy, WorkPcs
  <2> QED
    BY <2>2, <2>3
<1>9. Contract!Submit(r)
  BY <1>1, <1>3 DEF Contract!Submit, Contract!Moves
<1> QED
  BY <1>6, <1>7, <1>8, <1>9 DEF StepsInv, ContractStep, Contract!Next

LEMMA StepsEnqueue ==
  ASSUME TypeOK, StepsInv, NEW c \in Calls, call[c].pc = "enqueue", CallGoes(c, "202"),
         AddJob(JobId(call[c].run, call[c].key), call[c].run), UNCHANGED <<status, assigned, worker>>
  PROVE  StepsInv' /\ ContractStep
<1> DEFINE j == JobId(call[c].run, call[c].key)
<1>1. Shape /\ Creates(c) /\ call[c] \in CallRecords
  BY DEF TypeOK, Shape, Creates
<1>2. j \in JobIds
  BY <1>1 DEF JobId, JobIds, CallRecords, TypeOK, RunsKnown, RowPcs
<1> HIDE DEF j
<1>3. /\ \A i \in JobIds \ {j} : job'[i] = job[i]
      /\ job'[j] = job[j] \/ job'[j].run = call[c].run
  BY <1>1, <1>2, AddJobFields DEF j
<1>4. \A d \in Calls : Creates(d)' => Creates(d) /\ call'[d].run = call[d].run
  BY <1>1, CallGoesFields DEF Creates
<1>5. \A i \in JobIds : job'[i].state = "wait" => Waiting(job'[i].run)
  BY <1>1, <1>2, <1>3 DEF StepsInv
<1> QED
  BY <1>4, <1>5 DEF StepsInv, Waiting, InStep, ContractStep, Seen

LEMMA StepsMarkFailed ==
  ASSUME TypeOK, DriverInv, StepsInv, NEW c \in Calls, MarkFailed(c),
         status' = [status EXCEPT ![call[c].run] = "FAILED"]
  PROVE  StepsInv' /\ ContractStep
<1> USE DEF rows, content, redis
<1> DEFINE r == call[c].run
<1>0. Shape /\ Creates(c)
  BY DEF TypeOK, MarkFailed, Creates
<1>1. /\ r \in Runs
      /\ \A d \in Calls \ {c} : Creates(d) => call[d].run # r
      /\ \A j \in JobIds : Queued(j) => job[j].run # r
      /\ \A w \in Workers : Busy(w) => worker[w].run # r
  BY <1>0, SoleCreator
<1>2. ~Creates(c)' /\ \A d \in Calls \ {c} : call'[d] = call[d]
  BY <1>0, CallGoesFields DEF MarkFailed, Creates
<1>3. /\ \A q \in Runs \ {r} : status'[q] = status[q]
      /\ UNCHANGED <<job, worker, assigned>>
  BY <1>0, <1>1 DEF Shape, MarkFailed
<1>4. \A q \in Runs \ {r} : Waiting(q) => Waiting(q)'
  BY <1>3 DEF Waiting
<1>5. \A d \in Calls : Creates(d)' => Waiting(call[d].run)'
  <2>1. \A d \in Calls \ {c} : Creates(d) => call[d].run \in Runs \ {r}
    BY <1>1 DEF TypeOK, RunsKnown, Creates, RowPcs
  <2> QED
    BY <1>2, <1>4, <2>1 DEF StepsInv, Creates
<1>6. \A j \in JobIds : job'[j].state = "wait" => Waiting(job[j].run)'
  <2>1. \A j \in JobIds : job[j].state = "wait" => job[j].run \in Runs \ {r}
    BY <1>1 DEF TypeOK, RunsKnown, Queued
  <2> QED
    BY <1>3, <1>4, <2>1 DEF StepsInv
<1>7. ASSUME NEW w \in Workers
      PROVE  InStep(worker[w])'
  <2>1. worker' = worker /\ InStep(worker[w])
    BY <1>3 DEF StepsInv
  <2>2. CASE Busy(w)
    <3>1. worker[w].run \in Runs \ {r}
      BY <1>1, <2>2, Sole
    <3> QED
      BY <1>3, <2>1, <3>1 DEF InStep, Waiting
  <2>3. CASE ~Busy(w)
    BY <2>1, <2>3 DEF InStep, Busy, WorkPcs
  <2> QED
    BY <2>2, <2>3
<1>8. Contract!Fail(r)
  BY <1>0, <1>3 DEF Contract!Fail, Contract!Moves, StepsInv, Waiting
<1> QED
  BY <1>1, <1>5, <1>6, <1>7, <1>8 DEF StepsInv, ContractStep, Contract!Next, Contract!Decide

LEMMA StepsApiStep ==
  ASSUME OneExecution, TypeOK, NoDebris, Calm, DriverInv, StepsInv, NEW c \in Calls, ApiStep(c)
  PROVE  StepsInv' /\ ContractStep
<1> USE DEF rows, content, redis
<1>0. Shape /\ call[c] \in CallRecords /\ call[c].pc \notin {"setFlag", "cancelRow", "eraseRow"}
  BY DEF TypeOK, Shape, Calm, QuietCalls
<1>1. ASSUME UNCHANGED <<status, assigned, job, worker>>,
             \A d \in Calls : Creates(d)' => Creates(d) /\ call'[d].run = call[d].run
      PROVE  StepsInv' /\ ContractStep
  BY <1>1, StepsSoft
<1>2. ASSUME NEW p, p \notin {"enqueue", "markFailed"}, CallGoes(c, p)
      PROVE  \A d \in Calls : Creates(d)' => Creates(d) /\ call'[d].run = call[d].run
  BY <1>0, <1>2, CallGoesFields DEF Creates
<1>3. ASSUME NEW r, AnswerReplay(c, r)
      PROVE  \A d \in Calls : Creates(d)' => Creates(d) /\ call'[d].run = call[d].run
  <2>1. call'[c].pc \in {"202", "409"} /\ \A d \in Calls \ {c} : call'[d] = call[d]
    BY <1>0, <1>3 DEF AnswerReplay, Shape, CallRecords
  <2> QED
    BY <2>1 DEF Creates
<1>4. CASE LookupKey(c) \/ RelookupKey(c)
  BY <1>1, <1>2, <1>3, <1>4 DEF LookupKey, RelookupKey
<1>5. CASE CountOfferings(c) \/ OverrideRow(c)
  BY <1>1, <1>2, <1>5 DEF CountOfferings, OverrideRow
<1>6. CASE InsertRow(c)
  <2>1. CASE CallGoes(c, "relookup") /\ UNCHANGED rows
    BY <1>1, <1>2, <1>6, <2>1 DEF InsertRow
  <2>2. CASE \E r \in Runs : call' = [call EXCEPT ![c].run = r, ![c].pc = "enqueue"]
    <3>1. call'[c].pc = "enqueue"
      BY <1>0, <2>2 DEF Shape, CallRecords
    <3> QED
      BY <1>6, <3>1, StepsInsert
  <2> QED
    BY <1>6, <2>1, <2>2 DEF InsertRow
<1>7. CASE Enqueue(c)
  <2>1. CASE CallGoes(c, "202") /\ AddJob(JobId(call[c].run, call[c].key), call[c].run)
    BY <1>7, <2>1, StepsEnqueue DEF Enqueue
  <2>2. CASE CallGoes(c, "markFailed") /\ UNCHANGED job
    <3>1. \A d \in Calls : Creates(d)' => Creates(d) /\ call'[d].run = call[d].run
      BY <1>0, <1>7, <2>2, CallGoesFields DEF Enqueue, Creates
    <3> QED
      BY <1>1, <1>7, <2>2, <3>1 DEF Enqueue
  <2> QED
    BY <1>7, <2>1, <2>2 DEF Enqueue, OneExecution
<1>8. CASE MarkFailed(c)
  BY <1>1, <1>2, <1>8, StepsMarkFailed DEF MarkFailed
<1>9. CASE Answered(c)
  <2>1. \A d \in Calls : Creates(d)' => Creates(d) /\ call'[d].run = call[d].run
    BY <1>0, <1>9 DEF Answered, NoCall, Shape, Creates
  <2> QED
    BY <1>1, <1>9, <2>1 DEF Answered
<1> QED
  BY <1>0, <1>4, <1>5, <1>6, <1>7, <1>8, <1>9 DEF ApiStep, RequestCancellation, CancelRow, EraseRow

LEMMA StepsTake ==
  ASSUME TypeOK, StepsInv, NEW w \in Workers, NEW j \in JobIds, TakeJob(w, j)
  PROVE  StepsInv' /\ ContractStep
<1> USE DEF rows, content
<1>0. Shape
  BY DEF TypeOK
<1>1. /\ job[j].state = "wait" /\ job'[j].state = "active"
      /\ \A i \in JobIds \ {j} : job'[i] = job[i]
  BY <1>0 DEF TakeJob, Shape, JobRecords
<1>2. /\ worker'[w].pc = "read" /\ worker'[w].run = job[j].run
      /\ \A v \in Workers \ {w} : worker'[v] = worker[v]
  BY <1>0 DEF TakeJob, Shape, NoWork
<1>3. UNCHANGED <<status, assigned, call>>
  BY DEF TakeJob
<1>4. InStep(worker[w])'
  BY <1>1, <1>2, <1>3 DEF StepsInv, InStep, Waiting, WorkPcs
<1>5. \A v \in Workers \ {w} : InStep(worker[v])'
  BY <1>2, <1>3 DEF StepsInv, InStep, Waiting
<1> QED
  BY <1>1, <1>3, <1>4, <1>5 DEF StepsInv, Waiting, Creates, ContractStep, Seen

LEMMA StepsAck ==
  ASSUME TypeOK, StepsInv, NEW w \in Workers, AckJob(w)
  PROVE  StepsInv' /\ ContractStep
<1> USE DEF rows, content
<1>0. Shape /\ worker[w].job \in JobIds
  BY DEF TypeOK, RunsKnown, AckJob
<1>1. \A i \in JobIds : job'[i].state = "wait" => job'[i] = job[i]
  BY <1>0 DEF AckJob, JobOutcome, Shape, JobRecords
<1>2. worker'[w].pc = "idle" /\ \A v \in Workers \ {w} : worker'[v] = worker[v]
  BY <1>0 DEF AckJob, Shape, NoWork
<1>3. UNCHANGED <<status, assigned, call>>
  BY DEF AckJob
<1>4. InStep(worker[w])'
  BY <1>2 DEF InStep, WorkPcs
<1>5. \A v \in Workers \ {w} : InStep(worker[v])'
  BY <1>2, <1>3 DEF StepsInv, InStep, Waiting
<1> QED
  BY <1>1, <1>3, <1>4, <1>5 DEF StepsInv, Waiting, Creates, ContractStep, Seen

\* What is thrown outside the try block leaves the row for good; inside it, the
\* row is still QUEUED or RUNNING when the catch block looks at it.
LEMMA StepsFault ==
  ASSUME OneExecution, TypeOK, Calm, DriverInv, StepsInv, NEW w \in Workers, WorkerFault(w)
  PROVE  StepsInv' /\ ContractStep
<1> USE DEF rows, content, redis
<1>1. /\ JobSteps(w) /\ UNCHANGED <<rows, redis>> /\ worker'[w].run = worker[w].run
      /\ \/ worker[w].pc \in TryPcs /\ worker'[w].pc = "fail"
         \/ worker'[w].pc = "ack"
  BY WorkerFaultFields DEF JobSteps
<1>2. OwnRow(w)
  BY <1>1 DEF OwnRow
<1>3. InStep(worker[w]) /\ worker[w].pc \notin CancelPcs
  BY DEF StepsInv, Calm, QuietWorkers
<1>4. InStep(worker[w])'
  BY <1>1, <1>3 DEF InStep, Waiting, Cancellable, WorkPcs, TryPcs, CancelPcs
<1> QED
  BY <1>1, <1>2, <1>4, StepsFrame DEF ContractStep, Seen

LEMMA StepsNext ==
  Undisturbed /\ TypeOK /\ NoDebris /\ ResultsInv /\ DriverInv /\ Calm /\ StepsInv /\ [Next]_vars
    => StepsInv' /\ ContractStep
<1> SUFFICES ASSUME Undisturbed, TypeOK, NoDebris, ResultsInv, DriverInv, Calm, StepsInv, [Next]_vars
             PROVE  StepsInv' /\ ContractStep
  OBVIOUS
<1> USE DEF rows, content, redis
<1>0. OneExecution /\ Shape
  BY DEF Undisturbed, TypeOK
<1>1. ASSUME UNCHANGED <<status, assigned, worker>>,
             \A d \in Calls : Creates(d)' => Creates(d) /\ call'[d].run = call[d].run,
             \A j \in JobIds : job'[j].state = "wait" => job'[j] = job[j]
      PROVE  StepsInv' /\ ContractStep
  BY <1>1, StepsSoft
<1>2. ASSUME NEW c \in Calls, ClientRequest(c)
      PROVE  StepsInv' /\ ContractStep
  BY <1>1, <1>2, ClientCreates
<1>3. CASE ApiCrash
  BY <1>1, <1>3 DEF ApiCrash, NoCall, Creates
<1>4. ASSUME NEW w \in Workers, WorkerStep(w)
      PROVE  StepsInv' /\ ContractStep
  BY <1>4, WorkerOwnRow, StepsWorkerStep, StepsFrame, StepsAck
<1>5. ASSUME NEW j \in JobIds, ForgetJob(j)
      PROVE  StepsInv' /\ ContractStep
  BY <1>0, <1>1, <1>5 DEF ForgetJob, Unqueued, Shape, Creates
<1>6. ASSUME NEW r \in Runs, ExpireCancelKey(r)
      PROVE  StepsInv' /\ ContractStep
  BY <1>1, <1>6 DEF ExpireCancelKey, Creates
<1>7. CASE UNCHANGED vars
  BY <1>1, <1>7 DEF vars, Creates
<1> QED
  BY <1>0, <1>2, <1>3, <1>4, <1>5, <1>6, <1>7, StepsApiStep, StepsTake, StepsFault, NothingStalls
     DEF Next, OtherStep

\* The whole machinery of handlers, queue and worker does to the rows what the
\* contract allows and no more: a run is submitted, begins, gets its schedule
\* once, and is decided once, from RUNNING or, where it failed, from QUEUED.
THEOREM ContractKept == Undisturbed => (Spec => Contract!Spec)
<1> SUFFICES ASSUME Undisturbed PROVE Spec => Contract!Spec
  OBVIOUS
<1>1. OneExecution
  BY DEF Undisturbed
<1>2. Init => Calm /\ StepsInv /\ ResultsInv /\ Contract!Init
  <2> SUFFICES ASSUME Init PROVE Calm /\ StepsInv /\ ResultsInv /\ Contract!Init
    OBVIOUS
  <2>1. Calm
    BY DEF Init, Calm, QuietCalls, QuietWorkers, QuietRows, NoCall, NoWork, CancelPcs
  <2>2. StepsInv
    BY DEF Init, StepsInv, Creates, NoCall, NoWork, Unqueued, InStep, WorkPcs
  <2> QED
    BY <2>1, <2>2, ResultsInit DEF Init, Contract!Init
<1>3. TypeOK /\ Calm /\ [Next]_vars => Calm'
  BY CalmNext
<1>4. TypeOK /\ NoDebris /\ ResultsInv /\ DriverInv /\ Calm /\ StepsInv /\ [Next]_vars
        => StepsInv' /\ [Contract!Next]_Contract!vars
  BY StepsNext DEF ContractStep, Seen, Contract!vars
<1>5. Spec => [](TypeOK /\ NoDebris /\ DriverInv /\ StageInv)
  BY <1>1, StageAlways
<1> QED
  BY <1>2, <1>3, <1>4, <1>5, ResultsNext, PTL DEF Spec, Contract!Spec
=============================================================================
