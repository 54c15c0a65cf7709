------------------------- MODULE RunStream_proofs -------------------------
(***************************************************************************)
(* What a page is told of its run is true of it, and a live stream has     *)
(* still something to hear: for any runs, pages, reads in flight, retries  *)
(* and broken connections.  The composition with the browser is shown to   *)
(* be the run lifecycle and nothing else, so its invariants hold here too. *)
(***************************************************************************)
EXTENDS RunStream, RunLifecycle_proofs

-----------------------------------------------------------------------------
(* A stream step is a step of the run lifecycle, or none at all.           *)

LEMMA StreamRefines == [StreamNext]_sVars => [Next]_vars
<1> SUFFICES ASSUME [StreamNext]_sVars PROVE [Next]_vars
  OBVIOUS
<1>1. CASE UNCHANGED sVars
  BY <1>1 DEF sVars
<1>2. CASE OtherStep
  BY <1>2 DEF Next
<1>3. ASSUME NEW w \in Workers, StreamWorkerStep(w)
      PROVE  Next
  BY <1>3 DEF StreamWorkerStep, PublishHeard, PublishLost, GenerationHeard, WorkerSilentStep,
              WorkerStep, Next
<1>4. ASSUME NEW p \in Pages,
             OpenPage(p) \/ ServerStep(p) \/ PageStep(p) \/ SubscriberError(p) \/ DropConnection(p)
      PROVE  UNCHANGED vars
  BY <1>4 DEF OpenPage, ServerStep, ReadForStream, Subscribe, Reread, PageStep, StreamOpens,
              ReceiveEvent, StreamEnds, RetryTimer, SubscriberError, DropConnection
<1>5. ASSUME NEW p \in Pages, NEW f \in Fetches, FetchStep(p, f) \/ FetchFails(p, f)
      PROVE  UNCHANGED vars
  BY <1>5 DEF FetchStep, ServeFetch, FetchArrives, FetchFails
<1>6. ASSUME NEW p \in Pages, NEW c \in Calls, CancelAnswered(p, c) \/ DeleteAnswered(p, c)
      PROVE  Next
  BY <1>6 DEF CancelAnswered, DeleteAnswered, ApiStep, OtherStep, Next
<1> QED
  BY <1>1, <1>2, <1>3, <1>4, <1>5, <1>6 DEF StreamNext

\* Whatever the pages do, the rows, the queue and the worker behave as they do
\* without them: every property of Spec is one of StreamSpec.
THEOREM StreamIsLifecycle == StreamSpec => Spec
<1>1. StreamInit => Init
  BY DEF StreamInit
<1> QED
  BY <1>1, StreamRefines, PTL DEF StreamSpec, Spec

-----------------------------------------------------------------------------
(* A run is decided for good when nobody is left who would decide it.      *)

Decided(r) ==
  /\ status[r] # "none"
  /\ \A c \in Calls : Creates(c) => call[c].run # r
  /\ \A j \in JobIds : job[j].state = "wait" => job[j].run # r
  /\ \A w \in Workers : Busy(w) /\ worker[w].run = r => Over(worker[w])

\* The verdict s, where s is one, is true of run r and stays so.
Holds(r, s) == s \in Verdicts => Decided(r) /\ status[r] \in {s, "CANCELLED", "deleted"}

LEMMA RowHolds ==
  ASSUME StageInv, NEW r \in Runs
  PROVE  Holds(r, status[r])
BY DEF Holds, Decided, StageInv, Fresh, WorkFits, Verdicts

LEMMA VerdictHolds ==
  ASSUME "failUpdate" \notin Faults, TypeOK, DriverInv, StageInv, NEW w \in Workers,
         worker[w].pc = "publish"
  PROVE  Holds(worker[w].run, worker[w].verdict)
<1> SUFFICES ASSUME worker[w].verdict \in Verdicts
             PROVE  Decided(worker[w].run) /\ status[worker[w].run] \in {worker[w].verdict, "CANCELLED", "deleted"}
  BY DEF Holds
<1>1. Busy(w) /\ worker[w].verdict \in Terminal /\ Over(worker[w])
  BY DEF Busy, Over, Terminal
<1>2. status[worker[w].run] \in {worker[w].verdict, "CANCELLED", "deleted"}
  BY <1>1 DEF StageInv, WorkFits
<1>3. Decided(worker[w].run)
  BY <1>1, Sole DEF Decided
<1> QED
  BY <1>2, <1>3

\* The steps that leave a decided run as it is.
DecidedStays(r) == Decided(r)' /\ status'[r] \in {status[r], "CANCELLED", "deleted"}

LEMMA DecidedSoft ==
  ASSUME NEW r \in Runs, Decided(r), status'[r] \in {status[r], "CANCELLED", "deleted"},
         \A c \in Calls : Creates(c)' => (Creates(c) /\ call'[c].run = call[c].run) \/ call'[c].run # r,
         \A j \in JobIds : job'[j].state = "wait" => job'[j] = job[j] \/ job'[j].run # r,
         \A w \in Workers : worker'[w] = worker[w] \/ ~Busy(w)' \/ worker'[w].run # r \/ Over(worker[w])'
  PROVE  DecidedStays(r)
BY DEF Decided, DecidedStays, Busy

LEMMA DecidedWorkerStep ==
  ASSUME TypeOK, DriverInv, NEW w \in Workers, WorkerStep(w), NEW r \in Runs, Decided(r)
  PROVE  DecidedStays(r)
<1> USE DEF rows, content, redis
<1>1. CASE AckJob(w)
  <2>1. /\ ~Busy(w)' /\ \A v \in Workers \ {w} : worker'[v] = worker[v]
        /\ UNCHANGED <<status, call>>
        /\ \A i \in JobIds : job'[i].state = "wait" => job'[i] = job[i]
    BY <1>1 DEF AckJob, JobOutcome, TypeOK, RunsKnown, Shape, JobRecords, Busy, NoWork
  <2> QED
    BY <2>1, DecidedSoft DEF Creates
<1>2. CASE ~AckJob(w)
  <2>1. JobSteps(w) /\ OwnRow(w)
    BY <1>2, WorkerOwnRow
  <2>2. CASE worker[w].run # r
    <3>1. status'[r] = status[r]
      BY <2>1, <2>2 DEF OwnRow
    <3> QED
      BY <2>1, <2>2, <3>1, DecidedSoft DEF JobSteps, Creates
  <2>3. CASE worker[w].run = r
    <3>1. Over(worker[w])
      BY <2>1, <2>3 DEF Decided, JobSteps, Busy
    <3>2. CASE Publish(w)
      <4>1. worker'[w].pc = AfterPublish(w) /\ UNCHANGED status
        BY <3>2, GoesFields DEF Publish, TypeOK
      <4>2. AfterPublish(w) \in {"dropFlagEarly", "ack"}
        BY <3>1, <3>2 DEF AfterPublish, Publish, Over, Terminal, Verdicts
      <4> QED
        BY <2>1, <4>1, <4>2, DecidedSoft DEF JobSteps, Creates, Over
    <3>3. CASE DropFlagEarly(w)
      <4>1. worker'[w].pc = "ack" /\ UNCHANGED status
        BY <3>3, GoesFields DEF DropFlagEarly, TypeOK
      <4> QED
        BY <2>1, <4>1, DecidedSoft DEF JobSteps, Creates, Over
    <3> QED
      BY <1>2, <3>1, <3>2, <3>3
         DEF Over, WorkerStep, ReadRun, CheckFlag, CancelEarly, StartRun, Pipeline, PollCancel, Generation,
             SaveHistory, DropFlag, RereadRun, CancelLate, FinishEmpty, SaveStats, PersistAssignments,
             FinishRun, FailRun
  <2> QED
    BY <2>2, <2>3
<1> QED
  BY <1>1, <1>2

LEMMA DecidedApiStep ==
  ASSUME OneExecution, TypeOK, DriverInv, NEW c \in Calls, ApiStep(c), NEW r \in Runs, Decided(r)
  PROVE  DecidedStays(r)
<1> USE DEF rows, content, redis
<1>0. Shape /\ call[c] \in CallRecords
  BY DEF TypeOK, Shape
<1>1. ASSUME UNCHANGED <<worker, job>>, status'[r] \in {status[r], "CANCELLED", "deleted"},
             \A d \in Calls : Creates(d)' => Creates(d) /\ call'[d].run = call[d].run
      PROVE  DecidedStays(r)
  BY <1>1, DecidedSoft
<1>2. ASSUME NEW p, p \notin {"enqueue", "markFailed"}, CallGoes(c, p)
      PROVE  \A d \in Calls : Creates(d)' => Creates(d) /\ call'[d].run = call[d].run
  BY <1>0, <1>2, CallGoesFields DEF Creates
<1>3. ASSUME NEW q, AnswerReplay(c, q)
      PROVE  \A d \in Calls : Creates(d)' => Creates(d) /\ call'[d].run = call[d].run
  <2>1. call'[c].pc \in {"202", "409"} /\ \A d \in Calls \ {c} : call'[d] = call[d]
    BY <1>0, <1>3 DEF AnswerReplay, Shape, CallRecords
  <2> QED
    BY <2>1 DEF Creates
<1>4. CASE LookupKey(c) \/ RelookupKey(c)
  BY <1>1, <1>2, <1>3, <1>4 DEF LookupKey, RelookupKey
<1>5. CASE CountOfferings(c) \/ RequestCancellation(c) \/ OverrideRow(c)
  BY <1>1, <1>2, <1>5 DEF CountOfferings, RequestCancellation, OverrideRow
<1>6. CASE InsertRow(c)
  <2>1. CASE CallGoes(c, "relookup") /\ UNCHANGED rows
    BY <1>1, <1>2, <1>6, <2>1 DEF InsertRow
  <2>2. ASSUME NEW q \in Runs, status[q] = "none", status' = [status EXCEPT ![q] = "QUEUED"],
               call' = [call EXCEPT ![c].run = q, ![c].pc = "enqueue"]
        PROVE  DecidedStays(r)
    <3>1. q # r /\ status'[r] = status[r]
      BY <1>0, <2>2 DEF Decided, Shape
    <3>2. call'[c] = [call[c] EXCEPT !.run = q, !.pc = "enqueue"]
      BY <1>0, <2>2 DEF Shape
    <3>3. call'[c].run = q /\ \A d \in Calls \ {c} : call'[d] = call[d]
      BY <1>0, <2>2, <3>2 DEF CallRecords, Shape
    <3> QED
      BY <1>6, <3>1, <3>3, DecidedSoft DEF InsertRow, Creates
  <2> QED
    BY <1>6, <2>1, <2>2 DEF InsertRow
<1>7. CASE Enqueue(c)
  <2>0. call[c].run # r /\ Creates(c)
    BY <1>7 DEF Enqueue, Decided, Creates
  <2>1. CASE CallGoes(c, "202") /\ AddJob(JobId(call[c].run, call[c].key), call[c].run)
    <3> DEFINE j == JobId(call[c].run, call[c].key)
    <3>1. j \in JobIds
      BY <1>0, <1>7 DEF Enqueue, JobId, JobIds, CallRecords, TypeOK, RunsKnown, RowPcs
    <3> HIDE DEF j
    <3>2. /\ \A i \in JobIds \ {j} : job'[i] = job[i]
          /\ job'[j] = job[j] \/ job'[j].run = call[c].run
      BY <1>0, <2>1, <3>1, AddJobFields DEF j
    <3>3. \A d \in Calls : Creates(d)' => Creates(d) /\ call'[d].run = call[d].run
      BY <1>2, <2>1
    <3> QED
      BY <1>7, <2>0, <3>2, <3>3, DecidedSoft DEF Enqueue
  <2>2. CASE CallGoes(c, "markFailed") /\ UNCHANGED job
    <3>1. \A d \in Calls : Creates(d)' => Creates(d) /\ call'[d].run = call[d].run
      BY <1>0, <1>7, <2>2, CallGoesFields DEF Enqueue, Creates
    <3> QED
      BY <1>1, <1>7, <2>2, <3>1 DEF Enqueue
  <2> QED
    BY <1>7, <2>1, <2>2 DEF Enqueue, OneExecution
<1>8. CASE MarkFailed(c)
  <2>1. call[c].run # r /\ status'[r] = status[r]
    BY <1>0, <1>8 DEF MarkFailed, Decided, Creates, Shape
  <2> QED
    BY <1>1, <1>2, <1>8, <2>1 DEF MarkFailed
<1>9. CASE CancelRow(c)
  BY <1>0, <1>1, <1>2, <1>9 DEF CancelRow, Shape
<1>10. CASE EraseRow(c)
  BY <1>0, <1>1, <1>2, <1>10 DEF EraseRow, Shape
<1>11. CASE Answered(c)
  <2>1. \A d \in Calls : Creates(d)' => Creates(d) /\ call'[d].run = call[d].run
    BY <1>0, <1>11 DEF Answered, NoCall, Shape, Creates
  <2> QED
    BY <1>1, <1>11, <2>1 DEF Answered
<1> QED
  BY <1>4, <1>5, <1>6, <1>7, <1>8, <1>9, <1>10, <1>11 DEF ApiStep

LEMMA DecidedNext ==
  ASSUME OneExecution, TypeOK, DriverInv, [Next]_vars, NEW r \in Runs, Decided(r)
  PROVE  DecidedStays(r)
<1> USE DEF rows, redis
<1>0. Shape
  BY DEF TypeOK
<1>1. ASSUME UNCHANGED <<status, worker>>,
             \A d \in Calls : Creates(d)' => Creates(d) /\ call'[d].run = call[d].run,
             \A j \in JobIds : job'[j].state = "wait" => job'[j] = job[j]
      PROVE  DecidedStays(r)
  BY <1>1, DecidedSoft
<1>2. ASSUME NEW c \in Calls, ClientRequest(c)
      PROVE  DecidedStays(r)
  BY <1>1, <1>2, ClientCreates
<1>3. CASE ApiCrash
  BY <1>1, <1>3 DEF ApiCrash, NoCall, Creates
<1>4. ASSUME NEW w \in Workers, WorkerFault(w)
      PROVE  DecidedStays(r)
  <2>1. /\ JobSteps(w) /\ UNCHANGED <<rows, redis>>
        /\ Over(worker[w]) => worker'[w].pc = "ack"
    BY <1>4, WorkerFaultFields DEF Over, TryPcs
  <2>2. worker'[w].run = r => Over(worker[w])'
    BY <2>1 DEF JobSteps, Decided, Busy, Over
  <2> QED
    BY <2>1, <2>2, DecidedSoft DEF JobSteps, Creates
<1>5. ASSUME NEW w \in Workers, NEW j \in JobIds, TakeJob(w, j)
      PROVE  DecidedStays(r)
  <2>1. /\ worker'[w].run # r /\ \A v \in Workers \ {w} : worker'[v] = worker[v]
        /\ job'[j].state = "active" /\ \A i \in JobIds \ {j} : job'[i] = job[i]
    BY <1>0, <1>5 DEF TakeJob, NoWork, Decided, Shape, JobRecords
  <2> QED
    BY <1>5, <2>1, DecidedSoft DEF TakeJob, Creates
<1>6. ASSUME NEW j \in JobIds, ForgetJob(j)
      PROVE  DecidedStays(r)
  BY <1>0, <1>1, <1>6 DEF ForgetJob, Unqueued, Shape, Creates
<1>7. ASSUME NEW q \in Runs, ExpireCancelKey(q)
      PROVE  DecidedStays(r)
  BY <1>1, <1>7 DEF ExpireCancelKey, Creates
<1>8. CASE UNCHANGED vars
  BY <1>1, <1>8 DEF vars, Creates
<1> QED
  BY <1>2, <1>3, <1>4, <1>5, <1>6, <1>7, <1>8, DecidedApiStep, DecidedWorkerStep, NothingStalls
     DEF Next, OtherStep

LEMMA HoldsNext ==
  ASSUME OneExecution, TypeOK, DriverInv, [Next]_vars, NEW r \in Runs, NEW s, Holds(r, s)
  PROVE  s \in Verdicts => Decided(r)' /\ status'[r] \in {s, "CANCELLED", "deleted"}
BY DecidedNext DEF Holds, DecidedStays

-----------------------------------------------------------------------------
(* The streams and the pages have their shape, and no page is told a       *)
(* verdict that is not true.                                               *)

Links == {"connecting", "connected", "reconnecting"}
StreamRecords ==
  [pc : {"none", "reading", "refused", "subscribing", "rereading", "live", "ended"},
   sent : Seq(Statuses \cup {"error"})]
PageRecords ==
  [view : Views, missing : BOOLEAN, conn : Links \cup {"idle", "waiting", "failed"},
   retries : 0..(MaxRetries + 1), losses : 0..MaxLosses,
   fetch : [Fetches -> Statuses \cup NotLive \cup {"idle", "sent"}]]

\* A response in progress belongs to a hook that is reading it, and a hook that
\* is still trying has attempts left.
Attempts(st, pg) ==
  /\ st.pc # "none" => pg.conn \in Links
  /\ pg.conn \in Links \cup {"waiting"} => pg.retries <= MaxRetries

PagesFit ==
  /\ stream \in [Pages -> StreamRecords]
  /\ page \in [Pages -> PageRecords]
  /\ \A p \in Pages : Attempts(stream[p], page[p])

\* What a page shows, what it has asked and been answered, and what is on the wire.
Told(st, pg, s) ==
  \/ pg.view = s
  \/ \E f \in Fetches : pg.fetch[f] = s
  \/ \E i \in 1..Len(st.sent) : st.sent[i] = s

PagesTrue == \A p \in Pages, s \in Verdicts : Told(stream[p], page[p], s) => Holds(Watched[p], s)

PagesInv == PagesFit /\ PagesTrue

\* True of run r, as long as its row has one driver.
Sound == "failUpdate" \notin Faults /\ DriverInv /\ StageInv
Credible(r, s) == Sound => Holds(r, s)

\* What one step may tell page p: what it was told before, or what is true now.
Tells(p) ==
  \A s \in Verdicts :
    Told(stream'[p], page'[p], s) => Told(stream[p], page[p], s) \/ Credible(Watched[p], s)

\* A step of one page that keeps the shape and tells nothing false.
OnePage(p) ==
  /\ stream' \in [Pages -> StreamRecords] /\ page' \in [Pages -> PageRecords]
  /\ \A q \in Pages \ {p} : stream'[q] = stream[q] /\ page'[q] = page[q]
  /\ Attempts(stream'[p], page'[p])
  /\ Tells(p)

LEMMA IdleFetches ==
  ASSUME NEW p \in Pages, NEW f \in IdleFetch(p)
  PROVE  f \in Fetches
BY DEF IdleFetch

\* A page that learns the status s.  pg is the page with its reads updated.
LEMMA ShowsOnePage ==
  ASSUME PagesFit, NEW p \in Pages, NEW s \in Statuses, NEW pg \in PageRecords,
         pg.conn = page[p].conn, pg.retries = page[p].retries, Shows(p, pg, s),
         \A v \in Verdicts : v = s \/ Told(NoStream, pg, v) => Told(stream[p], page[p], v) \/ Credible(Watched[p], v)
  PROVE  OnePage(p)
<1> DEFINE pg2 == [pg EXCEPT !.view = s]
<1>1. pg2 \in PageRecords /\ pg2.view = s /\ pg2.fetch = pg.fetch /\ pg2.conn = pg.conn /\ pg2.retries = pg.retries
  BY DEF PageRecords, Views
<1>2. CASE Enabled(s) = Enabled(page[p].view)
  <2>1. page' = [page EXCEPT ![p] = pg2] /\ stream' = stream
    BY <1>2 DEF Shows
  <2> HIDE DEF pg2
  <2>2. page' \in [Pages -> PageRecords] /\ page'[p] = pg2 /\ \A q \in Pages \ {p} : page'[q] = page[q]
    BY <1>1, <2>1 DEF PagesFit
  <2>3. Tells(p)
    BY <1>1, <2>1, <2>2 DEF Tells, Told
  <2> QED
    BY <1>1, <2>1, <2>2, <2>3 DEF OnePage, PagesFit, Attempts
<1>3. CASE Enabled(s) # Enabled(page[p].view) /\ Enabled(s)
  <2> DEFINE pg3 == [pg2 EXCEPT !.conn = "connecting", !.retries = 0]
             st3 == [NoStream EXCEPT !.pc = "reading"]
  <2>1. page' = [page EXCEPT ![p] = pg3] /\ stream' = [stream EXCEPT ![p] = st3]
    BY <1>3 DEF Shows, Reconnects
  <2>2. /\ pg3 \in PageRecords /\ pg3.view = s /\ pg3.fetch = pg.fetch
        /\ pg3.conn = "connecting" /\ pg3.retries = 0
    <3>1. 0 \in 0..(MaxRetries + 1)
      BY RetriesAssumption
    <3> HIDE DEF pg2
    <3> QED
      BY <1>1, <3>1 DEF PageRecords, Links
  <2>3. st3 \in StreamRecords /\ st3.pc = "reading" /\ st3.sent = << >> /\ NoStream.sent = << >>
    <3>1. st3 = [pc |-> "reading", sent |-> << >>]
      BY DEF NoStream
    <3> HIDE DEF st3
    <3> QED
      BY <3>1 DEF StreamRecords, NoStream
  <2> HIDE DEF pg2, pg3, st3
  <2>4. /\ page' \in [Pages -> PageRecords] /\ stream' \in [Pages -> StreamRecords]
        /\ page'[p] = pg3 /\ stream'[p] = st3
        /\ \A q \in Pages \ {p} : stream'[q] = stream[q] /\ page'[q] = page[q]
    BY <2>1, <2>2, <2>3 DEF PagesFit
  <2>5. Tells(p)
    BY <2>2, <2>3, <2>4 DEF Tells, Told
  <2> QED
    BY <2>2, <2>3, <2>4, <2>5, RetriesAssumption DEF OnePage, Attempts, Links
<1>4. CASE Enabled(s) # Enabled(page[p].view) /\ ~Enabled(s)
  <2> DEFINE pg4 == [pg EXCEPT !.view = s, !.conn = "idle"]
  <2>1. page' = [page EXCEPT ![p] = pg4] /\ stream' = [stream EXCEPT ![p] = NoStream]
    BY <1>4 DEF Shows
  <2>2. pg4 \in PageRecords /\ pg4.view = s /\ pg4.fetch = pg.fetch /\ pg4.conn = "idle"
    BY DEF PageRecords, Links, Views
  <2>3. NoStream \in StreamRecords /\ NoStream.pc = "none" /\ NoStream.sent = << >>
    BY DEF StreamRecords, NoStream
  <2> HIDE DEF pg4
  <2>4. /\ page' \in [Pages -> PageRecords] /\ stream' \in [Pages -> StreamRecords]
        /\ page'[p] = pg4 /\ stream'[p] = NoStream
        /\ \A q \in Pages \ {p} : stream'[q] = stream[q] /\ page'[q] = page[q]
    BY <2>1, <2>2, <2>3 DEF PagesFit
  <2>5. Tells(p)
    BY <2>2, <2>3, <2>4 DEF Tells, Told
  <2> QED
    BY <2>2, <2>3, <2>4, <2>5 DEF OnePage, Attempts, Links
<1> QED
  BY <1>2, <1>3, <1>4

\* The page sends a read, or takes or loses an answer: nothing else changes.
LEMMA FetchOnePage ==
  ASSUME PagesFit, NEW p \in Pages, NEW f \in Fetches,
         NEW a \in Statuses \cup NotLive \cup {"idle", "sent"},
         NEW pg, page' = [page EXCEPT ![p] = pg], pg \in PageRecords,
         pg.view = page[p].view, pg.conn = page[p].conn, pg.retries = page[p].retries,
         pg.fetch = [page[p].fetch EXCEPT ![f] = a],
         a \in Verdicts => Credible(Watched[p], a), UNCHANGED stream
  PROVE  OnePage(p)
<1>1. page' \in [Pages -> PageRecords] /\ page'[p] = pg /\ \A q \in Pages \ {p} : page'[q] = page[q]
  BY DEF PagesFit
<1>2. \A g \in Fetches : pg.fetch[g] = a \/ pg.fetch[g] = page[p].fetch[g]
  BY DEF PagesFit, PageRecords
<1>3. Tells(p)
  BY <1>1, <1>2, ZenonT(40) DEF Tells, Told
<1> QED
  BY <1>1, <1>3 DEF OnePage, PagesFit, Attempts

LEMMA OneGoes ==
  ASSUME PagesFit, NEW p \in Pages, NEW st \in StreamRecords, NEW pg \in PageRecords,
         stream' = [stream EXCEPT ![p] = st] \/ (stream' = stream /\ st = stream[p]),
         page' = [page EXCEPT ![p] = pg] \/ (page' = page /\ pg = page[p]),
         Attempts(st, pg),
         \A v \in Verdicts : Told(st, pg, v) => Told(stream[p], page[p], v) \/ Credible(Watched[p], v)
  PROVE  OnePage(p)
<1>1. stream' \in [Pages -> StreamRecords] /\ stream'[p] = st /\ \A q \in Pages \ {p} : stream'[q] = stream[q]
  BY DEF PagesFit
<1>2. page' \in [Pages -> PageRecords] /\ page'[p] = pg /\ \A q \in Pages \ {p} : page'[q] = page[q]
  BY DEF PagesFit
<1> QED
  BY <1>1, <1>2 DEF OnePage, Tells

LEMMA NoStreamTold ==
  /\ NoStream \in StreamRecords /\ NoStream.pc = "none"
  /\ \A pg, v : Told(NoStream, pg, v) <=> pg.view = v \/ \E f \in Fetches : pg.fetch[f] = v
BY DEF NoStream, StreamRecords, Told

\* The response moves on, or says one thing more.
LEMMA StreamMoves ==
  ASSUME PagesFit, NEW p \in Pages, NEW to \in {"refused", "subscribing", "rereading", "live", "ended"},
         stream[p].pc # "none", UNCHANGED page,
         \/ stream' = [stream EXCEPT ![p].pc = to]
         \/ \E s \in Statuses : /\ stream' = [stream EXCEPT ![p].pc = to, ![p].sent = Append(@, s)]
                                /\ s \in Verdicts => Credible(Watched[p], s)
  PROVE  OnePage(p)
<1>1. stream[p] \in StreamRecords /\ stream[p] = [pc |-> stream[p].pc, sent |-> stream[p].sent]
  BY DEF PagesFit, StreamRecords
<1>2. page[p] \in PageRecords
  BY DEF PagesFit
<1>3. CASE stream' = [stream EXCEPT ![p].pc = to]
  <2> DEFINE st == [pc |-> to, sent |-> stream[p].sent]
  <2>1. stream' = [stream EXCEPT ![p] = st]
    BY <1>1, <1>3 DEF PagesFit
  <2>2. st \in StreamRecords /\ Attempts(st, page[p])
    BY <1>1 DEF StreamRecords, PagesFit, Attempts
  <2>3. \A v \in Verdicts : Told(st, page[p], v) => Told(stream[p], page[p], v)
    BY DEF Told
  <2> HIDE DEF st
  <2> QED
    BY <1>2, <2>1, <2>2, <2>3, OneGoes
<1>4. ASSUME NEW s \in Statuses, stream' = [stream EXCEPT ![p].pc = to, ![p].sent = Append(@, s)],
             s \in Verdicts => Credible(Watched[p], s)
      PROVE  OnePage(p)
  <2> DEFINE st == [pc |-> to, sent |-> Append(stream[p].sent, s)]
  <2>1. stream' = [stream EXCEPT ![p] = st]
    BY <1>1, <1>4 DEF PagesFit
  <2>2. st \in StreamRecords /\ Attempts(st, page[p])
    BY <1>1 DEF StreamRecords, PagesFit, Attempts
  <2>3. \A i \in 1..Len(st.sent) : st.sent[i] = s \/ (i \in 1..Len(stream[p].sent) /\ st.sent[i] = stream[p].sent[i])
    BY <1>1 DEF StreamRecords
  <2>4. \A v \in Verdicts : Told(st, page[p], v) => Told(stream[p], page[p], v) \/ v = s
    BY <2>3 DEF Told
  <2> HIDE DEF st
  <2> QED
    BY <1>2, <1>4, <2>1, <2>2, <2>4, OneGoes
<1> QED
  BY <1>3, <1>4

LEMMA ServerOnePage ==
  ASSUME PagesFit, NEW p \in Pages, ServerStep(p)
  PROVE  OnePage(p)
<1>1. /\ Watched[p] \in Runs /\ Credible(Watched[p], status[Watched[p]])
      /\ Terminal \subseteq Statuses
  BY WatchedAssumption, RowHolds DEF Statuses, Credible, Sound
<1>2. CASE ReadForStream(p)
  BY <1>1, <1>2, StreamMoves DEF ReadForStream, Ends
<1>3. CASE Subscribe(p)
  BY <1>3, StreamMoves DEF Subscribe
<1>4. CASE Reread(p)
  BY <1>1, <1>4, StreamMoves DEF Reread, Ends
<1> QED
  BY <1>2, <1>3, <1>4 DEF ServerStep

LEMMA RetryFields ==
  ASSUME NEW pg \in PageRecords, pg.retries <= MaxRetries
  PROVE  /\ Retry(pg) \in PageRecords
         /\ Retry(pg).view = pg.view /\ Retry(pg).fetch = pg.fetch /\ Retry(pg).losses = pg.losses
         /\ Retry(pg).conn \in {"failed", "waiting"}
         /\ Retry(pg).conn = "waiting" => Retry(pg).retries <= MaxRetries
<1>1. /\ pg.retries \in Nat /\ MaxRetries \in Nat
      /\ pg.retries + 1 \in 0..(MaxRetries + 1)
  BY RetriesAssumption DEF PageRecords
<1>2. CASE pg.retries + 1 > MaxRetries
  <2>1. Retry(pg) = [pg EXCEPT !.retries = pg.retries + 1, !.conn = "failed"]
    BY <1>2 DEF Retry
  <2> QED
    BY <1>1, <2>1 DEF PageRecords
<1>3. CASE ~(pg.retries + 1 > MaxRetries)
  <2>1. Retry(pg) = [pg EXCEPT !.retries = pg.retries + 1, !.conn = "waiting"]
    BY <1>3 DEF Retry
  <2>2. Retry(pg) \in PageRecords
    BY <1>1, <2>1 DEF PageRecords
  <2>3. /\ Retry(pg).view = pg.view /\ Retry(pg).fetch = pg.fetch /\ Retry(pg).losses = pg.losses
        /\ Retry(pg).conn = "waiting" /\ Retry(pg).retries = pg.retries + 1
    BY <2>1 DEF PageRecords
  <2>4. pg.retries + 1 <= MaxRetries
    BY <1>1, <1>3
  <2> QED
    BY <2>2, <2>3, <2>4
<1> QED
  BY <1>2, <1>3

FetchStates == Statuses \cup NotLive \cup {"idle", "sent"}

\* pg with a in the place of its read f.
Fetching(pg, f, a) == [pg EXCEPT !.fetch[f] = a]

LEMMA FetchField ==
  ASSUME NEW pg \in PageRecords, NEW f \in Fetches, NEW a \in FetchStates
  PROVE  /\ Fetching(pg, f, a) \in PageRecords
         /\ Fetching(pg, f, a).view = pg.view /\ Fetching(pg, f, a).conn = pg.conn
         /\ Fetching(pg, f, a).retries = pg.retries
         /\ Fetching(pg, f, a).fetch = [pg.fetch EXCEPT ![f] = a]
         /\ \A g \in Fetches : Fetching(pg, f, a).fetch[g] \in {a, pg.fetch[g]}
<1> DEFINE pg2 == Fetching(pg, f, a)
<1> DEFINE fs == [pg.fetch EXCEPT ![f] = a]
<1>1. fs \in [Fetches -> FetchStates] /\ \A g \in Fetches : fs[g] = a \/ fs[g] = pg.fetch[g]
  BY DEF PageRecords, FetchStates
<1>2. pg2 = [pg EXCEPT !.fetch = fs]
  BY DEF Fetching
<1> HIDE DEF fs, pg2
<1>3. pg2 \in PageRecords /\ pg2.fetch = fs /\ pg2.view = pg.view /\ pg2.conn = pg.conn
      /\ pg2.retries = pg.retries
  BY <1>1, <1>2 DEF PageRecords, FetchStates
<1> QED
  BY <1>1, <1>3 DEF fs, pg2

LEMMA FetchShape ==
  ASSUME NEW pg \in PageRecords, NEW f \in Fetches, NEW a \in FetchStates
  PROVE  Fetching(pg, f, a) \in PageRecords
BY FetchField

LEMMA FetchSame ==
  ASSUME NEW pg \in PageRecords, NEW f \in Fetches, NEW a \in FetchStates
  PROVE  /\ Fetching(pg, f, a).view = pg.view /\ Fetching(pg, f, a).conn = pg.conn
         /\ Fetching(pg, f, a).retries = pg.retries
BY FetchField, ZenonT(40)

LEMMA FetchAnswers ==
  ASSUME NEW pg \in PageRecords, NEW f \in Fetches, NEW a \in FetchStates, NEW g \in Fetches
  PROVE  Fetching(pg, f, a).fetch[g] \in {a, pg.fetch[g]}
BY FetchField

\* One read of the page is sent, answered or given up.
LEMMA FetchMoves ==
  ASSUME PagesFit, NEW p \in Pages, NEW f \in Fetches, NEW a \in FetchStates,
         page' = [page EXCEPT ![p].fetch[f] = a], UNCHANGED stream,
         a \in Verdicts => Credible(Watched[p], a)
  PROVE  OnePage(p)
<1> DEFINE pg == Fetching(page[p], f, a)
<1>1. page' = [page EXCEPT ![p] = pg]
  BY DEF PagesFit, Fetching
<1>2. page[p] \in PageRecords
  BY DEF PagesFit
<1>3. /\ pg \in PageRecords
      /\ pg.view = page[p].view /\ pg.conn = page[p].conn /\ pg.retries = page[p].retries
      /\ pg.fetch = [page[p].fetch EXCEPT ![f] = a]
  BY <1>2, FetchField
<1> HIDE DEF pg
<1> QED
  BY <1>1, <1>3, FetchOnePage DEF FetchStates

LEMMA FetchStepOnePage ==
  ASSUME TypeOK, PagesFit, NEW p \in Pages, NEW f \in Fetches,
         FetchStep(p, f) \/ FetchFails(p, f)
  PROVE  OnePage(p)
<1>0. "idle" \in FetchStates
  BY DEF FetchStates
<1>1. CASE ServeFetch(p, f)
  <2>1. /\ Watched[p] \in Runs /\ Credible(Watched[p], status[Watched[p]])
        /\ status[Watched[p]] \in FetchStates
    BY WatchedAssumption, RowHolds DEF FetchStates, TypeOK, Shape, Credible, Sound
  <2> QED
    BY <1>1, <2>1, FetchMoves DEF ServeFetch
<1>2. CASE FetchFails(p, f)
  BY <1>2, FetchMoves DEF FetchFails, FetchStates, Verdicts
<1>3. CASE FetchArrives(p, f)
  <2> DEFINE s == page[p].fetch[f]
             done == Fetching(page[p], f, "idle")
  <2>1. page[p] \in PageRecords /\ stream[p] \in StreamRecords /\ s \in FetchStates
    BY DEF PagesFit, PageRecords, FetchStates
  <2>2. /\ done \in PageRecords
        /\ done.view = page[p].view /\ done.conn = page[p].conn /\ done.retries = page[p].retries
        /\ \A g \in Fetches : done.fetch[g] \in {"idle", page[p].fetch[g]}
    <3>1. page[p] \in PageRecords /\ f \in Fetches /\ "idle" \in FetchStates
      BY <1>0, <2>1
    <3> HIDE DEF s, done
    <3>2. done = Fetching(page[p], f, "idle")
      BY DEF done
    <3>3. done \in PageRecords
      BY <3>1, <3>2, FetchShape
    <3>4. done.view = page[p].view /\ done.conn = page[p].conn /\ done.retries = page[p].retries
      BY <3>1, <3>2, FetchSame
    <3>5. \A g \in Fetches : done.fetch[g] \in {"idle", page[p].fetch[g]}
      BY <3>1, <3>2, FetchAnswers
    <3> QED
      BY <3>3, <3>4, <3>5
  <2> HIDE DEF done
  <2> DEFINE seen(b) == [done EXCEPT !.missing = b]
  <2>3. ASSUME NEW b \in BOOLEAN
        PROVE  /\ seen(b) \in PageRecords /\ seen(b).fetch = done.fetch
               /\ seen(b).view = page[p].view /\ seen(b).conn = page[p].conn
               /\ seen(b).retries = page[p].retries
    BY <2>2 DEF PageRecords
  <2>4. \A v \in Verdicts : \A g \in Fetches : done.fetch[g] = v => page[p].fetch[g] = v
    BY <2>2 DEF Verdicts
  <2>5. CASE s \notin NotLive /\ Shows(p, seen(FALSE), s)
    <3>1. s \in Statuses
      BY <1>3, <2>1, <2>5 DEF FetchArrives, FetchStates
    <3> HIDE DEF seen
    <3>2. ASSUME NEW v \in Verdicts, Told(NoStream, seen(FALSE), v)
          PROVE  page[p].view = v \/ \E g \in Fetches : page[p].fetch[g] = v
      <4>1. seen(FALSE).view = v \/ \E g \in Fetches : seen(FALSE).fetch[g] = v
        BY <3>2, NoStreamTold
      <4> QED
        BY <4>1, <2>3, <2>4
    <3>4. \A v \in Verdicts : v = s \/ Told(NoStream, seen(FALSE), v) => Told(stream[p], page[p], v)
      BY <3>2 DEF Told
    <3> QED
      BY <2>3, <2>5, <3>1, <3>4, ShowsOnePage
  <2>6. CASE page' = [page EXCEPT ![p] = seen(TRUE)] /\ UNCHANGED stream
    <3> HIDE DEF seen
    <3>1. \A v \in Verdicts : Told(stream[p], seen(TRUE), v) => Told(stream[p], page[p], v)
      BY <2>3, <2>4 DEF Told
    <3>2. Attempts(stream[p], seen(TRUE))
      BY <2>3 DEF PagesFit, Attempts
    <3> QED
      BY <2>1, <2>3, <2>6, <3>1, <3>2, OneGoes
  <2> QED
    BY <1>3, <2>5, <2>6 DEF FetchArrives, done, Fetching
<1> QED
  BY <1>1, <1>2, <1>3 DEF FetchStep

LEMMA PageOnePage ==
  ASSUME PagesFit, NEW p \in Pages, OpenPage(p) \/ PageStep(p)
  PROVE  OnePage(p)
<1>0. /\ page[p] \in PageRecords /\ stream[p] \in StreamRecords /\ Attempts(stream[p], page[p])
      /\ stream[p] = [pc |-> stream[p].pc, sent |-> stream[p].sent]
      /\ MaxRetries \in Nat
  BY RetriesAssumption DEF PagesFit, StreamRecords
<1>1. CASE OpenPage(p)
  BY <1>1, FetchMoves, IdleFetches DEF OpenPage, FetchStates, Verdicts
<1>2. CASE StreamOpens(p)
  <2>1. CASE page' = [page EXCEPT ![p].conn = "connected"] /\ UNCHANGED stream
    <3> DEFINE pg == [page[p] EXCEPT !.conn = "connected"]
    <3>1. page' = [page EXCEPT ![p] = pg]
      BY <2>1 DEF PagesFit
    <3>2. /\ pg \in PageRecords /\ pg.view = page[p].view /\ pg.fetch = page[p].fetch
          /\ pg.conn = "connected" /\ pg.retries = page[p].retries
      BY <1>0 DEF PageRecords, Links
    <3> HIDE DEF pg
    <3>3. Attempts(stream[p], pg)
      BY <1>0, <1>2, <3>2 DEF Attempts, StreamOpens, Links
    <3>4. \A v \in Verdicts : Told(stream[p], pg, v) => Told(stream[p], page[p], v)
      BY <3>2 DEF Told
    <3> QED
      BY <1>0, <2>1, <3>1, <3>2, <3>3, <3>4, OneGoes
  <2>2. ASSUME NEW f \in IdleFetch(p), UNCHANGED stream,
               page' = [page EXCEPT ![p].conn = "connected", ![p].retries = 0, ![p].fetch[f] = "sent"]
        PROVE  OnePage(p)
    <3> DEFINE mid == [page[p] EXCEPT !.conn = "connected", !.retries = 0]
               pg == Fetching(mid, f, "sent")
    <3>1. page' = [page EXCEPT ![p] = pg]
      BY <1>0, <2>2 DEF PagesFit, PageRecords, Fetching
    <3>2. 0 \in 0..(MaxRetries + 1) /\ 0 <= MaxRetries
      BY <1>0
    <3>3. /\ mid \in PageRecords /\ mid.view = page[p].view /\ mid.fetch = page[p].fetch
          /\ mid.conn = "connected" /\ mid.retries = 0
      BY <1>0, <3>2 DEF PageRecords, Links
    <3> HIDE DEF mid
    <3>4. /\ pg \in PageRecords /\ pg.view = page[p].view /\ pg.conn = "connected" /\ pg.retries = 0
          /\ \A g \in Fetches : pg.fetch[g] \in {"sent", page[p].fetch[g]}
      <4>1. f \in Fetches /\ "sent" \in FetchStates
        BY IdleFetches DEF FetchStates
      <4>2. Fetching(mid, f, "sent") \in PageRecords
        BY <3>3, <4>1, FetchShape
      <4>3. /\ Fetching(mid, f, "sent").view = mid.view /\ Fetching(mid, f, "sent").conn = mid.conn
            /\ Fetching(mid, f, "sent").retries = mid.retries
        BY <3>3, <4>1, FetchSame
      <4>4. \A g \in Fetches : Fetching(mid, f, "sent").fetch[g] \in {"sent", mid.fetch[g]}
        BY <3>3, <4>1, FetchAnswers
      <4> QED
        BY <3>3, <4>2, <4>3, <4>4
    <3> HIDE DEF pg
    <3>5. Attempts(stream[p], pg)
      BY <3>2, <3>4 DEF Attempts, Links
    <3>6. \A v \in Verdicts : Told(stream[p], pg, v) => Told(stream[p], page[p], v)
      BY <3>4 DEF Told, Verdicts
    <3> QED
      BY <1>0, <2>2, <3>1, <3>4, <3>5, <3>6, OneGoes
  <2> QED
    BY <1>2, <2>1, <2>2 DEF StreamOpens
<1>3. CASE ReceiveEvent(p)
  <2> DEFINE s == Head(stream[p].sent)
  <2>1. /\ s \in Statuses \cup {"error"} /\ 1 \in 1..Len(stream[p].sent) /\ s = stream[p].sent[1]
        /\ Tail(stream[p].sent) \in Seq(Statuses \cup {"error"})
        /\ \A i \in 1..Len(Tail(stream[p].sent)) :
             i + 1 \in 1..Len(stream[p].sent) /\ Tail(stream[p].sent)[i] = stream[p].sent[i + 1]
    BY <1>0, <1>3 DEF ReceiveEvent, StreamRecords
  <2>2. ASSUME NEW f \in IdleFetch(p), s \in Terminal, Shows(p, [page[p] EXCEPT !.fetch[f] = "sent"], s)
        PROVE  OnePage(p)
    <3> DEFINE pg == Fetching(page[p], f, "sent")
    <3>1. /\ pg \in PageRecords /\ pg.view = page[p].view /\ pg.conn = page[p].conn
          /\ pg.retries = page[p].retries
          /\ \A g \in Fetches : pg.fetch[g] \in {"sent", page[p].fetch[g]}
      <4>1. f \in Fetches /\ "sent" \in FetchStates
        BY IdleFetches DEF FetchStates
      <4>2. Fetching(page[p], f, "sent") \in PageRecords
        BY <1>0, <4>1, FetchShape
      <4>3. /\ Fetching(page[p], f, "sent").view = page[p].view /\ Fetching(page[p], f, "sent").conn = page[p].conn
            /\ Fetching(page[p], f, "sent").retries = page[p].retries
        BY <1>0, <4>1, FetchSame
      <4>4. \A g \in Fetches : Fetching(page[p], f, "sent").fetch[g] \in {"sent", page[p].fetch[g]}
        BY <1>0, <4>1, FetchAnswers
      <4> QED
        BY <1>0, <4>2, <4>3, <4>4
    <3>2. Shows(p, pg, s) /\ s \in Statuses
      BY <2>2 DEF Statuses, Fetching
    <3> HIDE DEF pg
    <3>3. Told(stream[p], page[p], s)
      BY <2>1 DEF Told
    <3> HIDE DEF s
    <3>5. \A v \in Verdicts : Told(NoStream, pg, v) =>
            page[p].view = v \/ \E g \in Fetches : page[p].fetch[g] = v
      BY <3>1, NoStreamTold DEF Verdicts
    <3>4. \A v \in Verdicts : v = s \/ Told(NoStream, pg, v) => Told(stream[p], page[p], v)
      BY <3>3, <3>5 DEF Told
    <3> QED
      BY <3>1, <3>2, <3>4, ShowsOnePage
  <2>3. CASE /\ s \notin Terminal
             /\ page' = [page EXCEPT ![p].view = IF s = "error" THEN @ ELSE s]
             /\ stream' = [stream EXCEPT ![p].sent = Tail(@)]
    <3> DEFINE pg == [page[p] EXCEPT !.view = IF s = "error" THEN page[p].view ELSE s]
               st == [pc |-> stream[p].pc, sent |-> Tail(stream[p].sent)]
    <3>1. stream' = [stream EXCEPT ![p] = st]
      <4>1. stream' = [stream EXCEPT ![p].sent = Tail(@)]
        BY <2>3
      <4> HIDE DEF s, pg
      <4>2. stream \in [Pages -> StreamRecords] /\ stream[p] \in StreamRecords
        BY DEF PagesFit
      <4>3. [stream[p] EXCEPT !.sent = Tail(@)] = st
        <5>1. ASSUME NEW y PROVE [stream[p] EXCEPT !.sent = y] = [pc |-> stream[p].pc, sent |-> y]
          BY <4>2 DEF StreamRecords
        <5> QED
          BY <5>1
      <4>4. stream' = [stream EXCEPT ![p] = [stream[p] EXCEPT !.sent = Tail(@)]]
        BY <4>1, <4>2
      <4> QED
        BY <4>3, <4>4
    <3>6. page' = [page EXCEPT ![p] = pg]
      <4>1. page' = [page EXCEPT ![p].view = IF s = "error" THEN @ ELSE s]
        BY <2>3
      <4> HIDE DEF s
      <4> QED
        BY <4>1 DEF PagesFit
    <3>2. st \in StreamRecords /\ st.pc = stream[p].pc /\ st.sent = Tail(stream[p].sent)
      BY <1>0, <2>1 DEF StreamRecords
    <3>3. /\ pg \in PageRecords /\ pg.fetch = page[p].fetch /\ pg.conn = page[p].conn
          /\ pg.retries = page[p].retries /\ pg.view = IF s = "error" THEN page[p].view ELSE s
      <4> HIDE DEF s
      <4>1. (IF s = "error" THEN page[p].view ELSE s) \in Views
        BY <1>0, <2>1 DEF PageRecords, Views
      <4> QED
        BY <1>0, <4>1 DEF PageRecords
    <3> HIDE DEF pg, st, s
    <3>4. Attempts(st, pg)
      BY <1>0, <3>2, <3>3 DEF Attempts
    <3>5. \A v \in Verdicts : Told(st, pg, v) => Told(stream[p], page[p], v)
      BY <2>1, <2>3, <3>2, <3>3 DEF Told, Terminal
    <3> QED
      BY <3>1, <3>2, <3>3, <3>4, <3>5, <3>6, OneGoes
  <2> QED
    BY <1>3, <2>2, <2>3 DEF ReceiveEvent
<1>4. CASE StreamEnds(p)
  <2>1. page[p].retries <= MaxRetries
    BY <1>0, <1>4 DEF StreamEnds, Attempts, Links
  <2> DEFINE pg == Retry(page[p])
  <2>2. page' = [page EXCEPT ![p] = pg] /\ stream' = [stream EXCEPT ![p] = NoStream]
    BY <1>4 DEF StreamEnds
  <2>3. /\ pg \in PageRecords /\ pg.view = page[p].view /\ pg.fetch = page[p].fetch
        /\ pg.conn \in {"failed", "waiting"}
        /\ pg.conn = "waiting" => pg.retries <= MaxRetries
    BY <1>0, <2>1, RetryFields
  <2> HIDE DEF pg
  <2>4. Attempts(NoStream, pg)
    BY <2>3, NoStreamTold DEF Attempts, Links
  <2>5. \A v \in Verdicts : Told(NoStream, pg, v) =>
          page[p].view = v \/ \E g \in Fetches : page[p].fetch[g] = v
    BY <2>3, NoStreamTold
  <2>6. \A v \in Verdicts : Told(NoStream, pg, v) => Told(stream[p], page[p], v)
    BY <2>5 DEF Told
  <2> QED
    <3>1. NoStream \in StreamRecords
      BY NoStreamTold
    <3> QED
      BY <2>2, <2>3, <2>4, <2>6, <3>1, OneGoes
<1>5. CASE RetryTimer(p)
  <2> DEFINE pg == [page[p] EXCEPT !.conn = "reconnecting"]
             st == [NoStream EXCEPT !.pc = "reading"]
  <2>1. page' = [page EXCEPT ![p] = pg] /\ stream' = [stream EXCEPT ![p] = st]
    BY <1>5 DEF RetryTimer, PagesFit
  <2>2. /\ pg \in PageRecords /\ pg.view = page[p].view /\ pg.fetch = page[p].fetch
        /\ pg.conn = "reconnecting" /\ pg.retries = page[p].retries
    BY <1>0 DEF PageRecords, Links
  <2>3. st = [pc |-> "reading", sent |-> << >>]
    BY DEF NoStream
  <2> HIDE DEF pg, st
  <2>4. st \in StreamRecords /\ st.pc = "reading" /\ st.sent = << >>
    BY <2>3 DEF StreamRecords
  <2>5. Attempts(st, pg)
    BY <1>0, <1>5, <2>2 DEF Attempts, RetryTimer, Links
  <2>6. \A v \in Verdicts : Told(st, pg, v) => Told(stream[p], page[p], v)
    BY <2>2, <2>4 DEF Told
  <2> QED
    BY <2>1, <2>2, <2>4, <2>5, <2>6, OneGoes
<1> QED
  BY <1>1, <1>2, <1>3, <1>4, <1>5 DEF PageStep

\* What breaks a connection, and what the page does when one of its calls is answered.
LEMMA LossOnePage ==
  ASSUME PagesFit, NEW p \in Pages, SubscriberError(p) \/ DropConnection(p)
  PROVE  OnePage(p)
<1>0. /\ page[p] \in PageRecords /\ stream[p] \in StreamRecords /\ Attempts(stream[p], page[p])
      /\ MaxRetries \in Nat /\ MaxLosses \in Nat
  BY RetriesAssumption DEF PagesFit
<1>1. ASSUME NEW x \in PageRecords, page[p].losses < MaxLosses, x.losses = page[p].losses
      PROVE  /\ [x EXCEPT !.losses = @ + 1] \in PageRecords
             /\ [x EXCEPT !.losses = @ + 1].view = x.view
             /\ [x EXCEPT !.losses = @ + 1].conn = x.conn
             /\ [x EXCEPT !.losses = @ + 1].retries = x.retries
             /\ [x EXCEPT !.losses = @ + 1].fetch = x.fetch
  <2>1. x.losses + 1 \in 0..MaxLosses
    BY <1>0, <1>1 DEF PageRecords
  <2> QED
    BY <2>1 DEF PageRecords
<1>2. CASE SubscriberError(p)
  <2> DEFINE pg == [page[p] EXCEPT !.losses = @ + 1]
             st == [pc |-> "ended", sent |-> Append(stream[p].sent, "error")]
  <2>1. /\ pg \in PageRecords /\ pg.view = page[p].view /\ pg.conn = page[p].conn
        /\ pg.retries = page[p].retries /\ pg.fetch = page[p].fetch
    BY <1>0, <1>1, <1>2 DEF SubscriberError
  <2>2. page' = [page EXCEPT ![p] = pg]
    BY <1>2 DEF SubscriberError, PagesFit
  <2>3. stream[p] = [pc |-> stream[p].pc, sent |-> stream[p].sent]
    BY <1>0 DEF StreamRecords
  <2>4. stream' = [stream EXCEPT ![p] = st]
    BY <1>2, <2>3 DEF SubscriberError, Ends, PagesFit
  <2>5. st \in StreamRecords /\ st.pc = "ended"
    BY <1>0 DEF StreamRecords
  <2>6. \A i \in 1..Len(st.sent) :
          st.sent[i] = "error" \/ (i \in 1..Len(stream[p].sent) /\ st.sent[i] = stream[p].sent[i])
    BY <1>0 DEF StreamRecords
  <2> HIDE DEF pg, st
  <2>7. Attempts(st, pg)
    BY <1>0, <1>2, <2>1, <2>5 DEF Attempts, SubscriberError
  <2>8. \A v \in Verdicts : Told(st, pg, v) => Told(stream[p], page[p], v)
    BY <2>1, <2>6 DEF Told, Verdicts
  <2> QED
    BY <2>1, <2>2, <2>4, <2>5, <2>7, <2>8, OneGoes
<1>3. CASE DropConnection(p)
  <2> DEFINE mid == Retry(page[p])
             pg == [mid EXCEPT !.losses = @ + 1]
  <2>1. page[p].retries <= MaxRetries
    BY <1>0, <1>3 DEF DropConnection, Attempts
  <2>2. /\ mid \in PageRecords /\ mid.losses = page[p].losses
        /\ mid.view = page[p].view /\ mid.fetch = page[p].fetch
        /\ mid.conn \in {"failed", "waiting"}
        /\ mid.conn = "waiting" => mid.retries <= MaxRetries
    BY <1>0, <2>1, RetryFields
  <2>3. page' = [page EXCEPT ![p] = pg] /\ stream' = [stream EXCEPT ![p] = NoStream]
    BY <1>3 DEF DropConnection
  <2> HIDE DEF mid
  <2>4. /\ pg \in PageRecords /\ pg.view = mid.view /\ pg.conn = mid.conn
        /\ pg.retries = mid.retries /\ pg.fetch = mid.fetch
    BY <1>1, <1>3, <2>2 DEF DropConnection
  <2> HIDE DEF pg
  <2>5. Attempts(NoStream, pg)
    BY <2>2, <2>4, NoStreamTold DEF Attempts, Links
  <2>6. ASSUME NEW v \in Verdicts, Told(NoStream, pg, v)
        PROVE  Told(stream[p], page[p], v)
    <3>1. pg.view = v \/ \E f \in Fetches : pg.fetch[f] = v
      BY <2>6, NoStreamTold
    <3> QED
      BY <3>1, <2>2, <2>4 DEF Told
  <2>7. NoStream \in StreamRecords
    BY NoStreamTold
  <2> QED
    BY <2>3, <2>4, <2>5, <2>6, <2>7, OneGoes
<1> QED
  BY <1>2, <1>3

LEMMA NewPageShape ==
  /\ NewPage \in PageRecords /\ NewPage.view = "none" /\ NewPage.conn = "idle"
  /\ \A f \in Fetches : NewPage.fetch[f] = "idle"
<1>1. 0 \in 0..(MaxRetries + 1) /\ 0 \in 0..MaxLosses
  BY RetriesAssumption
<1> QED
  BY <1>1 DEF NewPage, PageRecords, Views

LEMMA AnswerOnePage ==
  ASSUME PagesFit, NEW p \in Pages, NEW c \in Calls, CancelAnswered(p, c) \/ DeleteAnswered(p, c)
  PROVE  OnePage(p)
<1>0. page[p] \in PageRecords
  BY DEF PagesFit
<1>1. CASE CancelAnswered(p, c)
  BY <1>1, FetchMoves, IdleFetches DEF CancelAnswered, FetchStates, Verdicts
<1>2. CASE DeleteAnswered(p, c)
  <2> DEFINE pg == [NewPage EXCEPT !.losses = page[p].losses]
  <2>1. page' = [page EXCEPT ![p] = pg] /\ stream' = [stream EXCEPT ![p] = NoStream]
    BY <1>2 DEF DeleteAnswered
  <2>2. page[p].losses \in 0..MaxLosses
    BY <1>0 DEF PageRecords
  <2>3. pg \in PageRecords /\ pg.view = NewPage.view /\ pg.conn = NewPage.conn /\ pg.fetch = NewPage.fetch
    BY <2>2, NewPageShape DEF PageRecords
  <2> HIDE DEF pg
  <2>4. pg \in PageRecords
    BY <2>3
  <2>5. pg.view = "none" /\ pg.conn = "idle" /\ \A f \in Fetches : pg.fetch[f] = "idle"
    BY <2>3, NewPageShape
  <2>6. Attempts(NoStream, pg)
    BY <2>5, NoStreamTold DEF Attempts, Links
  <2>7. ASSUME NEW v \in Verdicts, Told(NoStream, pg, v)
        PROVE  FALSE
    <3>1. pg.view = v \/ \E f \in Fetches : pg.fetch[f] = v
      BY <2>7, NoStreamTold
    <3> QED
      BY <3>1, <2>5 DEF Verdicts
  <2>8. NoStream \in StreamRecords
    BY NoStreamTold
  <2> QED
    BY <2>1, <2>4, <2>6, <2>7, <2>8, OneGoes
<1> QED
  BY <1>1, <1>2

\* An event that reaches every stream that listens to run r.
LEMMA ForwardPages ==
  ASSUME PagesFit, NEW r, NEW s \in Statuses, Forward(r, s), UNCHANGED page,
         s \in Verdicts => Credible(r, s)
  PROVE  PagesFit' /\ \A p \in Pages : Tells(p)
<1>1. ASSUME NEW p \in Pages
      PROVE  stream'[p] \in StreamRecords /\ Attempts(stream'[p], page[p]) /\ Tells(p)
  <2>0. stream[p] \in StreamRecords /\ Attempts(stream[p], page[p])
    BY DEF PagesFit
  <2>1. CASE Hears(p, r)
    <3> DEFINE st == [pc |-> IF s \in Terminal THEN "ended" ELSE stream[p].pc,
                      sent |-> Append(stream[p].sent, s)]
    <3>1. stream'[p] = st
      BY <2>1 DEF Forward
    <3>2. st \in StreamRecords /\ (st.pc = stream[p].pc \/ st.pc = "ended")
      BY <2>0 DEF StreamRecords
    <3>3. \A i \in 1..Len(st.sent) : st.sent[i] = s \/ (i \in 1..Len(stream[p].sent) /\ st.sent[i] = stream[p].sent[i])
      BY <2>0 DEF StreamRecords
    <3> HIDE DEF st
    <3>4. Attempts(st, page[p])
      BY <2>0, <2>1, <3>2 DEF Attempts, Hears
    <3>5. Tells(p)
      BY <2>1, <3>1, <3>3 DEF Tells, Told, Hears
    <3> QED
      BY <3>1, <3>2, <3>4, <3>5
  <2>2. CASE ~Hears(p, r)
    <3>1. stream'[p] = stream[p]
      BY <2>2 DEF Forward
    <3> QED
      BY <2>0, <3>1 DEF Tells
  <2> QED
    BY <2>1, <2>2
<1>2. stream' \in [Pages -> StreamRecords]
  BY <1>1 DEF Forward
<1> QED
  BY <1>1, <1>2 DEF PagesFit

-----------------------------------------------------------------------------
(* Every step keeps the pages in shape, and true.                          *)

\* A worker only announces a state of the run.
Announces == \A w \in Workers : worker[w].pc = "publish" => worker[w].verdict \in Statuses

LEMMA AnnouncesNext == TypeOK /\ Announces /\ [Next]_vars => Announces'
<1> SUFFICES ASSUME TypeOK, Announces, [Next]_vars PROVE Announces'
  OBVIOUS
<1>0. /\ Shape /\ Terminal \subseteq Statuses /\ "RUNNING" \in Statuses
      /\ {"CANCELLED", "FAILED", "PRE_GA_EMPTY", "SSA_INFEASIBLE", "COMPLETED", "STAGNATED"} \subseteq Statuses
  BY DEF TypeOK, Statuses, Terminal, Verdicts, Cancellable
<1>1. CASE UNCHANGED worker
  BY <1>1 DEF Announces
<1>2. ASSUME NEW w \in Workers, \A v \in Workers \ {w} : worker'[v] = worker[v],
             worker'[w].pc = "publish" => worker'[w].verdict \in Statuses
      PROVE  Announces'
  BY <1>2 DEF Announces
<1>3. ASSUME NEW w \in Workers, worker' = [worker EXCEPT ![w] = NoWork]
      PROVE  Announces'
  BY <1>0, <1>2, <1>3 DEF NoWork, Shape
<1>4. ASSUME NEW w \in Workers, NEW j \in JobIds, TakeJob(w, j)
      PROVE  Announces'
  <2>1. worker'[w].pc = "read" /\ \A v \in Workers \ {w} : worker'[v] = worker[v]
    <3>1. worker' = [worker EXCEPT ![w] = [NoWork EXCEPT !.pc = "read", !.job = j, !.run = job[j].run]]
      BY <1>4 DEF TakeJob
    <3>2. [NoWork EXCEPT !.pc = "read", !.job = j, !.run = job[j].run].pc = "read"
      BY DEF NoWork
    <3>3. worker \in [Workers -> WorkerRecords]
      BY <1>0 DEF Shape
    <3> QED
      BY <3>1, <3>2, <3>3
  <2> QED
    BY <1>2, <2>1
<1>5. ASSUME NEW w \in Workers, WorkerFault(w)
      PROVE  Announces'
  <2>1. CASE Throw(w)
    <3>1. worker'[w].pc = "fail"
      BY <1>0, <2>1, GoesFields DEF Throw
    <3>2. \A v \in Workers \ {w} : worker'[v] = worker[v]
      BY <1>0, <2>1 DEF Throw, WorkerGoes, Shape
    <3> QED
      BY <1>2, <3>1, <3>2
  <2>2. CASE ThrowEarly(w)
    <3>1. worker'[w].pc = "ack"
      BY <1>0, <2>2, DecidesFields DEF ThrowEarly
    <3>2. \A v \in Workers \ {w} : worker'[v] = worker[v]
      BY <1>0, <2>2 DEF ThrowEarly, Decides, Shape
    <3> QED
      BY <1>2, <3>1, <3>2
  <2> QED
    BY <1>3, <1>5, <2>1, <2>2 DEF WorkerFault, WorkerCrash
<1>6. ASSUME NEW w \in Workers, WorkerStep(w), ~AckJob(w)
      PROVE  Announces'
  <2>1. \A v \in Workers \ {w} : worker'[v] = worker[v]
    BY <1>6, WorkerOwnRow DEF JobSteps
  <2>2. ASSUME NEW q, WorkerGoes(w, q), q # "publish"
        PROVE  Announces'
    BY <1>0, <1>2, <2>1, <2>2, GoesFields
  <2>3. ASSUME NEW s \in Statuses, Says(w, s)
        PROVE  Announces'
    BY <1>0, <1>2, <2>1, <2>3, SaysFields
  <2>4. ASSUME NEW s, NEW q, q # "publish", Decides(w, s, q)
        PROVE  Announces'
    BY <1>0, <1>2, <2>1, <2>4, DecidesFields
  <2>5. ASSUME NEW s \in Statuses, WriteStatus(w, s)
        PROVE  Announces'
    BY <2>2, <2>3, <2>5 DEF WriteStatus
  <2>6. CASE ReadRun(w) \/ CheckFlag(w) \/ CancelEarly(w) \/ DropFlagEarly(w) \/ StartRun(w) \/ Pipeline(w)
    BY <1>0, <2>2, <2>3, <2>4, <2>5, <2>6
       DEF ReadRun, CheckFlag, CancelEarly, DropFlagEarly, StartRun, Pipeline
  <2>7. CASE PollCancel(w)
    <3>1. CASE worker' = [worker EXCEPT ![w].pc = "saveHistory", ![w].cancelled = TRUE]
      <4>1. worker'[w].pc = "saveHistory"
        BY <1>0, <3>1 DEF Shape, WorkerRecords
      <4> QED
        BY <1>2, <2>1, <4>1
    <3> QED
      BY <2>2, <2>4, <2>7, <3>1 DEF PollCancel
  <2>8. CASE Generation(w)
    <3>1. worker'[w].pc \in {"saveHistory", "poll"}
      BY <1>0, <2>8 DEF Generation, Shape, WorkerRecords
    <3> QED
      BY <1>2, <2>1, <3>1
  <2>9. CASE SaveHistory(w) \/ DropFlag(w) \/ SaveStats(w) \/ PersistAssignments(w)
    BY <2>2, <2>9 DEF SaveHistory, DropFlag, SaveStats, PersistAssignments
  <2>10. CASE RereadRun(w) \/ CancelLate(w) \/ FailRun(w)
    BY <1>0, <2>2, <2>3, <2>5, <2>10 DEF RereadRun, CancelLate, FailRun
  <2>11. CASE FinishEmpty(w) \/ FinishRun(w)
    <3>1. worker[w].verdict \in Statuses
      BY <1>0, <2>11 DEF FinishEmpty, FinishRun, TypeOK, WorkerLocals, LocalsFit
    <3> QED
      BY <2>5, <2>11, <3>1 DEF FinishEmpty, FinishRun
  <2>12. CASE Publish(w)
    <3>1. AfterPublish(w) \in {"pipeline", "dropFlagEarly", "ack"}
      BY DEF AfterPublish
    <3> QED
      BY <2>2, <2>12, <3>1 DEF Publish
  <2> QED
    BY <1>6, <2>6, <2>7, <2>8, <2>9, <2>10, <2>11, <2>12 DEF WorkerStep
<1>7. ASSUME NEW c \in Calls, ClientRequest(c) \/ ApiStep(c)
      PROVE  UNCHANGED worker
  BY <1>7 DEF ClientRequest, PostCreate, PostCancel, DeleteRun, PutOverride, ApiStep, LookupKey,
              CountOfferings, InsertRow, RelookupKey, Enqueue, MarkFailed, RequestCancellation,
              CancelRow, EraseRow, OverrideRow, Answered
<1>8. CASE ApiCrash \/ (\E j \in JobIds : StalledJob(j) \/ ForgetJob(j)) \/ (\E r \in Runs : ExpireCancelKey(r))
           \/ UNCHANGED vars
  BY <1>1, <1>8 DEF ApiCrash, StalledJob, ForgetJob, ExpireCancelKey, vars
<1> QED
  BY <1>1, <1>3, <1>4, <1>5, <1>6, <1>7, <1>8 DEF Next, OtherStep, AckJob

LEMMA WorkerTells ==
  ASSUME TypeOK, Announces, PagesFit, NEW w \in Workers, StreamWorkerStep(w)
  PROVE  PagesFit' /\ \A p \in Pages : Tells(p)
<1>1. CASE UNCHANGED <<stream, page>>
  BY <1>1 DEF PagesFit, Tells
<1>2. CASE PublishHeard(w)
  <2>1. /\ worker[w].pc = "publish" /\ Credible(worker[w].run, worker[w].verdict)
    BY <1>2, VerdictHolds DEF PublishHeard, Publish, Credible, Sound
  <2>2. worker[w].verdict \in Statuses
    BY <2>1 DEF Announces
  <2> QED
    BY <1>2, <2>1, <2>2, ForwardPages DEF PublishHeard
<1>3. CASE GenerationHeard(w)
  BY <1>3, ForwardPages DEF GenerationHeard, Statuses, Cancellable, Verdicts
<1> QED
  BY <1>1, <1>2, <1>3 DEF StreamWorkerStep, PublishLost

LEMMA StreamTells ==
  ASSUME TypeOK, Announces, PagesFit, [StreamNext]_sVars
  PROVE  PagesFit' /\ \A p \in Pages : Tells(p)
<1>1. CASE UNCHANGED <<stream, page>>
  BY <1>1 DEF PagesFit, Tells
<1>2. ASSUME NEW p \in Pages, OnePage(p)
      PROVE  PagesFit' /\ \A q \in Pages : Tells(q)
  BY <1>2 DEF OnePage, PagesFit, Tells
<1>3. ASSUME NEW p \in Pages,
             OpenPage(p) \/ ServerStep(p) \/ PageStep(p) \/ SubscriberError(p) \/ DropConnection(p)
      PROVE  OnePage(p)
  BY <1>3, ServerOnePage, PageOnePage, LossOnePage
<1>4. ASSUME NEW p \in Pages, NEW f \in Fetches, FetchStep(p, f) \/ FetchFails(p, f)
      PROVE  OnePage(p)
  BY <1>4, FetchStepOnePage
<1>5. ASSUME NEW p \in Pages, NEW c \in Calls, CancelAnswered(p, c) \/ DeleteAnswered(p, c)
      PROVE  OnePage(p)
  BY <1>5, AnswerOnePage
<1> QED
  BY <1>1, <1>2, <1>3, <1>4, <1>5, WorkerTells DEF StreamNext, sVars

LEMMA PagesInit == StreamInit => PagesInv
<1> SUFFICES ASSUME StreamInit PROVE PagesInv
  OBVIOUS
<1>1. NoStream \in StreamRecords /\ NoStream.pc = "none"
  BY NoStreamTold
<1>3. NewPage \in PageRecords /\ NewPage.view = "none" /\ NewPage.conn = "idle"
      /\ \A f \in Fetches : NewPage.fetch[f] = "idle"
  BY NewPageShape
<1>4. Attempts(NoStream, NewPage)
  BY <1>1, <1>3 DEF Attempts, Links
<1>5. ASSUME NEW v \in Verdicts, Told(NoStream, NewPage, v)
      PROVE  FALSE
  <2>1. NewPage.view = v \/ \E f \in Fetches : NewPage.fetch[f] = v
    BY <1>5, NoStreamTold
  <2> QED
    BY <2>1, <1>3 DEF Verdicts
<1> QED
  BY <1>1, <1>3, <1>4, <1>5 DEF StreamInit, PagesInv, PagesFit, PagesTrue

LEMMA PagesNext ==
  ASSUME OneExecution, TypeOK, Announces, Sound, PagesInv, [StreamNext]_sVars
  PROVE  PagesInv'
<1>1. PagesFit' /\ \A p \in Pages : Tells(p)
  BY StreamTells DEF PagesInv
<1>2. [Next]_vars
  BY StreamRefines
<1>3. ASSUME NEW p \in Pages, NEW s \in Verdicts, Told(stream'[p], page'[p], s)
      PROVE  Holds(Watched[p], s)'
  <2>1. Watched[p] \in Runs /\ Holds(Watched[p], s)
    BY <1>1, <1>3, WatchedAssumption DEF Tells, PagesInv, PagesTrue, Credible
  <2>2. Decided(Watched[p])' /\ status'[Watched[p]] \in {s, "CANCELLED", "deleted"}
    BY <1>2, <2>1, HoldsNext DEF Sound
  <2> QED
    BY <2>2 DEF Holds
<1> QED
  BY <1>1, <1>3 DEF PagesInv, PagesTrue, Told

-----------------------------------------------------------------------------
(* A live stream has still something to hear.                              *)

\* A run that comes into being has never been announced.
LEMMA Reborn ==
  ASSUME TypeOK, DriverInv, [Next]_vars, NEW r \in Runs, ~Live(r), Live(r)'
  PROVE  published[r] = "none"
<1> USE DEF rows, content
<1>0. Shape /\ status'[r] # status[r]
  BY DEF TypeOK, Live
<1>1. status[r] = "none" => published[r] = "none"
  BY DEF DriverInv, Uncreated
<1>2. ASSUME NEW c \in Calls, ApiStep(c)
      PROVE  status[r] = "none"
  BY <1>0, <1>2 DEF ApiStep, LookupKey, CountOfferings, InsertRow, RelookupKey, Enqueue, MarkFailed,
                    RequestCancellation, CancelRow, EraseRow, OverrideRow, Answered, Live, NotLive, Shape
<1>3. ASSUME NEW w \in Workers, WorkerStep(w)
      PROVE  FALSE
  BY <1>0, <1>3 DEF WorkerStep, ReadRun, CheckFlag, CancelEarly, DropFlagEarly, StartRun, Pipeline,
                    PollCancel, Generation, SaveHistory, DropFlag, RereadRun, CancelLate, FinishEmpty,
                    SaveStats, PersistAssignments, FinishRun, FailRun, Publish, AckJob, WriteStatus,
                    Live, Shape
<1>4. ASSUME NEW c \in Calls, ClientRequest(c)
      PROVE  UNCHANGED status
  BY <1>4 DEF ClientRequest, PostCreate, PostCancel, DeleteRun, PutOverride
<1>5. ASSUME NEW w \in Workers, WorkerFault(w)
      PROVE  UNCHANGED status
  BY <1>5 DEF WorkerFault, Throw, ThrowEarly, WorkerCrash
<1>6. ASSUME NEW w \in Workers, NEW j \in JobIds, TakeJob(w, j)
      PROVE  UNCHANGED status
  BY <1>6 DEF TakeJob
<1>7. ASSUME NEW j \in JobIds, StalledJob(j) \/ ForgetJob(j)
      PROVE  UNCHANGED status
  BY <1>7 DEF StalledJob, ForgetJob
<1>8. (\E q \in Runs : ExpireCancelKey(q)) \/ ApiCrash \/ UNCHANGED vars => UNCHANGED status
  BY DEF ExpireCancelKey, ApiCrash, vars
<1> QED
  BY <1>0, <1>1, <1>2, <1>3, <1>4, <1>5, <1>6, <1>7, <1>8 DEF Next, OtherStep

\* Nothing has been announced that ends this stream.
Waits(p) == stream[p].pc = "live" /\ Live(Watched[p]) => published[Watched[p]] \notin Terminal

\* A step that announces nothing, and opens no stream.
LEMMA WaitsQuietly ==
  ASSUME TypeOK, DriverInv, [Next]_vars, NEW p \in Pages, Waits(p),
         published'[Watched[p]] = published[Watched[p]], stream'[p].pc = "live" => stream[p].pc = "live"
  PROVE  Waits(p)'
<1>1. Watched[p] \in Runs
  BY WatchedAssumption
<1> QED
  BY <1>1, Reborn DEF Waits, Terminal, Verdicts

\* Only the worker's state events are announcements.
LEMMA SilentSteps == [Next]_vars => UNCHANGED published \/ \E w \in Workers : Publish(w)
BY DEF Next, OtherStep, ClientRequest, PostCreate, PostCancel, DeleteRun, PutOverride, ApiStep, LookupKey,
       CountOfferings, InsertRow, RelookupKey, Enqueue, MarkFailed, RequestCancellation, CancelRow,
       EraseRow, OverrideRow, Answered, ApiCrash, WorkerFault, Throw, ThrowEarly, WorkerCrash, TakeJob,
       StalledJob, ForgetJob, ExpireCancelKey, WorkerStep, ReadRun, CheckFlag, CancelEarly,
       DropFlagEarly, StartRun, Pipeline, PollCancel, Generation, SaveHistory, DropFlag, RereadRun,
       CancelLate, FinishEmpty, SaveStats, PersistAssignments, FinishRun, FailRun, AckJob, vars, redis

LEMMA WaitsNext ==
  ASSUME Sound, TypeOK, Announces, PagesFit, LiveStreamsWait, [StreamNext]_sVars
  PROVE  LiveStreamsWait'
<1> SUFFICES ASSUME NEW p \in Pages PROVE Waits(p)'
  BY DEF LiveStreamsWait, Waits
<1>0. /\ [Next]_vars /\ DriverInv /\ Waits(p) /\ Watched[p] \in Runs /\ Shape
      /\ stream[p] \in StreamRecords
  BY StreamRefines, WatchedAssumption DEF Sound, LiveStreamsWait, Waits, TypeOK, PagesFit
<1>1. CASE UNCHANGED <<published, stream>>
  BY <1>0, <1>1, WaitsQuietly
<1>2. CASE Reread(p)
  <2>1. UNCHANGED <<status, published>> /\ stream \in [Pages -> StreamRecords]
    BY <1>2 DEF Reread, vars, rows, redis, PagesFit
  <2>2. stream'[p].pc = "live" => status[Watched[p]] \notin Terminal
    BY <1>2, <2>1 DEF Reread, Ends, StreamRecords
  <2>3. published[Watched[p]] \in Terminal => status[Watched[p]] \in {published[Watched[p]], "CANCELLED", "deleted"}
    BY <1>0 DEF Sound, StageInv, RowFits
  <2> QED
    BY <2>1, <2>2, <2>3 DEF Waits, Live, NotLive, Terminal
<1>3. ASSUME NEW w \in Workers, PublishHeard(w)
      PROVE  Waits(p)'
  <2> DEFINE r == worker[w].run
  <2>1. /\ published' = [published EXCEPT ![r] = worker[w].verdict]
        /\ Forward(r, worker[w].verdict) /\ r \in Runs
    BY <1>3 DEF PublishHeard, Publish, TypeOK, RunsKnown
  <2> HIDE DEF r
  <2>2. CASE Watched[p] # r
    <3>1. published'[Watched[p]] = published[Watched[p]] /\ stream'[p] = stream[p]
      BY <1>0, <2>1, <2>2 DEF Shape, Forward, Hears
    <3> QED
      BY <1>0, <3>1, WaitsQuietly
  <2>3. CASE Watched[p] = r
    <3>1. published'[Watched[p]] = worker[w].verdict
      BY <1>0, <2>1, <2>3 DEF Shape
    <3>2. worker[w].verdict \in Terminal => stream'[p].pc # "live"
      BY <1>0, <2>1, <2>3 DEF Forward, Hears
    <3> QED
      BY <3>1, <3>2 DEF Waits
  <2> QED
    BY <2>2, <2>3
<1>4. ASSUME NEW w \in Workers, PublishLost(w) \/ (WorkerSilentStep(w) /\ UNCHANGED <<stream, page>>)
      PROVE  UNCHANGED <<published, stream>>
  BY <1>4 DEF PublishLost, WorkerSilentStep, WorkerStep, ReadRun, CheckFlag, CancelEarly, DropFlagEarly,
              StartRun, Pipeline, PollCancel, Generation, SaveHistory, DropFlag, RereadRun, CancelLate,
              FinishEmpty, SaveStats, PersistAssignments, FinishRun, FailRun, AckJob, Publish, redis
<1>5. ASSUME NEW w \in Workers, GenerationHeard(w)
      PROVE  Waits(p)'
  <2>1. UNCHANGED published /\ stream'[p].pc \in {stream[p].pc, "ended"}
    BY <1>0, <1>5 DEF GenerationHeard, Generation, Forward, redis
  <2> QED
    BY <1>0, <2>1, WaitsQuietly
<1>6. CASE OtherStep /\ UNCHANGED <<stream, page>>
  BY <1>1, <1>6 DEF OtherStep, ClientRequest, PostCreate, PostCancel, DeleteRun, PutOverride, ApiStep,
       LookupKey, CountOfferings, InsertRow, RelookupKey, Enqueue, MarkFailed, RequestCancellation,
       CancelRow, EraseRow, OverrideRow, Answered, ApiCrash, WorkerFault, Throw, ThrowEarly,
       WorkerCrash, TakeJob, StalledJob, ForgetJob, ExpireCancelKey, redis
<1>7. ASSUME NEW q \in Pages, q # p, Reread(q)
      PROVE  UNCHANGED published /\ stream'[p].pc = stream[p].pc
  BY <1>7 DEF Reread, Ends, vars, redis, PagesFit
<1>8. ASSUME NEW q \in Pages, NEW x, x.pc # "live", stream' = [stream EXCEPT ![q] = x]
       PROVE  stream'[p].pc = "live" => stream[p].pc = "live"
  BY <1>8 DEF PagesFit
<1>9. ASSUME NEW q \in Pages, stream' = [stream EXCEPT ![q] = [NoStream EXCEPT !.pc = "reading"]]
       PROVE  stream'[p].pc = "live" => stream[p].pc = "live"
  <2>1. [NoStream EXCEPT !.pc = "reading"].pc # "live"
    BY DEF NoStream
  <2> QED
    BY <1>8, <1>9, <2>1
<1>10. ASSUME NEW q \in Pages, stream' = [stream EXCEPT ![q] = NoStream]
       PROVE  stream'[p].pc = "live" => stream[p].pc = "live"
  BY <1>8, <1>10, NoStreamTold
<1>11. ASSUME NEW q \in Pages, NEW x, stream' = [stream EXCEPT ![q].sent = x]
       PROVE  stream'[p].pc = stream[p].pc
  BY <1>11 DEF PagesFit, StreamRecords
<1>12. ASSUME NEW q \in Pages, NEW x, x # "live", stream' = [stream EXCEPT ![q].pc = x]
       PROVE  stream'[p].pc = "live" => stream[p].pc = "live"
  BY <1>12 DEF PagesFit, StreamRecords
<1>13. ASSUME NEW q \in Pages, NEW s, Ends(q, s)
       PROVE  stream'[p].pc = "live" => stream[p].pc = "live"
  BY <1>13 DEF Ends, PagesFit, StreamRecords
<1>14. ASSUME NEW q \in Pages, NEW pg, NEW s, Shows(q, pg, s)
       PROVE  stream'[p].pc = "live" => stream[p].pc = "live"
  BY <1>9, <1>10, <1>14 DEF Shows
<1>15. ASSUME NEW q \in Pages, ReadForStream(q) \/ Subscribe(q) \/ SubscriberError(q)
      PROVE  UNCHANGED published /\ (stream'[p].pc = "live" => stream[p].pc = "live")
  BY <1>15, <1>12, <1>13 DEF ReadForStream, Subscribe, SubscriberError, vars, redis
<1>16. ASSUME NEW q \in Pages, OpenPage(q) \/ StreamOpens(q)
      PROVE  UNCHANGED <<published, stream>>
  BY <1>16 DEF OpenPage, StreamOpens, vars, redis
<1>17. ASSUME NEW q \in Pages, ReceiveEvent(q) \/ StreamEnds(q) \/ RetryTimer(q) \/ DropConnection(q)
       PROVE  UNCHANGED published /\ (stream'[p].pc = "live" => stream[p].pc = "live")
  <2>1. UNCHANGED published
    BY <1>17 DEF ReceiveEvent, StreamEnds, RetryTimer, DropConnection, vars, redis
  <2>2. CASE ReceiveEvent(q)
    <3>1. \/ \E pg, s : Shows(q, pg, s)
          \/ stream' = [stream EXCEPT ![q].sent = Tail(stream[q].sent)]
      BY <2>2 DEF ReceiveEvent, PagesFit
    <3> QED
      BY <2>1, <3>1, <1>11, <1>14
  <2> QED
    BY <1>17, <2>1, <2>2, <1>9, <1>10 DEF StreamEnds, RetryTimer, DropConnection
<1>18. ASSUME NEW q \in Pages, NEW f \in Fetches, FetchStep(q, f) \/ FetchFails(q, f)
       PROVE  UNCHANGED published /\ (stream'[p].pc = "live" => stream[p].pc = "live")
  <2>1. UNCHANGED published
    BY <1>18 DEF FetchStep, ServeFetch, FetchArrives, FetchFails, vars, redis
  <2>2. UNCHANGED stream \/ \E pg, s : Shows(q, pg, s)
    BY <1>18 DEF FetchStep, ServeFetch, FetchArrives, FetchFails
  <2> QED
    BY <2>1, <2>2, <1>14
<1>19. ASSUME NEW q \in Pages, NEW c \in Calls, CancelAnswered(q, c) \/ DeleteAnswered(q, c)
       PROVE  UNCHANGED published /\ (stream'[p].pc = "live" => stream[p].pc = "live")
  BY <1>19, <1>10 DEF CancelAnswered, DeleteAnswered, Answered, redis
<1>20. CASE UNCHANGED sVars
  BY <1>1, <1>20 DEF sVars, vars, redis
<1> QED
  BY <1>0, <1>1, <1>2, <1>3, <1>4, <1>5, <1>6, <1>7,
     <1>15, <1>16, <1>17, <1>18, <1>19, <1>20, WaitsQuietly
     DEF StreamNext, StreamWorkerStep, ServerStep, PageStep

-----------------------------------------------------------------------------
(* The theorems.                                                           *)

LEMMA AnnouncesInit == Init => Announces
BY DEF Init, Announces, NoWork

LEMMA PagesFitAlways == StreamSpec => [](TypeOK /\ Announces /\ PagesFit)
<1>1. StreamInit => Announces /\ PagesFit
  BY AnnouncesInit, PagesInit DEF StreamInit, PagesInv
<1>2. TypeOK /\ Announces /\ PagesFit /\ [StreamNext]_sVars => Announces' /\ PagesFit'
  BY AnnouncesNext, StreamRefines, StreamTells
<1> QED
  BY <1>1, <1>2, StreamIsLifecycle, TypeCorrect, PTL DEF StreamSpec

\* The streams and the pages keep their shape under every fault; in particular
\* no page makes more than MAX_RETRIES attempts in a row before it gives up.
THEOREM StreamTypeCorrect == StreamSpec => []StreamTypeOK
<1>1. PagesFit => StreamTypeOK
  <2> SUFFICES ASSUME PagesFit, NEW p \in Pages
               PROVE  /\ stream[p] \in StreamRecords /\ page[p] \in PageRecords
    BY DEF StreamTypeOK, StreamRecords, PageRecords, Links
  <2> QED
    BY DEF PagesFit
<1> QED
  BY <1>1, PagesFitAlways, PTL

LEMMA StreamAlways ==
  ASSUME OneExecution, "failUpdate" \notin Faults
  PROVE  StreamSpec => [](Sound /\ PagesInv /\ LiveStreamsWait)
<1>1. StreamInit => PagesInv /\ LiveStreamsWait
  BY PagesInit DEF StreamInit, LiveStreamsWait, NoStream
<1>2. TypeOK /\ Announces /\ Sound /\ PagesInv /\ LiveStreamsWait /\ [StreamNext]_sVars
        => PagesInv' /\ LiveStreamsWait'
  BY PagesNext, WaitsNext DEF PagesInv
<1>3. DriverInv /\ StageInv => Sound
  BY DEF Sound
<1> QED
  BY <1>1, <1>2, <1>3, StreamIsLifecycle, StageAlways, PagesFitAlways, PTL DEF StreamSpec

\* No page ever shows a verdict its run does not have: whatever it was told, by
\* an answer to a read or by an event, in whatever order the two arrive.
THEOREM PagesTruthful ==
  OneExecution /\ "failUpdate" \notin Faults => (StreamSpec => []PageTruthful)
<1> SUFFICES ASSUME OneExecution, "failUpdate" \notin Faults PROVE StreamSpec => []PageTruthful
  OBVIOUS
<1>1. PagesInv => PageTruthful
  BY DEF PagesInv, PagesTrue, PageTruthful, Told, Holds
<1> QED
  BY <1>1, StreamAlways, PTL

\* The second read closes the race of subscribe and publish: a stream that is
\* live has not missed the end of its run, unless the run has been deleted.
THEOREM StreamsWait ==
  OneExecution /\ "failUpdate" \notin Faults => (StreamSpec => []LiveStreamsWait)
<1> SUFFICES ASSUME OneExecution, "failUpdate" \notin Faults PROVE StreamSpec => []LiveStreamsWait
  OBVIOUS
<1> QED
  BY StreamAlways, PTL
=============================================================================
