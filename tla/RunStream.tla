----------------------------- MODULE RunStream -----------------------------
(***************************************************************************)
(* A run seen from a browser: getStream of src/api/routes/schedule-runs.ts *)
(* forwards the events of ga-progress:<runId>, the hook                    *)
(* useScheduleRunStream consumes and retries them, and RunDetailPage shows *)
(* the status it was told last, by the stream or by a REST read.  Composed *)
(* with RunLifecycle: every row and every event here is really written by  *)
(* the handlers and the worker of that module.                             *)
(***************************************************************************)
EXTENDS RunSafety, Sequences

CONSTANTS
  Pages,        \* open RunDetailPages
  Watched,      \* the run each page is about
  MaxRetries,   \* MAX_RETRIES of the hook
  Fetches,      \* REST reads a page can have in flight (bound)
  MaxLosses,    \* connections a page can lose (bound)
  StreamFaults  \* "drop": a connection breaks.  "redis": the subscriber's does.
                \* "fetch": a REST read fails.

ASSUME WatchedAssumption == Watched \in [Pages -> Runs]
ASSUME RetriesAssumption == MaxRetries \in Nat /\ MaxLosses \in Nat
ASSUME StreamFaultsAssumption == StreamFaults \subseteq {"drop", "redis", "fetch"}

VARIABLES
  stream,   \* getStream for each page: its program point and what it has sent
  page      \* what each page knows, and the hook's connection state

sVars == <<vars, stream, page>>

NoStream == [pc |-> "none", sent |-> << >>]
NewPage == [view |-> "none", missing |-> FALSE, conn |-> "idle", retries |-> 0,
            losses |-> 0, fetch |-> [f \in Fetches |-> "idle"]]

StreamInit ==
  /\ Init
  /\ stream = [p \in Pages |-> NoStream]
  /\ page = [p \in Pages |-> NewPage]

-----------------------------------------------------------------------------
(* The server: getStream                                                   *)

Ends(p, s) == stream' = [stream EXCEPT ![p].pc = "ended", ![p].sent = Append(@, s)]

\* No row: 404.  Decided: one state event and the end.  Else headers and subscribe.
ReadForStream(p) ==
  LET s == status[Watched[p]] IN
  /\ stream[p].pc = "reading"
  /\ \/ s \in NotLive /\ stream' = [stream EXCEPT ![p].pc = "refused"]
     \/ s \in Terminal /\ Ends(p, s)
     \/ s \in Cancellable /\ stream' = [stream EXCEPT ![p].pc = "subscribing"]
  /\ UNCHANGED <<vars, page>>

\* Mutant: the row is not read again after the subscription.
SubscribeOnly(p) ==
  /\ stream[p].pc = "subscribing"
  /\ stream' = [stream EXCEPT ![p].pc = "live"]
  /\ UNCHANGED <<vars, page>>

\* From here the channel's events are heard.
Subscribe(p) ==
  /\ stream[p].pc = "subscribing"
  /\ stream' = [stream EXCEPT ![p].pc = "rereading"]
  /\ UNCHANGED <<vars, page>>

\* freshRun: the run may have been decided before the subscription.
Reread(p) ==
  LET s == status[Watched[p]] IN
  /\ stream[p].pc = "rereading"
  /\ IF s \in Terminal THEN Ends(p, s) ELSE stream' = [stream EXCEPT ![p].pc = "live"]
  /\ UNCHANGED <<vars, page>>

\* The subscriber's error handler: an error event, and the response ends.
SubscriberError(p) ==
  /\ "redis" \in StreamFaults
  /\ page[p].losses < MaxLosses
  /\ stream[p].pc \in {"subscribing", "rereading", "live"}
  /\ Ends(p, "error")
  /\ page' = [page EXCEPT ![p].losses = @ + 1]
  /\ UNCHANGED vars

\* The subscriber's message handler, for every stream of run r that is listening.
Hears(p, r) == Watched[p] = r /\ stream[p].pc \in {"rereading", "live"}

Forward(r, s) ==
  stream' = [p \in Pages |->
    IF Hears(p, r)
    THEN [pc |-> IF s \in Terminal THEN "ended" ELSE stream[p].pc, sent |-> Append(stream[p].sent, s)]
    ELSE stream[p]]

\* The worker's steps that publish: a state event that gets through, one that
\* is lost, and the progress event of a generation.
PublishHeard(w) ==
  /\ Publish(w)
  /\ published' = [published EXCEPT ![worker[w].run] = worker[w].verdict]
  /\ Forward(worker[w].run, worker[w].verdict)
  /\ UNCHANGED page

PublishLost(w) ==
  /\ "publish" \in Faults
  /\ Publish(w)
  /\ UNCHANGED <<published, stream, page>>

GenerationHeard(w) ==
  /\ Generation(w)
  /\ Forward(worker[w].run, "RUNNING")
  /\ UNCHANGED page

-----------------------------------------------------------------------------
(* The browser: RunDetailPage and useScheduleRunStream                     *)

\* sseEnabled: the page knows a status, and it is not a final one.
Enabled(view) == view \in Cancellable

\* The hook's effect runs when sseEnabled changes: connect, or tear down.
Reconnects(p, pg) == page' = [page EXCEPT ![p] = [pg EXCEPT !.conn = "connecting", !.retries = 0]]

\* Mutant: the hook's effect does not depend on the status.
ShowsOnly(p, pg, s) ==
  /\ page' = [page EXCEPT ![p] = [pg EXCEPT !.view = s, !.conn = IF Enabled(s) THEN @ ELSE "idle"]]
  /\ stream' = IF Enabled(s) THEN stream ELSE [stream EXCEPT ![p] = NoStream]

Shows(p, pg, s) ==
  IF Enabled(s) = Enabled(page[p].view)
  THEN page' = [page EXCEPT ![p] = [pg EXCEPT !.view = s]] /\ UNCHANGED stream
  ELSE IF Enabled(s)
  THEN /\ Reconnects(p, [pg EXCEPT !.view = s])
       /\ stream' = [stream EXCEPT ![p] = [NoStream EXCEPT !.pc = "reading"]]
  ELSE /\ page' = [page EXCEPT ![p] = [pg EXCEPT !.view = s, !.conn = "idle"]]
       /\ stream' = [stream EXCEPT ![p] = NoStream]

IdleFetch(p) ==
  LET idle == {f \in Fetches : page[p].fetch[f] = "idle"}
  IN IF idle = {} THEN {} ELSE {CHOOSE f \in idle : TRUE}

\* The first read of the page.  Its address holds an id the API has issued.
OpenPage(p) ==
  /\ status[Watched[p]] # "none"
  /\ page[p].view = "none"
  /\ \A f \in Fetches : page[p].fetch[f] = "idle"
  /\ ~page[p].missing
  /\ \E f \in IdleFetch(p) : page' = [page EXCEPT ![p].fetch[f] = "sent"]
  /\ UNCHANGED <<vars, stream>>

\* GET /schedule-runs/:id.
ServeFetch(p, f) ==
  /\ page[p].fetch[f] = "sent"
  /\ page' = [page EXCEPT ![p].fetch[f] = status[Watched[p]]]
  /\ UNCHANGED <<vars, stream>>

\* setRun(data): the answers apply in the order they arrive, not as they were sent.
FetchArrives(p, f) ==
  LET s == page[p].fetch[f]
      done == [page[p] EXCEPT !.fetch[f] = "idle"]
  IN
  /\ s \notin {"idle", "sent"}
  /\ \/ s \notin NotLive /\ Shows(p, [done EXCEPT !.missing = FALSE], s)
     \/ s \in NotLive /\ page' = [page EXCEPT ![p] = [done EXCEPT !.missing = TRUE]] /\ UNCHANGED stream
  /\ UNCHANGED vars

\* handleCancelConfirm: the run is cancelled, and read again.
CancelAnswered(p, c) ==
  /\ Answered(c)
  /\ call[c].pc = "200"
  /\ call[c].run = Watched[p]
  /\ \E f \in IdleFetch(p) : page' = [page EXCEPT ![p].fetch[f] = "sent"]
  /\ UNCHANGED stream

\* handleDeleteConfirm: the page is left, with its stream and its reads.
DeleteAnswered(p, c) ==
  /\ Answered(c)
  /\ call[c].pc = "204"
  /\ call[c].run = Watched[p]
  /\ page' = [page EXCEPT ![p] = [NewPage EXCEPT !.losses = page[p].losses]]
  /\ stream' = [stream EXCEPT ![p] = NoStream]

\* Any other failure is a toast.
FetchFails(p, f) ==
  /\ "fetch" \in StreamFaults
  /\ page[p].fetch[f] = "sent"
  /\ page' = [page EXCEPT ![p].fetch[f] = "idle"]
  /\ UNCHANGED <<vars, stream>>

\* on.open: the response has begun; after a retry the page reads the run again.
StreamOpens(p) ==
  /\ page[p].conn \in {"connecting", "reconnecting"}
  /\ stream[p].pc \in {"subscribing", "rereading", "live", "ended"}
  /\ \/ page[p].retries = 0 /\ page' = [page EXCEPT ![p].conn = "connected"]
     \/ /\ page[p].retries > 0
        /\ \E f \in IdleFetch(p) :
             page' = [page EXCEPT ![p].conn = "connected", ![p].retries = 0, ![p].fetch[f] = "sent"]
  /\ UNCHANGED <<vars, stream>>

\* on.state, on.progress, on.error.  A final state disables the stream and
\* reads the run once more; a progress event says RUNNING.
ReceiveEvent(p) ==
  LET s == Head(stream[p].sent) IN
  /\ page[p].conn = "connected"
  /\ stream[p].sent # << >>
  /\ \/ s \in Terminal /\ \E f \in IdleFetch(p) : Shows(p, [page[p] EXCEPT !.fetch[f] = "sent"], s)
     \/ /\ s \notin Terminal
        /\ page' = [page EXCEPT ![p].view = IF s = "error" THEN @ ELSE s]
        /\ stream' = [stream EXCEPT ![p].sent = Tail(@)]
  /\ UNCHANGED vars

\* Mutant: the attempt is compared before it is counted.
RetryOnceMore(pg) == [pg EXCEPT !.retries = @ + 1, !.conn = IF pg.retries > MaxRetries THEN "failed" ELSE "waiting"]

\* retry(): give up after MAX_RETRIES attempts in a row.
Retry(pg) == IF pg.retries + 1 > MaxRetries
             THEN [pg EXCEPT !.retries = @ + 1, !.conn = "failed"]
             ELSE [pg EXCEPT !.retries = @ + 1, !.conn = "waiting"]

\* The response was an error status, or ended without a final state.
StreamEnds(p) ==
  /\ \/ stream[p].pc = "refused"
     \/ page[p].conn = "connected" /\ stream[p].pc = "ended" /\ stream[p].sent = << >>
  /\ stream' = [stream EXCEPT ![p] = NoStream]
  /\ page' = [page EXCEPT ![p] = Retry(page[p])]
  /\ UNCHANGED vars

\* The connection breaks: fetch or read rejects; what was in flight is lost.
DropConnection(p) ==
  /\ "drop" \in StreamFaults
  /\ page[p].losses < MaxLosses
  /\ stream[p].pc # "none"
  /\ stream' = [stream EXCEPT ![p] = NoStream]
  /\ page' = [page EXCEPT ![p] = [Retry(page[p]) EXCEPT !.losses = @ + 1]]
  /\ UNCHANGED vars

\* The backoff timer: go() again.
RetryTimer(p) ==
  /\ page[p].conn = "waiting"
  /\ page' = [page EXCEPT ![p].conn = "reconnecting"]
  /\ stream' = [stream EXCEPT ![p] = [NoStream EXCEPT !.pc = "reading"]]
  /\ UNCHANGED vars

-----------------------------------------------------------------------------
ServerStep(p) == ReadForStream(p) \/ Subscribe(p) \/ Reread(p)

PageStep(p) ==
  \/ StreamOpens(p) \/ ReceiveEvent(p) \/ StreamEnds(p) \/ RetryTimer(p)

FetchStep(p, f) == ServeFetch(p, f) \/ FetchArrives(p, f)

WorkerSilentStep(w) == ~(worker[w].pc \in {"publish", "generation"}) /\ WorkerStep(w)

StreamWorkerStep(w) ==
  \/ PublishHeard(w) \/ PublishLost(w) \/ GenerationHeard(w)
  \/ WorkerSilentStep(w) /\ UNCHANGED <<stream, page>>

StreamNext ==
  \/ OtherStep /\ UNCHANGED <<stream, page>>
  \/ \E w \in Workers : StreamWorkerStep(w)
  \/ \E p \in Pages : \/ OpenPage(p) \/ ServerStep(p) \/ PageStep(p)
                      \/ SubscriberError(p) \/ DropConnection(p)
  \/ \E p \in Pages, f \in Fetches : FetchStep(p, f) \/ FetchFails(p, f)
  \/ \E p \in Pages, c \in Calls : CancelAnswered(p, c) \/ DeleteAnswered(p, c)

StreamSpec == StreamInit /\ [][StreamNext]_sVars

\* The event loops of the API, of the worker and of the browser keep running,
\* and answers arrive.  Nobody opens a page or loses a connection by fairness.
StreamFairness ==
  /\ \A c \in Calls : WF_sVars(ApiStep(c) /\ UNCHANGED <<stream, page>>)
  /\ \A w \in Workers : WF_sVars(StreamWorkerStep(w))
  /\ \A w \in Workers : WF_sVars(\E j \in JobIds : TakeJob(w, j) /\ UNCHANGED <<stream, page>>)
  /\ \A j \in JobIds : WF_sVars(StalledJob(j) /\ UNCHANGED <<stream, page>>)
  /\ \A p \in Pages : WF_sVars(ServerStep(p)) /\ WF_sVars(PageStep(p))
  /\ \A p \in Pages, f \in Fetches : WF_sVars(FetchStep(p, f))

StreamFairSpec == StreamSpec /\ StreamFairness

-----------------------------------------------------------------------------
\* The shape of the streams and of the pages.
Views == Statuses \cup {"none"}
StreamTypeOK ==
  /\ \A p \in Pages :
       /\ stream[p].pc \in {"none", "reading", "refused", "subscribing", "rereading", "live", "ended"}
       /\ \A i \in DOMAIN stream[p].sent : stream[p].sent[i] \in Statuses \cup {"error"}
       /\ page[p].view \in Views
       /\ page[p].conn \in {"idle", "connecting", "connected", "waiting", "reconnecting", "failed"}
       /\ page[p].retries \in 0..(MaxRetries + 1)
       /\ page[p].losses \in 0..MaxLosses
       /\ \A f \in Fetches : page[p].fetch[f] \in Statuses \cup NotLive \cup {"idle", "sent"}

\* A stream that is past its second read has not missed the end of its run:
\* whatever was published before the subscription was in the row by then.
\* Only the stream of a deleted run can stay open for nothing.
LiveStreamsWait ==
  \A p \in Pages : stream[p].pc = "live" /\ Live(Watched[p]) => published[Watched[p]] \notin Terminal

\* A page never shows a verdict its run does not have, whatever order answers
\* and events arrive in: only a cancel or a delete can have replaced it.
PageTruthful ==
  \A p \in Pages : page[p].view \in Verdicts =>
    status[Watched[p]] \in {page[p].view, "CANCELLED", "deleted"}

\* The end of the run was written and never announced: its announcement was
\* lost, or the API wrote FAILED or CANCELLED and no worker took the run up.
Unannounced(r) == status[r] \in Terminal /\ published[r] \notin Terminal

\* A page that has seen its run undecided finally shows it decided: through
\* lost connections, retries, late answers and the race of subscribe and
\* publish, unless the page gave up or the end was never announced.
Informed(p) ==
  \/ page[p].view \in Terminal \cup {"none"}
  \/ page[p].conn = "failed"
  \/ status[Watched[p]] \notin Terminal
  \/ Unannounced(Watched[p])
PageLearns == \A p \in Pages : <>[]Informed(p)
=============================================================================
