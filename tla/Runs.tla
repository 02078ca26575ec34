-------------------------------- MODULE Runs --------------------------------
(***************************************************************************)
(* The life of a run in the web process: the upload that launches it        *)
(* (api/routes.py), ReconciliationAgent.run around the graph                 *)
(* (agent/service.py), the incident of a failure (incidents/), the registry  *)
(* of results (api/run_registry.py) and the page that polls it              *)
(* (api/progress.py, progress.html).                                        *)
(*                                                                         *)
(* The rows of run_log and audit_log and the files of the incidents are      *)
(* durable; the registry and the threads go down with the process.          *)
(***************************************************************************)
EXTENDS Integers, Sequences, FiniteSets

CONSTANTS
    MaxEntries,   \* max_entries of the registry
    MaxRuns,      \* bound: uploads
    MaxCrashes    \* bound: crashes of the process

Runs == 1 .. MaxRuns

ASSUME EntriesAssumption == MaxEntries \in Nat \ {0}
ASSUME BoundsAssumption == MaxRuns \in Nat /\ MaxCrashes \in Nat

VARIABLES
    task,      \* what the thread or the request of a run is about to do
    outcome,   \* the status of the RunOutcome it returns
    row,       \* status in run_log, "none" without a row
    trail,     \* the ranks of the events of a run in audit_log (_EVENT_RANK)
    registry,  \* the keys of _runs, oldest first
    entry,     \* the state of the record of a run, "none" without one
    files,     \* the runs whose incident has its JSON file
    stream,    \* ... is in incidents.jsonl
    console,   \* ... is on stderr
    page,      \* what the page of a run shows
    crashes    \* crashes so far

incidents == <<files, stream, console>>
memory == <<registry, entry>>
vars == <<task, outcome, row, registry, entry, incidents, page, trail, crashes>>

Init ==
    /\ task = [r \in Runs |-> "none"]
    /\ outcome = [r \in Runs |-> "none"]
    /\ row = [r \in Runs |-> "none"]
    /\ trail = [r \in Runs |-> {}]
    /\ registry = << >>
    /\ entry = [r \in Runs |-> "none"]
    /\ files = {} /\ stream = {} /\ console = {}
    /\ page = [r \in Runs |-> "none"]
    /\ crashes = 0

Rest == {"none", "ended", "down"}

At(r, step) == task[r] = step
Go(r, step) == task' = [task EXCEPT ![r] = step]

----------------------------------------------------------------------------
\* The registry.

FaultyEvict(s) == s

\* _evict_locked: the oldest go first, whether they are pending or not.
Evict(s) == IF Len(s) > MaxEntries
            THEN SubSeq(s, Len(s) - MaxEntries + 1, Len(s)) ELSE s

FaultyRegister(r) ==
    /\ registry' = Evict(Append(registry, r))
    /\ entry' = [entry EXCEPT ![r] = "pending"]

\* RunRegistry.start.
Register(r) ==
    LET kept == Evict(Append(registry, r)) IN
    /\ registry' = kept
    /\ entry' = [q \in Runs |->
                    IF \A n \in DOMAIN kept : kept[n] # q THEN "none"
                    ELSE IF q = r THEN "pending" ELSE entry[q]]

\* OrderedDict.move_to_end.
MoveToEnd(s, r) ==
    LET n == CHOOSE n \in DOMAIN s : s[n] = r IN
    [m \in DOMAIN s |-> IF m < n THEN s[m] ELSE IF m < Len(s) THEN s[m + 1] ELSE r]

\* set_outcome and set_error: a record that was evicted comes back, and
\* nothing is evicted.
Put(r, state) ==
    /\ registry' = IF \E n \in DOMAIN registry : registry[n] = r
                   THEN MoveToEnd(registry, r) ELSE Append(registry, r)
    /\ entry' = [entry EXCEPT ![r] = state]

----------------------------------------------------------------------------
\* An upload.

Arrives(r) == At(r, "none") /\ \A q \in Runs : q < r => ~ At(q, "none")

\* The files parse: a thread is launched and the browser gets the page.
Launch(r) ==
    /\ Arrives(r)
    /\ Register(r)
    /\ Go(r, "start")
    /\ page' = [page EXCEPT ![r] = "polling"]
    /\ UNCHANGED <<outcome, row, incidents, trail, crashes>>

\* A ParseError: the request raises an incident and answers with it.
Reject(r) ==
    /\ Arrives(r)
    /\ Go(r, "file")
    /\ UNCHANGED <<outcome, row, memory, incidents, page, trail, crashes>>

Rejected(r) == page[r] = "none"

----------------------------------------------------------------------------
\* ReconciliationAgent.run.

StartRun(r) ==
    /\ At(r, "start")
    /\ row' = [row EXCEPT ![r] = "running"]
    /\ Go(r, "reconcile")
    /\ UNCHANGED <<outcome, memory, incidents, page, trail, crashes>>

Graph == {"reconcile", "fuzzy", "classify", "decide", "dispatch", "verify"}

\* A node of the graph commits its events with its session, and the next one is
\* called.  What a node does besides is in Lifecycle.
Node(r, node, logged, next) ==
    /\ At(r, node)
    /\ trail' = [trail EXCEPT ![r] = @ \union logged]
    /\ Go(r, next)
    /\ UNCHANGED <<outcome, row, memory, incidents, page, crashes>>

\* The conditional edge: rows are left on both sides, or not.
Reconcile(r) == \E next \in {"fuzzy", "classify"} : Node(r, "reconcile", {1}, next)

\* The model cannot be called: the node goes on without pairings.
Degrade(r) == 2 \notin trail[r] /\ Node(r, "fuzzy", {2}, "fuzzy")

Fuzzy(r) == \E logged \in {{}, {2}} : Node(r, "fuzzy", logged, "classify")

Classify(r) == Node(r, "classify", {3}, "decide")

\* An event for each exception, if there are any.
Decide(r) == \E logged \in {{}, {4}} : Node(r, "decide", logged, "dispatch")

\* A decision is waited on, or has a target at least (Routing).
Dispatch(r) == Node(r, "dispatch", IF 4 \in trail[r] THEN {5} ELSE {}, "verify")

Verify(r) == Node(r, "verify", {6}, "finish")

FaultyGraphRaises(r) ==
    /\ task[r] \in Graph
    /\ Go(r, "finish")
    /\ UNCHANGED <<outcome, row, memory, incidents, page, trail, crashes>>

\* A node raises, and its session is rolled back; the events of the nodes before
\* stay.  Mails that failed or were refused raise nothing.
GraphRaises(r) ==
    /\ task[r] \in Graph
    /\ Go(r, "file")
    /\ UNCHANGED <<outcome, row, memory, incidents, page, trail, crashes>>

\* _finish_run, at step after the graph or at step close after its failure.
FinishRun(r, step, status) ==
    /\ At(r, step)
    /\ row' = [row EXCEPT ![r] = status]
    /\ outcome' = [outcome EXCEPT ![r] = status]
    /\ Go(r, "publish")
    /\ UNCHANGED <<memory, incidents, page, trail, crashes>>

\* raise_incident: the file, the line in the stream, the line on stderr, then
\* the mail, whose failure is swallowed.  The request of a rejected upload has
\* nothing to close.
WriteFile(r) ==
    /\ At(r, "file")
    /\ files' = files \union {r}
    /\ Go(r, "stream")
    /\ UNCHANGED <<outcome, row, memory, stream, console, page,
                   trail, crashes>>

AppendStream(r) ==
    /\ At(r, "stream")
    /\ stream' = stream \union {r}
    /\ Go(r, "console")
    /\ UNCHANGED <<outcome, row, memory, files, console, page,
                   trail, crashes>>

Show(r) ==
    /\ At(r, "console")
    /\ console' = console \union {r}
    /\ Go(r, "mail")
    /\ UNCHANGED <<outcome, row, memory, files, stream, page,
                   trail, crashes>>

Mail(r) ==
    /\ At(r, "mail")
    /\ Go(r, IF Rejected(r) THEN "ended" ELSE "close")
    /\ UNCHANGED <<outcome, row, memory, files, stream, console, page,
                   trail, crashes>>

\* The steps of which an exception leaves agent.run: the database or the disk
\* refuses.
Fragile == {"start", "finish", "file", "stream", "console", "close"}

FaultyFail(r) ==
    /\ task[r] \in Fragile
    /\ Go(r, IF Rejected(r) THEN "ended" ELSE "publish")
    /\ outcome' = [outcome EXCEPT ![r] = "failed"]
    /\ UNCHANGED <<row, memory, incidents, page, trail, crashes>>

FaultyIgnore(r) ==
    /\ task[r] \in Fragile
    /\ Go(r, IF Rejected(r) THEN "ended" ELSE IF At(r, "stream") THEN "close"
             ELSE "raise")
    /\ UNCHANGED <<outcome, row, memory, incidents, page, trail, crashes>>

Fail(r) ==
    /\ task[r] \in Fragile
    /\ Go(r, IF Rejected(r) THEN "ended" ELSE "raise")
    /\ UNCHANGED <<outcome, row, memory, incidents, page, trail, crashes>>

----------------------------------------------------------------------------
\* _worker.

FaultyPublish(r) ==
    /\ At(r, "publish")
    /\ outcome[r] = "completed"
    /\ Put(r, outcome[r])
    /\ Go(r, "ended")
    /\ UNCHANGED <<outcome, row, incidents, page, trail, crashes>>

Publish(r) ==
    /\ At(r, "publish")
    /\ Put(r, outcome[r])
    /\ Go(r, "ended")
    /\ UNCHANGED <<outcome, row, incidents, page, trail, crashes>>

Raise(r) ==
    /\ At(r, "raise")
    /\ Put(r, "error")
    /\ Go(r, "ended")
    /\ UNCHANGED <<outcome, row, incidents, page, trail, crashes>>

----------------------------------------------------------------------------
\* A record that is gone is taken for a failure.
FaultyPoll(r) ==
    /\ page[r] = "polling"
    /\ entry[r] # "pending"
    /\ page' = [page EXCEPT ![r] =
                   IF entry[r] \in {"completed", "failed"} THEN "completed" ELSE "failed"]
    /\ UNCHANGED <<task, outcome, row, memory, incidents, trail, crashes>>

\* The page polls until it is told of an end or that there is no such run.
\* compute_progress says "completed" of every outcome, the failed ones too.
Poll(r) ==
    /\ page[r] = "polling"
    /\ entry[r] # "pending"
    /\ page' = [page EXCEPT ![r] =
                   CASE entry[r] = "none" -> "not found"
                     [] entry[r] = "error" -> "failed"
                     [] OTHER -> "completed"]
    /\ UNCHANGED <<task, outcome, row, memory, incidents, trail, crashes>>

Crash ==
    /\ crashes < MaxCrashes
    /\ crashes' = crashes + 1
    /\ task' = [r \in Runs |-> IF task[r] \in Rest THEN task[r] ELSE "down"]
    /\ registry' = << >>
    /\ entry' = [r \in Runs |-> "none"]
    /\ UNCHANGED <<outcome, row, incidents, page, trail>>

----------------------------------------------------------------------------
Incident(r) == WriteFile(r) \/ AppendStream(r) \/ Show(r) \/ Mail(r)

InGraph(r) ==
    \/ Reconcile(r) \/ Degrade(r) \/ Fuzzy(r) \/ Classify(r)
    \/ Decide(r) \/ Dispatch(r) \/ Verify(r) \/ GraphRaises(r)

Work(r) ==
    \/ StartRun(r) \/ InGraph(r)
    \/ FinishRun(r, "finish", "completed") \/ FinishRun(r, "close", "failed")
    \/ Incident(r) \/ Fail(r) \/ Publish(r) \/ Raise(r)

Next == (\E r \in Runs : Launch(r) \/ Reject(r) \/ Work(r) \/ Poll(r)) \/ Crash

Spec == Init /\ [][Next]_vars

\* Threads are scheduled and the graph ends (Lifecycle); an open page polls
\* every 1.5 seconds.
FairSpec == Spec /\ \A r \in Runs : WF_vars(Work(r)) /\ WF_vars(Poll(r))

----------------------------------------------------------------------------
\* Properties.

Steps == Graph \union {"start", "finish", "file", "stream", "console", "mail",
                       "close", "publish", "raise"}

TypeOK ==
    /\ task \in [Runs -> Steps \union Rest]
    /\ outcome \in [Runs -> {"none", "completed", "failed"}]
    /\ row \in [Runs -> {"none", "running", "completed", "failed"}]
    /\ trail \in [Runs -> SUBSET (1 .. 6)]
    /\ registry \in Seq(Runs)
    /\ \A m, n \in DOMAIN registry : registry[m] = registry[n] => m = n
    /\ \A r \in Runs : entry[r] # "none" <=> \E n \in DOMAIN registry : registry[n] = r
    /\ entry \in [Runs -> {"none", "pending", "completed", "failed", "error"}]
    /\ {files, stream, console} \subseteq SUBSET Runs
    /\ page \in [Runs -> {"none", "polling", "not found", "completed", "failed"}]
    /\ crashes \in Nat

\* What the registry answers agrees with what run_log keeps, although they are
\* written by different steps: an outcome is one that was committed, and after
\* an error the row was never finished.
AnswersMatchRows ==
    \A r \in Runs :
        /\ entry[r] \in {"completed", "failed"} => row[r] = entry[r]
        /\ entry[r] = "error" => row[r] \in {"none", "running"}

\* A run that is failed in run_log has its incident in the file, in the stream
\* and on the console, whatever failed or crashed (incidents/service.py).
FailuresAreOnFile ==
    \A r \in Runs : row[r] = "failed" => r \in files \intersect stream \intersect console

\* What audit_log keeps of a run agrees with its row, although nodes and run
\* commit in sessions of their own (agent/nodes.py, agent/service.py): no event
\* without a row, and the trail reaches its end under a completed row and never
\* under a failed one.  A trail that reached its end has no gap: an exception that
\* was decided was dispatched, and nothing was dispatched without a decision.
TrailsFitRows ==
    \A r \in Runs :
        /\ row[r] = "none" => trail[r] = {}
        /\ row[r] = "completed" => 6 \in trail[r]
        /\ row[r] = "failed" => 6 \notin trail[r]
        /\ 5 \in trail[r] => 4 \in trail[r]
        /\ 6 \in trail[r] => {1, 3} \subseteq trail[r] /\ (4 \in trail[r] => 5 \in trail[r])

\* A run that ended with its row still running was lost with the process, or
\* reported as an error, unless its record has been evicted since.
StuckRowsAreReported ==
    \A r \in Runs : row[r] = "running" /\ At(r, "ended") => entry[r] \in {"error", "none"}

\* However many runs are launched, at most MaxEntries records are pending.
PendingBounded == Cardinality({r \in Runs : entry[r] = "pending"}) <= MaxEntries

\* A page does not poll for ever: the run ends one way or another, or its
\* record is gone.
PagesEnd == \A r \in Runs : page[r] = "polling" ~> page[r] # "polling"

----------------------------------------------------------------------------
\* The same as a specification of its own: see Verdicts.

Promise == INSTANCE Verdicts WITH
    Events <- 1 .. 6,
    filed <- files \intersect stream \intersect console,
    shown <- page

\* Through failures, evictions and crashes a run gets one verdict, which nothing
\* takes back: neither its row nor its trail changes any more once its page was
\* told of an end, and a page is told "failed" only of a run whose row will
\* never have a verdict (agent/service.py, api/routes.py, api/progress.py).
KeepsVerdicts == Promise!Spec

=============================================================================
