----------------------------- MODULE RunsProofs -----------------------------
(***************************************************************************)
(* Proofs about Runs: rows, answers and incidents agree, for any number of  *)
(* uploads and crashes and for a registry of any size.                      *)
(***************************************************************************)
EXTENDS Runs, FiniteSetTheorems, TLAPS

Outcomes == {"none", "completed", "failed"}
RowStates == {"none", "running", "completed", "failed"}
EntryStates == {"none", "pending", "completed", "failed", "error"}
Pages == {"none", "polling", "not found", "completed", "failed"}

\* The registry matters here for what it makes of the records only.
Typed ==
    /\ task \in [Runs -> Steps \union Rest]
    /\ outcome \in [Runs -> Outcomes]
    /\ row \in [Runs -> RowStates]
    /\ trail \in [Runs -> SUBSET (1 .. 6)]
    /\ entry \in [Runs -> EntryStates]
    /\ page \in [Runs -> Pages]

\* The row of a run follows its task.
RowFits(r) ==
    /\ task[r] \in {"none", "start"} => row[r] = "none"
    /\ task[r] \in Graph \union {"finish"} => row[r] = "running"
    /\ task[r] \in {"file", "stream", "console", "mail", "close", "raise"}
       => row[r] \in {"none", "running"}
    /\ task[r] = "publish" => outcome[r] = row[r] /\ row[r] \in {"completed", "failed"}

\* The record of a run is pending until its thread publishes, and is gone with
\* the process.
EntryFits(r) ==
    /\ task[r] \notin {"ended", "down"} => entry[r] \in {"none", "pending"}
    /\ task[r] = "down" => entry[r] = "none"
    /\ task[r] = "ended" => \/ entry[r] = "none"
                            \/ entry[r] = "error" /\ row[r] \in {"none", "running"}
                            \/ entry[r] = row[r] /\ row[r] \in {"completed", "failed"}

\* The traces of an incident are left in their order.
Traced(r) ==
    /\ task[r] \in {"stream", "console", "mail", "close"} => r \in files
    /\ task[r] \in {"console", "mail", "close"} => r \in stream
    /\ task[r] \in {"mail", "close"} => r \in console
    /\ row[r] = "failed" => r \in files \intersect stream \intersect console

\* A rejected upload has a request but no page; an upload that launches has one
\* from the beginning.
PageFits(r) ==
    /\ task[r] = "none" => page[r] = "none"
    /\ task[r] \in Graph \union {"start", "finish", "close", "publish", "raise"}
       => page[r] # "none"
    /\ page[r] = "none" => row[r] = "none" /\ entry[r] = "none"

\* The trail of a run grows with the graph: its end is on record from the last
\* node on, and never once a node has raised.
TrailFits(r) ==
    /\ row[r] = "none" => trail[r] = {}
    /\ row[r] = "completed" => 6 \in trail[r]
    /\ row[r] = "failed" => 6 \notin trail[r]
    /\ task[r] \in Graph \ {"reconcile"} => 1 \in trail[r]
    /\ task[r] \in {"decide", "dispatch", "verify"} => 3 \in trail[r]
    /\ task[r] = "verify" => (4 \in trail[r] => 5 \in trail[r])
    /\ task[r] \in Graph \union {"file", "stream", "console", "mail", "close"}
       => 6 \notin trail[r]
    /\ task[r] = "finish" => 6 \in trail[r]
    /\ 5 \in trail[r] => 4 \in trail[r]
    /\ 6 \in trail[r] => {1, 3} \subseteq trail[r] /\ (4 \in trail[r] => 5 \in trail[r])

Good(r) == RowFits(r) /\ EntryFits(r) /\ Traced(r) /\ PageFits(r) /\ TrailFits(r)

RunsInv == Typed /\ \A r \in Runs : Good(r)

----------------------------------------------------------------------------
LEMMA InitGood == Init => RunsInv
BY DEF Init, RunsInv, Typed, Outcomes, RowStates, EntryStates, Pages, Rest, Good,
       RowFits, EntryFits, Traced, PageFits, TrailFits, Graph

\* A run that does nothing itself keeps its invariant, also when its record is
\* evicted or its page polls.
LEMMA OtherGood ==
    ASSUME NEW q \in Runs, Good(q),
           task'[q] = task[q], outcome'[q] = outcome[q], row'[q] = row[q] /\ trail'[q] = trail[q],
           entry'[q] \in {entry[q], "none"},
           page'[q] = "none" <=> page[q] = "none",
           files \subseteq files', stream \subseteq stream', console \subseteq console'
    PROVE  Good(q)'
BY DEF Good, RowFits, EntryFits, Traced, PageFits, TrailFits, Graph

\* A step of r.
LEMMA StepOfOne ==
    ASSUME RunsInv, NEW r \in Runs, Typed', Good(r)',
           files \subseteq files', stream \subseteq stream', console \subseteq console',
           \A q \in Runs : q # r =>
               /\ task'[q] = task[q] /\ outcome'[q] = outcome[q] /\ row'[q] = row[q]
               /\ trail'[q] = trail[q]
               /\ entry'[q] \in {entry[q], "none"}
               /\ page'[q] = page[q]
    PROVE  RunsInv'
<1>1. ASSUME NEW q \in Runs, q # r PROVE Good(q)'
  BY <1>1, OtherGood DEF RunsInv
<1>2. QED
  BY <1>1 DEF RunsInv

----------------------------------------------------------------------------
\* The uploads.

\* What Register does to the records, whatever the registry holds.
LEMMA Registered ==
    ASSUME RunsInv, NEW r \in Runs, Register(r)
    PROVE  /\ entry' \in [Runs -> EntryStates]
           /\ entry'[r] \in {"none", "pending"}
           /\ \A q \in Runs : q # r => entry'[q] \in {entry[q], "none"}
BY DEF RunsInv, Typed, Register, EntryStates

LEMMA LaunchGood == ASSUME RunsInv, NEW r \in Runs, Launch(r) PROVE RunsInv'
<1>1. Good(r)
  BY DEF RunsInv
<1>2. Typed'
  BY Registered DEF Launch, Arrives, At, Go, incidents, RunsInv, Typed, Steps, Graph, Pages
<1>3. task[r] = "none" /\ task'[r] = "start" /\ page'[r] = "polling"
      /\ entry'[r] \in {"none", "pending"}
  BY Registered DEF Launch, Arrives, At, Go, incidents, RunsInv, Typed
<1>4. Good(r)'
  BY <1>1, <1>3 DEF Launch, Arrives, At, Go, incidents, Good, RowFits, EntryFits, Traced,
    PageFits, TrailFits, Graph
<1>5. \A q \in Runs : q # r =>
          /\ task'[q] = task[q] /\ outcome'[q] = outcome[q] /\ row'[q] = row[q]
          /\ trail'[q] = trail[q]
          /\ entry'[q] \in {entry[q], "none"} /\ page'[q] = page[q]
  BY Registered DEF Launch, Arrives, At, Go, incidents, RunsInv, Typed
<1>6. files \subseteq files' /\ stream \subseteq stream' /\ console \subseteq console'
  BY DEF Launch, Arrives, At, Go, incidents
<1>7. QED
  BY <1>2, <1>4, <1>5, <1>6, StepOfOne

LEMMA RejectGood == ASSUME RunsInv, NEW r \in Runs, Reject(r) PROVE RunsInv'
<1>1. Good(r)
  BY DEF RunsInv
<1>2. Typed'
  BY DEF Reject, Arrives, At, Go, memory, incidents, RunsInv, Typed, Steps, Graph
<1>3. task[r] = "none" /\ task'[r] = "file"
  BY DEF Reject, Arrives, At, Go, memory, incidents, RunsInv, Typed
<1>4. Good(r)'
  BY <1>1, <1>3 DEF Reject, Arrives, At, Go, memory, incidents, Good, RowFits, EntryFits,
    Traced, PageFits, TrailFits, Graph
<1>5. \A q \in Runs : q # r =>
          /\ task'[q] = task[q] /\ outcome'[q] = outcome[q] /\ row'[q] = row[q]
          /\ trail'[q] = trail[q]
          /\ entry'[q] \in {entry[q], "none"} /\ page'[q] = page[q]
  BY DEF Reject, Arrives, At, Go, memory, incidents, RunsInv, Typed
<1>6. files \subseteq files' /\ stream \subseteq stream' /\ console \subseteq console'
  BY DEF Reject, Arrives, At, Go, memory, incidents
<1>7. QED
  BY <1>2, <1>4, <1>5, <1>6, StepOfOne

----------------------------------------------------------------------------
\* ReconciliationAgent.run and its incident.

LEMMA StartRunGood == ASSUME RunsInv, NEW r \in Runs, StartRun(r) PROVE RunsInv'
<1>1. Good(r)
  BY DEF RunsInv
<1>2. Typed'
  BY DEF StartRun, At, Go, memory, incidents, RunsInv, Typed, Steps, Graph, RowStates
<1>3. task[r] = "start" /\ task'[r] = "reconcile" /\ row'[r] = "running"
  BY DEF StartRun, At, Go, memory, incidents, RunsInv, Typed
<1>4. Good(r)'
  BY <1>1, <1>3 DEF StartRun, At, Go, memory, incidents, Good, RowFits, EntryFits, Traced,
    PageFits, TrailFits, Graph
<1>5. \A q \in Runs : q # r =>
          /\ task'[q] = task[q] /\ outcome'[q] = outcome[q] /\ row'[q] = row[q]
          /\ trail'[q] = trail[q]
          /\ entry'[q] \in {entry[q], "none"} /\ page'[q] = page[q]
  BY DEF StartRun, At, Go, memory, incidents, RunsInv, Typed
<1>6. files \subseteq files' /\ stream \subseteq stream' /\ console \subseteq console'
  BY DEF StartRun, At, Go, memory, incidents
<1>7. QED
  BY <1>2, <1>4, <1>5, <1>6, StepOfOne

\* The nodes of the graph differ in what they log and in what comes next.
LEMMA NodeGood ==
    ASSUME RunsInv, NEW r \in Runs, NEW node \in Graph, NEW next \in Graph \union {"finish"},
           NEW logged \in SUBSET (1 .. 6), Node(r, node, logged, next),
           TrailFits(r)'
    PROVE  RunsInv'
<1>1. Good(r)
  BY DEF RunsInv
<1>2. task[r] = node /\ task' = [task EXCEPT ![r] = next]
      /\ trail' = [trail EXCEPT ![r] = trail[r] \union logged]
  BY DEF Node, At, Go
<1>3. Typed'
  BY <1>2 DEF Node, memory, incidents, RunsInv, Typed, Steps, Graph
<1>4. task'[r] = next
  BY <1>2 DEF RunsInv, Typed
<1>5. Good(r)'
  BY <1>1, <1>2, <1>4 DEF Node, Graph, memory, incidents, Good, RowFits, EntryFits, Traced,
    PageFits
<1>6. \A q \in Runs : q # r =>
          /\ task'[q] = task[q] /\ outcome'[q] = outcome[q] /\ row'[q] = row[q]
          /\ trail'[q] = trail[q]
          /\ entry'[q] \in {entry[q], "none"} /\ page'[q] = page[q]
  BY <1>2 DEF Node, memory, incidents, RunsInv, Typed
<1>7. files \subseteq files' /\ stream \subseteq stream' /\ console \subseteq console'
  BY DEF Node, incidents
<1>8. QED
  BY <1>3, <1>5, <1>6, <1>7, StepOfOne

\* What a node that logs does to the trail.
LEMMA Logs ==
    ASSUME RunsInv, NEW r \in Runs, NEW node \in Graph, NEW next \in Graph \union {"finish"},
           NEW logged \in SUBSET (1 .. 6), Node(r, node, logged, next)
    PROVE  /\ TrailFits(r) /\ row[r] = "running" /\ task[r] = node
           /\ task'[r] = next /\ row'[r] = "running" /\ trail'[r] = trail[r] \union logged
BY DEF Node, At, Go, RunsInv, Typed, Good, RowFits

LEMMA GraphGood ==
    ASSUME RunsInv, NEW r \in Runs, InGraph(r), ~ GraphRaises(r)
    PROVE  RunsInv'
<1> USE DEF Graph
<1>1. CASE Reconcile(r)
  <2>1. PICK next \in {"fuzzy", "classify"} : Node(r, "reconcile", {1}, next)
    BY <1>1 DEF Reconcile
  <2>2. TrailFits(r)'
    BY <2>1, Logs DEF TrailFits
  <2>3. QED
    BY <2>1, <2>2, NodeGood
<1>2. CASE Degrade(r)
  <2>1. Node(r, "fuzzy", {2}, "fuzzy")
    BY <1>2 DEF Degrade
  <2>2. TrailFits(r)'
    BY <2>1, Logs DEF TrailFits
  <2>3. QED
    BY <2>1, <2>2, NodeGood
<1>3. CASE Fuzzy(r)
  <2>1. PICK logged \in {{}, {2}} : Node(r, "fuzzy", logged, "classify")
    BY <1>3 DEF Fuzzy
  <2>2. TrailFits(r)'
    BY <2>1, Logs DEF TrailFits
  <2>3. QED
    BY <2>1, <2>2, NodeGood
<1>4. CASE Classify(r)
  <2>1. Node(r, "classify", {3}, "decide")
    BY <1>4 DEF Classify
  <2>2. TrailFits(r)'
    BY <2>1, Logs DEF TrailFits
  <2>3. QED
    BY <2>1, <2>2, NodeGood
<1>5. CASE Decide(r)
  <2>1. PICK logged \in {{}, {4}} : Node(r, "decide", logged, "dispatch")
    BY <1>5 DEF Decide
  <2>2. TrailFits(r)'
    BY <2>1, Logs DEF TrailFits
  <2>3. QED
    BY <2>1, <2>2, NodeGood
<1>6. CASE Dispatch(r)
  <2>1. PICK logged \in {{}, {5}} :
            /\ Node(r, "dispatch", logged, "verify")
            /\ 4 \in trail[r] <=> logged = {5}
    BY <1>6 DEF Dispatch
  <2>2. TrailFits(r)'
    BY <2>1, Logs DEF TrailFits
  <2>3. QED
    BY <2>1, <2>2, NodeGood
<1>7. CASE Verify(r)
  <2>1. Node(r, "verify", {6}, "finish")
    BY <1>7 DEF Verify
  <2>2. TrailFits(r)'
    BY <2>1, Logs DEF TrailFits
  <2>3. QED
    BY <2>1, <2>2, NodeGood
<1>8. QED
  BY <1>1, <1>2, <1>3, <1>4, <1>5, <1>6, <1>7 DEF InGraph

LEMMA GraphRaisesGood == ASSUME RunsInv, NEW r \in Runs, GraphRaises(r) PROVE RunsInv'
<1>1. Good(r)
  BY DEF RunsInv
<1>2. Typed'
  BY DEF GraphRaises, At, Go, memory, incidents, RunsInv, Typed, Steps, Graph
<1>3. task[r] \in Graph /\ task'[r] = "file"
  BY DEF GraphRaises, At, Go, memory, incidents, RunsInv, Typed
<1>4. Good(r)'
  BY <1>1, <1>3 DEF GraphRaises, At, Go, memory, incidents, Good, RowFits, EntryFits,
    Traced, PageFits, TrailFits, Graph
<1>5. \A q \in Runs : q # r =>
          /\ task'[q] = task[q] /\ outcome'[q] = outcome[q] /\ row'[q] = row[q]
          /\ trail'[q] = trail[q]
          /\ entry'[q] \in {entry[q], "none"} /\ page'[q] = page[q]
  BY DEF GraphRaises, At, Go, memory, incidents, RunsInv, Typed
<1>6. files \subseteq files' /\ stream \subseteq stream' /\ console \subseteq console'
  BY DEF GraphRaises, At, Go, memory, incidents
<1>7. QED
  BY <1>2, <1>4, <1>5, <1>6, StepOfOne

LEMMA RunCompletedGood == ASSUME RunsInv, NEW r \in Runs, FinishRun(r, "finish", "completed") PROVE RunsInv'
<1>1. Good(r)
  BY DEF RunsInv
<1>2. Typed'
  BY DEF FinishRun, At, Go, memory, incidents, RunsInv, Typed, Steps, Graph, RowStates, Outcomes
<1>3. task[r] = "finish" /\ task'[r] = "publish" /\ row'[r] = "completed"
      /\ outcome'[r] = "completed"
  BY DEF FinishRun, At, Go, memory, incidents, RunsInv, Typed
<1>4. Good(r)'
  BY <1>1, <1>3 DEF FinishRun, At, Go, memory, incidents, Good, RowFits, EntryFits, Traced,
    PageFits, TrailFits, Graph
<1>5. \A q \in Runs : q # r =>
          /\ task'[q] = task[q] /\ outcome'[q] = outcome[q] /\ row'[q] = row[q]
          /\ trail'[q] = trail[q]
          /\ entry'[q] \in {entry[q], "none"} /\ page'[q] = page[q]
  BY DEF FinishRun, At, Go, memory, incidents, RunsInv, Typed
<1>6. files \subseteq files' /\ stream \subseteq stream' /\ console \subseteq console'
  BY DEF FinishRun, At, Go, memory, incidents
<1>7. QED
  BY <1>2, <1>4, <1>5, <1>6, StepOfOne

LEMMA RunFailedGood == ASSUME RunsInv, NEW r \in Runs, FinishRun(r, "close", "failed") PROVE RunsInv'
<1>1. Good(r)
  BY DEF RunsInv
<1>2. Typed'
  BY DEF FinishRun, At, Go, memory, incidents, RunsInv, Typed, Steps, Graph, RowStates, Outcomes
<1>3. task[r] = "close" /\ task'[r] = "publish" /\ row'[r] = "failed"
      /\ outcome'[r] = "failed"
  BY DEF FinishRun, At, Go, memory, incidents, RunsInv, Typed
<1>4. Good(r)'
  BY <1>1, <1>3 DEF FinishRun, At, Go, memory, incidents, Good, RowFits, EntryFits, Traced,
    PageFits, TrailFits, Graph
<1>5. \A q \in Runs : q # r =>
          /\ task'[q] = task[q] /\ outcome'[q] = outcome[q] /\ row'[q] = row[q]
          /\ trail'[q] = trail[q]
          /\ entry'[q] \in {entry[q], "none"} /\ page'[q] = page[q]
  BY DEF FinishRun, At, Go, memory, incidents, RunsInv, Typed
<1>6. files \subseteq files' /\ stream \subseteq stream' /\ console \subseteq console'
  BY DEF FinishRun, At, Go, memory, incidents
<1>7. QED
  BY <1>2, <1>4, <1>5, <1>6, StepOfOne

LEMMA WriteFileGood == ASSUME RunsInv, NEW r \in Runs, WriteFile(r) PROVE RunsInv'
<1>1. Good(r)
  BY DEF RunsInv
<1>2. Typed'
  BY DEF WriteFile, At, Go, memory, incidents, RunsInv, Typed, Steps, Graph
<1>3. task[r] = "file" /\ task'[r] = "stream"
  BY DEF WriteFile, At, Go, memory, incidents, RunsInv, Typed
<1>4. Good(r)'
  BY <1>1, <1>3 DEF WriteFile, At, Go, memory, incidents, Good, RowFits, EntryFits, Traced,
    PageFits, TrailFits, Graph
<1>5. \A q \in Runs : q # r =>
          /\ task'[q] = task[q] /\ outcome'[q] = outcome[q] /\ row'[q] = row[q]
          /\ trail'[q] = trail[q]
          /\ entry'[q] \in {entry[q], "none"} /\ page'[q] = page[q]
  BY DEF WriteFile, At, Go, memory, incidents, RunsInv, Typed
<1>6. files \subseteq files' /\ stream \subseteq stream' /\ console \subseteq console'
  BY DEF WriteFile, At, Go, memory, incidents
<1>7. QED
  BY <1>2, <1>4, <1>5, <1>6, StepOfOne

LEMMA AppendStreamGood == ASSUME RunsInv, NEW r \in Runs, AppendStream(r) PROVE RunsInv'
<1>1. Good(r)
  BY DEF RunsInv
<1>2. Typed'
  BY DEF AppendStream, At, Go, memory, incidents, RunsInv, Typed, Steps, Graph
<1>3. task[r] = "stream" /\ task'[r] = "console"
  BY DEF AppendStream, At, Go, memory, incidents, RunsInv, Typed
<1>4. Good(r)'
  BY <1>1, <1>3 DEF AppendStream, At, Go, memory, incidents, Good, RowFits, EntryFits,
    Traced, PageFits, TrailFits, Graph
<1>5. \A q \in Runs : q # r =>
          /\ task'[q] = task[q] /\ outcome'[q] = outcome[q] /\ row'[q] = row[q]
          /\ trail'[q] = trail[q]
          /\ entry'[q] \in {entry[q], "none"} /\ page'[q] = page[q]
  BY DEF AppendStream, At, Go, memory, incidents, RunsInv, Typed
<1>6. files \subseteq files' /\ stream \subseteq stream' /\ console \subseteq console'
  BY DEF AppendStream, At, Go, memory, incidents
<1>7. QED
  BY <1>2, <1>4, <1>5, <1>6, StepOfOne

LEMMA ShowGood == ASSUME RunsInv, NEW r \in Runs, Show(r) PROVE RunsInv'
<1>1. Good(r)
  BY DEF RunsInv
<1>2. Typed'
  BY DEF Show, At, Go, memory, incidents, RunsInv, Typed, Steps, Graph
<1>3. task[r] = "console" /\ task'[r] = "mail"
  BY DEF Show, At, Go, memory, incidents, RunsInv, Typed
<1>4. Good(r)'
  BY <1>1, <1>3 DEF Show, At, Go, memory, incidents, Good, RowFits, EntryFits, Traced,
    PageFits, TrailFits, Graph
<1>5. \A q \in Runs : q # r =>
          /\ task'[q] = task[q] /\ outcome'[q] = outcome[q] /\ row'[q] = row[q]
          /\ trail'[q] = trail[q]
          /\ entry'[q] \in {entry[q], "none"} /\ page'[q] = page[q]
  BY DEF Show, At, Go, memory, incidents, RunsInv, Typed
<1>6. files \subseteq files' /\ stream \subseteq stream' /\ console \subseteq console'
  BY DEF Show, At, Go, memory, incidents
<1>7. QED
  BY <1>2, <1>4, <1>5, <1>6, StepOfOne

LEMMA MailGood == ASSUME RunsInv, NEW r \in Runs, Mail(r) PROVE RunsInv'
<1>1. Good(r)
  BY DEF RunsInv
<1>2. Typed'
  BY DEF Mail, At, Go, memory, incidents, RunsInv, Typed, Steps, Graph, Rest
<1>3. task[r] = "mail" /\ task'[r] = IF Rejected(r) THEN "ended" ELSE "close"
  BY DEF Mail, At, Go, memory, incidents, RunsInv, Typed
<1>4. Good(r)'
  BY <1>1, <1>3 DEF Mail, Rejected, At, Go, memory, incidents, Good, RowFits, EntryFits,
    Traced, PageFits, TrailFits, Graph
<1>5. \A q \in Runs : q # r =>
          /\ task'[q] = task[q] /\ outcome'[q] = outcome[q] /\ row'[q] = row[q]
          /\ trail'[q] = trail[q]
          /\ entry'[q] \in {entry[q], "none"} /\ page'[q] = page[q]
  BY DEF Mail, At, Go, memory, incidents, RunsInv, Typed
<1>6. files \subseteq files' /\ stream \subseteq stream' /\ console \subseteq console'
  BY DEF Mail, At, Go, memory, incidents
<1>7. QED
  BY <1>2, <1>4, <1>5, <1>6, StepOfOne

LEMMA FailGood == ASSUME RunsInv, NEW r \in Runs, Fail(r) PROVE RunsInv'
<1>1. Good(r)
  BY DEF RunsInv
<1>2. Typed'
  BY DEF Fail, At, Go, memory, incidents, RunsInv, Typed, Steps, Graph, Rest
<1>3. task[r] \in Fragile /\ task'[r] = IF Rejected(r) THEN "ended" ELSE "raise"
  BY DEF Fail, At, Go, memory, incidents, RunsInv, Typed
<1>4. Good(r)'
  BY <1>1, <1>3 DEF Fail, Fragile, Rejected, At, Go, memory, incidents, Good, RowFits,
    EntryFits, Traced, PageFits, TrailFits, Graph
<1>5. \A q \in Runs : q # r =>
          /\ task'[q] = task[q] /\ outcome'[q] = outcome[q] /\ row'[q] = row[q]
          /\ trail'[q] = trail[q]
          /\ entry'[q] \in {entry[q], "none"} /\ page'[q] = page[q]
  BY DEF Fail, At, Go, memory, incidents, RunsInv, Typed
<1>6. files \subseteq files' /\ stream \subseteq stream' /\ console \subseteq console'
  BY DEF Fail, At, Go, memory, incidents
<1>7. QED
  BY <1>2, <1>4, <1>5, <1>6, StepOfOne

----------------------------------------------------------------------------
\* The thread publishes, the page polls, the process crashes.

LEMMA PublishGood == ASSUME RunsInv, NEW r \in Runs, Publish(r) PROVE RunsInv'
<1>1. Good(r)
  BY DEF RunsInv
<1>2. Typed'
  BY DEF Publish, Put, At, Go, incidents, RunsInv, Typed, Steps, Graph, Rest, EntryStates,
    Outcomes
<1>3. task[r] = "publish" /\ task'[r] = "ended" /\ entry'[r] = outcome[r]
  BY DEF Publish, Put, At, Go, incidents, RunsInv, Typed
<1>4. Good(r)'
  BY <1>1, <1>3 DEF Publish, Put, At, Go, incidents, Good, RowFits, EntryFits, Traced,
    PageFits, TrailFits, Graph
<1>5. \A q \in Runs : q # r =>
          /\ task'[q] = task[q] /\ outcome'[q] = outcome[q] /\ row'[q] = row[q]
          /\ trail'[q] = trail[q]
          /\ entry'[q] \in {entry[q], "none"} /\ page'[q] = page[q]
  BY DEF Publish, Put, At, Go, incidents, RunsInv, Typed
<1>6. files \subseteq files' /\ stream \subseteq stream' /\ console \subseteq console'
  BY DEF Publish, Put, At, Go, incidents
<1>7. QED
  BY <1>2, <1>4, <1>5, <1>6, StepOfOne

LEMMA RaiseGood == ASSUME RunsInv, NEW r \in Runs, Raise(r) PROVE RunsInv'
<1>1. Good(r)
  BY DEF RunsInv
<1>2. Typed'
  BY DEF Raise, Put, At, Go, incidents, RunsInv, Typed, Steps, Graph, Rest, EntryStates
<1>3. task[r] = "raise" /\ task'[r] = "ended" /\ entry'[r] = "error"
  BY DEF Raise, Put, At, Go, incidents, RunsInv, Typed
<1>4. Good(r)'
  BY <1>1, <1>3 DEF Raise, Put, At, Go, incidents, Good, RowFits, EntryFits, Traced,
    PageFits, TrailFits, Graph
<1>5. \A q \in Runs : q # r =>
          /\ task'[q] = task[q] /\ outcome'[q] = outcome[q] /\ row'[q] = row[q]
          /\ trail'[q] = trail[q]
          /\ entry'[q] \in {entry[q], "none"} /\ page'[q] = page[q]
  BY DEF Raise, Put, At, Go, incidents, RunsInv, Typed
<1>6. files \subseteq files' /\ stream \subseteq stream' /\ console \subseteq console'
  BY DEF Raise, Put, At, Go, incidents
<1>7. QED
  BY <1>2, <1>4, <1>5, <1>6, StepOfOne

LEMMA PollGood == ASSUME RunsInv, NEW r \in Runs, Poll(r) PROVE RunsInv'
<1>1. Good(r)
  BY DEF RunsInv
<1>2. Typed'
  BY DEF Poll, memory, incidents, RunsInv, Typed, Pages
<1>3. page[r] = "polling" /\ page'[r] # "none"
  BY DEF Poll, memory, incidents, RunsInv, Typed
<1>4. Good(r)'
  BY <1>1, <1>3 DEF Poll, memory, incidents, Good, RowFits, EntryFits, Traced, PageFits,
    TrailFits, Graph
<1>5. \A q \in Runs : q # r =>
          /\ task'[q] = task[q] /\ outcome'[q] = outcome[q] /\ row'[q] = row[q]
          /\ trail'[q] = trail[q]
          /\ entry'[q] \in {entry[q], "none"} /\ page'[q] = page[q]
  BY DEF Poll, memory, incidents, RunsInv, Typed
<1>6. files \subseteq files' /\ stream \subseteq stream' /\ console \subseteq console'
  BY DEF Poll, memory, incidents
<1>7. QED
  BY <1>2, <1>4, <1>5, <1>6, StepOfOne

LEMMA CrashGood == ASSUME RunsInv, Crash PROVE RunsInv'
<1>1. Typed'
  BY DEF Crash, RunsInv, Typed, Steps, Graph, Rest, EntryStates
<1>2. ASSUME NEW r \in Runs PROVE Good(r)'
  <2>1. /\ Good(r) /\ entry'[r] = "none"
        /\ task'[r] = IF task[r] \in Rest THEN task[r] ELSE "down"
    BY DEF Crash, RunsInv
  <2>2. QED
    BY <2>1 DEF Crash, incidents, Rest, Good, RowFits, EntryFits, Traced, PageFits,
      TrailFits, Graph
<1>3. QED
  BY <1>1, <1>2 DEF RunsInv

LEMMA IdleGood == RunsInv /\ UNCHANGED vars => RunsInv'
BY DEF vars, memory, incidents, RunsInv, Typed, Good, RowFits, EntryFits, Traced, PageFits,
  TrailFits, Graph

LEMMA NextGood == RunsInv /\ [Next]_vars => RunsInv'
BY LaunchGood, RejectGood, StartRunGood, GraphGood, GraphRaisesGood,
   RunCompletedGood, RunFailedGood, WriteFileGood, AppendStreamGood, ShowGood,
   MailGood, FailGood, PublishGood, RaiseGood, PollGood, CrashGood, IdleGood
DEF Next, Work, InGraph, Incident

LEMMA AlwaysGood == Spec => []RunsInv
BY InitGood, NextGood, PTL DEF Spec

----------------------------------------------------------------------------
\* The registry.

Distinct(s) == \A m, n \in DOMAIN s : s[m] = s[n] => m = n
Holds(s, r) == \E n \in DOMAIN s : s[n] = r

\* The registry holds a run at most once, and the runs that have a record.
Keyed ==
    /\ registry \in Seq(Runs)
    /\ Distinct(registry)
    /\ \A r \in Runs : entry[r] # "none" <=> Holds(registry, r)

LEMMA Appended ==
    ASSUME NEW s \in Seq(Runs), NEW r \in Runs, Distinct(s), ~ Holds(s, r)
    PROVE  /\ Append(s, r) \in Seq(Runs)
           /\ Distinct(Append(s, r))
           /\ \A q \in Runs : Holds(Append(s, r), q) <=> Holds(s, q) \/ q = r
<1> DEFINE t == Append(s, r)
<1>1. t \in Seq(Runs) /\ Len(t) = Len(s) + 1
  OBVIOUS
<1>2. DOMAIN s = 1 .. Len(s) /\ Len(s) \in Nat /\ DOMAIN t = 1 .. Len(s) + 1
  OBVIOUS
<1>3. t[Len(s) + 1] = r /\ \A n \in 1 .. Len(s) : t[n] = s[n]
  OBVIOUS
<1> HIDE DEF t
<1>4. Distinct(t)
  BY <1>2, <1>3 DEF Distinct, Holds
<1>5. ASSUME NEW q \in Runs PROVE Holds(t, q) <=> Holds(s, q) \/ q = r
  BY <1>2, <1>3 DEF Holds
<1>6. QED
  BY <1>1, <1>4, <1>5 DEF t

LEMMA Moved ==
    ASSUME NEW s \in Seq(Runs), NEW r \in Runs, Distinct(s), Holds(s, r)
    PROVE  /\ MoveToEnd(s, r) \in Seq(Runs)
           /\ Distinct(MoveToEnd(s, r))
           /\ \A q \in Runs : Holds(MoveToEnd(s, r), q) <=> Holds(s, q)
<1> DEFINE n == CHOOSE n \in DOMAIN s : s[n] = r
<1> DEFINE t == MoveToEnd(s, r)
<1>1. n \in 1 .. Len(s) /\ s[n] = r
  BY DEF Holds
<1>2. t = [m \in 1 .. Len(s) |-> IF m < n THEN s[m] ELSE IF m < Len(s) THEN s[m + 1] ELSE r]
  BY DEF MoveToEnd
<1> HIDE DEF n, t
<1>3. t \in Seq(Runs) /\ Len(t) = Len(s) /\ DOMAIN t = 1 .. Len(s) /\ DOMAIN s = 1 .. Len(s)
  BY <1>1, <1>2
<1>4. Distinct(t)
  BY <1>1, <1>2, <1>3 DEF Distinct
<1>5. ASSUME NEW q \in Runs PROVE Holds(t, q) <=> Holds(s, q)
  <2>1. ASSUME NEW m \in DOMAIN t PROVE Holds(s, t[m])
    <3>1. CASE m < n
      BY <1>1, <1>2, <1>3, <3>1 DEF Holds
    <3>2. CASE ~ (m < n) /\ m < Len(s)
      <4>1. t[m] = s[m + 1] /\ m + 1 \in DOMAIN s
        BY <1>1, <1>2, <1>3, <3>2
      <4>2. QED
        BY <4>1 DEF Holds
    <3>3. CASE ~ (m < n) /\ ~ (m < Len(s))
      BY <1>1, <1>2, <1>3, <3>3 DEF Holds
    <3>4. QED
      BY <3>1, <3>2, <3>3
  <2>2. ASSUME NEW m \in DOMAIN s PROVE Holds(t, s[m])
    <3>1. CASE m < n
      BY <1>1, <1>2, <1>3, <3>1 DEF Holds
    <3>2. CASE m = n
      <4>1. t[Len(s)] = r /\ Len(s) \in DOMAIN t
        BY <1>1, <1>2, <1>3
      <4>2. QED
        BY <1>1, <3>2, <4>1 DEF Holds
    <3>3. CASE m > n
      <4>1. t[m - 1] = s[m] /\ m - 1 \in DOMAIN t
        BY <1>1, <1>2, <1>3, <3>3
      <4>2. QED
        BY <4>1 DEF Holds
    <3>4. QED
      BY <1>1, <1>3, <3>1, <3>2, <3>3
  <2>3. QED
    BY <2>1, <2>2 DEF Holds
<1>6. QED
  BY <1>3, <1>4, <1>5 DEF t

LEMMA Evicted ==
    ASSUME NEW s \in Seq(Runs), Distinct(s)
    PROVE  /\ Evict(s) \in Seq(Runs)
           /\ Distinct(Evict(s))
           /\ Len(Evict(s)) <= MaxEntries
<1>1. CASE Len(s) > MaxEntries
  <2> DEFINE t == Evict(s)
             d == Len(s) - MaxEntries
  <2>1. t = SubSeq(s, d + 1, Len(s)) /\ d \in Nat /\ MaxEntries \in Nat
    BY <1>1, EntriesAssumption DEF Evict
  <2> HIDE DEF t
  <2>2. t \in Seq(Runs) /\ Len(t) = MaxEntries /\ DOMAIN t = 1 .. MaxEntries
    BY <2>1, EntriesAssumption
  <2>3. \A n \in 1 .. MaxEntries : t[n] = s[n + d] /\ n + d \in DOMAIN s
    BY <2>1, EntriesAssumption
  <2>4. Distinct(t)
    BY <2>1, <2>2, <2>3 DEF Distinct
  <2>5. QED
    BY <2>2, <2>4, EntriesAssumption DEF t
<1>2. CASE ~ (Len(s) > MaxEntries)
  BY <1>2, EntriesAssumption DEF Evict
<1>3. QED
  BY <1>1, <1>2

LEMMA EvictedHolds ==
    ASSUME NEW s \in Seq(Runs), NEW q, Holds(Evict(s), q)
    PROVE  Holds(s, q)
<1>1. CASE Len(s) > MaxEntries
  <2>0. DOMAIN Evict(s) = 1 .. MaxEntries
    BY <1>1, EntriesAssumption DEF Evict
  <2>1. PICK n \in 1 .. MaxEntries : Evict(s)[n] = q
    BY <2>0 DEF Holds
  <2>2. Evict(s)[n] = s[n + Len(s) - MaxEntries]
        /\ n + Len(s) - MaxEntries \in DOMAIN s
    BY <1>1, EntriesAssumption DEF Evict
  <2>3. QED
    BY <2>1, <2>2 DEF Holds
<1>2. CASE ~ (Len(s) > MaxEntries)
  BY <1>2 DEF Evict
<1>3. QED
  BY <1>1, <1>2

LEMMA InitKeyed == Init => Keyed
<1>1. ASSUME Init PROVE Keyed
  <2>1. registry = << >> /\ entry = [r \in Runs |-> "none"]
    BY <1>1 DEF Init
  <2>2. QED
    BY <2>1 DEF Keyed, Distinct, Holds
<1>2. QED
  BY <1>1

\* An upload finds no record of its run.
LEMMA RegisterKeyed ==
    ASSUME RunsInv, Keyed, NEW r \in Runs, Register(r), entry[r] = "none"
    PROVE  Keyed'
<1> DEFINE kept == Evict(Append(registry, r))
<1>1. kept \in Seq(Runs) /\ Distinct(kept)
  BY Appended, Evicted DEF Keyed
<1>2. registry' = kept
  BY DEF Register
<1>3. ASSUME NEW q \in Runs PROVE entry'[q] # "none" <=> Holds(kept, q)
  <2>1. entry'[q] = IF ~ Holds(kept, q) THEN "none"
                    ELSE IF q = r THEN "pending" ELSE entry[q]
    BY DEF Register, Holds
  <2>2. Holds(kept, q) => Holds(Append(registry, r), q)
    BY Appended, EvictedHolds DEF Keyed
  <2>3. Holds(kept, q) => q = r \/ entry[q] # "none"
    BY <2>2, Appended DEF Keyed
  <2>4. QED
    BY <2>1, <2>3
<1> HIDE DEF kept
<1>4. QED
  BY <1>1, <1>2, <1>3 DEF Keyed

LEMMA PutKeyed ==
    ASSUME RunsInv, Keyed, NEW r \in Runs, NEW state \in EntryStates \ {"none"},
           Put(r, state)
    PROVE  Keyed'
<1>1. \A q \in Runs : entry'[q] # "none" <=> entry[q] # "none" \/ q = r
  BY DEF RunsInv, Typed, Put
<1>2. CASE Holds(registry, r)
  <2>1. registry' = MoveToEnd(registry, r)
    BY <1>2 DEF Put, Holds
  <2>2. QED
    BY <1>1, <1>2, <2>1, Moved DEF Keyed
<1>3. CASE ~ Holds(registry, r)
  <2>1. registry' = Append(registry, r)
    BY <1>3 DEF Put, Holds
  <2>2. QED
    BY <1>1, <1>3, <2>1, Appended DEF Keyed
<1>4. QED
  BY <1>2, <1>3

LEMMA NextKeyed == RunsInv /\ Keyed /\ [Next]_vars => Keyed'
<1> SUFFICES ASSUME RunsInv, Keyed, [Next]_vars PROVE Keyed'
  OBVIOUS
<1>1. CASE \E r \in Runs : Launch(r)
  <2>1. PICK r \in Runs : Launch(r)
    BY <1>1
  <2>2. entry[r] = "none"
    BY <2>1 DEF Launch, Arrives, At, RunsInv, Good, PageFits
  <2>3. QED
    BY <2>1, <2>2, RegisterKeyed DEF Launch
<1>2. CASE \E r \in Runs : Publish(r)
  <2>1. PICK r \in Runs : Publish(r)
    BY <1>2
  <2>2. outcome[r] \in EntryStates \ {"none"}
    BY <2>1 DEF Publish, At, RunsInv, Good, RowFits, EntryStates
  <2>3. QED
    BY <2>1, <2>2, PutKeyed DEF Publish
<1>3. CASE \E r \in Runs : Raise(r)
  BY <1>3, PutKeyed DEF Raise, EntryStates
<1>4. CASE Crash
  <2>1. registry' = << >> /\ entry' = [r \in Runs |-> "none"]
    BY <1>4 DEF Crash
  <2>2. QED
    BY <2>1 DEF Keyed, Distinct, Holds
<1>5. CASE UNCHANGED memory
  BY <1>5 DEF memory, Keyed
<1>6. QED
  BY <1>1, <1>2, <1>3, <1>4, <1>5
  DEF Next, Work, Incident, Reject, StartRun, InGraph, Node, Reconcile,
      Degrade, Fuzzy, Classify, Decide, Dispatch, Verify, GraphRaises, FinishRun,
      WriteFile, AppendStream, Show, Mail, Fail, Poll, vars, memory

LEMMA AlwaysKeyed == Spec => [](RunsInv /\ Keyed)
<1>1. RunsInv /\ Keyed /\ [Next]_vars => (RunsInv /\ Keyed)'
  BY NextGood, NextKeyed
<1>2. QED
  BY <1>1, InitGood, InitKeyed, PTL DEF Spec

----------------------------------------------------------------------------
\* The pending records.

Pending == {r \in Runs : entry[r] = "pending"}

LEMMA FinitePending == IsFiniteSet(Runs) /\ IsFiniteSet(Pending)
<1>1. IsFiniteSet(Runs)
  BY FS_Interval, BoundsAssumption DEF Runs
<1>2. QED
  BY <1>1, FS_Subset DEF Pending

\* A sequence does not hold more runs than it is long.
LEMMA HeldBounded ==
    ASSUME NEW s \in Seq(Runs)
    PROVE  LET held == {r \in Runs : Holds(s, r)} IN
           IsFiniteSet(held) /\ Cardinality(held) <= Len(s)
<1> DEFINE held == {r \in Runs : Holds(s, r)}
<1>1. IsFiniteSet(held)
  BY FinitePending, FS_Subset
<1>2. s \in Surjection(1 .. Len(s), held)
  <2>1. s \in [1 .. Len(s) -> held]
    <3>1. s \in [1 .. Len(s) -> Runs] /\ DOMAIN s = 1 .. Len(s)
      OBVIOUS
    <3>2. \A n \in 1 .. Len(s) : s[n] \in held
      BY <3>1 DEF Holds
    <3>3. QED
      BY <3>1, <3>2
  <2>2. \A r \in held : \E n \in 1 .. Len(s) : s[n] = r
    BY DEF Holds
  <2>3. QED
    BY <2>1, <2>2 DEF Surjection
<1> HIDE DEF held
<1>3. Len(s) \in Nat /\ ExistsSurjection(1 .. Len(s), held)
  <2>1. Len(s) \in Nat
    OBVIOUS
  <2>2. Surjection(1 .. Len(s), held) # {}
    BY <1>2
  <2>3. QED
    BY <2>1, <2>2 DEF ExistsSurjection
<1>4. Cardinality(held) <= Len(s)
  BY <1>3, FS_SurjCardinalityBound
<1>5. QED
  BY <1>1, <1>4 DEF held

LEMMA RegisterBounds ==
    ASSUME RunsInv, Keyed, NEW r \in Runs, Register(r), entry[r] = "none"
    PROVE  PendingBounded'
<1> DEFINE kept == Evict(Append(registry, r))
           held == {q \in Runs : Holds(kept, q)}
<1>1. kept \in Seq(Runs) /\ Len(kept) <= MaxEntries /\ Len(kept) \in Nat
  <2>1. Append(registry, r) \in Seq(Runs) /\ Distinct(Append(registry, r))
    BY Appended DEF Keyed
  <2>2. kept \in Seq(Runs) /\ Len(kept) <= MaxEntries
    BY <2>1, Evicted
  <2> HIDE DEF kept
  <2>3. QED
    BY <2>2
<1>2. Pending' \subseteq held
  <2>1. ASSUME NEW q \in Runs, entry'[q] = "pending" PROVE Holds(kept, q)
    <3>1. ~ Holds(kept, q) => entry'[q] = "none"
      BY DEF Register, Holds
    <3>2. QED
      BY <2>1, <3>1
  <2> HIDE DEF kept
  <2>2. QED
    BY <2>1 DEF Pending
<1> HIDE DEF kept
<1>3. IsFiniteSet(held) /\ Cardinality(held) <= Len(kept)
  BY <1>1, HeldBounded
<1> HIDE DEF held
<1>4. Cardinality(Pending') <= Cardinality(held)
  BY <1>2, <1>3, FS_Subset
<1>5. Cardinality(Pending') \in Nat /\ Cardinality(held) \in Nat
  BY <1>2, <1>3, FS_Subset, FS_CardinalityType
<1>6. Cardinality(Pending') <= MaxEntries
  BY <1>1, <1>3, <1>4, <1>5, EntriesAssumption
<1>7. QED
  BY <1>6 DEF PendingBounded, Pending

LEMMA FewerPending ==
    ASSUME PendingBounded, Pending' \subseteq Pending
    PROVE  PendingBounded'
<1>1. Cardinality(Pending') <= Cardinality(Pending)
      /\ Cardinality(Pending') \in Nat /\ Cardinality(Pending) \in Nat
  BY FinitePending, FS_Subset, FS_CardinalityType
<1>2. Cardinality(Pending) <= MaxEntries
  BY DEF PendingBounded, Pending
<1>3. Cardinality(Pending') <= MaxEntries
  BY <1>1, <1>2, EntriesAssumption
<1>4. QED
  BY <1>3 DEF PendingBounded, Pending

LEMMA NextBounded == RunsInv /\ Keyed /\ PendingBounded /\ [Next]_vars => PendingBounded'
<1> SUFFICES ASSUME RunsInv, Keyed, PendingBounded, [Next]_vars PROVE PendingBounded'
  OBVIOUS
<1>1. CASE \E r \in Runs : Launch(r)
  <2>1. PICK r \in Runs : Launch(r)
    BY <1>1
  <2>2. entry[r] = "none"
    BY <2>1 DEF Launch, Arrives, At, RunsInv, Good, PageFits
  <2>3. QED
    BY <2>1, <2>2, RegisterBounds DEF Launch
<1>2. CASE \E r \in Runs : Publish(r) \/ Raise(r)
  <2>1. PICK r \in Runs, state \in EntryStates \ {"pending"} :
            entry' = [entry EXCEPT ![r] = state]
    BY <1>2 DEF Publish, Raise, Put, At, RunsInv, Good, RowFits, EntryStates
  <2>2. Pending' \subseteq Pending
    BY <2>1 DEF Pending, RunsInv, Typed
  <2>3. QED
    BY <2>2, FewerPending
<1>3. CASE Crash
  <2>1. Pending' \subseteq Pending
    BY <1>3 DEF Crash, Pending
  <2>2. QED
    BY <2>1, FewerPending
<1>4. CASE UNCHANGED entry
  BY <1>4 DEF PendingBounded
<1>5. QED
  BY <1>1, <1>2, <1>3, <1>4
  DEF Next, Work, Incident, Reject, StartRun, InGraph, Node, Reconcile,
      Degrade, Fuzzy, Classify, Decide, Dispatch, Verify, GraphRaises, FinishRun,
      WriteFile, AppendStream, Show, Mail, Fail, Poll, vars, memory

\* However many runs are launched, at most MaxEntries records are pending: a
\* launch evicts, and nothing else makes a record pending.
THEOREM PendingStaysBounded == Spec => []PendingBounded
<1>1. Init => PendingBounded
  <2>1. ASSUME Init PROVE Pending = {}
    BY <2>1 DEF Init, Pending
  <2>2. Cardinality({}) = 0
    BY FS_EmptySet
  <2>3. QED
    BY <2>1, <2>2, EntriesAssumption DEF PendingBounded, Pending
<1>2. QED
  BY <1>1, NextBounded, AlwaysKeyed, PTL DEF Spec

----------------------------------------------------------------------------
\* The files and the counter, for the types.

Plain == files \subseteq Runs /\ stream \subseteq Runs /\ console \subseteq Runs /\ crashes \in Nat

LEMMA AlwaysPlain == Spec => []Plain
<1>1. Init => Plain
  BY DEF Init, Plain
<1>2. ASSUME Plain, NEW r \in Runs, Incident(r) PROVE Plain'
  BY <1>2 DEF Plain, Incident, WriteFile, AppendStream, Show, Mail
<1>3. ASSUME Plain, Crash PROVE Plain'
  BY <1>3 DEF Plain, Crash, incidents
<1>4. ASSUME Plain, UNCHANGED <<incidents, crashes>> PROVE Plain'
  BY <1>4 DEF Plain, incidents
<1>5. Plain /\ [Next]_vars => Plain'
  BY <1>2, <1>3, <1>4
  DEF Next, Launch, Reject, Work, StartRun, InGraph, Node, Reconcile,
      Degrade, Fuzzy, Classify, Decide, Dispatch, Verify, GraphRaises, FinishRun, Fail,
      Publish, Raise, Poll, vars
<1>6. QED
  BY <1>1, <1>5, PTL DEF Spec

\* Types, and the registry: no run is in it twice, and it holds just the runs that
\* have a record, through every eviction and return of a record.
THEOREM TypeCorrect == Spec => []TypeOK
<1>1. RunsInv /\ Keyed /\ Plain => TypeOK
  <2> SUFFICES ASSUME RunsInv, Keyed, Plain PROVE TypeOK
    OBVIOUS
  <2>1. /\ task \in [Runs -> Steps \union Rest]
        /\ trail \in [Runs -> SUBSET (1 .. 6)]
        /\ outcome \in [Runs -> Outcomes] /\ row \in [Runs -> RowStates]
        /\ entry \in [Runs -> EntryStates] /\ page \in [Runs -> Pages]
    BY DEF RunsInv, Typed
  <2>2. /\ registry \in Seq(Runs)
        /\ \A m, n \in DOMAIN registry : registry[m] = registry[n] => m = n
        /\ \A r \in Runs : entry[r] # "none" <=> \E n \in DOMAIN registry : registry[n] = r
    BY DEF Keyed, Distinct, Holds
  <2>3. {files, stream, console} \subseteq SUBSET Runs /\ crashes \in Nat
    BY DEF Plain
  <2>4. QED
    BY <2>1, <2>2, <2>3, Zenon DEF TypeOK, Outcomes, RowStates, EntryStates, Pages
<1>2. QED
  BY <1>1, AlwaysKeyed, AlwaysPlain, PTL

----------------------------------------------------------------------------
\* What the registry answers of a run agrees with its row, for any number of
\* uploads, evictions, failures and crashes.
THEOREM AnswersAgree == Spec => []AnswersMatchRows
<1>1. RunsInv => AnswersMatchRows
  BY DEF RunsInv, Typed, AnswersMatchRows, Good, EntryFits, RowFits, Rest
<1>2. QED
  BY <1>1, AlwaysGood, PTL

\* A row that says failed has its incident in the file, in the stream and on the
\* console: the row is written last.
THEOREM FailuresLeaveTraces == Spec => []FailuresAreOnFile
<1>1. RunsInv => FailuresAreOnFile
  BY DEF RunsInv, FailuresAreOnFile, Good, Traced
<1>2. QED
  BY <1>1, AlwaysGood, PTL

\* A run that ended with its row still running is reported as an error as long
\* as the registry knows it.
THEOREM StuckRowsReported == Spec => []StuckRowsAreReported
<1>1. RunsInv => StuckRowsAreReported
  BY DEF RunsInv, StuckRowsAreReported, At, Good, EntryFits
<1>2. QED
  BY <1>1, AlwaysGood, PTL

\* The audit trail agrees with the row of its run, for any number of runs,
\* failures and crashes: it is complete under a completed row, cut short under a
\* failed one, and without gaps where it reached its end.
THEOREM TrailsAgree == Spec => []TrailsFitRows
<1>1. RunsInv => TrailsFitRows
  BY DEF RunsInv, TrailsFitRows, Good, TrailFits
<1>2. QED
  BY <1>1, AlwaysGood, PTL
----------------------------------------------------------------------------
(***************************************************************************)
(* The verdicts.  A page that was told of an end belongs to a run that has   *)
(* ended, and a run that launched is closed after a failure only while its   *)
(* row is running; with these every step is one of Verdicts or a stutter.    *)
(***************************************************************************)

Ends == {"completed", "failed"}

onFile == files \intersect stream \intersect console
promised == <<row, trail, onFile, page>>

ToldFits(r) ==
    /\ page[r] \in Ends => task[r] = "ended"
    /\ page[r] = "completed" => row[r] \in Ends
    /\ page[r] = "failed" => row[r] \notin Ends
    /\ task[r] \in {"file", "stream", "console", "mail", "close"} /\ page[r] # "none"
       => row[r] = "running"
    /\ task[r] \in Graph \union {"none", "start", "finish"} => r \notin files

ToldInv == \A r \in Runs : ToldFits(r)

LEMMA InitTold == Init => ToldInv /\ Promise!Init
BY DEF Init, ToldInv, ToldFits, Ends, Graph, Promise!Init

\* What a step of r leaves of the other runs.
LEMMA OthersTold ==
    ASSUME ToldInv, NEW r \in Runs, ToldFits(r)',
           \A q \in Runs : q # r =>
               /\ task'[q] = task[q] /\ row'[q] = row[q] /\ page'[q] = page[q]
               /\ q \in files' <=> q \in files
    PROVE  ToldInv'
<1>1. ASSUME NEW q \in Runs, q # r PROVE ToldFits(q)'
  BY <1>1 DEF ToldInv, ToldFits
<1>2. QED
  BY <1>1 DEF ToldInv

\* A step that takes r from one task to another and writes nothing of what is
\* promised.
LEMMA MovesOn ==
    ASSUME RunsInv, ToldInv, NEW r \in Runs, NEW next, task' = [task EXCEPT ![r] = next],
           UNCHANGED <<row, trail, files, stream, console, page>>,
           page[r] \notin Ends,
           next \in {"file", "stream", "console", "mail", "close"} =>
               page[r] = "none" \/ row[r] = "running",
           next \in Graph \union {"none", "start", "finish"} => r \notin files
    PROVE  ToldInv' /\ UNCHANGED promised
<1>1. ToldFits(r)'
  BY DEF RunsInv, Typed, ToldInv, ToldFits, Ends
<1>2. \A q \in Runs : q # r => task'[q] = task[q]
  BY DEF RunsInv, Typed
<1>3. QED
  BY <1>1, <1>2, OthersTold DEF promised, onFile

LEMMA LaunchTells ==
    ASSUME RunsInv, ToldInv, NEW r \in Runs, Launch(r)
    PROVE  ToldInv' /\ Promise!Show(r)
<1>1. /\ task[r] = "none" /\ task' = [task EXCEPT ![r] = "start"]
      /\ page' = [page EXCEPT ![r] = "polling"]
      /\ UNCHANGED <<row, trail, files, stream, console>>
  BY DEF Launch, Arrives, At, Go, incidents
<1>2. row[r] = "none" /\ page[r] = "none" /\ r \notin files
  BY <1>1 DEF RunsInv, Good, RowFits, PageFits, ToldInv, ToldFits
<1>3. task'[r] = "start" /\ page'[r] = "polling"
  BY <1>1 DEF RunsInv, Typed
<1>4. ToldFits(r)'
  BY <1>1, <1>2, <1>3 DEF ToldFits, Ends
<1>5. \A q \in Runs : q # r => task'[q] = task[q] /\ page'[q] = page[q]
  BY <1>1 DEF RunsInv, Typed
<1>6. ToldInv'
  BY <1>1, <1>4, <1>5, OthersTold
<1>7. Promise!Show(r)
  BY <1>1, <1>2 DEF Promise!Show
<1>8. QED
  BY <1>6, <1>7

LEMMA RejectTells ==
    ASSUME RunsInv, ToldInv, NEW r \in Runs, Reject(r)
    PROVE  ToldInv' /\ UNCHANGED promised
<1>1. /\ task[r] = "none" /\ task' = [task EXCEPT ![r] = "file"]
      /\ UNCHANGED <<row, trail, files, stream, console, page>>
  BY DEF Reject, Arrives, At, Go, incidents
<1>2. page[r] = "none"
  BY <1>1 DEF RunsInv, Good, PageFits
<1>3. QED
  BY <1>1, <1>2, MovesOn DEF Ends, Graph

\* A run at work is open: no verdict, and nothing was told of it.
LEMMA AtWork ==
    ASSUME RunsInv, ToldInv, NEW r \in Runs,
           task[r] \in Graph \union {"start", "finish", "file", "stream", "console", "mail",
                                     "close"}
    PROVE  /\ page[r] \in {"none", "polling", "not found"}
           /\ row[r] \in {"none", "running"}
           /\ task[r] \in Graph \union {"start", "finish", "close"} => page[r] # "none"
           /\ task[r] \in Graph \union {"start", "finish"} => r \notin files
<1>1. Good(r) /\ ToldFits(r) /\ page[r] \in Pages
  BY DEF RunsInv, Typed, ToldInv
<1>2. task[r] # "ended"
  BY DEF Graph
<1>3. QED
  BY <1>1, <1>2 DEF Good, RowFits, PageFits, ToldFits, Pages, Ends

LEMMA StartTells ==
    ASSUME RunsInv, ToldInv, NEW r \in Runs, StartRun(r)
    PROVE  ToldInv' /\ Promise!Start(r)
<1>1. /\ task[r] = "start" /\ task' = [task EXCEPT ![r] = "reconcile"]
      /\ row' = [row EXCEPT ![r] = "running"]
      /\ UNCHANGED <<trail, files, stream, console, page>>
  BY DEF StartRun, At, Go, incidents
<1>2. row[r] = "none" /\ page[r] \in {"polling", "not found"} /\ r \notin files
  BY <1>1, AtWork DEF RunsInv, Good, RowFits
<1>3. task'[r] = "reconcile" /\ row'[r] = "running"
  BY <1>1 DEF RunsInv, Typed
<1>4. ToldFits(r)'
  BY <1>1, <1>2, <1>3 DEF ToldFits, Ends
<1>5. \A q \in Runs : q # r => task'[q] = task[q] /\ row'[q] = row[q]
  BY <1>1 DEF RunsInv, Typed
<1>6. ToldInv'
  BY <1>1, <1>4, <1>5, OthersTold
<1>7. Promise!Start(r)
  BY <1>1, <1>2 DEF Promise!Start, Promise!Open, Promise!Verdicts
<1>8. QED
  BY <1>6, <1>7

LEMMA NodeTells ==
    ASSUME RunsInv, ToldInv, NEW r \in Runs, NEW node \in Graph,
           NEW next \in Graph \union {"finish"}, NEW logged \in SUBSET (1 .. 6),
           Node(r, node, logged, next)
    PROVE  ToldInv' /\ Promise!Log(r)
<1>1. /\ task[r] = node /\ task' = [task EXCEPT ![r] = next]
      /\ trail' = [trail EXCEPT ![r] = @ \union logged]
      /\ UNCHANGED <<row, files, stream, console, page>>
  BY DEF Node, At, Go, incidents
<1>2. row[r] = "running" /\ page[r] \in {"polling", "not found"} /\ r \notin files
  BY <1>1, AtWork DEF RunsInv, Good, RowFits
<1>3. task'[r] = next
  BY <1>1 DEF RunsInv, Typed
<1>4. ToldFits(r)'
  BY <1>1, <1>2, <1>3 DEF ToldFits, Ends, Graph
<1>5. \A q \in Runs : q # r => task'[q] = task[q]
  BY <1>1 DEF RunsInv, Typed
<1>6. ToldInv'
  BY <1>1, <1>4, <1>5, OthersTold
<1>7. Promise!Log(r)
  BY <1>1, <1>2 DEF Promise!Log, Promise!Open, Promise!Verdicts
<1>8. QED
  BY <1>6, <1>7

LEMMA GraphTells ==
    ASSUME RunsInv, ToldInv, NEW r \in Runs, InGraph(r)
    PROVE  ToldInv' /\ (Promise!Log(r) \/ UNCHANGED promised)
<1>1. CASE GraphRaises(r)
  <2>1. /\ task[r] \in Graph /\ task' = [task EXCEPT ![r] = "file"]
        /\ UNCHANGED <<row, trail, files, stream, console, page>>
    BY <1>1 DEF GraphRaises, Go, incidents
  <2>2. row[r] = "running" /\ page[r] \notin Ends
    BY <2>1, AtWork DEF RunsInv, Good, RowFits, Ends
  <2>3. QED
    BY <2>1, <2>2, MovesOn DEF Graph
<1>2. CASE ~ GraphRaises(r)
  <2>1. PICK node \in Graph, next \in Graph \union {"finish"}, logged \in SUBSET (1 .. 6) :
            Node(r, node, logged, next)
    BY <1>2 DEF InGraph, Reconcile, Degrade, Fuzzy, Classify, Decide, Dispatch, Verify, Graph
  <2>2. QED
    BY <2>1, NodeTells
<1>3. QED
  BY <1>1, <1>2

LEMMA FinishTells ==
    ASSUME RunsInv, ToldInv, NEW r \in Runs,
           FinishRun(r, "finish", "completed") \/ FinishRun(r, "close", "failed")
    PROVE  ToldInv' /\ Promise!Close(r)
<1>1. /\ task[r] \in {"finish", "close"} /\ task' = [task EXCEPT ![r] = "publish"]
      /\ row' = [row EXCEPT ![r] = IF task[r] = "close" THEN "failed" ELSE "completed"]
      /\ UNCHANGED <<trail, files, stream, console, page>>
  BY DEF FinishRun, At, Go, incidents
<1>2. page[r] \in {"polling", "not found"} /\ row[r] = "running"
  BY <1>1, AtWork DEF RunsInv, Good, RowFits, ToldInv, ToldFits
<1>3. r \in onFile <=> task[r] = "close"
  <2>1. task[r] = "close" => r \in onFile
    BY DEF RunsInv, Good, Traced, onFile
  <2>2. task[r] = "finish" => r \notin onFile
    BY AtWork DEF onFile
  <2>3. QED
    BY <1>1, <2>1, <2>2
<1>4. task'[r] = "publish"
  BY <1>1 DEF RunsInv, Typed
<1>5. ToldFits(r)'
  BY <1>1, <1>2, <1>4 DEF ToldFits, Ends, Graph
<1>6. \A q \in Runs : q # r => task'[q] = task[q] /\ row'[q] = row[q]
  BY <1>1 DEF RunsInv, Typed
<1>7. ToldInv'
  BY <1>1, <1>5, <1>6, OthersTold
<1>8. row' = [row EXCEPT ![r] = IF r \in onFile THEN "failed" ELSE "completed"]
  BY <1>1, <1>3
<1>9. Promise!Close(r)
  BY <1>1, <1>2, <1>8 DEF Promise!Close, Promise!Open, Promise!Verdicts, onFile
<1>10. QED
  BY <1>7, <1>9

\* The steps of the incident: when the last trace is left it is on file.
LEMMA IncidentTells ==
    ASSUME RunsInv, ToldInv, NEW r \in Runs, WriteFile(r) \/ AppendStream(r) \/ Show(r)
    PROVE  ToldInv' /\ (Promise!File(r) \/ UNCHANGED promised)
<1>1. /\ task[r] \in {"file", "stream", "console"}
      /\ \E next \in {"stream", "console", "mail"} : task' = [task EXCEPT ![r] = next]
      /\ files' \in {files, files \union {r}} /\ stream' \in {stream, stream \union {r}}
      /\ console' \in {console, console \union {r}}
      /\ UNCHANGED <<row, trail, page>>
  BY DEF WriteFile, AppendStream, Show, At, Go
<1>2. /\ page[r] \in {"none", "polling", "not found"} /\ row[r] \in {"none", "running"}
      /\ page[r] # "none" => row[r] = "running"
  BY <1>1, AtWork DEF ToldInv, ToldFits
<1>3. task'[r] \in {"stream", "console", "mail"}
  BY <1>1 DEF RunsInv, Typed
<1>4. ToldFits(r)'
  BY <1>1, <1>2, <1>3 DEF ToldFits, Ends, Graph
<1>5. \A q \in Runs : q # r => task'[q] = task[q] /\ (q \in files' <=> q \in files)
  BY <1>1 DEF RunsInv, Typed
<1>6. ToldInv'
  BY <1>1, <1>4, <1>5, OthersTold
<1>7. onFile' = onFile \/ onFile' = onFile \union {r}
  BY <1>1 DEF onFile
<1>8. onFile' = onFile \union {r} => Promise!File(r)
  BY <1>1, <1>2 DEF Promise!File, Promise!Open, Promise!Verdicts, onFile
<1>9. QED
  BY <1>1, <1>6, <1>7, <1>8 DEF promised

\* The rest of the work moves on.
LEMMA OtherWorkTells ==
    ASSUME RunsInv, ToldInv, NEW r \in Runs, Mail(r) \/ Fail(r) \/ Publish(r) \/ Raise(r)
    PROVE  ToldInv' /\ UNCHANGED promised
<1>1. CASE Mail(r)
  <2>1. /\ task[r] = "mail"
        /\ task' = [task EXCEPT ![r] = IF page[r] = "none" THEN "ended" ELSE "close"]
        /\ UNCHANGED <<row, trail, files, stream, console, page>>
    BY <1>1 DEF Mail, At, Go, Rejected
  <2>2. page[r] \notin Ends /\ (page[r] # "none" => row[r] = "running")
    BY <2>1, AtWork DEF ToldInv, ToldFits, Ends
  <2>3. QED
    BY <2>1, <2>2, MovesOn DEF Graph
<1>2. CASE Fail(r)
  <2>1. /\ task[r] \in Fragile
        /\ task' = [task EXCEPT ![r] = IF page[r] = "none" THEN "ended" ELSE "raise"]
        /\ UNCHANGED <<row, trail, files, stream, console, page>>
    BY <1>2 DEF Fail, Go, Rejected, incidents
  <2>2. page[r] \notin Ends
    BY <2>1, AtWork DEF Fragile, Ends
  <2>3. CASE page[r] = "none"
    <3>1. task' = [task EXCEPT ![r] = "ended"]
      BY <2>1, <2>3
    <3>2. QED
      BY <2>1, <2>2, <3>1, MovesOn DEF Graph
  <2>4. CASE page[r] # "none"
    <3>1. task' = [task EXCEPT ![r] = "raise"]
      BY <2>1, <2>4
    <3>2. QED
      BY <2>1, <2>2, <3>1, MovesOn DEF Graph
  <2>5. QED
    BY <2>3, <2>4
<1>3. CASE Publish(r) \/ Raise(r)
  <2>1. /\ task[r] \in {"publish", "raise"} /\ task' = [task EXCEPT ![r] = "ended"]
        /\ UNCHANGED <<row, trail, files, stream, console, page>>
    BY <1>3 DEF Publish, Raise, At, Go, incidents
  <2>2. page[r] \notin Ends
    BY <2>1 DEF ToldInv, ToldFits
  <2>3. QED
    BY <2>1, <2>2, MovesOn DEF Graph
<1>4. QED
  BY <1>1, <1>2, <1>3

LEMMA PollTells ==
    ASSUME RunsInv, ToldInv, NEW r \in Runs, Poll(r)
    PROVE  ToldInv' /\ Promise!Tell(r)
<1>1. /\ page[r] = "polling" /\ entry[r] # "pending"
      /\ page' = [page EXCEPT ![r] = CASE entry[r] = "none" -> "not found"
                                       [] entry[r] = "error" -> "failed"
                                       [] OTHER -> "completed"]
      /\ UNCHANGED <<task, row, trail, files, stream, console>>
  BY DEF Poll, incidents
<1>2. Good(r) /\ ToldFits(r) /\ entry[r] \in EntryStates
  BY DEF RunsInv, Typed, ToldInv
<1>3. CASE entry[r] = "none"
  <2>1. page' = [page EXCEPT ![r] = "not found"]
    BY <1>1, <1>3
  <2>2. page'[r] = "not found"
    BY <2>1 DEF RunsInv, Typed
  <2>3. ToldFits(r)'
    BY <1>1, <1>2, <2>2 DEF ToldFits, Ends
  <2>4. Promise!Tell(r)
    BY <1>1, <2>1 DEF Promise!Tell
  <2>5. QED
    BY <1>1, <2>1, <2>3, <2>4, OthersTold DEF RunsInv, Typed
<1>4. CASE entry[r] = "error"
  <2>1. page' = [page EXCEPT ![r] = "failed"]
    BY <1>1, <1>4
  <2>2. page'[r] = "failed" /\ task[r] = "ended" /\ row[r] \notin Ends
    BY <1>2, <1>4, <2>1 DEF RunsInv, Typed, Good, EntryFits, Ends
  <2>3. ToldFits(r)'
    BY <1>1, <1>2, <2>2 DEF ToldFits, Ends
  <2>4. Promise!Tell(r)
    BY <1>1, <2>1, <2>2 DEF Promise!Tell, Promise!Verdicts, Ends
  <2>5. QED
    BY <1>1, <2>1, <2>3, <2>4, OthersTold DEF RunsInv, Typed
<1>5. CASE entry[r] \in Ends
  <2>1. page' = [page EXCEPT ![r] = "completed"]
    BY <1>1, <1>5 DEF Ends
  <2>2. page'[r] = "completed" /\ task[r] = "ended" /\ row[r] \in Ends
    BY <1>2, <1>5, <2>1 DEF RunsInv, Typed, Good, EntryFits, Ends
  <2>3. ToldFits(r)'
    BY <1>1, <1>2, <2>2 DEF ToldFits, Ends
  <2>4. Promise!Tell(r)
    BY <1>1, <2>1, <2>2 DEF Promise!Tell, Promise!Verdicts, Ends
  <2>5. QED
    BY <1>1, <2>1, <2>3, <2>4, OthersTold DEF RunsInv, Typed
<1>6. QED
  BY <1>1, <1>2, <1>3, <1>4, <1>5 DEF EntryStates, Ends

\* A crash takes the thread of a run from it, and none of what is promised.
LEMMA CrashTells ==
    ASSUME RunsInv, ToldInv, Crash
    PROVE  ToldInv' /\ UNCHANGED promised
<1>1. /\ task' = [r \in Runs |-> IF task[r] \in Rest THEN task[r] ELSE "down"]
      /\ UNCHANGED <<row, trail, files, stream, console, page>>
  BY DEF Crash, incidents
<1>2. ASSUME NEW r \in Runs PROVE ToldFits(r)'
  BY <1>1 DEF ToldInv, ToldFits, Rest, Ends, Graph
<1>3. QED
  BY <1>1, <1>2 DEF ToldInv, promised, onFile

\* Nothing takes a verdict back: every step of the runs, through failures,
\* evictions and crashes, is one that Verdicts allows or none.
THEOREM ImplementsVerdicts == Spec => KeepsVerdicts
<1>1. ASSUME RunsInv, ToldInv, UNCHANGED vars PROVE ToldInv' /\ UNCHANGED promised
  BY <1>1 DEF vars, incidents, memory, ToldInv, ToldFits, promised, onFile
<1>2. ASSUME RunsInv, ToldInv, [Next]_vars
      PROVE  ToldInv' /\ [Promise!Next]_promised
  <2>1. ASSUME NEW r \in Runs, Launch(r) \/ Reject(r) \/ Work(r) \/ Poll(r)
        PROVE  ToldInv' /\ [Promise!Next]_promised
    BY <1>2, <2>1, LaunchTells, RejectTells, StartTells, GraphTells, FinishTells,
       IncidentTells, OtherWorkTells, PollTells
    DEF Work, Incident, Promise!Next
  <2>2. QED
    BY <1>1, <1>2, <2>1, CrashTells DEF Next
<1>3. QED
  BY <1>2, InitTold, AlwaysGood, PTL DEF Spec, KeepsVerdicts, Promise!Spec, promised, onFile

----------------------------------------------------------------------------
\* The end of a run and of its page.  That they come (PagesEnd) needs fairness;
\* what it rests on needs none.

\* A page that has to go on polling waits for a thread that is at work: a record is
\* pending neither after its thread has ended nor after its process has gone down,
\* also when publishing failed, or when it was evicted (_worker, run_registry.py).
THEOREM PendingIsAtWork == Spec => [](\A r \in Runs : entry[r] = "pending" => task[r] \notin Rest)
<1>1. RunsInv => \A r \in Runs : entry[r] = "pending" => task[r] \notin Rest
  BY DEF RunsInv, Good, EntryFits, PageFits, Rest
<1>2. QED
  BY <1>1, AlwaysGood, PTL

\* The steps a thread has ahead of it at most.
Ahead(step, ranks) ==
    CASE step = "start" -> 14
      [] step = "reconcile" -> 13
      [] step = "fuzzy" -> IF 2 \in ranks THEN 11 ELSE 12
      [] step = "classify" -> 10
      [] step = "decide" -> 9
      [] step = "dispatch" -> 8
      [] step = "verify" -> 7
      [] step = "finish" -> 6
      [] step = "file" -> 6
      [] step = "stream" -> 5
      [] step = "console" -> 4
      [] step = "mail" -> 3
      [] step = "close" -> 2
      [] step \in {"publish", "raise"} -> 1
      [] OTHER -> 0

\* A thread at work is left alone or comes nearer to its end, whichever node or
\* write fails.
Shrinks(r) ==
    task[r] \notin Rest /\ <<task'[r], trail'[r]>> # <<task[r], trail[r]>> =>
        Ahead(task'[r], trail'[r]) < Ahead(task[r], trail[r])

LEMMA NodeShrinks ==
    ASSUME RunsInv, NEW r \in Runs, InGraph(r)
    PROVE  Ahead(task'[r], trail'[r]) < Ahead(task[r], trail[r])
<1>1. task \in [Runs -> Steps \union Rest] /\ trail \in [Runs -> SUBSET (1 .. 6)]
  BY DEF RunsInv, Typed
<1>2. CASE Reconcile(r)
  <2>1. task[r] = "reconcile" /\ task'[r] \in {"fuzzy", "classify"}
    BY <1>1, <1>2 DEF Reconcile, Node, At, Go
  <2>2. QED
    BY <2>1 DEF Ahead
<1>3. CASE Degrade(r)
  <2>1. /\ task[r] = "fuzzy" /\ task'[r] = "fuzzy"
        /\ 2 \notin trail[r] /\ 2 \in trail'[r]
    BY <1>1, <1>3 DEF Degrade, Node, At, Go
  <2>2. QED
    BY <2>1 DEF Ahead
<1>4. CASE Fuzzy(r)
  <2>1. task[r] = "fuzzy" /\ task'[r] = "classify"
    BY <1>1, <1>4 DEF Fuzzy, Node, At, Go
  <2>2. QED
    BY <2>1 DEF Ahead
<1>5. CASE Classify(r)
  <2>1. task[r] = "classify" /\ task'[r] = "decide"
    BY <1>1, <1>5 DEF Classify, Node, At, Go
  <2>2. QED
    BY <2>1 DEF Ahead
<1>6. CASE Decide(r)
  <2>1. task[r] = "decide" /\ task'[r] = "dispatch"
    BY <1>1, <1>6 DEF Decide, Node, At, Go
  <2>2. QED
    BY <2>1 DEF Ahead
<1>7. CASE Dispatch(r)
  <2>1. task[r] = "dispatch" /\ task'[r] = "verify"
    BY <1>1, <1>7 DEF Dispatch, Node, At, Go
  <2>2. QED
    BY <2>1 DEF Ahead
<1>8. CASE Verify(r)
  <2>1. task[r] = "verify" /\ task'[r] = "finish"
    BY <1>1, <1>8 DEF Verify, Node, At, Go
  <2>2. QED
    BY <2>1 DEF Ahead
<1>9. CASE GraphRaises(r)
  <2>1. task[r] \in Graph /\ task'[r] = "file"
    BY <1>1, <1>9 DEF GraphRaises, Go
  <2>2. Ahead(task'[r], trail'[r]) = 6
    BY <2>1 DEF Ahead
  <2>3. Ahead(task[r], trail[r]) \in 7 .. 13
    BY <2>1 DEF Ahead, Graph
  <2>4. QED
    BY <2>2, <2>3
<1>10. QED
  BY <1>2, <1>3, <1>4, <1>5, <1>6, <1>7, <1>8, <1>9 DEF InGraph

LEMMA WorkShrinks ==
    ASSUME RunsInv, NEW r \in Runs, Work(r)
    PROVE  Ahead(task'[r], trail'[r]) < Ahead(task[r], trail[r])
<1>1. task \in [Runs -> Steps \union Rest]
  BY DEF RunsInv, Typed
<1>2. CASE StartRun(r)
  <2>1. task[r] = "start" /\ task'[r] = "reconcile"
    BY <1>1, <1>2 DEF StartRun, At, Go
  <2>2. QED
    BY <2>1 DEF Ahead
<1>3. CASE FinishRun(r, "finish", "completed") \/ FinishRun(r, "close", "failed")
  <2>1. task[r] \in {"finish", "close"} /\ task'[r] = "publish"
    BY <1>1, <1>3 DEF FinishRun, At, Go
  <2>2. QED
    BY <2>1 DEF Ahead
<1>4. CASE Incident(r)
  <2>1. \/ task[r] = "file" /\ task'[r] = "stream"
        \/ task[r] = "stream" /\ task'[r] = "console"
        \/ task[r] = "console" /\ task'[r] = "mail"
        \/ task[r] = "mail" /\ task'[r] \in {"ended", "close"}
    BY <1>1, <1>4 DEF Incident, WriteFile, AppendStream, Show, Mail, At, Go
  <2>2. QED
    BY <2>1 DEF Ahead
<1>5. CASE Fail(r)
  <2>1. task[r] \in Fragile /\ task'[r] \in {"ended", "raise"}
    BY <1>1, <1>5 DEF Fail, Go
  <2>2. Ahead(task'[r], trail'[r]) \in {0, 1}
    BY <2>1 DEF Ahead
  <2>3. Ahead(task[r], trail[r]) \in 2 .. 14
    BY <2>1 DEF Ahead, Fragile
  <2>4. QED
    BY <2>2, <2>3
<1>6. CASE Publish(r) \/ Raise(r)
  <2>1. task[r] \in {"publish", "raise"} /\ task'[r] = "ended"
    BY <1>1, <1>6 DEF Publish, Raise, At, Go
  <2>2. QED
    BY <2>1 DEF Ahead
<1>7. QED
  BY <1>2, <1>3, <1>4, <1>5, <1>6, NodeShrinks DEF Work

\* What a step of r leaves of the other runs.
LEMMA OthersStand ==
    ASSUME RunsInv, NEW r \in Runs, Work(r), NEW q \in Runs, q # r
    PROVE  task'[q] = task[q] /\ trail'[q] = trail[q]
<1>1. task \in [Runs -> Steps \union Rest] /\ trail \in [Runs -> SUBSET (1 .. 6)]
  BY DEF RunsInv, Typed
<1>2. CASE InGraph(r)
  BY <1>1, <1>2 DEF InGraph, Reconcile, Degrade, Fuzzy, Classify, Decide, Dispatch, Verify,
                    GraphRaises, Node, Go
<1>3. CASE ~ InGraph(r)
  BY <1>1, <1>3 DEF Work, StartRun, FinishRun, Incident, WriteFile, AppendStream, Show, Mail,
                    Fail, Publish, Raise, Go
<1>4. QED
  BY <1>2, <1>3

LEMMA ShrinkStep == RunsInv /\ [Next]_vars => \A r \in Runs : Shrinks(r)
<1> SUFFICES ASSUME RunsInv, [Next]_vars, NEW r \in Runs, task[r] \notin Rest,
                    <<task'[r], trail'[r]>> # <<task[r], trail[r]>>
             PROVE  Ahead(task'[r], trail'[r]) < Ahead(task[r], trail[r])
  BY DEF Shrinks
<1>1. task \in [Runs -> Steps \union Rest]
  BY DEF RunsInv, Typed
<1>2. ASSUME NEW q \in Runs, Launch(q) \/ Reject(q) PROVE FALSE
  <2>1. task[q] = "none" /\ \E next : task' = [task EXCEPT ![q] = next]
    BY <1>2 DEF Launch, Reject, Arrives, At, Go
  <2>2. q # r
    BY <2>1 DEF Rest
  <2>3. trail' = trail /\ task'[r] = task[r]
    BY <1>1, <1>2, <2>1, <2>2 DEF Launch, Reject
  <2>4. QED
    BY <2>3
<1>3. ASSUME NEW q \in Runs, Work(q)
      PROVE  Ahead(task'[r], trail'[r]) < Ahead(task[r], trail[r])
  <2>1. q = r
    BY <1>3, OthersStand
  <2>2. QED
    BY <1>3, <2>1, WorkShrinks
<1>4. CASE Crash
  <2>1. task'[r] = "down" /\ trail' = trail
    BY <1>4 DEF Crash
  <2>2. Ahead(task'[r], trail'[r]) = 0
    BY <2>1 DEF Ahead
  <2>3. task[r] \in Steps
    BY <1>1
  <2>4. Ahead(task[r], trail[r]) \in 1 .. 14
    BY <2>3 DEF Ahead, Steps, Graph
  <2>5. QED
    BY <2>2, <2>4
<1>5. CASE (\E q \in Runs : Poll(q)) \/ UNCHANGED vars
  BY <1>5 DEF Poll, vars
<1>6. QED
  BY <1>2, <1>3, <1>4, <1>5 DEF Next

\* From its launch on a thread takes at most fourteen steps, whatever fails on the way
\* (service.py, nodes.py, incidents/service.py): none of the paths of a failure leads
\* back.
THEOREM ThreadsShrink == Spec => [][\A r \in Runs : Shrinks(r)]_vars
BY AlwaysGood, ShrinkStep, PTL DEF Spec

=============================================================================
