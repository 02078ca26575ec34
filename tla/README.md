# Verification of the reconciliation agent

TLA+ specifications of the retail reconciliation agent in `src/reconcile`, the
TLC configurations that check them on small instances, and theorems about them
checked by TLAPS. Paths in this file are relative to the repository; `reconcile/`
stands for `src/reconcile/`.

## 1. The system

A run takes an orders file and a settlements file, explodes the orders into
*obligations* (one per payment row), matches them with the settlements, lets a
planner and a language model decide what to do about every *exception*, mails the
people concerned, and keeps a log of exceptions across runs. Runs are started
from a web process, each on a thread of its own, or from the command line, one
process per run. All of them share one SQLite database.

| Component | State it keeps | Operations |
|---|---|---|
| Readers (`parsers/`, rules of `models/domain.py`) | none | `read_orders`, `read_settlements`, `validate_rows` |
| Obligation builder (`reconciliation/obligations.py`) | none | `build_obligations` |
| Matcher (`reconciliation/matcher.py`, `sla.py`) | consumed settlement ids, within a run | `reconcile_keys`, `classify_leftovers` |
| Agent graph (`agent/graph.py`, `nodes.py`) | the state of the run, in memory | reconcile, fuzzy, classify, decide, dispatch, verify nodes |
| Routing and planner (`reconciliation/rules.py`, `agent/planner.py`) | none | `resolve_targets`, `plan_action` |
| Language model client (`agent/llm.py`) | the counter of calls, per process | `propose_fuzzy`, `decide`, drafting |
| Notification service (`notifications/`) | the circuit breaker, per process | `dispatch` |
| Idempotency store (`audit/idempotency.py`) | table `notification_log` | `already_notified`, `record_notification` |
| Exception log and audit trail (`audit/repository.py`, `agent/verifier.py`) | tables `exception_log`, `audit_log` | `upsert_exception`, `mark_resolved`, `log_event` |
| Run service (`agent/service.py`) | table `run_log` | `ReconciliationAgent.run` |
| Incidents (`incidents/`) | JSON files, `incidents.jsonl` | `raise_incident` |
| Run registry and pages (`api/`) | an LRU of results, in memory | upload, background thread, polling |
| Configuration (`config.py`) | none | settings; `for_role`, `for_gateway` |
| Logging, templates, scripts, deployment | files | not modelled |

How they interact. The endpoint calls the readers, registers a run and starts a
thread. The thread calls `ReconciliationAgent.run`, which builds the obligations,
writes the `run_log` row, runs the graph and writes the row again. The graph calls
the matcher, then the language model for the leftovers, then the planner for each
exception; `dispatch_node` calls the notification service once per recipient, then
upserts the rows of the exception log in one session; `verify_node` resolves the
rows of the exceptions that are gone. A failure of the graph becomes an incident.
The page of a run polls the registry.

### What is hard about it

* *Two runs at a time.* The check for a mail that was sent before, the mail, and its
  record are three sessions; `upsert_exception` and `mark_resolved` read rows
  outside a transaction (SQLAlchemy over SQLite begins one at the first write) and
  an UPDATE holds only the columns that differ from what was read; two sessions
  can insert the same unique key; the breaker counts the failures of all threads.
* *Crashes.* The process may die between any two commits, between a mail and its
  record, and between the graph and the end of a run. Rows and files stay; breaker,
  call counter, registry and threads are gone.
* *The provider.* A call may be accepted, refused for good, fail for now, be
  accepted while its answer is lost, or raise something the service does not
  expect. The retries run under a breaker that can trip in the middle of them.
* *A database that says no.* The SELECT or the commit of a record may be refused
  after the mail went out.
* *Mails before the log.* `dispatch_node` sends all the mails of a run before it
  records the first exception, and the address of a mail depends on the gateway of
  the row while the mismatch key does not.
* *Ids that are not unique.* Settlements are consumed by `settlement_id`, leftovers
  are keyed by `order_id`, and mismatch keys by the fields of an exception; none
  of the three is unique by construction.
* *A model that may answer anything.* Proposals may repeat, contradict each other
  or name unknown rows; a decision may be off the list, malformed or never come;
  the budget may be spent.
* *Limits and boundaries.* The tolerance, the grace days, the retry attempts, the
  failures that trip the breaker, the size of the registry.

### What makes each component correct

| Component | Properties |
|---|---|
| Readers, builder | a rejection names every fault; a bad row stops no run (violated); each placed row becomes one obligation; an order is judged by its sum |
| Matcher, fuzzy step | no row used twice; nothing lost but what equal ids hide; the pass finds what the matching keys define and judges it by the gap of the amounts |
| Notification service | every repeated mail is explained; a SENT row is true; a delivered mail leaves a row; the provider gets its rest; `dispatch` returns; for a key nobody competes for it is an outbox that repeats a mail only when a fault has paid for it |
| Decisions and exception log | the log mirrors a run that was alone; an unresolved row was found by the run it names; no find is left out; runs end |
| Runs with their mails | no recipient is passed over; what counts as escalated has a row in `notification_log`; nobody is mailed about an exception that is nowhere |
| Run service, incidents, registry | a run gets one verdict and its page is told of an end once; answers and audit trails agree with rows; failures are on file; a stuck row is reported; pending records are bounded; pages end |

PROJECT.json lists the hazards with the line where each one bites and the
properties that would catch it.

## 2. The modules

| Module | What it is |
|---|---|
| `Outbox` | the abstract promise of the notification service |
| `Notifications` | the notification service, `notification_log` and the breaker |
| `Matching` | one run's reconciliation: `reconcile_keys`, `fuzzy_node`, `classify_leftovers` |
| `Routing` | planner, rules, routing table and mismatch keys, as operators |
| `Lifecycle` | decide, dispatch and verify nodes with `exception_log`, over several runs (EXTENDS `Routing`) |
| `Agent` | the runs with their mails: a composition of `Lifecycle` (EXTENDS) and `Notifications` (INSTANCE) |
| `Verdicts` | the abstract promise of a run to those who look it up |
| `Runs` | upload, `run_log`, `audit_log`, incidents, registry and pages |
| `Intake` | row validation and `build_obligations` |
| `MCNotifications`, `MCMatching`, `MCLifecycle`, `MCAgent`, `MCIntake` | the values of the constants for TLC (`Runs` needs none) |
| `Sums` | lemmas about the sum over a finite set, used by `IntakeProofs` |
| `NotificationsProofs`, `MatchingProofs`, `LifecycleProofs`, `AgentProofs`, `RunsProofs`, `IntakeProofs` | theorems and proofs |

Operators whose names begin with `Faulty` stand before a definition of the code
and have the form a plausible bug would give it. No specification uses them: they
show that a property can fail (section 3, last paragraph).

### Notifications and Outbox

`log[k]` is the status column of the row for the pair *k* of mismatch key and
recipient; `breaker` is the pybreaker object every thread shares; `task[w]` is
the local state of thread *w* inside `dispatch`. One dispatch is the check
(`SkipDuplicate` or `StartSend`), provider calls (`CallAccepted`, `CallFailed`,
`CallRefused`), the SELECT of the record (`RecordRead`) and its INSERT or UPDATE
(`RecordWrite`). Every provider call runs inside the lock of the breaker, so each
is one step; nothing holds a lock between two steps. `Written` is what SQLAlchemy
does with a row read before: an INSERT that meets a row raises `IntegrityError`
and changes nothing, an UPDATE does not write a status equal to the one it read.
`RecordRefused` is a database that refuses either of them: the exception leaves
`dispatch`, whatever became of the mail. `Crash` takes down all the threads and
the breaker, never a row.

`delivered`, `lost`, `unrecorded`, `rivals` and `burst` are history variables: no
guard reads them. `lost` counts the mails whose answer was lost, `unrecorded` those
whose record was refused, `rivals` the dispatches of a key that began while another
thread was in one.
pybreaker is external; it is modelled from the way `circuit_breaker.py` builds
it and `_send` calls it (closed, open, and the trial call after the timeout).

`Outbox` says that a recorded key is never mailed again and stays recorded, that it
is recorded only after a mail went out, and that every mail beyond the first has
cost a fault. `Notifications` promises it for the keys that only one thread
dispatches (`PrivateKeys`), whatever else goes on. The refinement mapping is
`mails <- delivered`, `recorded <-` the keys with a SENT row, `faults <-` crashes,
lost answers and refused records.

### Matching

The input is chosen in `Init`; the steps are the iterations of the loops:
`KeyUnmatched`, `KeyDuplicate`, `KeyMatched`, `KeyAmountDiffers` for an
obligation of `reconcile_keys` (`KeyStep`), `Propose`, then `SkipPairing`,
`AutoApply`, `FlagForReview` for a pairing (`PairingStep`), `Classify`. Rows are
known by their numbers, because nothing makes the ids in them unique: what the
dictionaries by `order_id` and `settlement_id` drop becomes visible
(`LastPerOrder`, `LastPerSid`). Amounts are integers, and similarity scores three
classes, cut by the two thresholds. A proposal is any sequence sorted by
confidence, of pairings which may be repeated, contradictory or unknown.

### Routing and Lifecycle

`log` is `exception_log` (status and `last_run_id`), `run[r]` what the thread of a
run knows, `calls` the counter of the language model client. The recipients of an
exception are roles; a mismatch key is the tuple its digest is made from. `Decide`
and `Dispatch` are an iteration each. The session at the end of `dispatch_node` is
two steps: the first SELECT (`Look`), which begins no transaction, and the rest
(`Record`), which after its first write holds the lock of the database. `Clash`
is the `IntegrityError` when another run inserted the first row in between.
`verify_node` is two steps, `Select` and `Resolve`. `KeepsStatus` is the UPDATE
that leaves out a column that seemed unchanged: the row is flushed when another key
is looked up, with the status the list has given it by then (`flushed`), and again
at the commit. `Fail` is any other exception of
a node, at any time; `Crash` takes all runs down and resets the counter.
`run[r].alone` is history: no other run was under way when `r` began.

### Agent

In `Lifecycle` the mails of an exception are no steps of their own. `Agent` puts them
in: the thread of run *r* is the worker *r* of an instance of `Notifications`, whose
keys are pairs of a mismatch key and an address. `Targets` are the mails of an
exception in the order `dispatch_node` sends them, with `ForRole` for the address;
`MailChecked`, `MailSent` and `MailRecorded` are the steps of the service for the next
of them, and `AgentDispatch`, the step `Dispatch` of `Lifecycle`, lists the exception
after its last mail. The model drafts a text before each mail; the calls are
counted in `AgentDispatch`, because no guard reads the counter between the mails.
A dry run (`dry`) sends nothing and lists all the same.

Two kinds of steps belong to both parts. An exception that leaves the service
(`MailFails`: an error that is neither a `NotifyError` nor a `CircuitBreakerError`, a
refused record, the `IntegrityError` of a racing INSERT) leaves `dispatch_node` and
the graph, and ends the run as failed with nothing of it in the exception log. A
crash takes runs, dispatches and breaker down at once. All other steps belong to one
part and leave the variables of the other unchanged. `tried` is history.

### Runs

`task[r]` is the step the thread (or the request) of a run is about to take, `row`
is `run_log`, `registry` the order of the `OrderedDict` and `entry` its records,
`files`, `stream`, `console` the traces of an incident and `page` what the browser
shows. The graph goes node by node (`Reconcile` to `Verify`), each committing its
events; what a node does besides is in `Lifecycle` and `Agent`. `trail` is the set of
the ranks that `_EVENT_RANK` gives the events of a run in `audit_log`: the three
events of the fuzzy step are one, and several events of a kind count as one. That is
also what the page derives its progress from. Every write may fail
(`Fail`, `GraphRaises`), with the exception going where the code sends it; the failure of the
mail to the administrator is swallowed by `_notify_admin`, and so is not one.
`Poll` is `compute_progress` and the script of the page.

`Verdicts` has neither threads nor sessions nor a registry: the row of a run gets one
verdict, which is *failed* if and only if its incident is on file; its trail grows
only before that; its page is told of an end once, *completed* of a run that has a
verdict and *failed* of one that has none and will never get one. The refinement
mapping keeps `row` and `trail` and takes `shown <- page` and `filed <-` the runs
with all three traces of an incident. What it says beyond the invariants is about
later steps: no write to the row or the trail of a run whose page was told an end,
although the thread and the poll know of each other only through the registry, which
forgets.

### Intake

`ReadOrder` and `ReadSettlement` are an iteration of `validate_rows`, `EndOrders`
and `EndSettlements` its end, `Explode` the exception that is no `ValueError`,
`Group` a row of `_group_by_order` with the dictionary in `groups`, `Place` a row of
the filter of the PLACED ones, `BuildOrder` the rest of the iteration of an order in
`build_obligations`. Rows are known by their numbers, since their ids need not be
unique. A cell is a value, `Blank`, `Invalid` (a text outside its enumeration, or that is no
date) or `NotANumber`. The records have the columns a rule of `Order` or `Settlement`
is about; optional strings and the spreadsheet formats are left out. A blank status
is the default PLACED (`AsOrder`).

## 3. What the runs check

| Run | Instance | Shows |
|---|---|---|
| `shared` | 2 threads, a key both dispatch and a key of one of them, 2 dispatches each, 2 attempts, `fail_max` 3, calls that are accepted, lose their answer, fail for good or raise, 1 crash, records refused at any time | `EmailsAccountedFor`: a mail beyond the first is paid for by a crash, a lost answer, a refused record or a rival dispatch of its own. `SentWasDelivered`, `DeliveryLeavesRow`: rows and mails agree in spite of racing writes. `ProviderRests`: never more than `fail_max` failing calls in a row. `KeepsPromise`: for the private key `Notifications` implements `Outbox`. `DispatchReturns`: no dispatch hangs |
| `race` | 2 threads, a shared key, provider always accepts | *violated*: `NeverMailedTwice` |
| `files` | up to 2 obligations and 1 or 2 settlements, over 2 orders, 2 transaction ids, 2 settlement ids and amounts around the tolerance; up to 2 pairings | `MatchesDefinition`, `SettlementsUsedOnce`, `ObligationsUsedOnce`, `OnlyShadowedVanish` |
| `status` | 2 obligations of one order, no proposal | *violated*: `ExactlyOneStatus` |
| `txn` | as `files`, fuzzy step off | *violated*: `TxnKeyComesFirst` |
| `agent` | 2 runs that may overlap, over no exception, an order that may wait with two exceptions of one mismatch key and two gateways, and an exception with two recipients; 1 attempt, `fail_max` 2, calls that are accepted, fail or raise, refused records, dry runs, 1 crash | `NobodyIsForgotten`, `EscalationsAreBacked`, `MailsAreExplained` |
| `aborted` | as `agent`, no crash | *violated*: `SendsAbortNoRun` |
| `overlap` | 3 runs, 2 at a time, budget of 3 calls, 1 crash; files without an exception or with two exceptions of the same keys, for which the model may answer differently | `LogMirrorsLastRun`: of two decisions on a key the last one counts. `FindsAreOnRecord`: a completed run has all its rows, although inserts clash. `UnresolvedWasFound`, `RunsEnd` |
| `sighting` | 3 runs, 2 at a time | *violated*: `SightingSurvives` |
| `records` | 2 uploads, a registry of 1 entry, 1 crash, any write may fail | `AnswersMatchRows`, `FailuresAreOnFile`, `TrailsFitRows`, `StuckRowsAreReported`, `PendingBounded`, `PagesEnd`. `KeepsVerdicts`: `Runs` implements `Verdicts` |
| `partial` | up to 2 order rows and 1 settlement row, as in `intake` | *violated*: `RowFailuresStopNoRun` |
| `intake` | up to 4 order rows of 7 kinds, up to 2 settlement rows of 4 kinds: sound ones, and ones with a blank, unknown, negative or non-numeric cell | `RejectionNamesFaults`, `PlacedRowsBecomeObligations`, `SumsAreJudged` |

A type invariant is checked once per component. `CHECK_DEADLOCK` is off everywhere:
the bounded runs, files and dispatches come to their end.

*Bounds, and why they are enough to be of interest.* Two threads are what a race
needs; with `RetryAttempts` 2 and `FailMax` 3 a single dispatch cannot trip the
breaker, two of them together can, in the middle of the retries; two dispatches
per thread let a rerun meet the rows of the first run, and a crash may come in
between. Two obligations and two settlements contend for each other by either key
and by id, and two pairings can contradict each other. Three runs let an exception
come, go and come again; two at a time is where sessions interleave; two exceptions with
the same keys are what a list of statuses can mix up. With a budget
of 3 calls `Answers` is both open and spent. In `agent` two runs are what a rerun or
an overlap needs, two exceptions with a common key and different gateways or two
recipients of one exception what a mail can be lost between, and with `FailMax` 2 a
failure of one run lets the other trip the breaker; retries are left to `shared`. A
registry of one entry is evicted by the second upload. Four order rows mix the rows
of two orders in every way, with sums that meet, just meet or miss their totals. Bounds are in the guards of
`Begin`, `Launch` and `Crash` and in `Init`; the theorems have none of them fixed.

*Fairness.* `Notifications`: weak fairness on the steps of a thread inside a
dispatch, because threads are scheduled, the breaker's lock is not held between
steps and the notifiers have timeouts; and on the passing of the reset timeout.
None on beginning a dispatch or on any particular outcome: `DispatchReturns` must
hold if every call fails. `Lifecycle`: weak fairness on the work of each run, not
on its failing; its nodes wait for nothing but calls that return. `Agent`: none,
its properties are about safety. `Runs`: weak fairness on the work of a thread (that
the calls inside a node return is `RunsEnd`) and on the poll of an open page, which a timer of the page
repeats every 1.5 seconds. Crashes and failures are never fair.

*Every property can fail.* For each property of a passing run PROJECT.json names a
definition and a faulty form of it under which TLC finds the property violated:
for example a check that finds no earlier mail (`EmailsAccountedFor`,
`KeepsPromise`), a consumed settlement that stays a candidate
(`SettlementsUsedOnce`), a gap of exactly the tolerance taken for a shortage
(`MatchesDefinition`), a run that goes on after its insert clashed
(`FindsAreOnRecord`), an incident that is not written to the stream
(`FailuresAreOnFile`), a refused record that the run goes on after
(`EscalationsAreBacked`), a group that keeps only its first row
(`PlacedRowsBecomeObligations`).

### What the violated runs show

* `race`: `service.py:66` checks, `service.py:81` sends and `service.py:82` records
  in separate sessions. Two uploads of the same files at the same time send the
  same mail twice, although the unique index is presented as an invariant of the
  database (`README.md:201-202`).
* `status`: `nodes.py:105` keys the open obligations by `order_id`. Of two open
  obligations of one split order, only the last goes on; the other has no status
  and no exception (`docs/PRD.md:240`). It takes the fuzzy step to be on, and no
  answer of the model is needed.
* `txn`: one pass tries both keys for each row in turn, so an earlier row can take
  by order and type the settlement that carries the transaction id of a later row;
  `docs/PRD.md:224-229` has the fallback index built from the remaining
  settlements.
* `sighting`: a run reads a row with the status it is going to write, another run
  resolves it, and the UPDATE of the first writes `last_run_id` without the status:
  the row is RESOLVED in the name of the run that has just seen the exception.
* `aborted`: `_send` catches `CircuitBreakerError` and `NotifyError`; what else a
  notifier raises (a header `SmtpNotifier.send` cannot build from a drafted subject,
  the file of `MockNotifier.send`) ends the run, the mails of its other exceptions
  and their records included (`docs/PRD.md:346`: must not abort the run).
* `partial`: `validate_rows` raises `ParseError` as soon as one row has an error
  (`parsers/base.py:130`), and the endpoint starts no run; a money cell that is not a
  number raises `decimal.InvalidOperation` (`models/domain.py:37`), which is no
  `ValueError`, so that the upload ends in an internal error without row numbers and
  without an incident. `docs/PRD.md:442-443` says that row-level failures do not stop
  the run, and `docs/PRD.md:631-632` to go on with the other valid records. Elsewhere
  the documents side with the code (`docs/excel_schema.md:5-6` has errors reported with
  row numbers), which is why what a rejection says is checked as well.

### Divergences from the documents, without a run of their own

Each was met while modelling; the specifications do what the code does. They need
no interleaving to be seen, and a run would repeat one line of code.

* A crash between a mail and its record lets the rerun mail again
  (`docs/resilience.md:42-43` says zero new mails). `EmailsAccountedFor` counts it.
* Settlement ids are not compared: a second row with the id of a consumed one
  vanishes (`docs/PRD.md:247` calls it DUPLICATE).
* An automatic fuzzy pairing is a match whatever its amounts (`docs/PRD.md:244`,
  `reconcile/models/domain.py:280`).
* The review exception drops the responsible party of its row (`README.md:176`).
* An exception that changes its reason changes its key; the old row is resolved
  although nothing matched (`docs/PRD.md:360-361`).
* A malformed answer leads to the action of the rules, not to the fallback
  (`docs/PRD.md:317-320`).
* An EMAIL action mails all the default roles of the reason, not the one it names
  (`docs/PRD.md:305`).
* The budget of model calls is per process, not per run (`README.md:243`).
* An exception of `_start_run`, `_finish_run` or of the incident itself ends in the
  registry without an incident (`docs/PRD.md:578`); so does a mail refused by the
  breaker (`docs/resilience.md:78`).
* A blank status is taken as PLACED, although the column is required
  (`docs/excel_schema.md:31`, `docs/PRD.md:176`): only its header is.
* `set_outcome` and `set_error` put an evicted record back and evict nothing
  (`run_registry.py:56`), so the registry, "LRU-bounded" (`run_registry.py:43`), can
  outgrow its limit. `PendingBounded` is what remains true.
* The totals on the rows of an order are not compared with each other
  (`docs/excel_schema.md:25`): the first placed row's counts.
* A dry run sends nothing and yet lists its exceptions as escalated and resolves the
  others, like a real one (`README.md:116` calls it a preview). This is why
  `EscalationsAreBacked` excepts what a dry run listed.
* An audit row and its log line come from different statements: `log_event` logs
  when the row is added to the session, and the rows of a session that fails to
  commit are gone while their lines stay (`docs/telemetry.md:22-23`).
* `find_completed_run_by_hash` has no caller (`docs/PRD.md:499-501`).

## 4. What is proved

The theorems hold for all values of the constants that satisfy the assumptions
named in the modules: any threads, keys, files, runs and bounds.

| Theorem | Argument |
|---|---|
| `NotificationsProofs!TypeCorrect` | `TypeInv`: types, and a closed breaker has fewer failures than `FailMax` |
| `BreakerRestsProvider` | `RestInv`: the count of a closed breaker is the burst, and the timeout of an open one ends it |
| `SentRowsAreTrue` | `SentInv`: a thread that is about to record SENT has a delivered mail behind it |
| `MailsAreAccountedFor` | `AccountInv`: mails and threads about to send are never more than one and the excuses; while the row is not SENT and nobody is about to make it so, the excuses pay for all of them. The threads are counted as a finite set |
| `DispatchesShrink` | no invariant but `TypeInv`: every step leaves a dispatch alone or brings it nearer to its end (`Left`: the attempts that are left, then the two steps of the record), whatever the provider, the breaker and the other threads do |
| `MailsLeaveRows` | `RowInv`, `SeenInv`: a delivered mail without a row has a thread that is about to write one; a row once seen stays |
| `ImplementsOutbox` | `RefineInv` makes every step a step of `Outbox` over the private keys or a stutter; a private key has no rivals (`AloneInv`) and only its thread is in a dispatch of it (`OwnInv`). It assumes nothing of crashes, lost answers or the other keys |
| `MatchingProofs!TypeCorrect` | `TypeInv` in four parts: input, result, leftovers, loops |
| `NoSettlementTwice` | `SettInv`: what is in the result is consumed, what is open is in no entry |
| `NoObligationTwice` | `OblInv`: rows at or after the cursor are in no entry |
| `OnlyEqualIdsHide` | `KeptInv`: a row is in the result, open, still to come or hidden by a row that is not |
| `PassComputesKeys` | `DefInv`: without contention every consumed id is within reach of an earlier row, hence never of the current one; the status of an amount is the side of the gap it is on (`GapJudged`) |
| `StatusUnlessSplit` | from `OnlyEqualIdsHide`: every obligation of a finished run has exactly one status unless the fuzzy step is on and an order has two obligations (`NothingSplit`); so the run `status` needs a split order |
| `TxnFirstUnlessContended` | from `PassComputesKeys`: without contention for a settlement the transaction id comes first; so the run `txn` needs two rows that want the same settlement |
| `LifecycleProofs!TypeCorrect` | `TypeInv`: types, an idle run is blank, a run that dispatches has decided everything |
| `UnresolvedRowsWereFound` | `FoundInv`, with the lemma that the list of a run only grows (`ListsGrow`) |
| `FindsStayOnRecord` | `KeptInv`: what a run has dispatched is on its list, a list without a first key is empty, and a row once written stays (`RowsStay`). `GivenInv`: the list holds exactly the keys of the exceptions dispatched, each with the status of the last decision on it |
| `LogMirrors` | `SerialInv`, of a run that was alone when it began and is the last to have begun: what it has read or selected is still so, and what it recorded stays; with `GivenInv` that is what its decisions say. Earlier runs may have overlapped in any way |
| `SightingsSurviveInTurn` | if `MaxActive` is at most 1: `SightInv`, that is `SerialInv` with the run under way being the last and alone (`OneAtATime`) and rows naming only runs that have recorded their finds (`NamesRecorded`); so the run `sighting` needs two runs at a time. Failures, crashes and a spent budget are all in |
| `RunsShrink` | every step leaves a run under way alone or brings it nearer to its end (`StepsLeft`: two steps for each exception and five more), when it fails and when others write the log, too |
| `AgentProofs!AgentTypeCorrect` | the invariants of the two parts and `CallsInv`: a call of the service is under way only in a run that is at a mail of an exception, and for the key of that mail |
| `ImplementsLifecycle` | with `CallsInv`, every step of `Agent` is a step of `Lifecycle` or leaves its variables alone; `Spec` of `Lifecycle` follows, and with it the theorems of `LifecycleProofs` |
| `MailIsService` | the same for `Notifications`: the invariants of `NotificationsProofs` hold of the mails of the runs, an INSTANCE of that module discharging its assumptions |
| `NobodyForgotten` | `AgentInv`: the mails before the one at hand, and all those of the exceptions already listed, were tried or had been delivered (`Handled`); a SENT row that skips one is true (`SentInv` of the service) |
| `EscalationsBacked` | `AgentInv`: a status that is about to be recorded is backed by a row of `notification_log` (`GivenBacked`), because a dispatch that ends without an exception leaves one, and rows stay |
| `MailsExplained` | `AgentInv`: a delivered mail was tried by some run (`DeliveredTried`), and a run that has recorded its finds has a row for every mail it tried (`TriedFits` with `KeptInv` of `Lifecycle`) |
| `KnownFailuresAbortNoRun` | if no call raises what the service does not know: with `CallsInv` a run at a send is in `dispatch_node` and nothing else of it moves; so the run `aborted` needs a foreign error |
| `RunMailsAccountedFor` | `AccountInv` of the service, carried over to the mails of the runs |
| `RepeatsInTurn` | if `MaxActive` is at most 1: `OneAtATime` of `Lifecycle` with `CallsInv` leaves no rival to a dispatch (`NoRivals`), so a second mail has cost a crash, a lost answer or a refused record, although exceptions share keys and runs repeat the files |
| `RunsProofs!TypeCorrect` | `RunsInv` and `Plain`: the remaining types |
| `AnswersAgree` | `RunsInv`: the row of a run follows its task (`RowFits`), and its record is pending until its thread publishes what the row says (`EntryFits`) |
| `FailuresLeaveTraces`, `StuckRowsReported` | `RunsInv`: the traces of an incident are left in their order (`Traced`), and the page is open before anything can fail (`PageFits`) |
| `TrailsAgree` | `RunsInv`: a trail grows with the graph, its end is on record from the last node on and never after a node has raised (`TrailFits`) |
| `ImplementsVerdicts` | `ToldInv`: what a page was told fits the row of its run, a run that writes its incident has no verdict yet, and nothing is filed before the graph has failed; with `RunsInv` (a record that is not pending has a thread that has made its last write) every step is one of `Verdicts` or a stutter |
| `PendingIsAtWork` | `RunsInv`: a pending record has a thread that has not come to rest, or it would have been replaced |
| `ThreadsShrink` | every step leaves a thread alone or brings it nearer to its end (`Ahead`: at most 14 steps), whatever write fails |
| `PendingStaysBounded` | `Keyed`: the registry has no run twice and holds exactly the recorded ones; a pending record is only added by `register`, which evicts; what `Put` adds back is not pending |
| `SoundFilesGoOn` | `IntakeInv`: the errors are those of the rows before the cursor; `DeadInv`: a request that died had met a cell that is no number. So the run `partial` needs a bad row |
| `RejectionsAreComplete` | `IntakeInv`, with what a file was rejected for (`RejectedInv`) |
| `IntakeProofs!TypeCorrect` | `BuilderInv`: what is parsed is an order with amounts that are numbers (`SoundRow`), and the loops of the builder hold numbers of rows |
| `ObligationsAreThePlacedRows` | `BuilderInv`: after *n* rows each of them is in the group of its order, once, and no other is (`GroupsOf`); the obligations list the placed rows of the groups passed, each once (`Met`), those at hand the placed ones before the position (`Taken`); two groups share no row, because they have different orders |
| `SumsAreAlwaysJudged` | `SumInv`: the sum the loop has reached is the one over the placed rows passed, and an order that was judged was judged by the sum of all of its placed rows. That a loop over a list computes a sum over a set is what the lemmas of `Sums` are for: the operator of the community modules takes the summands in an order of its own, which does not matter |

None of the properties is inductive alone. `EmailsAccountedFor`, for example, says
nothing of a thread that has sent and not yet recorded, so the strengthening has to
tell how many mails are paid for at every step of a dispatch; `MatchesDefinition`
says nothing of the ids that are consumed, which is what a later row meets.

The proof of `AgentInv` does not go through the actions of `Agent` one by one. The
definition `Kinds` says what a step can do to one run (it stands still, starts,
decides, moves to another node or its end, lists an exception, tries a mail, finishes
one); every step is shown to be of one kind for each run, a crash included, and each
invariant to survive every kind.

*Properties the code violates.* Five of the violated runs have a theorem beside
them that says when the property holds, in the words of the model and for all its
other constants: `StatusUnlessSplit`, `TxnFirstUnlessContended`,
`SightingsSurviveInTurn`, `KnownFailuresAbortNoRun`, `SoundFilesGoOn`. For `race` it is
`ImplementsOutbox`, whose private keys have one thread. Their hypotheses are
configurations the program is used in: the command line runs one run at a time, most
orders are not split.

*Finite sets.* The prover cannot instantiate the induction theorems of its library.
`Sums` does without them: if a claim about finite sets failed, the sizes of the sets
on which it fails would have a least number (`Least`, from `WFMin`), and taking one
member from such a set gives a smaller one.

*Only model-checked.* The liveness properties `DispatchReturns`, `RunsEnd` and
`PagesEnd`, which are about fairness and enabledness and out of the prover's reach.
What they rest on is proved: `DispatchesShrink`, `RunsShrink` and `ThreadsShrink`
give each of them its variant, a natural number that every step of the thread makes
smaller and no step of anybody makes larger, and `PendingIsAtWork` that a page which
polls for a pending record has a thread to wait for. What is left to TLC is that a
step is always possible.

## 5. What is not modelled

CSV and Excel reading, missing columns and cell formats; the similarity score
and the prompts; the wording of mails and summaries; the
contents and the number of the audit events and the percentage derived from their
ranks, metrics, middleware,
logging and the read-only pages; the demo key
and the size limit of uploads; severity, which is a table; the concrete notifiers
beyond what one call can do. `compute_input_hash` is a pure digest. Configuration
values are constants. A failure of `verify_node` after it has committed its events is left
out: all that follows is `_build_summary` (`nodes.py:356`), which counts lists the state
already holds. Parts marked *partly* in PROJECT.json say which operations
are missing.

## 6. Plan

Order of the work, the most important behaviour first; all but the last are done.

1. `Notifications`, `Outbox`: races, crashes, retries, refused records; theorems.
2. `Matching`: keys and fuzzy step; theorems.
3. `Routing`, `Lifecycle`: the exception log over overlapping runs; theorems.
4. `Runs`, `Verdicts`: rows, incidents, registry, pages; `RunsProofs`, all of its
   safety, the refinement and the variant of its threads.
5. `Intake`: validation and obligations; `Sums`, `IntakeProofs`, all of its safety.
6. `Agent`: the runs with their mails, `Lifecycle` composed with `Notifications`;
   `AgentProofs`, all of its safety and both refinements.
7. The audit trail in `Runs`, node by node.
8. A module that composes `Runs` with `Lifecycle`, so that a run is completed only
   when its finds are on record.
