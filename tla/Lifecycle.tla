----------------------------- MODULE Lifecycle -----------------------------
(***************************************************************************)
(* The exception log across runs: decide_node, dispatch_node and verify_node *)
(* (agent/nodes.py) with upsert_exception (audit/repository.py) and          *)
(* mark_resolved (agent/verifier.py).  The runs are threads of the web       *)
(* process, or processes started one after the other from the command line;  *)
(* they share the database.                                                 *)
(*                                                                         *)
(* A session of SQLAlchemy over SQLite reads outside a transaction until it  *)
(* first writes: the first row dispatch_node looks up and the rows           *)
(* mark_resolved selects can have changed when the session writes them, and  *)
(* an UPDATE holds only the columns that differ from what was read.          *)
(***************************************************************************)
EXTENDS Routing

CONSTANTS
    Inputs,       \* what a run can find: sequences of exceptions
    ModelAnswers, \* the answers of the language model considered
    FuzzyCalls,   \* the calls for fuzzy matching considered: 0, 1 or both
    MaxRuns,      \* bound: runs
    MaxActive,    \* runs under way at one time; 1 from the command line
    MaxCalls,     \* settings.max_llm_calls; 0 is the mock, which only rules
    MaxCrashes    \* bound: crashes of the process

Runs == 1 .. MaxRuns

Exceptions == UNION {{x[n] : n \in DOMAIN x} : x \in Inputs}

Keys == {MismatchKey(e, role) : e \in Exceptions, role \in Roles}

Statuses == {"OPEN", "AWAITING_RECHECK", "ESCALATED", "RESOLVED"}
Unresolved == {"OPEN", "AWAITING_RECHECK", "ESCALATED"}

None == "none"
NoRow == [status |-> None, run |-> 0]

\* An answer names an action, cannot be parsed, or never comes.
ASSUME InputsAssumption ==
    /\ \A x \in Inputs : x \in Seq(Exceptions)
    /\ ModelAnswers \subseteq PlannerActions \union {"malformed", "unavailable"}

ASSUME ExceptionsAssumption ==
    \A e \in Exceptions :
        /\ e.reason \in DOMAIN DefaultRouting
        /\ e.party \in Roles \union {Absent}
        /\ e.within \in BOOLEAN

ASSUME AbsentAssumption == Absent \notin Keys

ASSUME BoundsAssumption ==
    /\ {MaxRuns, MaxActive, MaxCalls, MaxCrashes} \subseteq Nat
    /\ FuzzyCalls \subseteq {0, 1}

VARIABLES
    log,      \* exception_log: a row or NoRow for every key
    run,      \* the runs
    calls,    \* _calls of the client of the process
    crashes   \* crashes so far

vars == <<log, run, calls, crashes>>

\* What a run knows.  given and flushed stand for the list lifecycle of
\* dispatch_node: the last status listed for a key, and the statuses the first
\* key has at the points of the list where the session looks another key up,
\* which writes what is pending.  alone is history: no other run was under way
\* when it began.
Idle == [pc |-> "idle",          \* the node it is in
         excs |-> << >>,         \* its exceptions
         decisions |-> << >>,    \* what was decided on them
         sent |-> 0,             \* exceptions dispatched
         given |-> [k \in Keys |-> None],
         flushed |-> {},
         first |-> Absent,       \* the first key listed
         seen |-> NoRow,         \* the row of it, as read
         stale |-> {},           \* the keys mark_resolved selected
         alone |-> FALSE]

Ended == {"completed", "failed", "crashed"}
Active(r) == run[r].pc \notin Ended \union {"idle"}
CurrentKeys(r) == {k \in Keys : run[r].given[k] # None}

Init ==
    /\ log = [k \in Keys |-> NoRow]
    /\ run = [r \in Runs |-> Idle]
    /\ calls = 0
    /\ crashes = 0

----------------------------------------------------------------------------
\* A run begins with the exceptions it found; it called the language model
\* for fuzzy matching or not.
Begin(r) ==
    /\ run[r].pc = "idle"
    /\ \A q \in Runs : q < r => run[q].pc # "idle"
    /\ Cardinality({q \in Runs : Active(q)}) < MaxActive
    /\ \E x \in Inputs, n \in FuzzyCalls :
           /\ run' = [run EXCEPT ![r] =
                          [@ EXCEPT !.pc = "decide", !.excs = x,
                                    !.alone = \A q \in Runs : ~ Active(q)]]
           /\ calls' = calls + n
    /\ UNCHANGED <<log, crashes>>

Answers == IF calls + 1 > MaxCalls THEN {"refused"} ELSE ModelAnswers

\* What the client proposes: the choice of the model, or the rules when the
\* answer cannot be parsed, no answer comes or the budget is spent.
Proposed(answer, e) ==
    IF answer \in PlannerActions THEN answer ELSE RuleAction(e)

\* One iteration of decide_node.
Decide(r) ==
    /\ run[r].pc = "decide"
    /\ Len(run[r].decisions) < Len(run[r].excs)
    /\ LET e == run[r].excs[Len(run[r].decisions) + 1] IN
       \E answer \in Answers :
           run' = [run EXCEPT ![r].decisions =
                       Append(@, PlanAction(Proposed(answer, e), e))]
    /\ calls' = calls + 1
    /\ UNCHANGED <<log, crashes>>

EndDecide(r) ==
    /\ run[r].pc = "decide"
    /\ Len(run[r].decisions) = Len(run[r].excs)
    /\ run' = [run EXCEPT ![r].pc = "dispatch"]
    /\ UNCHANGED <<log, calls, crashes>>

----------------------------------------------------------------------------
\* The keys and the status an exception adds to the list, first before the
\* other one: an exception has at most two.  A key that is on the list is in
\* the session, and looking it up again writes nothing.
FaultyList(me, ks, status, first) ==
    [me EXCEPT !.sent = @ + 1,
               !.given = [k \in Keys |-> IF k \in ks /\ @[k] = None
                                        THEN status ELSE @[k]],
               !.first = IF @ = Absent THEN first ELSE @]

List(me, ks, status, first) ==
    LET one == IF me.first = Absent THEN first ELSE me.first
        another == \E k \in ks \ {one} : me.given[k] = None IN
    [me EXCEPT !.sent = @ + 1,
               !.given = [k \in Keys |-> IF k \in ks THEN status ELSE @[k]],
               !.flushed = IF another
                           THEN @ \union {IF one = first THEN status ELSE me.given[one]}
                           ELSE @,
               !.first = one]

\* One iteration of dispatch_node: the mails of one exception.  Whether they
\* are sent makes no difference to the list.
Dispatch(r) ==
    /\ run[r].pc = "dispatch"
    /\ run[r].sent < Len(run[r].excs)
    /\ LET n == run[r].sent + 1
           e == run[r].excs[n]
           a == run[r].decisions[n]
           drafts == IF a = "WAIT" THEN 0 ELSE Len(TargetRoles(e, a)) IN
       /\ run' = [run EXCEPT ![r] =
                      List(@, TargetKeys(e, a), LifeStatus(a),
                           FirstKey(e, a))]
       /\ calls' = calls + drafts
    /\ UNCHANGED <<log, crashes>>

\* The session at the end of dispatch_node looks up the first key; with
\* nothing to list it goes on to verify_node.
FaultyLook(r) ==
    /\ run[r].pc = "dispatch"
    /\ run[r].sent = Len(run[r].excs)
    /\ run[r].first # Absent
    /\ run' = [run EXCEPT ![r].pc = "record", ![r].seen = log[run[r].first]]
    /\ UNCHANGED <<log, calls, crashes>>

Look(r) ==
    /\ run[r].pc = "dispatch"
    /\ run[r].sent = Len(run[r].excs)
    /\ IF run[r].first = Absent
       THEN run' = [run EXCEPT ![r].pc = "verify"]
       ELSE run' = [run EXCEPT ![r].pc = "record",
                               ![r].seen = log[run[r].first]]
    /\ UNCHANGED <<log, calls, crashes>>

\* The column status is left out of the UPDATE of the first row when it was
\* read with the status it is to get and had no other one when it was written.
KeepsStatus(r, k) ==
    /\ k = run[r].first
    /\ run[r].given[k] = run[r].seen.status
    /\ run[r].flushed \subseteq {run[r].seen.status}

\* A row that exists is not given the run that saw it last.
FaultyUpserted(r) ==
    [k \in Keys |->
        IF k \notin CurrentKeys(r) THEN log[k]
        ELSE [status |-> run[r].given[k],
              run |-> IF log[k] = NoRow THEN r ELSE log[k].run]]

Upserted(r) ==
    [k \in Keys |->
        IF k \notin CurrentKeys(r) THEN log[k]
        ELSE [status |-> IF KeepsStatus(r, k) THEN log[k].status
                         ELSE run[r].given[k],
              run |-> r]]

\* Another session has inserted the row this one is about to insert.
InsertClashes(r) == run[r].seen = NoRow /\ log[run[r].first] # NoRow

\* The rest of the session is one transaction.
Record(r) ==
    /\ run[r].pc = "record"
    /\ ~ InsertClashes(r)
    /\ log' = Upserted(r)
    /\ run' = [run EXCEPT ![r].pc = "verify"]
    /\ UNCHANGED <<calls, crashes>>

----------------------------------------------------------------------------
\* mark_resolved selects the rows, and the commit writes them.

Stale(r) == {k \in Keys : log[k].status \in Unresolved /\ k \notin CurrentKeys(r)}

Select(r) ==
    /\ run[r].pc = "verify"
    /\ run' = [run EXCEPT ![r].pc = "resolve", ![r].stale = Stale(r)]
    /\ UNCHANGED <<log, calls, crashes>>

Resolved(r) ==
    [k \in Keys |-> IF k \in run[r].stale
                    THEN [status |-> "RESOLVED", run |-> r] ELSE log[k]]

Resolve(r) ==
    /\ run[r].pc = "resolve"
    /\ log' = Resolved(r)
    /\ run' = [run EXCEPT ![r].pc = "completed"]
    /\ UNCHANGED <<calls, crashes>>

----------------------------------------------------------------------------
EndFailed(r) ==
    /\ run' = [run EXCEPT ![r].pc = "failed"]
    /\ UNCHANGED <<log, calls, crashes>>

\* The session is rolled back and the run goes on.
FaultyClash(r) ==
    /\ run[r].pc = "record"
    /\ InsertClashes(r)
    /\ run' = [run EXCEPT ![r].pc = "verify"]
    /\ UNCHANGED <<log, calls, crashes>>

\* An IntegrityError ends the run, after its mails.
Clash(r) == run[r].pc = "record" /\ InsertClashes(r) /\ EndFailed(r)

\* Any other exception that leaves a node: a database that stays locked, a
\* send that raises.
Fail(r) == Active(r) /\ EndFailed(r)

Crash ==
    /\ crashes < MaxCrashes
    /\ crashes' = crashes + 1
    /\ run' = [r \in Runs |-> IF Active(r) THEN [run[r] EXCEPT !.pc = "crashed"]
                              ELSE run[r]]
    /\ calls' = 0
    /\ UNCHANGED log

Work(r) == \/ Decide(r) \/ EndDecide(r) \/ Dispatch(r) \/ Look(r)
           \/ Record(r) \/ Clash(r) \/ Select(r) \/ Resolve(r)

Next == (\E r \in Runs : Begin(r) \/ Work(r) \/ Fail(r)) \/ Crash

Spec == Init /\ [][Next]_vars

\* The thread of a run is scheduled until the run ends.
FairSpec == Spec /\ \A r \in Runs : WF_vars(Work(r))

----------------------------------------------------------------------------
\* Properties.

Nodes == {"idle", "decide", "dispatch", "record", "verify", "resolve"}

Rows == [status : Statuses \union {None}, run : Runs \union {0}]

RunRecords ==
    [pc : Nodes \union Ended,
     excs : Seq(Exceptions),
     decisions : Seq(PlannerActions),
     sent : Nat,
     given : [Keys -> Unresolved \union {None}],
     flushed : SUBSET (Unresolved \union {None}),
     first : Keys \union {Absent},
     seen : Rows,
     stale : SUBSET Keys,
     alone : BOOLEAN]

TypeOK ==
    /\ log \in [Keys -> Rows]
    /\ run \in [Runs -> RunRecords]
    /\ calls \in Nat
    /\ crashes \in Nat
    /\ \A r \in Runs : run[r].sent <= Len(run[r].decisions)
                       /\ Len(run[r].decisions) <= Len(run[r].excs)

LastStarted(r) ==
    run[r].pc # "idle" /\ \A q \in Runs : q > r => run[q].pc = "idle"

KeysOf(r, n) == TargetKeys(run[r].excs[n], run[r].decisions[n])

LastWith(r, k, n) ==
    k \in KeysOf(r, n) /\ \A m \in DOMAIN run[r].excs : m > n => k \notin KeysOf(r, m)

\* A run that has the database to itself leaves the exception log as its
\* mirror: a key has the status that was decided for the last exception that
\* has it, although several may share it and be decided differently; all other
\* rows are resolved, whatever failed, crashed or overlapped before.
LogMirrorsLastRun ==
    \A r \in Runs : LastStarted(r) /\ run[r].alone /\ run[r].pc = "completed" =>
        \A k \in Keys :
            \/ \E n \in DOMAIN run[r].excs :
                   /\ LastWith(r, k, n)
                   /\ log[k] = [status |-> LifeStatus(run[r].decisions[n]), run |-> r]
            \/ /\ \A n \in DOMAIN run[r].excs : k \notin KeysOf(r, n)
               /\ log[k].status \notin Unresolved

\* Runs that overlap may resolve each other's exceptions, but a row that is
\* unresolved was found by the run it names.
UnresolvedWasFound ==
    \A k \in Keys :
        log[k].status \in Unresolved =>
            log[k].run \in Runs /\ k \in CurrentKeys(log[k].run)

\* A completed run has left a row for every exception and every role it turned
\* to, the ones it only waits for included: an insert that another run got in
\* before must not cost it the rest of its session.
FindsAreOnRecord ==
    \A r \in Runs : run[r].pc = "completed" =>
        \A n \in DOMAIN run[r].excs :
            LET roles == TargetRoles(run[r].excs[n], run[r].decisions[n]) IN
            \A m \in DOMAIN roles : log[MismatchKey(run[r].excs[n], roles[m])] # NoRow

\* No run is under way for ever: it completes, fails or goes down with its
\* process (none becomes idle again), also when the language model refuses
\* everything and when other runs get in its way.
RunsEnd == \A r \in Runs : []<>(~ Active(r))

----------------------------------------------------------------------------
\* What the documents say and the code does not do.

\* A row is resolved by a run in which its exception was absent
\* (agent/verifier.py).
SightingSurvives ==
    \A k \in Keys : log[k].status = "RESOLVED" => k \notin CurrentKeys(log[k].run)

=============================================================================
