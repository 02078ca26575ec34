--------------------------- MODULE Notifications ---------------------------
(***************************************************************************)
(* The notification service: NotificationService.dispatch together with    *)
(* the retry loop, the circuit breaker and the notification_log row it     *)
(* reads before a send and writes after it.                                *)
(*                                                                         *)
(* A worker is a thread that calls dispatch: every background run has one. *)
(* The threads share the process-wide service (hence the breaker) and the  *)
(* SQLite database.  A key is a (mismatch_key, recipient_email) pair, the  *)
(* columns notification_log is unique on.                                  *)
(*                                                                         *)
(* One dispatch is four kinds of step, each atomic by itself and none of   *)
(* them atomic with the next: the check (its own session), the provider    *)
(* calls (each under the breaker's lock, the back-off between them outside *)
(* it), the SELECT of the record (SQLite opens no transaction for it) and  *)
(* the INSERT or UPDATE that commits.                                      *)
(***************************************************************************)
EXTENDS Integers, FiniteSets

CONSTANTS
    Workers,        \* threads that call dispatch
    Keys,           \* (mismatch_key, recipient_email) pairs
    Produces,       \* Produces[w]: the keys the runs of thread w dispatch
    RetryAttempts,  \* resilience.email_retry_attempts
    FailMax,        \* resilience.circuit_breaker_fail_max
    Outcomes,       \* what one provider call may do in this instance
    MaxDispatch,    \* bound: dispatches per worker
    MaxCrashes      \* bound: process crashes

\* What Notifier.send does, as the service sees it.  "lost" is a mail the
\* provider accepted while its answer did not arrive: the notifier raises
\* TransientNotifyError all the same.  "error" is an exception outside the
\* NotifyError taxonomy (an OSError of the outbox, a ValueError of a header).
Sent      == {"ok"}
Transient == {"transient", "lost"}
Permanent == {"permanent"}
Foreign   == {"error"}
AllOutcomes == Sent \union Transient \union Permanent \union Foreign

Statuses == {"SENT", "FAILED", "SKIPPED"}

ASSUME WorkersAssumption == IsFiniteSet(Workers)
ASSUME ProducesAssumption == Produces \in [Workers -> SUBSET Keys]
ASSUME RetryAssumption == RetryAttempts \in Nat \ {0}
ASSUME FailMaxAssumption == FailMax \in Nat \ {0}
ASSUME OutcomesAssumption == Outcomes \subseteq AllOutcomes
ASSUME BoundsAssumption == MaxDispatch \in Nat /\ MaxCrashes \in Nat

VARIABLES
    log,        \* log[k]: status column of the row of k, "none" without a row
    breaker,    \* the shared circuit breaker
    task,       \* task[w]: the dispatch thread w is in
    started,    \* started[w]: dispatches thread w has begun
    crashes,    \* crashes so far
    delivered,  \* history: delivered[k], mails for k the provider accepted
    lost,       \* history: lost[k], those among them whose answer was lost
    unrecorded, \* history: ... whose record the database refused
    rivals,     \* history: dispatches of k begun during another one
    burst       \* history: failed provider calls in a row without a rest

history == <<delivered, lost, unrecorded, rivals, burst>>
vars == <<log, breaker, task, started, crashes, history>>

----------------------------------------------------------------------------
\* The circuit breaker (pybreaker).  The half-open state exists only inside
\* the locked trial call, so no other thread acts in it.

Closed == [state |-> "closed", failures |-> 0, elapsed |-> FALSE]
Opened == [state |-> "open", failures |-> FailMax, elapsed |-> FALSE]

\* A call reaches the provider if the circuit is closed, or open for at
\* least the reset timeout (the trial call).
Admits(b) == b.state = "closed" \/ b.elapsed

Trips(b) == b.state = "open" \/ b.failures + 1 >= FailMax

FaultyOnFailure(b) == IF b.state = "open" THEN Closed
                      ELSE IF Trips(b) THEN Opened
                      ELSE [b EXCEPT !.failures = @ + 1]

\* Every exception counts, the permanent ones too; a failed trial reopens.
OnFailure(b) == IF Trips(b) THEN Opened ELSE [b EXCEPT !.failures = @ + 1]

----------------------------------------------------------------------------
Idle == [pc |-> "idle"]

Sending(k, n) ==
    [pc |-> "send", key |-> k, tries |-> n, result |-> "none", seen |-> "none"]

\* The same dispatch once _send has returned r, at step p of _record, with
\* the row as the SELECT found it.
Recording(p, k, r, s) ==
    [pc |-> p, key |-> k, tries |-> 0, result |-> r, seen |-> s]

Tasks ==
    {Idle}
    \union {Sending(k, n) : k \in Keys, n \in 0 .. RetryAttempts - 1}
    \union {Recording("read", k, r, "none") : k \in Keys, r \in Statuses}
    \union {Recording("write", k, r, s) :
                k \in Keys, r \in Statuses, s \in Statuses \union {"none"}}

Become(w, t) == task' = [task EXCEPT ![w] = t]

Init ==
    /\ log = [k \in Keys |-> "none"]
    /\ breaker = Closed
    /\ task = [w \in Workers |-> Idle]
    /\ started = [w \in Workers |-> 0]
    /\ crashes = 0
    /\ delivered = [k \in Keys |-> 0]
    /\ lost = [k \in Keys |-> 0]
    /\ unrecorded = [k \in Keys |-> 0]
    /\ rivals = [k \in Keys |-> 0]
    /\ burst = 0

----------------------------------------------------------------------------
\* dispatch: already_notified.  A SENT row ends the dispatch, nothing is
\* recorded; any other row, or none, lets the send begin.

FaultyAlreadyNotified(k) == FALSE

FaultyAnyRow(k) == log[k] # "none"

AlreadyNotified(k) == log[k] = "SENT"

Begin(w, k) ==
    /\ task[w] = Idle
    /\ k \in Produces[w]
    /\ started[w] < MaxDispatch
    /\ started' = [started EXCEPT ![w] = @ + 1]
    /\ UNCHANGED <<log, breaker, crashes, delivered, lost, unrecorded, burst>>

SkipDuplicate(w, k) ==
    /\ Begin(w, k)
    /\ AlreadyNotified(k)
    /\ UNCHANGED <<task, rivals>>

\* Thread w is in a dispatch of k.
Busy(w, k) == task[w] # Idle /\ task[w].key = k

StartSend(w, k) ==
    /\ Begin(w, k)
    /\ ~ AlreadyNotified(k)
    /\ Become(w, Sending(k, 0))
    /\ rivals' = IF \E v \in Workers : Busy(v, k)
                 THEN [rivals EXCEPT ![k] = @ + 1] ELSE rivals

----------------------------------------------------------------------------
\* _send: one provider call under the breaker.

Deliver(k) == delivered' = [delivered EXCEPT ![k] = @ + 1]

CallAccepted(w) ==
    /\ task[w].pc = "send"
    /\ Admits(breaker)
    /\ Outcomes \intersect Sent # {}
    /\ breaker' = Closed
    /\ Deliver(task[w].key)
    /\ burst' = 0
    /\ Become(w, Recording("read", task[w].key, "SENT", "none"))
    /\ UNCHANGED <<log, started, crashes, lost, unrecorded, rivals>>

FaultyRetryCount(t, o) ==
    IF Trips(breaker) THEN Recording("read", t.key, "SKIPPED", "none")
    ELSE IF o \in Foreign THEN Idle
    ELSE IF o \in Transient /\ t.tries < RetryAttempts
         THEN Sending(t.key, t.tries + 1)
    ELSE Recording("read", t.key, "FAILED", "none")

\* What the dispatch does after a call that failed with outcome o: the call
\* that trips the breaker raises CircuitBreakerError whatever the provider
\* said; a transient failure is retried until the attempts are used up; a
\* permanent one ends the send; anything else leaves dispatch as an
\* exception, with nothing recorded.
AfterFailure(t, o) ==
    IF Trips(breaker) THEN Recording("read", t.key, "SKIPPED", "none")
    ELSE IF o \in Foreign THEN Idle
    ELSE IF o \in Transient /\ t.tries + 1 < RetryAttempts
         THEN Sending(t.key, t.tries + 1)
    ELSE Recording("read", t.key, "FAILED", "none")

CallFailed(w, o) ==
    /\ task[w].pc = "send"
    /\ Admits(breaker)
    /\ o \in Outcomes \ Sent
    /\ breaker' = OnFailure(breaker)
    /\ burst' = burst + 1
    /\ IF o = "lost"
       THEN /\ Deliver(task[w].key)
            /\ lost' = [lost EXCEPT ![task[w].key] = @ + 1]
       ELSE UNCHANGED <<delivered, lost>>
    /\ Become(w, AfterFailure(task[w], o))
    /\ UNCHANGED <<log, started, crashes, unrecorded, rivals>>

\* CircuitBreakerError without a provider call: not retried.
CallRefused(w) ==
    /\ task[w].pc = "send"
    /\ ~ Admits(breaker)
    /\ Become(w, Recording("read", task[w].key, "SKIPPED", "none"))
    /\ UNCHANGED <<log, breaker, started, crashes, history>>

----------------------------------------------------------------------------
\* _record: the SELECT of record_notification, then its INSERT or UPDATE.

FaultyRecordRead(w) ==
    /\ task[w].pc = "read"
    /\ Become(w, Recording("write", task[w].key, "SENT", log[task[w].key]))
    /\ UNCHANGED <<log, breaker, started, crashes, history>>

RecordRead(w) ==
    /\ task[w].pc = "read"
    /\ Become(w, Recording("write", task[w].key, task[w].result,
                           log[task[w].key]))
    /\ UNCHANGED <<log, breaker, started, crashes, history>>

FaultyWritten(t) ==
    IF t.seen # "none" /\ t.result # t.seen THEN t.result ELSE log[t.key]

\* The status column after the write of dispatch t.  An INSERT that meets a
\* row raises IntegrityError and changes nothing.  An UPDATE writes the
\* columns whose value differs from the one loaded: a status equal to the
\* one seen is not written again.
Written(t) ==
    IF t.seen = "none"
    THEN IF log[t.key] = "none" THEN t.result ELSE log[t.key]
    ELSE IF t.result # t.seen THEN t.result ELSE log[t.key]

\* An INSERT that meets a row is tried again, with what was read before.
FaultyRecordWrite(w) ==
    /\ task[w].pc = "write"
    /\ task[w].seen = "none" => log[task[w].key] = "none"
    /\ log' = [log EXCEPT ![task[w].key] = Written(task[w])]
    /\ Become(w, Idle)
    /\ UNCHANGED <<breaker, started, crashes, history>>

RecordWrite(w) ==
    /\ task[w].pc = "write"
    /\ log' = [log EXCEPT ![task[w].key] = Written(task[w])]
    /\ Become(w, Idle)
    /\ UNCHANGED <<breaker, started, crashes, history>>

\* The database refuses the SELECT or the commit (it stays locked, its disk is
\* full): the exception leaves dispatch, whatever became of the mail.
RecordRefused(w) ==
    /\ task[w].pc \in {"read", "write"}
    /\ Become(w, Idle)
    /\ unrecorded' = IF task[w].result = "SENT"
                     THEN [unrecorded EXCEPT ![task[w].key] = @ + 1]
                     ELSE unrecorded
    /\ UNCHANGED <<log, breaker, started, crashes, delivered, lost, rivals, burst>>

----------------------------------------------------------------------------
\* The environment: the reset timeout passes; the process crashes and is
\* started again (the breaker and the threads are in memory, the rows are
\* committed).

BreakerTimeout ==
    /\ breaker.state = "open"
    /\ ~ breaker.elapsed
    /\ breaker' = [breaker EXCEPT !.elapsed = TRUE]
    /\ burst' = 0
    /\ UNCHANGED <<log, task, started, crashes, delivered, lost, unrecorded, rivals>>

Crash ==
    /\ crashes < MaxCrashes
    /\ crashes' = crashes + 1
    /\ breaker' = Closed
    /\ task' = [w \in Workers |-> Idle]
    /\ burst' = 0
    /\ UNCHANGED <<log, started, delivered, lost, unrecorded, rivals>>

----------------------------------------------------------------------------
\* What a thread does once a dispatch has begun.
Step(w) ==
    \/ CallAccepted(w)
    \/ \E o \in Outcomes : CallFailed(w, o)
    \/ CallRefused(w)
    \/ RecordRead(w)
    \/ RecordWrite(w)

Next ==
    \/ \E w \in Workers, k \in Keys : SkipDuplicate(w, k) \/ StartSend(w, k)
    \/ \E w \in Workers : Step(w) \/ RecordRefused(w)
    \/ BreakerTimeout
    \/ Crash

\* A thread in a dispatch is scheduled, every provider call returns (the
\* notifiers have timeouts), and time passes.
Fairness == (\A w \in Workers : WF_vars(Step(w))) /\ WF_vars(BreakerTimeout)

Spec == Init /\ [][Next]_vars /\ Fairness

----------------------------------------------------------------------------
\* Properties.

TypeOK ==
    /\ log \in [Keys -> Statuses \union {"none"}]
    /\ breaker \in [state : {"closed", "open"}, failures : 0 .. FailMax,
                    elapsed : BOOLEAN]
    /\ task \in [Workers -> Tasks]
    /\ started \in [Workers -> 0 .. MaxDispatch]
    /\ crashes \in 0 .. MaxCrashes
    /\ delivered \in [Keys -> Nat]
    /\ lost \in [Keys -> Nat]
    /\ unrecorded \in [Keys -> Nat]
    /\ rivals \in [Keys -> Nat]
    /\ burst \in Nat

\* A row that says SENT is never wrong: the provider accepted a mail for that
\* key, whatever the threads, the crashes and the overwritten rows did
\* (service.dispatch records only the result _send returned).
SentWasDelivered ==
    \A k \in Keys : log[k] = "SENT" => delivered[k] > 0

\* What can cost a second mail for k: a crash, an answer of the provider or a
\* record that got lost, and two dispatches of k at the same time.
Excuses(k) == crashes + lost[k] + unrecorded[k] + rivals[k]

\* Every mail for a key beyond the first one is paid for by an excuse of its
\* own: the check before the send stops every other repetition, although a
\* thread that lost a race may overwrite the SENT row of the winner.
EmailsAccountedFor == \A k \in Keys : delivered[k] <= 1 + Excuses(k)

\* The provider gets a rest: over all the threads there are never more than
\* FailMax failing calls in a row without a success, the reset timeout or a
\* restart between them (build_circuit_breaker).
ProviderRests == burst <= FailMax

\* Unless the process crashed or the database refused it, a mail whose answer
\* arrived leaves a row once no thread works on its key any more, in spite of
\* the race of the inserts.
DeliveryLeavesRow ==
    \A k \in Keys :
        (/\ crashes = 0 /\ unrecorded[k] = 0
         /\ delivered[k] > lost[k]
         /\ \A w \in Workers : ~ Busy(w, k))
        => log[k] # "none"

\* The same routed exception is never mailed twice (the module comment of
\* audit/idempotency.py, README and PRD): what the service promises.
NeverMailedTwice == \A k \in Keys : delivered[k] <= 1

\* Every dispatch comes to an end: the retries are bounded and a refusal of
\* the breaker is not retried.
DispatchReturns == \A w \in Workers : task[w] # Idle ~> task[w] = Idle

----------------------------------------------------------------------------
\* The promise of the service as a specification of its own: see Outbox.

\* No two threads ever dispatch k.
Private(k) == \A v, w \in Workers : k \in Produces[v] \intersect Produces[w] => v = w

PrivateKeys == {k \in Keys : Private(k)}

Promise == INSTANCE Outbox WITH
    Keys <- PrivateKeys,
    mails <- [k \in PrivateKeys |-> delivered[k]],
    recorded <- {k \in PrivateKeys : log[k] = "SENT"},
    faults <- [k \in PrivateKeys |-> crashes + lost[k] + unrecorded[k]]

KeepsPromise == Promise!Spec
=============================================================================
