------------------------------- MODULE Agent -------------------------------
(***************************************************************************)
(* The runs and their mails together: dispatch_node (agent/nodes.py) calls   *)
(* the notification service once for every recipient of every exception it   *)
(* does not wait for, and records the exceptions when it has been through    *)
(* all of them.  The thread of a run is the worker of Notifications; the     *)
(* process, its circuit breaker and the database are shared.                *)
(*                                                                         *)
(* A step is a step of Lifecycle, of Notifications or of both: an exception  *)
(* that leaves the service ends the run, and a crash takes both down.  The   *)
(* mails of an exception come before the step Dispatch that lists it.       *)
(***************************************************************************)
EXTENDS Lifecycle

CONSTANTS
    PaymentGateways, \* recipients.payment_gateways: addresses by gateway
    RetryAttempts,  \* resilience.email_retry_attempts
    FailMax,        \* resilience.circuit_breaker_fail_max
    Outcomes,       \* what one provider call may do in this instance
    MaxDispatch     \* bound: dispatches per run

ASSUME MailAssumption ==
    /\ {RetryAttempts, FailMax} \subseteq Nat \ {0}
    /\ Outcomes \subseteq {"ok", "transient", "lost", "permanent", "error"}
    /\ MaxDispatch \in Nat

VARIABLES
    notified,   \* notification_log: the status of the row of a mail key
    breaker, task, started, delivered, lost, unrecorded, rivals, burst,
    dry,        \* dry[r]: run r is asked to send nothing
    mailed,     \* mailed[r]: recipients of the exception at hand r is done with
    tried       \* history: tried[r], the mail keys run r began to send

\* for_role: a gateway without an address of its own, and no gateway, mean
\* the administrator.  An exception has the gateway of its order row.
ForRole(role, gateway) ==
    IF role # "PAYMENT_GATEWAY" THEN role
    ELSE IF gateway \in DOMAIN PaymentGateways THEN PaymentGateways[gateway]
    ELSE "ADMIN"

\* What a mail is sent and recorded under: the mismatch key and the address.
\* Exceptions of two gateways can share the key.
MailKey(e, role) == <<MismatchKey(e, role), ForRole(role, e.gateway)>>

MailKeys == {MailKey(e, role) : e \in Exceptions, role \in Roles}

Mail == INSTANCE Notifications WITH
    Workers <- Runs,
    Keys <- MailKeys,
    Produces <- [r \in Runs |-> MailKeys],
    log <- notified

mailVars == <<notified, breaker, task, started, delivered, lost, unrecorded,
              rivals, burst>>
agentVars == <<vars, mailVars, dry, mailed, tried>>

AgentInit ==
    /\ Init
    /\ Mail!Init
    /\ dry = [r \in Runs |-> FALSE]
    /\ mailed = [r \in Runs |-> 0]
    /\ tried = [r \in Runs |-> {}]

AgentBegin(r) ==
    /\ Begin(r)
    /\ \E d \in BOOLEAN : dry' = [dry EXCEPT ![r] = d]
    /\ UNCHANGED <<mailVars, mailed, tried>>

----------------------------------------------------------------------------
\* The recipients of exception n of run r, in the order of the sends.
Targets(r, n) ==
    LET e == run[r].excs[n]
        roles == TargetRoles(e, run[r].decisions[n]) IN
    [i \in DOMAIN roles |-> MailKey(e, roles[i])]

Sends(r, n) == ~ dry[r] /\ run[r].decisions[n] # "WAIT"

\* Run r is at an exception of dispatch_node and in no call of the service.
AtException(r) ==
    /\ run[r].pc = "dispatch"
    /\ run[r].sent < Len(run[r].excs)
    /\ task[r] = Mail!Idle

MailsLeft(r) ==
    LET n == run[r].sent + 1 IN Sends(r, n) /\ mailed[r] < Len(Targets(r, n))

NextKey(r) == Targets(r, run[r].sent + 1)[mailed[r] + 1]

\* Run r is done with one more recipient.
MailDone(r) ==
    /\ mailed' = [mailed EXCEPT ![r] = @ + 1]
    /\ UNCHANGED <<log, run, calls>>

\* An exception leaves the service and the graph.
MailFails(r) == EndFailed(r) /\ UNCHANGED mailed

MailGoesOn == UNCHANGED <<log, run, calls, mailed>>

\* _dispatch_one, up to the check of the service.
MailChecked(r) ==
    /\ AtException(r)
    /\ MailsLeft(r)
    /\ \/ /\ Mail!SkipDuplicate(r, NextKey(r))
          /\ MailDone(r)
          /\ UNCHANGED tried
       \/ /\ Mail!StartSend(r, NextKey(r))
          /\ MailGoesOn
          /\ tried' = [tried EXCEPT ![r] = @ \union {NextKey(r)}]
    /\ UNCHANGED dry

MailSent(r) ==
    /\ \/ (Mail!CallAccepted(r) \/ Mail!CallRefused(r)) /\ MailGoesOn
       \/ \E o \in Outcomes :
              /\ Mail!CallFailed(r, o)
              /\ IF Mail!AfterFailure(task[r], o) = Mail!Idle
                 THEN MailFails(r) ELSE MailGoesOn
    /\ UNCHANGED <<dry, tried>>

\* The INSERT of the record meets a row another run has inserted.
RecordClashes(t) == t.seen = "none" /\ notified[t.key] # "none"

FaultyMailRecorded(r) ==
    /\ \/ Mail!RecordRead(r) /\ MailGoesOn
       \/ Mail!RecordWrite(r) /\ MailDone(r)
       \/ Mail!RecordRefused(r) /\ MailDone(r)
    /\ UNCHANGED <<dry, tried>>

MailRecorded(r) ==
    /\ \/ Mail!RecordRead(r) /\ MailGoesOn
       \/ /\ Mail!RecordWrite(r)
          /\ IF RecordClashes(task[r]) THEN MailFails(r) ELSE MailDone(r)
       \/ Mail!RecordRefused(r) /\ MailFails(r)
    /\ UNCHANGED <<dry, tried>>

\* The exception has its mails, and is listed.  Its drafts, which came before
\* the mails, are counted here.
AgentDispatch(r) ==
    /\ AtException(r)
    /\ ~ MailsLeft(r)
    /\ Dispatch(r)
    /\ mailed' = [mailed EXCEPT ![r] = 0]
    /\ UNCHANGED <<mailVars, dry, tried>>

----------------------------------------------------------------------------
\* The other steps of a run concern no mail.
OtherWork(r) ==
    /\ \/ Decide(r) \/ EndDecide(r) \/ Look(r) \/ Record(r)
       \/ Clash(r) \/ Select(r) \/ Resolve(r)
    /\ UNCHANGED <<mailVars, dry, mailed, tried>>

\* Anything outside the sends may raise; inside, only what Notifications says.
AgentFail(r) ==
    /\ task[r] = Mail!Idle
    /\ Fail(r)
    /\ UNCHANGED <<mailVars, dry, mailed, tried>>

AgentCrash == Crash /\ Mail!Crash /\ UNCHANGED <<dry, mailed, tried>>

TimePasses == Mail!BreakerTimeout /\ UNCHANGED <<log, run, calls, dry, mailed, tried>>

AgentWork(r) ==
    \/ MailChecked(r)
    \/ MailSent(r)
    \/ MailRecorded(r)
    \/ AgentDispatch(r)
    \/ OtherWork(r)

AgentNext ==
    \/ \E r \in Runs : AgentBegin(r) \/ AgentWork(r) \/ AgentFail(r)
    \/ AgentCrash
    \/ TimePasses

AgentSpec == AgentInit /\ [][AgentNext]_agentVars

----------------------------------------------------------------------------
\* Properties.

AgentTypeOK ==
    /\ TypeOK
    /\ Mail!TypeOK
    /\ dry \in [Runs -> BOOLEAN]
    /\ mailed \in [Runs -> Nat]
    /\ tried \in [Runs -> SUBSET MailKeys]

\* Nobody is forgotten: a completed run that may send has tried every
\* recipient of every exception it did not wait for, or the recipient had the
\* mail before; a row that says FAILED or SKIPPED (the open breaker) silences
\* nobody.
NobodyIsForgotten ==
    \A r \in Runs : run[r].pc = "completed" =>
        \A n \in DOMAIN run[r].excs : Sends(r, n) =>
            \A i \in DOMAIN Targets(r, n) :
                LET m == Targets(r, n)[i] IN m \in tried[r] \/ delivered[m] > 0

\* The exception log does not run ahead of the mails: an exception that counts
\* as escalated or awaiting a recheck has a row in notification_log, unless a
\* run that was told to send nothing listed it.
EscalationsAreBacked ==
    \A k \in Keys :
        (/\ log[k].status \in {"ESCALATED", "AWAITING_RECHECK"}
         /\ \A r \in Runs : dry[r] => k \notin CurrentKeys(r))
        => \E m \in MailKeys : m[1] = k /\ notified[m] # "none"

\* Whoever got a mail finds its exception in the log, or some run that sent
\* one has failed, crashed or is still at its mails.
MailsAreExplained ==
    \A m \in MailKeys : delivered[m] > 0 =>
        \/ log[m[1]] # NoRow
        \/ \E r \in Runs : /\ m \in tried[r]
                           /\ run[r].pc \in {"dispatch", "record", "failed", "crashed"}

----------------------------------------------------------------------------
\* What the documents say and the code does not do.

\* The failure of a mail does not abort the run (docs/PRD.md).
SendsAbortNoRun ==
    [][\A r \in Runs : task[r].pc = "send" => run'[r].pc # "failed"]_agentVars

=============================================================================
