---------------------------- MODULE AgentProofs ----------------------------
(***************************************************************************)
(* Theorems about the runs and their mails together, for every set of        *)
(* files, any number of runs and any limits.  A step of Agent is a step of   *)
(* Lifecycle or leaves its variables alone, and the same for Notifications:  *)
(* the invariants of LifecycleProofs and NotificationsProofs carry over.     *)
(*                                                                         *)
(* The argument has three layers: the invariants carried over; where a call  *)
(* of the service can be under way (CallsInv); and what a run can account    *)
(* for (AgentInv).  The second and third are proved by what a step does to   *)
(* one run (Kinds), whichever run or crash the step belongs to.              *)
(***************************************************************************)
EXTENDS Agent, LifecycleProofs

Service == INSTANCE NotificationsProofs WITH
    Workers <- Runs,
    Keys <- MailKeys,
    Produces <- [r \in Runs |-> MailKeys],
    log <- notified

LEMMA ServiceAssumptions ==
    /\ Service!WorkersAssumption /\ Service!ProducesAssumption
    /\ Service!RetryAssumption /\ Service!FailMaxAssumption
    /\ Service!OutcomesAssumption /\ Service!BoundsAssumption
<1>1. Service!WorkersAssumption
  <2>1. IsFiniteSet(Runs)
    BY FS_Interval, BoundsAssumption DEF Runs
  <2>2. QED
    BY <2>1 DEF IsFiniteSet, Service!WorkersAssumption, Service!IsFiniteSet
<1>2. Service!ProducesAssumption
  BY DEF Service!ProducesAssumption
<1>3. Service!RetryAssumption
  BY MailAssumption DEF Service!RetryAssumption
<1>4. Service!FailMaxAssumption
  BY MailAssumption DEF Service!FailMaxAssumption
<1>5. Service!OutcomesAssumption
  BY MailAssumption
  DEF Service!OutcomesAssumption, Service!AllOutcomes, Service!Sent,
      Service!Transient, Service!Permanent, Service!Foreign
<1>6. Service!BoundsAssumption
  BY MailAssumption, BoundsAssumption DEF Service!BoundsAssumption
<1>7. QED
  BY <1>1, <1>2, <1>3, <1>4, <1>5, <1>6

----------------------------------------------------------------------------
\* NotificationsProofs speaks of the module Notifications that Mail names.

LEMMA SameVars == UNCHANGED Mail!vars <=> UNCHANGED Service!vars
BY DEF Mail!vars, Service!vars, Mail!history, Service!history

LEMMA SameInit == Mail!Init <=> Service!Init
BY DEF Mail!Init, Service!Init, Mail!Closed, Service!Closed, Mail!Idle, Service!Idle

LEMMA SameNext == Mail!Next <=> Service!Next
<1> USE DEF Mail!vars, Service!vars, Mail!history, Service!history,
            Mail!Closed, Service!Closed, Mail!Opened, Service!Opened,
            Mail!Idle, Service!Idle, Mail!Become, Service!Become,
            Mail!Sending, Service!Sending, Mail!Recording, Service!Recording
<1>1. \A r, m : Mail!SkipDuplicate(r, m) <=> Service!SkipDuplicate(r, m)
  BY DEF Mail!SkipDuplicate, Service!SkipDuplicate, Mail!Begin, Service!Begin,
         Mail!AlreadyNotified, Service!AlreadyNotified
<1>2. \A r, m : Mail!StartSend(r, m) <=> Service!StartSend(r, m)
  BY DEF Mail!StartSend, Service!StartSend, Mail!Begin, Service!Begin,
         Mail!AlreadyNotified, Service!AlreadyNotified, Mail!Busy, Service!Busy
<1>3. \A r : Mail!CallAccepted(r) <=> Service!CallAccepted(r)
  BY DEF Mail!CallAccepted, Service!CallAccepted, Mail!Admits, Service!Admits,
         Mail!Deliver, Service!Deliver, Mail!Sent, Service!Sent
<1>4. \A r, o : Mail!CallFailed(r, o) <=> Service!CallFailed(r, o)
  BY DEF Mail!CallFailed, Service!CallFailed, Mail!Admits, Service!Admits,
         Mail!Deliver, Service!Deliver, Mail!Sent, Service!Sent,
         Mail!OnFailure, Service!OnFailure, Mail!Trips, Service!Trips,
         Mail!AfterFailure, Service!AfterFailure, Mail!Foreign, Service!Foreign,
         Mail!Transient, Service!Transient
<1>5. \A r : Mail!CallRefused(r) <=> Service!CallRefused(r)
  BY DEF Mail!CallRefused, Service!CallRefused, Mail!Admits, Service!Admits
<1>6. \A r : Mail!RecordRead(r) <=> Service!RecordRead(r)
  BY DEF Mail!RecordRead, Service!RecordRead
<1>7. \A r : Mail!RecordWrite(r) <=> Service!RecordWrite(r)
  BY DEF Mail!RecordWrite, Service!RecordWrite, Mail!Written, Service!Written
<1>8. \A r : Mail!RecordRefused(r) <=> Service!RecordRefused(r)
  BY DEF Mail!RecordRefused, Service!RecordRefused
<1>9. Mail!BreakerTimeout <=> Service!BreakerTimeout
  BY DEF Mail!BreakerTimeout, Service!BreakerTimeout
<1>10. Mail!Crash <=> Service!Crash
  BY DEF Mail!Crash, Service!Crash
<1>11. QED
  BY <1>1, <1>2, <1>3, <1>4, <1>5, <1>6, <1>7, <1>8, <1>9, <1>10
  DEF Mail!Next, Service!Next, Mail!Step, Service!Step

----------------------------------------------------------------------------
\* The invariants of the service.

MailInv == Service!TypeInv /\ Service!SentInv /\ Service!RowInv /\ Service!SeenInv

LEMMA MailInit == Mail!Init => MailInv
<1> SUFFICES ASSUME Service!Init PROVE MailInv
  BY SameInit
<1>1. Service!TypeInv
  BY ServiceAssumptions, Service!TypeInit
<1>2. Service!SentInv /\ Service!RowInv /\ Service!SeenInv
  BY DEF Service!Init, Service!SentInv, Service!SentWasDelivered, Service!RowInv,
         Service!SeenInv, Service!Idle
<1>3. QED
  BY <1>1, <1>2 DEF MailInv

LEMMA MailStep == MailInv /\ [Mail!Next]_(Mail!vars) => MailInv'
<1> SUFFICES ASSUME MailInv, Service!Next \/ UNCHANGED Service!vars PROVE MailInv'
  BY SameNext, SameVars
<1>1. Service!TypeInv'
  BY ServiceAssumptions, Service!TypeStep DEF MailInv
<1>2. Service!SentInv'
  BY ServiceAssumptions, Service!SentStep DEF MailInv
<1>3. Service!RowInv' /\ Service!SeenInv'
  BY ServiceAssumptions, Service!RowStep DEF MailInv
<1>4. QED
  BY <1>1, <1>2, <1>3 DEF MailInv

\* What they say of the variables of Agent.
LEMMA MailFacts ==
    ASSUME MailInv
    PROVE  /\ notified \in [MailKeys -> {"SENT", "FAILED", "SKIPPED", "none"}]
           /\ delivered \in [MailKeys -> Nat]
           /\ DOMAIN task = Runs
           /\ \A r \in Runs :
                  /\ task[r] # Mail!Idle <=> task[r].pc \in {"send", "read", "write"}
                  /\ task[r] # Mail!Idle => task[r].key \in MailKeys
                  /\ task[r].pc = "write" =>
                         /\ task[r].result \in {"SENT", "FAILED", "SKIPPED"}
                         /\ task[r].seen # "none" => notified[task[r].key] # "none"
           /\ \A m \in MailKeys : notified[m] = "SENT" => delivered[m] > 0
<1>1. /\ notified \in [MailKeys -> {"SENT", "FAILED", "SKIPPED", "none"}]
      /\ delivered \in [MailKeys -> Nat]
      /\ task \in [Runs -> Service!Tasks]
  BY DEF MailInv, Service!TypeInv, Service!TypeOK, Service!Statuses
<1>2. ASSUME NEW r \in Runs
      PROVE  /\ task[r] # Mail!Idle <=> task[r].pc \in {"send", "read", "write"}
             /\ task[r] # Mail!Idle => task[r].key \in MailKeys
             /\ task[r].pc = "write" => task[r].result \in {"SENT", "FAILED", "SKIPPED"}
  <2>1. task[r] \in Service!Tasks
    BY <1>1
  <2>2. Mail!Idle = Service!Idle
    BY DEF Mail!Idle, Service!Idle
  <2>3. QED
    BY <2>1, <2>2, ServiceAssumptions, Service!TaskFields DEF Service!Statuses, Service!Idle
<1>3. QED
  BY <1>1, <1>2 DEF MailInv, Service!SentInv, Service!SentWasDelivered, Service!SeenInv

----------------------------------------------------------------------------
\* The recipients of an exception.

TargetsOf(e, a) ==
    [i \in DOMAIN TargetRoles(e, a) |-> MailKey(e, TargetRoles(e, a)[i])]

LEMMA RolesAreRoles ==
    ASSUME NEW e \in Exceptions, NEW a
    PROVE  TargetRoles(e, a) \in Seq(Roles)
<1>1. CASE a = "ESCALATE"
  BY <1>1 DEF TargetRoles, Roles
<1>2. CASE a # "ESCALATE" /\ e.party # Absent
  BY <1>2, ExceptionsAssumption DEF TargetRoles, ResolveRoles
<1>3. CASE a # "ESCALATE" /\ e.party = Absent
  BY <1>3, ExceptionsAssumption, RoutedRoles DEF TargetRoles, ResolveRoles
<1>4. QED
  BY <1>1, <1>2, <1>3

LEMMA TargetsTyped ==
    ASSUME NEW e \in Exceptions, NEW a
    PROVE  /\ TargetsOf(e, a) \in Seq(MailKeys)
           /\ DOMAIN TargetsOf(e, a) = 1 .. Len(TargetsOf(e, a))
           /\ \A i \in DOMAIN TargetsOf(e, a) :
                  /\ TargetsOf(e, a)[i] \in MailKeys
                  /\ TargetsOf(e, a)[i][1] \in TargetKeys(e, a)
           /\ \A k \in TargetKeys(e, a) :
                  \E i \in DOMAIN TargetsOf(e, a) : TargetsOf(e, a)[i][1] = k
<1> DEFINE roles == TargetRoles(e, a)
<1>1. roles \in Seq(Roles)
  BY RolesAreRoles
<1>2. \A i \in DOMAIN roles : roles[i] \in Roles
  BY <1>1
<1>3. \A i \in DOMAIN roles : MailKey(e, roles[i]) \in MailKeys
  BY <1>2 DEF MailKeys
<1>4. \A i \in DOMAIN roles : MailKey(e, roles[i])[1] = MismatchKey(e, roles[i])
  BY DEF MailKey
<1>5. TargetsOf(e, a) \in Seq(MailKeys)
      /\ DOMAIN TargetsOf(e, a) = 1 .. Len(TargetsOf(e, a))
  <2>1. DOMAIN roles = 1 .. Len(roles) /\ Len(roles) \in Nat
    BY <1>1
  <2> DEFINE f == [i \in 1 .. Len(roles) |-> MailKey(e, roles[i])]
  <2>2. f \in [1 .. Len(roles) -> MailKeys]
    BY <1>3, <2>1
  <2> HIDE DEF f
  <2>3. f \in Seq(MailKeys) /\ Len(f) = Len(roles) /\ DOMAIN f = 1 .. Len(roles)
    BY <2>1, <2>2
  <2>4. TargetsOf(e, a) = f
    BY <2>1 DEF TargetsOf, f
  <2>5. QED
    BY <2>3, <2>4
<1>6. DOMAIN TargetsOf(e, a) = DOMAIN roles
      /\ \A i \in DOMAIN roles : TargetsOf(e, a)[i] = MailKey(e, roles[i])
  BY DEF TargetsOf
<1>7. QED
  BY <1>3, <1>4, <1>5, <1>6 DEF TargetKeys

LEMMA TargetsOfRun ==
    ASSUME NEW r, NEW n
    PROVE  Targets(r, n) = TargetsOf(run[r].excs[n], run[r].decisions[n])
BY DEF Targets, TargetsOf

----------------------------------------------------------------------------
\* What the steps of a call do to its run.

CallGoesOn(r) ==
    /\ UNCHANGED <<run, mailed>>
    /\ task'[r] # Mail!Idle
    /\ task'[r].key = task[r].key

CallEnds(r) ==
    /\ UNCHANGED run
    /\ mailed' = [mailed EXCEPT ![r] = @ + 1]
    /\ task'[r] = Mail!Idle
    /\ notified'[task[r].key] # "none"

CallRaises(r) ==
    /\ EndFailed(r)
    /\ UNCHANGED mailed
    /\ task'[r] = Mail!Idle

LEMMA CallSteps ==
    ASSUME MailInv, NEW r \in Runs, MailSent(r) \/ MailRecorded(r)
    PROVE  /\ task[r] # Mail!Idle
           /\ \A q \in Runs : q # r => task'[q] = task[q]
           /\ UNCHANGED <<log, calls, crashes, dry, tried>>
           /\ CallGoesOn(r) \/ CallEnds(r) \/ CallRaises(r)
<1>1. /\ DOMAIN task = Runs
      /\ task[r] # Mail!Idle <=> task[r].pc \in {"send", "read", "write"}
      /\ task[r] # Mail!Idle => task[r].key \in MailKeys
      /\ task[r].pc = "write" =>
             /\ task[r].result \in {"SENT", "FAILED", "SKIPPED"}
             /\ task[r].seen # "none" => notified[task[r].key] # "none"
      /\ notified \in [MailKeys -> {"SENT", "FAILED", "SKIPPED", "none"}]
  BY MailFacts
<1> USE DEF Mail!Become, MailGoesOn, MailFails, MailDone, EndFailed,
            CallGoesOn, CallEnds, CallRaises, Mail!history
<1> DEFINE Shape == /\ task[r] # Mail!Idle
                    /\ \A q \in Runs : q # r => task'[q] = task[q]
                    /\ UNCHANGED <<log, calls, crashes, dry, tried>>
                    /\ CallGoesOn(r) \/ CallEnds(r) \/ CallRaises(r)
<1>2. CASE (Mail!CallAccepted(r) \/ Mail!CallRefused(r)) /\ MailGoesOn
           /\ UNCHANGED <<dry, tried>>
  BY <1>1, <1>2 DEF Mail!CallAccepted, Mail!CallRefused, Mail!Recording, Mail!Idle
<1>3. ASSUME NEW o \in Outcomes, Mail!CallFailed(r, o), UNCHANGED <<dry, tried>>,
             IF Mail!AfterFailure(task[r], o) = Mail!Idle
             THEN MailFails(r) ELSE MailGoesOn
      PROVE  Shape
  <2>1. /\ task[r].pc = "send" /\ UNCHANGED crashes
        /\ task' = [task EXCEPT ![r] = Mail!AfterFailure(task[r], o)]
    BY <1>3 DEF Mail!CallFailed
  <2>2. task'[r] = Mail!AfterFailure(task[r], o)
        /\ \A q \in Runs : q # r => task'[q] = task[q]
    BY <1>1, <2>1
  <2>3. CASE Mail!AfterFailure(task[r], o) = Mail!Idle
    BY <1>1, <1>3, <2>1, <2>2, <2>3
  <2>4. CASE Mail!AfterFailure(task[r], o) # Mail!Idle
    <3>1. task'[r].key = task[r].key
      BY <2>2, <2>4 DEF Mail!AfterFailure, Mail!Sending, Mail!Recording
    <3>2. QED
      BY <1>1, <1>3, <2>1, <2>2, <2>4, <3>1
  <2>5. QED
    BY <2>3, <2>4
<1>4. CASE Mail!RecordRead(r) /\ MailGoesOn /\ UNCHANGED <<dry, tried>>
  BY <1>1, <1>4 DEF Mail!RecordRead, Mail!Recording, Mail!Idle
<1>5. CASE /\ Mail!RecordWrite(r) /\ UNCHANGED <<dry, tried>>
           /\ IF RecordClashes(task[r]) THEN MailFails(r) ELSE MailDone(r)
  <2>1. /\ task[r].pc = "write" /\ UNCHANGED crashes
        /\ task' = [task EXCEPT ![r] = Mail!Idle]
        /\ notified' = [notified EXCEPT ![task[r].key] = Mail!Written(task[r])]
    BY <1>5 DEF Mail!RecordWrite
  <2>2. CASE RecordClashes(task[r])
    BY <1>1, <1>5, <2>1, <2>2
  <2>3. CASE ~ RecordClashes(task[r])
    <3>1. Mail!Written(task[r]) # "none"
      BY <1>1, <2>1, <2>3 DEF Mail!Written, RecordClashes
    <3>2. notified'[task[r].key] # "none"
      BY <1>1, <2>1, <3>1
    <3>3. QED
      BY <1>1, <1>5, <2>1, <2>3, <3>2
  <2>4. QED
    BY <2>2, <2>3
<1>6. CASE Mail!RecordRefused(r) /\ MailFails(r) /\ UNCHANGED <<dry, tried>>
  BY <1>1, <1>6 DEF Mail!RecordRefused
<1>7. QED
  BY <1>2, <1>3, <1>4, <1>5, <1>6 DEF MailSent, MailRecorded

\* What the check before a mail does.
LEMMA CheckSteps ==
    ASSUME MailInv, NEW r \in Runs, MailChecked(r)
    PROVE  /\ AtException(r) /\ MailsLeft(r) /\ NextKey(r) \in MailKeys
           /\ \A q \in Runs : q # r => task'[q] = task[q]
           /\ UNCHANGED <<run, log, calls, crashes, dry>>
           /\ \/ /\ UNCHANGED <<tried, task, notified>>
                 /\ notified[NextKey(r)] = "SENT"
                 /\ mailed' = [mailed EXCEPT ![r] = @ + 1]
              \/ /\ tried' = [tried EXCEPT ![r] = @ \union {NextKey(r)}]
                 /\ UNCHANGED mailed
                 /\ task'[r] # Mail!Idle
                 /\ task'[r].key = NextKey(r)
<1>1. DOMAIN task = Runs
  BY MailFacts
<1>2. CASE Mail!SkipDuplicate(r, NextKey(r)) /\ MailDone(r) /\ UNCHANGED tried
  BY <1>2
  DEF MailChecked, Mail!SkipDuplicate, Mail!Begin, Mail!AlreadyNotified, MailDone
<1>3. CASE /\ Mail!StartSend(r, NextKey(r)) /\ MailGoesOn
           /\ tried' = [tried EXCEPT ![r] = @ \union {NextKey(r)}]
  BY <1>1, <1>3
  DEF MailChecked, Mail!StartSend, Mail!Begin, Mail!Become, Mail!Sending, Mail!Idle,
      MailGoesOn
<1>4. QED
  BY <1>2, <1>3 DEF MailChecked

\* The other steps of the graph leave the mails alone.
LEMMA MailsUntouched ==
    ASSUME UNCHANGED mailVars
    PROVE  UNCHANGED <<notified, task, delivered>>
BY DEF mailVars

----------------------------------------------------------------------------
\* The mails of a run belong to the exception it is at.

Early(r) ==
    run[r].pc \in {"idle", "decide"} =>
        run[r].sent = 0 /\ mailed[r] = 0 /\ tried[r] = {}

InCall(r) ==
    task[r] # Mail!Idle =>
        /\ run[r].pc = "dispatch"
        /\ run[r].sent < Len(run[r].excs)
        /\ MailsLeft(r)
        /\ task[r].key = NextKey(r)
        /\ NextKey(r) \in tried[r]

MailTypes ==
    /\ dry \in [Runs -> BOOLEAN]
    /\ mailed \in [Runs -> Nat]
    /\ tried \in [Runs -> SUBSET MailKeys]

CallsInv ==
    /\ KeptInv
    /\ MailInv
    /\ MailTypes
    /\ \A r \in Runs : Early(r) /\ InCall(r)

\* Every step is a step of Lifecycle, or none, and a step of Notifications, or
\* none.
LEMMA LogSteps == ASSUME CallsInv, [AgentNext]_agentVars PROVE [Next]_vars
<1>0. MailInv
  BY DEF CallsInv
<1>1. ASSUME NEW r \in Runs, AgentBegin(r) PROVE [Next]_vars
  BY <1>1 DEF AgentBegin, Next
<1>2. ASSUME NEW r \in Runs, MailChecked(r) PROVE [Next]_vars
  BY <1>0, <1>2, CheckSteps DEF vars
<1>3. ASSUME NEW r \in Runs, MailSent(r) \/ MailRecorded(r) PROVE [Next]_vars
  <2>1. /\ task[r] # Mail!Idle
        /\ UNCHANGED <<log, calls, crashes, dry, tried>>
        /\ CallGoesOn(r) \/ CallEnds(r) \/ CallRaises(r)
    BY <1>0, <1>3, CallSteps
  <2>2. Active(r)
    BY <2>1 DEF CallsInv, InCall, Active, Ended
  <2>3. QED
    BY <2>1, <2>2 DEF CallGoesOn, CallEnds, CallRaises, vars, Next, Fail
<1>4. ASSUME NEW r \in Runs, AgentDispatch(r) \/ OtherWork(r) \/ AgentFail(r)
      PROVE  [Next]_vars
  BY <1>4 DEF AgentDispatch, OtherWork, AgentFail, Next, Work
<1>5. CASE AgentCrash
  BY <1>5 DEF AgentCrash, Next
<1>6. CASE TimePasses
  BY <1>6 DEF TimePasses, Mail!BreakerTimeout, vars
<1>7. CASE UNCHANGED agentVars
  BY <1>7 DEF agentVars
<1>8. QED
  BY <1>1, <1>2, <1>3, <1>4, <1>5, <1>6, <1>7 DEF AgentNext, AgentWork

LEMMA MailSteps == ASSUME [AgentNext]_agentVars PROVE [Mail!Next]_(Mail!vars)
<1>1. ASSUME NEW r \in Runs, AgentBegin(r) PROVE UNCHANGED Mail!vars
  BY <1>1 DEF AgentBegin, Begin, mailVars, Mail!vars, Mail!history
<1>2. ASSUME NEW r \in Runs, MailChecked(r) PROVE Mail!Next
  <2>1. NextKey(r) \in MailKeys
    BY <1>2 DEF MailChecked, Mail!SkipDuplicate, Mail!StartSend, Mail!Begin
  <2>2. QED
    BY <1>2, <2>1 DEF MailChecked, Mail!Next
<1>3. ASSUME NEW r \in Runs, MailSent(r) \/ MailRecorded(r) PROVE Mail!Next
  BY <1>3 DEF MailSent, MailRecorded, Mail!Next, Mail!Step
<1>4. ASSUME NEW r \in Runs, AgentDispatch(r) \/ OtherWork(r) \/ AgentFail(r)
      PROVE  UNCHANGED Mail!vars
  BY <1>4
  DEF AgentDispatch, OtherWork, AgentFail, Dispatch, Decide, EndDecide, Look, Record,
      Clash, Select, Resolve, Fail, EndFailed, mailVars, Mail!vars, Mail!history
<1>5. CASE AgentCrash
  BY <1>5 DEF AgentCrash, Mail!Next
<1>6. CASE TimePasses
  BY <1>6 DEF TimePasses, Mail!Next
<1>7. CASE UNCHANGED agentVars
  BY <1>7 DEF agentVars, vars, mailVars, Mail!vars, Mail!history
<1>8. QED
  BY <1>1, <1>2, <1>3, <1>4, <1>5, <1>6, <1>7 DEF AgentNext, AgentWork

----------------------------------------------------------------------------
\* What a step does to one run: its record, its mails and its call.

Mailless(q) == mailed'[q] = mailed[q] /\ tried'[q] = tried[q]

Stands(q) ==
    /\ run'[q] = run[q] /\ Mailless(q) /\ dry'[q] = dry[q]
    /\ task'[q] # Mail!Idle => task[q] # Mail!Idle /\ task'[q].key = task[q].key

Starts(q) ==
    /\ run[q] = Idle
    /\ run'[q].pc = "decide" /\ run'[q].sent = 0 /\ run'[q].given = Idle.given
    /\ Mailless(q) /\ task'[q] = task[q]

Decides(q) ==
    /\ run[q].pc = "decide" /\ run'[q].pc = "decide"
    /\ run'[q].sent = run[q].sent /\ run'[q].given = run[q].given
    /\ Mailless(q) /\ dry'[q] = dry[q] /\ task'[q] = task[q]

Moves(q) ==
    /\ run[q].pc # "idle" /\ run'[q].pc \notin {"idle", "decide"}
    /\ run'[q].pc = "dispatch" => run[q].pc = "decide"
    /\ run'[q].pc \in {"record", "verify", "resolve", "completed"} =>
           /\ run[q].pc \in {"dispatch", "record", "verify", "resolve"}
           /\ run[q].sent = Len(run[q].excs)
    /\ run'[q].excs = run[q].excs /\ run'[q].decisions = run[q].decisions
    /\ run'[q].sent = run[q].sent /\ run'[q].given = run[q].given
    /\ Mailless(q) /\ dry'[q] = dry[q] /\ task'[q] = Mail!Idle

Lists(q) ==
    LET e == run[q].excs[run[q].sent + 1]
        a == run[q].decisions[run[q].sent + 1] IN
    /\ AtException(q) /\ ~ MailsLeft(q)
    /\ run'[q].pc = "dispatch"
    /\ run'[q].excs = run[q].excs /\ run'[q].decisions = run[q].decisions
    /\ run'[q].sent = run[q].sent + 1
    /\ \A k \in Keys : run'[q].given[k] = IF k \in TargetKeys(e, a) THEN LifeStatus(a)
                                         ELSE run[q].given[k]
    /\ mailed'[q] = 0 /\ tried'[q] = tried[q] /\ dry'[q] = dry[q]
    /\ task'[q] = Mail!Idle

AtMail(q) ==
    run[q].pc = "dispatch" /\ run[q].sent < Len(run[q].excs) /\ MailsLeft(q)

Tries(q) ==
    /\ AtMail(q)
    /\ run'[q] = run[q] /\ dry'[q] = dry[q] /\ mailed'[q] = mailed[q]
    /\ tried'[q] = tried[q] \union {NextKey(q)}
    /\ task'[q] # Mail!Idle => task'[q].key = NextKey(q)

Finishes(q) ==
    /\ AtMail(q)
    /\ NextKey(q) \in tried[q] \/ delivered[NextKey(q)] > 0
    /\ notified'[NextKey(q)] # "none"
    /\ run'[q] = run[q] /\ dry'[q] = dry[q] /\ mailed'[q] = mailed[q] + 1
    /\ tried'[q] = tried[q] /\ task'[q] = Mail!Idle

Kinds(q) ==
    \/ Stands(q) \/ Starts(q) \/ Decides(q) \/ Moves(q) \/ Lists(q)
    \/ Tries(q) \/ Finishes(q)

LEMMA TypesOfRuns ==
    ASSUME CallsInv
    PROVE  /\ TypeInv /\ MailInv /\ run \in [Runs -> RunRecords]
           /\ DOMAIN task = Runs
           /\ mailed \in [Runs -> Nat] /\ tried \in [Runs -> SUBSET MailKeys]
           /\ dry \in [Runs -> BOOLEAN]
BY MailFacts DEF CallsInv, KeptInv, TypeInv, TypeOK, MailTypes

LEMMA BeginKinds ==
    ASSUME CallsInv, NEW r \in Runs, AgentBegin(r), NEW q \in Runs PROVE Kinds(q)
<1>1. PICK x \in Inputs :
          run' = [run EXCEPT ![r] = [run[r] EXCEPT !.pc = "decide", !.excs = x,
                                         !.alone = \A p \in Runs : ~ Active(p)]]
  BY DEF AgentBegin, Begin
<1>2. /\ run \in [Runs -> RunRecords] /\ run[r] = Idle /\ Idle \in RunRecords
      /\ dry \in [Runs -> BOOLEAN]
  BY TypesOfRuns DEF TypeInv, Blank, AgentBegin, Begin
<1>3. UNCHANGED <<task, mailed, tried>> /\ \E d : dry' = [dry EXCEPT ![r] = d]
  BY MailsUntouched DEF AgentBegin
<1>4. CASE q = r
  <2>1. /\ run'[r].pc = "decide" /\ run'[r].sent = Idle.sent
        /\ run'[r].given = Idle.given
    BY <1>1, <1>2
  <2>2. Idle.sent = 0
    BY DEF Idle
  <2>3. QED
    BY <1>2, <1>3, <1>4, <2>1, <2>2 DEF Kinds, Starts, Mailless
<1>5. CASE q # r
  <2>1. run'[q] = run[q] /\ dry'[q] = dry[q]
    BY <1>1, <1>2, <1>3, <1>5
  <2>2. QED
    BY <1>3, <2>1 DEF Kinds, Stands, Mailless
<1>6. QED
  BY <1>4, <1>5

LEMMA DecideKinds ==
    ASSUME CallsInv, NEW r \in Runs, Decide(r), UNCHANGED <<mailVars, dry, mailed, tried>>,
           NEW q \in Runs
    PROVE  Kinds(q)
<1>1. PICK ds : run' = [run EXCEPT ![r] = [run[r] EXCEPT !.decisions = ds]]
  BY DEF Decide
<1>2. run \in [Runs -> RunRecords] /\ run[r] \in RunRecords /\ run[r].pc = "decide"
  BY TypesOfRuns DEF Decide
<1>3. UNCHANGED <<task, mailed, tried, dry>>
  BY MailsUntouched
<1>4. CASE q = r
  <2>1. run'[r].pc = "decide" /\ run'[r].sent = run[r].sent /\ run'[r].given = run[r].given
    BY <1>1, <1>2 DEF RunRecords
  <2>2. QED
    BY <1>2, <1>3, <1>4, <2>1 DEF Kinds, Decides, Mailless
<1>5. CASE q # r
  BY <1>1, <1>2, <1>3, <1>5 DEF Kinds, Stands, Mailless
<1>6. QED
  BY <1>4, <1>5

LEMMA MoveKinds ==
    ASSUME CallsInv, NEW r \in Runs, task[r] = Mail!Idle,
           \/ EndDecide(r) \/ Look(r) \/ Record(r) \/ Clash(r) \/ Select(r)
           \/ Resolve(r) \/ Fail(r),
           UNCHANGED <<mailVars, dry, mailed, tried>>,
           NEW q \in Runs
    PROVE  Kinds(q)
<1>1. run \in [Runs -> RunRecords] /\ run[r] \in RunRecords /\ Kept(r)
  BY TypesOfRuns DEF CallsInv, KeptInv
<1>2. UNCHANGED <<task, mailed, tried, dry>>
  BY MailsUntouched
<1>3. /\ \A p \in Runs : p # r => run'[p] = run[p]
      /\ run'[r].excs = run[r].excs /\ run'[r].decisions = run[r].decisions
      /\ run'[r].sent = run[r].sent /\ run'[r].given = run[r].given
      /\ run[r].pc # "idle" /\ run'[r].pc \notin {"idle", "decide"}
      /\ run'[r].pc = "dispatch" => run[r].pc = "decide"
      /\ run'[r].pc \in {"record", "verify", "resolve", "completed"} =>
             /\ run[r].pc \in {"dispatch", "record", "verify", "resolve"}
             /\ run[r].sent = Len(run[r].excs)
  <2>1. CASE EndDecide(r)
    BY <1>1, <2>1 DEF EndDecide, RunRecords
  <2>2. CASE Look(r) /\ run[r].first = Absent
    <3>1. /\ run[r].pc = "dispatch" /\ run[r].sent = Len(run[r].excs)
          /\ run' = [run EXCEPT ![r] = [run[r] EXCEPT !.pc = "verify"]]
      BY <2>2 DEF Look
    <3>2. QED
      BY <1>1, <3>1 DEF RunRecords
  <2>3. CASE Look(r) /\ run[r].first # Absent
    BY <1>1, <2>3 DEF Look, RunRecords
  <2>4. CASE Record(r)
    BY <1>1, <2>4 DEF Record, RunRecords, Kept, Sent
  <2>5. CASE Clash(r)
    BY <1>1, <2>5 DEF Clash, EndFailed, RunRecords
  <2>6. CASE Select(r)
    BY <1>1, <2>6 DEF Select, RunRecords, Kept, Sent
  <2>7. CASE Resolve(r)
    BY <1>1, <2>7 DEF Resolve, RunRecords, Kept, Sent
  <2>8. CASE Fail(r)
    <3>1. run[r].pc # "idle" /\ run' = [run EXCEPT ![r] = [run[r] EXCEPT !.pc = "failed"]]
      BY <2>8 DEF Fail, Active, EndFailed
    <3>2. QED
      BY <1>1, <3>1 DEF RunRecords
  <2>9. QED
    BY <2>1, <2>2, <2>3, <2>4, <2>5, <2>6, <2>7, <2>8
<1>4. CASE q = r
  BY <1>2, <1>3, <1>4 DEF Kinds, Moves, Mailless
<1>5. CASE q # r
  BY <1>2, <1>3, <1>5 DEF Kinds, Stands, Mailless
<1>6. QED
  BY <1>4, <1>5

LEMMA DispatchKinds ==
    ASSUME CallsInv, NEW r \in Runs, AgentDispatch(r), NEW q \in Runs PROVE Kinds(q)
<1>1. /\ run \in [Runs -> RunRecords] /\ TypeInv /\ mailed \in [Runs -> Nat]
      /\ AtException(r) /\ ~ MailsLeft(r) /\ Dispatch(r) /\ UNCHANGED <<dry, tried>>
      /\ mailed' = [mailed EXCEPT ![r] = 0]
  BY TypesOfRuns DEF AgentDispatch
<1>2. UNCHANGED task
  BY MailsUntouched DEF AgentDispatch
<1>3. PICK e, a : /\ e = run[r].excs[run[r].sent + 1]
                  /\ a = run[r].decisions[run[r].sent + 1]
  OBVIOUS
<1>4. /\ \A p \in Runs : p # r => run'[p] = run[p]
      /\ run'[r].pc = "dispatch"
      /\ \A k \in Keys : run'[r].given[k] = IF k \in TargetKeys(e, a) THEN LifeStatus(a)
                                           ELSE run[r].given[k]
      /\ run'[r].excs = run[r].excs /\ run'[r].decisions = run[r].decisions
      /\ run'[r].sent = run[r].sent + 1
  BY <1>1, <1>3, DispatchExact
<1>5. CASE q = r
  <2>1. mailed'[r] = 0 /\ task[r] = Mail!Idle
    BY <1>1 DEF AtException
  <2>2. Lists(r)
    BY <1>1, <1>2, <1>3, <1>4, <2>1, Zenon DEF Lists
  <2>3. QED
    BY <1>5, <2>2 DEF Kinds
<1>6. CASE q # r
  <2>1. mailed'[q] = mailed[q]
    BY <1>1, <1>6
  <2>2. QED
    BY <1>1, <1>2, <1>4, <1>6, <2>1 DEF Kinds, Stands, Mailless
<1>7. QED
  BY <1>5, <1>6

LEMMA CheckKinds ==
    ASSUME CallsInv, NEW r \in Runs, MailChecked(r), NEW q \in Runs PROVE Kinds(q)
<1>1. /\ MailInv /\ mailed \in [Runs -> Nat] /\ tried \in [Runs -> SUBSET MailKeys]
      /\ \A m \in MailKeys : notified[m] = "SENT" => delivered[m] > 0
  BY TypesOfRuns, MailFacts
<1>2. /\ AtException(r) /\ MailsLeft(r) /\ NextKey(r) \in MailKeys
      /\ \A p \in Runs : p # r => task'[p] = task[p]
      /\ UNCHANGED <<run, dry>>
      /\ \/ /\ UNCHANGED <<tried, task, notified>>
            /\ notified[NextKey(r)] = "SENT"
            /\ mailed' = [mailed EXCEPT ![r] = @ + 1]
         \/ /\ tried' = [tried EXCEPT ![r] = @ \union {NextKey(r)}]
            /\ UNCHANGED mailed
            /\ task'[r].key = NextKey(r)
  BY <1>1, CheckSteps
<1>3. AtMail(r)
  BY <1>2 DEF AtMail, AtException
<1>4. CASE q = r
  <2>1. CASE UNCHANGED <<tried, task, notified>>
              /\ notified[NextKey(r)] = "SENT"
              /\ mailed' = [mailed EXCEPT ![r] = @ + 1]
    <3>1. mailed'[r] = mailed[r] + 1 /\ delivered[NextKey(r)] > 0
      BY <1>1, <1>2, <2>1
    <3>2. Finishes(r)
      BY <1>2, <1>3, <2>1, <3>1 DEF Finishes, AtException
    <3>3. QED
      BY <1>4, <3>2 DEF Kinds
  <2>2. CASE /\ tried' = [tried EXCEPT ![r] = @ \union {NextKey(r)}]
              /\ UNCHANGED mailed
              /\ task'[r].key = NextKey(r)
    <3>1. tried'[r] = tried[r] \union {NextKey(r)}
      BY <1>1, <2>2
    <3>2. Tries(r)
      BY <1>2, <1>3, <2>2, <3>1 DEF Tries
    <3>3. QED
      BY <1>4, <3>2 DEF Kinds
  <2>3. QED
    BY <1>2, <2>1, <2>2
<1>5. CASE q # r
  <2>1. mailed'[q] = mailed[q] /\ tried'[q] = tried[q]
    BY <1>1, <1>2, <1>5
  <2>2. QED
    BY <1>2, <1>5, <2>1 DEF Kinds, Stands, Mailless
<1>6. QED
  BY <1>4, <1>5

LEMMA CallKinds ==
    ASSUME CallsInv, NEW r \in Runs, MailSent(r) \/ MailRecorded(r), NEW q \in Runs
    PROVE  Kinds(q)
<1>1. /\ MailInv /\ run \in [Runs -> RunRecords] /\ mailed \in [Runs -> Nat]
  BY TypesOfRuns
<1>2. /\ task[r] # Mail!Idle
      /\ \A p \in Runs : p # r => task'[p] = task[p]
      /\ UNCHANGED <<dry, tried>>
      /\ CallGoesOn(r) \/ CallEnds(r) \/ CallRaises(r)
  BY <1>1, CallSteps
<1>3. AtMail(r) /\ task[r].key = NextKey(r) /\ NextKey(r) \in tried[r]
  BY <1>2 DEF CallsInv, InCall, AtMail
<1>4. CASE q = r
  <2>1. CASE CallGoesOn(r)
    BY <1>2, <1>4, <2>1 DEF CallGoesOn, Kinds, Stands, Mailless
  <2>2. CASE CallEnds(r)
    <3>1. mailed'[r] = mailed[r] + 1
      BY <1>1, <2>2 DEF CallEnds
    <3>2. Finishes(r)
      BY <1>2, <1>3, <2>2, <3>1 DEF CallEnds, Finishes
    <3>3. QED
      BY <1>4, <3>2 DEF Kinds
  <2>3. CASE CallRaises(r)
    <3>1. run' = [run EXCEPT ![r] = [run[r] EXCEPT !.pc = "failed"]]
          /\ run[r] \in RunRecords /\ run[r].pc = "dispatch"
      BY <1>1, <1>3, <2>3 DEF CallRaises, EndFailed, AtMail
    <3>2. /\ run'[r].pc = "failed"
          /\ run'[r].excs = run[r].excs /\ run'[r].decisions = run[r].decisions
          /\ run'[r].sent = run[r].sent /\ run'[r].given = run[r].given
      BY <1>1, <3>1 DEF RunRecords
    <3>3. Moves(r)
      BY <1>2, <2>3, <3>1, <3>2 DEF CallRaises, Moves, Mailless
    <3>4. QED
      BY <1>4, <3>3 DEF Kinds
  <2>4. QED
    BY <1>2, <2>1, <2>2, <2>3
<1>5. CASE q # r
  <2>1. run'[q] = run[q] /\ mailed'[q] = mailed[q]
    BY <1>1, <1>2, <1>5 DEF CallGoesOn, CallEnds, CallRaises, EndFailed
  <2>2. QED
    BY <1>2, <1>5, <2>1 DEF Kinds, Stands, Mailless
<1>6. QED
  BY <1>4, <1>5

LEMMA CrashKinds == ASSUME CallsInv, AgentCrash, NEW q \in Runs PROVE Kinds(q)
<1>1. /\ run[q] \in RunRecords /\ DOMAIN task = Runs
      /\ run'[q] = IF Active(q) THEN [run[q] EXCEPT !.pc = "crashed"] ELSE run[q]
      /\ UNCHANGED <<dry, mailed, tried>>
  BY TypesOfRuns DEF AgentCrash, Crash
<1>2. task'[q] = Mail!Idle
  BY DEF AgentCrash, Mail!Crash
<1>3. CASE Active(q)
  <2>1. /\ run'[q].pc = "crashed"
        /\ run'[q].excs = run[q].excs /\ run'[q].decisions = run[q].decisions
        /\ run'[q].sent = run[q].sent /\ run'[q].given = run[q].given
    BY <1>1, <1>3 DEF RunRecords
  <2>2. QED
    BY <1>1, <1>2, <1>3, <2>1 DEF Kinds, Moves, Mailless, Active
<1>4. CASE ~ Active(q)
  BY <1>1, <1>2, <1>4 DEF Kinds, Stands, Mailless
<1>5. QED
  BY <1>3, <1>4

LEMMA StepKinds == ASSUME CallsInv, [AgentNext]_agentVars, NEW q \in Runs PROVE Kinds(q)
<1>1. ASSUME NEW r \in Runs, AgentBegin(r) PROVE Kinds(q)
  BY <1>1, BeginKinds
<1>2. ASSUME NEW r \in Runs, MailChecked(r) PROVE Kinds(q)
  BY <1>2, CheckKinds
<1>3. ASSUME NEW r \in Runs, MailSent(r) \/ MailRecorded(r) PROVE Kinds(q)
  BY <1>3, CallKinds
<1>4. ASSUME NEW r \in Runs, AgentDispatch(r) PROVE Kinds(q)
  BY <1>4, DispatchKinds
<1>5. ASSUME NEW r \in Runs, OtherWork(r) PROVE Kinds(q)
  <2>1. CASE Decide(r)
    BY <1>5, <2>1, DecideKinds DEF OtherWork
  <2>2. CASE ~ Decide(r)
    <3>1. task[r] = Mail!Idle
      BY <1>5, <2>2
      DEF OtherWork, CallsInv, InCall, EndDecide, Look, Record, Clash, Select, Resolve
    <3>2. QED
      BY <1>5, <2>2, <3>1, MoveKinds DEF OtherWork
  <2>3. QED
    BY <2>1, <2>2
<1>6. ASSUME NEW r \in Runs, AgentFail(r) PROVE Kinds(q)
  BY <1>6, MoveKinds DEF AgentFail
<1>7. CASE AgentCrash
  BY <1>7, CrashKinds
<1>8. CASE TimePasses \/ UNCHANGED agentVars
  BY <1>8
  DEF TimePasses, Mail!BreakerTimeout, agentVars, vars, mailVars, Kinds, Stands, Mailless
<1>9. QED
  BY <1>1, <1>2, <1>3, <1>4, <1>5, <1>6, <1>7, <1>8 DEF AgentNext, AgentWork

----------------------------------------------------------------------------
\* The calls stay with the exception at hand.

LEMMA CallsKept == ASSUME CallsInv, NEW q \in Runs, Kinds(q) PROVE (Early(q) /\ InCall(q))'
<1>1. /\ Early(q) /\ InCall(q)
      /\ run[q].sent \in Nat /\ mailed[q] \in Nat
  BY TypesOfRuns DEF CallsInv, RunRecords
<1>0. ASSUME run'[q] = run[q], dry'[q] = dry[q], mailed'[q] = mailed[q]
      PROVE  MailsLeft(q)' = MailsLeft(q) /\ NextKey(q)' = NextKey(q)
  <2>1. \A n : Targets(q, n)' = Targets(q, n) /\ Sends(q, n)' = Sends(q, n)
    BY <1>0 DEF Targets, Sends
  <2>2. QED
    BY <1>0, <2>1 DEF MailsLeft, NextKey
<1>2. CASE Stands(q)
  BY <1>0, <1>1, <1>2 DEF Stands, Mailless, Early, InCall
<1>3. CASE Starts(q) \/ Decides(q)
  <2>1. task[q] = Mail!Idle
    BY <1>1, <1>3 DEF Starts, Decides, InCall, Idle
  <2>2. Early(q)'
    BY <1>1, <1>3 DEF Starts, Decides, Mailless, Early, Idle
  <2>3. QED
    BY <1>3, <2>1, <2>2 DEF Starts, Decides, InCall
<1>4. CASE Moves(q)
  BY <1>1, <1>4 DEF Moves, Early, InCall
<1>5. CASE Lists(q)
  BY <1>1, <1>5 DEF Lists, Early, InCall
<1>6. CASE Tries(q)
  BY <1>0, <1>1, <1>6 DEF Tries, AtMail, Early, InCall
<1>7. CASE Finishes(q)
  BY <1>1, <1>7 DEF Finishes, AtMail, Early, InCall
<1>8. QED
  BY <1>2, <1>3, <1>4, <1>5, <1>6, <1>7 DEF Kinds

LEMMA MailTypesStep == ASSUME CallsInv, [AgentNext]_agentVars PROVE MailTypes'
<1>1. MailInv /\ MailTypes
  BY DEF CallsInv
<1>2. ASSUME NEW r \in Runs, AgentBegin(r) PROVE MailTypes'
  BY <1>1, <1>2 DEF AgentBegin, MailTypes
<1>3. ASSUME NEW r \in Runs, MailChecked(r) PROVE MailTypes'
  <2>1. /\ NextKey(r) \in MailKeys /\ UNCHANGED dry
        /\ \/ UNCHANGED tried /\ mailed' = [mailed EXCEPT ![r] = @ + 1]
           \/ /\ tried' = [tried EXCEPT ![r] = @ \union {NextKey(r)}]
              /\ UNCHANGED mailed
    BY <1>1, <1>3, CheckSteps
  <2>2. QED
    BY <1>1, <2>1 DEF MailTypes
<1>4. ASSUME NEW r \in Runs, MailSent(r) \/ MailRecorded(r) PROVE MailTypes'
  <2>1. /\ UNCHANGED <<dry, tried>>
        /\ UNCHANGED mailed \/ mailed' = [mailed EXCEPT ![r] = @ + 1]
    BY <1>1, <1>4, CallSteps DEF CallGoesOn, CallEnds, CallRaises
  <2>2. QED
    BY <1>1, <2>1 DEF MailTypes
<1>5. ASSUME NEW r \in Runs, AgentDispatch(r) PROVE MailTypes'
  BY <1>1, <1>5 DEF AgentDispatch, MailTypes
<1>6. CASE UNCHANGED <<dry, mailed, tried>>
  BY <1>1, <1>6 DEF MailTypes
<1>7. QED
  BY <1>2, <1>3, <1>4, <1>5, <1>6
  DEF AgentNext, AgentWork, OtherWork, AgentFail, AgentCrash, TimePasses, agentVars

LEMMA CallsStep == CallsInv /\ [AgentNext]_agentVars => CallsInv'
<1> SUFFICES ASSUME CallsInv, [AgentNext]_agentVars PROVE CallsInv'
  OBVIOUS
<1>1. KeptInv'
  BY LogSteps, StepKept DEF CallsInv
<1>2. MailInv'
  BY MailSteps, MailStep DEF CallsInv
<1>3. MailTypes'
  BY MailTypesStep
<1>4. \A q \in Runs : (Early(q) /\ InCall(q))'
  BY StepKinds, CallsKept
<1>5. QED
  BY <1>1, <1>2, <1>3, <1>4 DEF CallsInv

LEMMA CallsInit == AgentInit => CallsInv
<1> SUFFICES ASSUME AgentInit PROVE CallsInv
  OBVIOUS
<1>1. KeptInv
  BY InitKept DEF AgentInit
<1>2. MailInv
  BY MailInit DEF AgentInit
<1>3. MailTypes
  BY DEF AgentInit, MailTypes
<1>4. \A r \in Runs : Early(r) /\ InCall(r)
  BY DEF AgentInit, Init, Idle, Mail!Init, Early, InCall
<1>5. QED
  BY <1>1, <1>2, <1>3, <1>4 DEF CallsInv

LEMMA CallsInvariant == AgentSpec => []CallsInv
<1>1. QED
  BY CallsInit, CallsStep, PTL DEF AgentSpec

\* The types of the whole, with those of the runs and of the service.
THEOREM AgentTypeCorrect == AgentSpec => []AgentTypeOK
<1>1. CallsInv => AgentTypeOK
  <2> SUFFICES ASSUME CallsInv PROVE AgentTypeOK
    OBVIOUS
  <2>1. TypeOK /\ MailTypes
    BY DEF CallsInv, KeptInv, TypeInv
  <2>2. Service!TypeOK
    BY DEF CallsInv, MailInv, Service!TypeInv
  <2>3. Mail!TypeOK
    BY <2>2
    DEF Mail!TypeOK, Service!TypeOK, Mail!Tasks, Service!Tasks, Mail!Statuses,
        Service!Statuses, Mail!Idle, Service!Idle, Mail!Sending, Service!Sending,
        Mail!Recording, Service!Recording
  <2>4. QED
    BY <2>1, <2>3 DEF AgentTypeOK, MailTypes
<1>2. QED
  BY <1>1, CallsInvariant, PTL

----------------------------------------------------------------------------
\* What the steps do to the mails, the rows of notification_log and the log.

\* No mail is taken back, and no row of notification_log goes away.
MailGrows ==
    \A m \in MailKeys : /\ delivered[m] > 0 => delivered'[m] > 0
                        /\ notified[m] # "none" => notified'[m] # "none"

LEMMA GrowStep == ASSUME CallsInv, [AgentNext]_agentVars PROVE MailGrows
<1>1. /\ MailInv /\ DOMAIN task = Runs
      /\ notified \in [MailKeys -> {"SENT", "FAILED", "SKIPPED", "none"}]
      /\ delivered \in [MailKeys -> Nat]
      /\ \A r \in Runs :
             /\ task[r] # Mail!Idle <=> task[r].pc \in {"send", "read", "write"}
             /\ task[r] # Mail!Idle => task[r].key \in MailKeys
             /\ task[r].pc = "write" =>
                    /\ task[r].result \in {"SENT", "FAILED", "SKIPPED"}
                    /\ task[r].seen # "none" => notified[task[r].key] # "none"
  BY TypesOfRuns, MailFacts
<1>2. CASE UNCHANGED <<notified, delivered>>
  BY <1>2 DEF MailGrows
<1>3. ASSUME NEW m \in MailKeys, Mail!Deliver(m), UNCHANGED notified PROVE MailGrows
  BY <1>1, <1>3 DEF Mail!Deliver, MailGrows
<1>4. ASSUME NEW r \in Runs, Mail!RecordWrite(r) PROVE MailGrows
  <2>1. /\ task[r].pc = "write" /\ task[r].key \in MailKeys /\ UNCHANGED delivered
        /\ notified' = [notified EXCEPT ![task[r].key] = Mail!Written(task[r])]
    BY <1>1, <1>4 DEF Mail!RecordWrite, Mail!history
  <2>2. notified[task[r].key] # "none" => Mail!Written(task[r]) # "none"
    BY <1>1, <2>1 DEF Mail!Written
  <2>3. \A m \in MailKeys : notified[m] # "none" => notified'[m] # "none"
    BY <1>1, <2>1, <2>2
  <2>4. QED
    BY <2>1, <2>3 DEF MailGrows
<1>5. [Mail!Next]_(Mail!vars)
  BY MailSteps
<1>6. ASSUME NEW r \in Runs, Mail!Step(r) PROVE MailGrows
  <2>1. CASE Mail!CallAccepted(r)
    BY <1>1, <1>3, <2>1 DEF Mail!CallAccepted
  <2>2. ASSUME NEW o \in Outcomes, Mail!CallFailed(r, o) PROVE MailGrows
    <3>1. task[r].key \in MailKeys /\ UNCHANGED notified
          /\ (Mail!Deliver(task[r].key) \/ UNCHANGED delivered)
      BY <1>1, <2>2 DEF Mail!CallFailed
    <3>2. QED
      BY <1>2, <1>3, <3>1
  <2>3. CASE Mail!RecordWrite(r)
    BY <1>4, <2>3
  <2>4. CASE Mail!CallRefused(r) \/ Mail!RecordRead(r)
    BY <1>2, <2>4 DEF Mail!CallRefused, Mail!RecordRead, Mail!history
  <2>5. QED
    BY <1>6, <2>1, <2>2, <2>3, <2>4 DEF Mail!Step
<1>7. CASE \/ \E r \in Runs, m \in MailKeys : Mail!SkipDuplicate(r, m) \/ Mail!StartSend(r, m)
           \/ \E r \in Runs : Mail!RecordRefused(r)
           \/ Mail!BreakerTimeout \/ Mail!Crash \/ UNCHANGED Mail!vars
  BY <1>2, <1>7
  DEF Mail!RecordRefused, Mail!SkipDuplicate, Mail!StartSend, Mail!Begin, Mail!BreakerTimeout, Mail!Crash,
      Mail!vars, Mail!history
<1>8. QED
  BY <1>5, <1>6, <1>7 DEF Mail!Next

\* A mail is on its way only from a run that has it among its tries.
LEMMA DeliverStep ==
    ASSUME CallsInv, [AgentNext]_agentVars, NEW m \in MailKeys, delivered'[m] > 0
    PROVE  delivered[m] > 0 \/ \E r \in Runs : m \in tried[r]
<1>1. /\ delivered \in [MailKeys -> Nat]
      /\ \A r \in Runs : task[r].pc = "send" => task[r] # Mail!Idle
  BY MailFacts DEF CallsInv
<1>2. ASSUME NEW r \in Runs, task[r].pc = "send", Mail!Deliver(task[r].key)
      PROVE  delivered[m] > 0 \/ m \in tried[r]
  <2>1. task[r].key = NextKey(r) /\ NextKey(r) \in tried[r]
    BY <1>1, <1>2 DEF CallsInv, InCall
  <2>2. CASE m = task[r].key
    BY <2>1, <2>2
  <2>3. CASE m # task[r].key
    BY <1>1, <1>2, <2>3 DEF Mail!Deliver
  <2>4. QED
    BY <2>2, <2>3
<1>3. UNCHANGED delivered
      \/ \E r \in Runs : task[r].pc = "send" /\ Mail!Deliver(task[r].key)
  <2>1. [Mail!Next]_(Mail!vars)
    BY MailSteps
  <2>2. QED
    BY <2>1
    DEF Mail!Next, Mail!Step, Mail!CallAccepted, Mail!CallFailed, Mail!CallRefused,
        Mail!RecordRead, Mail!RecordWrite, Mail!RecordRefused, Mail!SkipDuplicate,
        Mail!StartSend, Mail!Begin, Mail!BreakerTimeout, Mail!Crash, Mail!vars,
        Mail!history
<1>4. QED
  BY <1>2, <1>3

\* A status in the log was there before, or is one a run gave.
LEMMA LogStep ==
    ASSUME CallsInv, [AgentNext]_agentVars, NEW k \in Keys, log'[k].status # log[k].status
    PROVE  \/ log'[k].status = "RESOLVED"
           \/ \E r \in Runs : /\ log'[k].status = run[r].given[k]
                              /\ k \in CurrentKeys(r)
                              /\ dry'[r] = dry[r] /\ run'[r].given = run[r].given
<1>1. CASE UNCHANGED log
  BY <1>1
<1>2. ASSUME NEW r \in Runs, Record(r), UNCHANGED dry
      PROVE  \E q \in Runs : /\ log'[k].status = run[q].given[k]
                             /\ k \in CurrentKeys(q)
                             /\ dry'[q] = dry[q] /\ run'[q].given = run[q].given
  <2>1. k \in CurrentKeys(r) /\ log'[k].status = run[r].given[k]
    BY <1>2 DEF Record, Upserted
  <2>2. run'[r].given = run[r].given
    BY <1>2, TypesOfRuns DEF Record, RunRecords
  <2>3. QED
    BY <1>2, <2>1, <2>2
<1>3. ASSUME NEW r \in Runs, Resolve(r) PROVE log'[k].status = "RESOLVED"
  BY <1>3 DEF Resolve, Resolved
<1>4. ASSUME NEW r \in Runs, OtherWork(r), ~ Record(r), ~ Resolve(r) PROVE UNCHANGED log
  BY <1>4 DEF OtherWork, Decide, EndDecide, Look, Clash, EndFailed, Select
<1>5. ASSUME NEW r \in Runs, AgentBegin(r) \/ AgentDispatch(r) \/ AgentFail(r)
      PROVE UNCHANGED log
  BY <1>5 DEF AgentBegin, Begin, AgentDispatch, Dispatch, AgentFail, Fail, EndFailed
<1>6. ASSUME NEW r \in Runs, MailChecked(r) \/ MailSent(r) \/ MailRecorded(r)
      PROVE UNCHANGED log
  BY <1>6, CheckSteps, CallSteps DEF CallsInv
<1>7. CASE AgentCrash \/ TimePasses \/ UNCHANGED agentVars
  BY <1>7 DEF AgentCrash, Crash, TimePasses, agentVars, vars
<1>8. QED
  BY <1>1, <1>2, <1>3, <1>4, <1>5, <1>6, <1>7 DEF AgentNext, AgentWork, OtherWork

----------------------------------------------------------------------------
\* What a run can account for.

Done(r) ==
    {m \in MailKeys : (m \in tried[r] \/ delivered[m] > 0) /\ notified[m] # "none"}

\* A run is done with every recipient it has been past.
Handled(r) ==
    /\ \A n \in 1 .. run[r].sent : Sends(r, n) =>
           \A i \in DOMAIN Targets(r, n) : Targets(r, n)[i] \in Done(r)
    /\ \A i \in 1 .. mailed[r] : Targets(r, run[r].sent + 1)[i] \in Done(r)

\* What a run has tried is on its list, or concerns the exception at hand.
AtHand(r, k) ==
    /\ run[r].pc = "dispatch" /\ run[r].sent < Len(run[r].excs)
    /\ k \in TargetKeys(run[r].excs[run[r].sent + 1],
                         run[r].decisions[run[r].sent + 1])

TriedFits(r) ==
    run[r].pc \in {"dispatch", "record", "verify", "resolve", "completed"} =>
        \A m \in tried[r] : m[1] \in CurrentKeys(r) \/ AtHand(r, m[1])

\* What a run lists as escalated or awaiting a recheck has a row.
Backed(k) == \E m \in MailKeys : m[1] = k /\ notified[m] # "none"

Waiting == {"ESCALATED", "AWAITING_RECHECK"}

GivenBacked(r) ==
    ~ dry[r] => \A k \in Keys : run[r].given[k] \in Waiting => Backed(k)

LEMMA AtMailTyped ==
    ASSUME CallsInv, NEW r \in Runs, AtMail(r)
    PROVE  /\ NextKey(r) \in MailKeys
           /\ AtHand(r, NextKey(r)[1])
<1> DEFINE n == run[r].sent + 1
<1>1. run[r] \in RunRecords /\ mailed[r] \in Nat
  BY TypesOfRuns
<1>2. run[r].excs[n] \in Exceptions
  BY <1>1 DEF RunRecords, AtMail
<1>3. Targets(r, n) = TargetsOf(run[r].excs[n], run[r].decisions[n])
  BY TargetsOfRun
<1>4. /\ Targets(r, n) \in Seq(MailKeys)
      /\ DOMAIN Targets(r, n) = 1 .. Len(Targets(r, n))
      /\ \A i \in DOMAIN Targets(r, n) :
             /\ Targets(r, n)[i] \in MailKeys
             /\ Targets(r, n)[i][1] \in
                    TargetKeys(run[r].excs[n], run[r].decisions[n])
  BY <1>2, <1>3, TargetsTyped
<1>5. mailed[r] + 1 \in DOMAIN Targets(r, n)
  BY <1>1, <1>4 DEF AtMail, MailsLeft
<1>6. QED
  BY <1>4, <1>5 DEF NextKey, AtHand, AtMail

LEMMA DoneStays ==
    ASSUME MailGrows, NEW r, tried[r] \subseteq tried'[r]
    PROVE  Done(r) \subseteq Done(r)'
<1>1. ASSUME NEW m \in MailKeys, m \in tried[r] \/ delivered[m] > 0, notified[m] # "none"
      PROVE  (m \in tried'[r] \/ delivered'[m] > 0) /\ notified'[m] # "none"
  BY <1>1 DEF MailGrows
<1>2. QED
  BY <1>1 DEF Done

\* A run that is past no new recipient and keeps its exceptions.
LEMMA SameHandled ==
    ASSUME MailGrows, NEW r, Handled(r),
           run'[r].excs = run[r].excs, run'[r].decisions = run[r].decisions,
           run'[r].sent = run[r].sent, mailed'[r] = mailed[r], dry'[r] = dry[r],
           tried[r] \subseteq tried'[r]
    PROVE  Handled(r)'
<1>1. \A n : Targets(r, n)' = Targets(r, n) /\ Sends(r, n)' = Sends(r, n)
  BY DEF Targets, Sends
<1>2. ASSUME NEW n \in 1 .. run[r].sent, Sends(r, n), NEW i \in DOMAIN Targets(r, n)
      PROVE  (Targets(r, n)[i] \in Done(r))'
  BY <1>1, <1>2, DoneStays DEF Handled
<1>3. ASSUME NEW i \in 1 .. mailed[r] PROVE (Targets(r, run[r].sent + 1)[i] \in Done(r))'
  BY <1>1, <1>3, DoneStays DEF Handled
<1>4. QED
  BY <1>1, <1>2, <1>3 DEF Handled

LEMMA HandledStep ==
    ASSUME CallsInv, CallsInv', MailGrows, NEW q \in Runs, Kinds(q), Handled(q)
    PROVE  Handled(q)'
<1>1. run[q] \in RunRecords /\ mailed[q] \in Nat /\ Early(q)
  BY TypesOfRuns DEF CallsInv
<1>2. CASE Stands(q) \/ Moves(q) \/ Tries(q)
  BY <1>2, SameHandled DEF Stands, Moves, Tries, Mailless
<1>3. CASE Starts(q) \/ Decides(q)
  <2>1. run'[q].sent = 0 /\ mailed'[q] = 0
    BY <1>1, <1>3 DEF Starts, Decides, Mailless, Early, Idle
  <2>2. QED
    BY <2>1 DEF Handled
<1>4. CASE Lists(q)
  <2> DEFINE n == run[q].sent + 1
  <2>1. /\ run[q].sent \in Nat /\ run[q].sent < Len(run[q].excs)
        /\ run[q].excs[n] \in Exceptions
    BY <1>1, <1>4 DEF RunRecords, Lists, AtException
  <2>2. \A i : Targets(q, i)' = Targets(q, i) /\ Sends(q, i)' = Sends(q, i)
    BY <1>4 DEF Lists, Targets, Sends
  <2>3. ASSUME Sends(q, n), NEW i \in DOMAIN Targets(q, n)
        PROVE  Targets(q, n)[i] \in Done(q)
    <3>1. /\ DOMAIN Targets(q, n) = 1 .. Len(Targets(q, n))
          /\ Len(Targets(q, n)) \in Nat
      BY <2>1, TargetsTyped, TargetsOfRun
    <3>2. i \in 1 .. mailed[q]
      BY <1>1, <1>4, <2>3, <3>1 DEF Lists, MailsLeft
    <3>3. QED
      BY <3>2 DEF Handled
  <2>4. ASSUME NEW m \in 1 .. n, Sends(q, m), NEW i \in DOMAIN Targets(q, m)
        PROVE  (Targets(q, m)[i] \in Done(q))'
    <3>1. Targets(q, m)[i] \in Done(q)
      <4>1. CASE m = n
        BY <2>3, <2>4, <4>1
      <4>2. CASE m # n
        BY <2>1, <2>4, <4>2 DEF Handled
      <4>3. QED
        BY <4>1, <4>2
    <3>2. QED
      BY <1>4, <2>2, <3>1, DoneStays DEF Lists
  <2>5. run'[q].sent = n /\ mailed'[q] = 0
    BY <1>4 DEF Lists
  <2>6. QED
    BY <2>2, <2>4, <2>5 DEF Handled
<1>5. CASE Finishes(q)
  <2>0. PICK n : n = run[q].sent + 1
    OBVIOUS
  <2>1. NextKey(q) \in MailKeys
    BY <1>5, AtMailTyped DEF Finishes
  <2>2. \A i : Targets(q, i)' = Targets(q, i) /\ Sends(q, i)' = Sends(q, i)
    BY <1>5 DEF Finishes, Targets, Sends
  <2>3. ASSUME NEW i \in 1 .. mailed'[q] PROVE (Targets(q, n)[i] \in Done(q))'
    <3>1. CASE i = mailed[q] + 1
      <4>1. Targets(q, n)'[i] = NextKey(q)
        BY <2>0, <2>2, <3>1 DEF NextKey
      <4>2. QED
        BY <1>5, <2>1, <4>1 DEF Finishes, Done, MailGrows
    <3>2. CASE i # mailed[q] + 1
      <4>1. i \in 1 .. mailed[q]
        BY <1>1, <1>5, <2>3, <3>2 DEF Finishes
      <4>2. Targets(q, n)[i] \in Done(q)
        BY <2>0, <4>1 DEF Handled
      <4>3. QED
        BY <1>5, <2>2, <4>2, DoneStays DEF Finishes
    <3>3. QED
      BY <3>1, <3>2
  <2>4. ASSUME NEW m \in 1 .. run[q].sent, Sends(q, m), NEW i \in DOMAIN Targets(q, m)
        PROVE  (Targets(q, m)[i] \in Done(q))'
    <3>1. Targets(q, m)[i] \in Done(q)
      BY <2>4 DEF Handled
    <3>2. QED
      BY <1>5, <2>2, <3>1, DoneStays DEF Finishes
  <2>5. run'[q].sent = run[q].sent
    BY <1>5 DEF Finishes
  <2>6. QED
    BY <2>0, <2>2, <2>3, <2>4, <2>5 DEF Handled
<1>6. QED
  BY <1>2, <1>3, <1>4, <1>5 DEF Kinds

LEMMA TriedStep ==
    ASSUME CallsInv, NEW q \in Runs, Kinds(q), TriedFits(q)
    PROVE  TriedFits(q)'
<1>1. /\ run[q] \in RunRecords /\ run[q].sent \in Nat /\ Early(q)
      /\ tried[q] \subseteq MailKeys
  BY TypesOfRuns DEF CallsInv, RunRecords
<1>2. CASE Stands(q) \/ Finishes(q)
  BY <1>2 DEF Stands, Finishes, Mailless, TriedFits, AtHand, CurrentKeys
<1>3. CASE Starts(q) \/ Decides(q)
  BY <1>3 DEF Starts, Decides, TriedFits
<1>4. CASE Moves(q)
  BY <1>1, <1>4 DEF Moves, Mailless, Early, TriedFits, AtHand, CurrentKeys
<1>5. CASE Lists(q)
  <2>1. PICK e, a : /\ e = run[q].excs[run[q].sent + 1]
                    /\ a = run[q].decisions[run[q].sent + 1]
    OBVIOUS
  <2>2. e \in Exceptions /\ run[q].pc = "dispatch"
    BY <1>1, <1>5, <2>1 DEF RunRecords, Lists, AtException
  <2>3. TargetKeys(e, a) \subseteq Keys /\ LifeStatus(a) # None
    BY <2>2, TargetsAreKeys, StatusesGiven, NoneIsNoStatus
  <2>4. \A k \in Keys : run'[q].given[k] = IF k \in TargetKeys(e, a) THEN LifeStatus(a)
                                          ELSE run[q].given[k]
    BY <1>5, <2>1 DEF Lists
  <2>5. CurrentKeys(q) \union TargetKeys(e, a) \subseteq CurrentKeys(q)'
    BY <2>3, <2>4 DEF CurrentKeys
  <2>6. \A m \in tried[q] : m[1] \in CurrentKeys(q) \/ m[1] \in TargetKeys(e, a)
    BY <2>1, <2>2 DEF TriedFits, AtHand
  <2>7. tried'[q] = tried[q]
    BY <1>5 DEF Lists
  <2>8. QED
    BY <2>5, <2>6, <2>7 DEF TriedFits
<1>6. CASE Tries(q)
  <2>1. AtHand(q, NextKey(q)[1])
    BY <1>6, AtMailTyped DEF Tries
  <2>2. \A m \in tried[q] : m[1] \in CurrentKeys(q) \/ AtHand(q, m[1])
    BY <1>6 DEF Tries, AtMail, TriedFits
  <2>3. \A m \in tried'[q] : m[1] \in CurrentKeys(q) \/ AtHand(q, m[1])
    BY <1>6, <2>1, <2>2 DEF Tries
  <2>4. QED
    BY <1>6, <2>3 DEF Tries, TriedFits, AtHand, CurrentKeys
<1>7. QED
  BY <1>2, <1>3, <1>4, <1>5, <1>6 DEF Kinds

LEMMA BackedStays == ASSUME MailGrows, NEW k, Backed(k) PROVE Backed(k)'
BY DEF MailGrows, Backed

LEMMA GivenStep ==
    ASSUME CallsInv, MailGrows, NEW q \in Runs, Kinds(q), Handled(q), GivenBacked(q)
    PROVE  GivenBacked(q)'
<1>1. CASE Stands(q) \/ Decides(q) \/ Moves(q) \/ Tries(q) \/ Finishes(q)
  <2>1. run'[q].given = run[q].given /\ dry'[q] = dry[q]
    BY <1>1 DEF Stands, Decides, Moves, Tries, Finishes
  <2>2. QED
    BY <2>1, BackedStays DEF GivenBacked
<1>2. CASE Starts(q)
  <2>1. \A k \in Keys : run'[q].given[k] = None
    BY <1>2 DEF Starts, Idle
  <2>2. QED
    BY <2>1 DEF GivenBacked, Waiting, None
<1>3. CASE Lists(q)
  <2>1. PICK n, e, a : /\ n = run[q].sent + 1
                       /\ e = run[q].excs[n] /\ a = run[q].decisions[n]
    OBVIOUS
  <2>2. /\ run[q] \in RunRecords /\ mailed[q] \in Nat
        /\ dry'[q] = dry[q] /\ ~ MailsLeft(q)
        /\ run[q].sent < Len(run[q].excs)
    BY <1>3, TypesOfRuns DEF Lists, AtException
  <2>3. e \in Exceptions
    BY <2>1, <2>2 DEF RunRecords
  <2>4. \A k \in Keys : run'[q].given[k] = IF k \in TargetKeys(e, a) THEN LifeStatus(a)
                                          ELSE run[q].given[k]
    BY <1>3, <2>1 DEF Lists
  <2>5. ASSUME NEW k \in TargetKeys(e, a), LifeStatus(a) \in Waiting, ~ dry[q]
        PROVE  Backed(k)
    <3>1. Sends(q, n)
      BY <2>1, <2>5 DEF Sends, LifeStatus, Waiting
    <3>2. /\ DOMAIN Targets(q, n) = 1 .. Len(Targets(q, n))
          /\ Len(Targets(q, n)) \in Nat
      BY <2>1, <2>3, TargetsTyped, TargetsOfRun
    <3>3. PICK i \in DOMAIN Targets(q, n) : Targets(q, n)[i][1] = k
      <4>1. \E i \in DOMAIN TargetsOf(e, a) : TargetsOf(e, a)[i][1] = k
        BY <2>3, <2>5, TargetsTyped
      <4>2. Targets(q, n) = TargetsOf(e, a)
        BY <2>1, TargetsOfRun
      <4>3. QED
        BY <4>1, <4>2
    <3>4. i \in 1 .. mailed[q]
      BY <2>1, <2>2, <3>1, <3>2 DEF MailsLeft
    <3>5. Targets(q, n)[i] \in Done(q)
      BY <2>1, <3>4 DEF Handled
    <3>6. QED
      BY <3>3, <3>5 DEF Done, Backed
  <2>6. QED
    BY <2>2, <2>4, <2>5, BackedStays DEF GivenBacked
<1>4. QED
  BY <1>1, <1>2, <1>3 DEF Kinds

\* Only a run with an empty list can change its mind about sending.
LEMMA DryStep ==
    ASSUME CallsInv, NEW q \in Runs, Kinds(q)
    PROVE  /\ CurrentKeys(q) \subseteq CurrentKeys(q)'
           /\ CurrentKeys(q) = {} \/ dry'[q] = dry[q]
<1>1. CASE Stands(q) \/ Decides(q) \/ Moves(q) \/ Tries(q) \/ Finishes(q)
  BY <1>1 DEF Stands, Decides, Moves, Tries, Finishes, CurrentKeys
<1>2. CASE Starts(q)
  BY <1>2 DEF Starts, Idle, CurrentKeys
<1>3. CASE Lists(q)
  <2>1. \A a : LifeStatus(a) # None
    BY StatusesGiven, NoneIsNoStatus
  <2>2. QED
    BY <1>3, <2>1 DEF Lists, CurrentKeys
<1>4. QED
  BY <1>1, <1>2, <1>3 DEF Kinds

----------------------------------------------------------------------------
\* The invariant of the whole.

DeliveredTried ==
    \A m \in MailKeys : delivered[m] > 0 => \E r \in Runs : m \in tried[r]

AgentInv ==
    /\ CallsInv
    /\ \A r \in Runs : Handled(r) /\ TriedFits(r) /\ GivenBacked(r)
    /\ DeliveredTried
    /\ EscalationsAreBacked

LEMMA TriedGrows == ASSUME NEW q \in Runs, Kinds(q) PROVE tried[q] \subseteq tried'[q]
BY DEF Kinds, Stands, Starts, Decides, Moves, Lists, Tries, Finishes, Mailless

LEMMA EscalationsStep ==
    ASSUME AgentInv, [AgentNext]_agentVars PROVE EscalationsAreBacked'
<1>1. CallsInv /\ MailGrows /\ \A q \in Runs : Kinds(q)
  BY GrowStep, StepKinds DEF AgentInv
<1>2. SUFFICES ASSUME NEW k \in Keys, log'[k].status \in Waiting,
                      \A r \in Runs : dry'[r] => k \notin CurrentKeys(r)'
               PROVE  Backed(k)'
  BY DEF EscalationsAreBacked, Backed, Waiting
<1>3. CASE log'[k].status = log[k].status
  <2>1. \A r \in Runs : dry[r] => k \notin CurrentKeys(r)
    BY <1>1, <1>2, DryStep
  <2>2. Backed(k)
    BY <1>2, <1>3, <2>1 DEF AgentInv, EscalationsAreBacked, Backed, Waiting
  <2>3. QED
    BY <1>1, <2>2, BackedStays
<1>4. CASE log'[k].status # log[k].status
  <2>1. PICK r \in Runs : /\ log'[k].status = run[r].given[k]
                          /\ k \in CurrentKeys(r)
                          /\ dry'[r] = dry[r]
    BY <1>1, <1>2, <1>4, LogStep DEF Waiting
  <2>2. ~ dry[r]
    BY <1>1, <1>2, <2>1, DryStep
  <2>3. Backed(k)
    BY <1>2, <2>1, <2>2 DEF AgentInv, GivenBacked
  <2>4. QED
    BY <1>1, <2>3, BackedStays
<1>5. QED
  BY <1>3, <1>4

LEMMA AgentStep == AgentInv /\ [AgentNext]_agentVars => AgentInv'
<1> SUFFICES ASSUME AgentInv, [AgentNext]_agentVars PROVE AgentInv'
  OBVIOUS
<1>1. CallsInv /\ CallsInv' /\ MailGrows /\ \A q \in Runs : Kinds(q)
  BY GrowStep, StepKinds, CallsStep DEF AgentInv
<1>2. ASSUME NEW r \in Runs PROVE (Handled(r) /\ TriedFits(r) /\ GivenBacked(r))'
  BY <1>1, HandledStep, TriedStep, GivenStep DEF AgentInv
<1>3. DeliveredTried'
  <2>1. ASSUME NEW m \in MailKeys, delivered'[m] > 0
        PROVE  \E r \in Runs : m \in tried[r]
    BY <1>1, <2>1, DeliverStep DEF AgentInv, DeliveredTried
  <2>2. \A r \in Runs : tried[r] \subseteq tried'[r]
    BY <1>1, TriedGrows
  <2>3. QED
    BY <2>1, <2>2 DEF DeliveredTried
<1>4. EscalationsAreBacked'
  BY EscalationsStep
<1>5. QED
  BY <1>1, <1>2, <1>3, <1>4 DEF AgentInv

LEMMA AgentInvInit == AgentInit => AgentInv
<1> SUFFICES ASSUME AgentInit PROVE AgentInv
  OBVIOUS
<1>1. CallsInv
  BY CallsInit
<1>2. ASSUME NEW r \in Runs PROVE Handled(r) /\ TriedFits(r) /\ GivenBacked(r)
  <2>1. run[r] = Idle /\ mailed[r] = 0 /\ tried[r] = {}
    BY DEF AgentInit, Init
  <2>2. QED
    BY <2>1 DEF Idle, Handled, TriedFits, GivenBacked, Waiting, None
<1>3. DeliveredTried
  BY DEF AgentInit, Mail!Init, DeliveredTried
<1>4. EscalationsAreBacked
  BY DEF AgentInit, Init, NoRow, None, EscalationsAreBacked
<1>5. QED
  BY <1>1, <1>2, <1>3, <1>4 DEF AgentInv

LEMMA AgentInvariant == AgentSpec => []AgentInv
<1>1. QED
  BY AgentInvInit, AgentStep, PTL DEF AgentSpec

----------------------------------------------------------------------------
\* What the whole promises.

\* A completed run that may send has tried every recipient of every exception
\* it did not wait for, or the recipient had the mail before: dispatch_node
\* goes through all of them, and only a SENT row, which is true, skips one.
THEOREM NobodyForgotten == AgentSpec => []NobodyIsForgotten
<1>1. AgentInv => NobodyIsForgotten
  <2> SUFFICES ASSUME AgentInv, NEW r \in Runs, run[r].pc = "completed",
                      NEW n \in DOMAIN run[r].excs, Sends(r, n),
                      NEW i \in DOMAIN Targets(r, n)
               PROVE  \/ Targets(r, n)[i] \in tried[r]
                      \/ delivered[Targets(r, n)[i]] > 0
    BY DEF NobodyIsForgotten
  <2>1. run[r] \in RunRecords /\ run[r].sent = Len(run[r].excs) /\ Handled(r)
    BY TypesOfRuns DEF AgentInv, CallsInv, KeptInv, Kept, Sent
  <2>2. n \in 1 .. run[r].sent
    BY <2>1 DEF RunRecords
  <2>3. QED
    BY <2>1, <2>2 DEF Handled, Done
<1>2. QED
  BY <1>1, AgentInvariant, PTL

\* An exception that counts as escalated or awaiting a recheck has a row in
\* notification_log, unless a run that was told to send nothing listed it:
\* dispatch_node lists an exception after its mails, and the service leaves a
\* row whatever becomes of a mail.
THEOREM EscalationsBacked == AgentSpec => []EscalationsAreBacked
<1>1. AgentInv => EscalationsAreBacked
  BY DEF AgentInv
<1>2. QED
  BY <1>1, AgentInvariant, PTL

\* Whoever got a mail finds its exception in the log, or a run that sent one
\* has failed, crashed or is still at its mails: the log is written after all
\* the mails, in one transaction, and no row of it goes away.
THEOREM MailsExplained == AgentSpec => []MailsAreExplained
<1>1. AgentInv => MailsAreExplained
  <2> SUFFICES ASSUME AgentInv, NEW m \in MailKeys, delivered[m] > 0
               PROVE  \/ log[m[1]] # NoRow
                      \/ \E r \in Runs :
                             /\ m \in tried[r]
                             /\ run[r].pc \in {"dispatch", "record", "failed", "crashed"}
    BY DEF MailsAreExplained
  <2>1. PICK r \in Runs : m \in tried[r]
    BY DEF AgentInv, DeliveredTried
  <2>2. /\ Early(r) /\ TriedFits(r) /\ Kept(r) /\ run[r] \in RunRecords
    BY TypesOfRuns DEF AgentInv, CallsInv, KeptInv
  <2>3. run[r].pc \in Nodes \union Ended
    BY <2>2 DEF RunRecords
  <2>4. CASE run[r].pc \in {"dispatch", "record", "failed", "crashed"}
    BY <2>1, <2>4
  <2>5. CASE run[r].pc \in {"idle", "decide"}
    BY <2>1, <2>2, <2>5 DEF Early
  <2>6. CASE run[r].pc \in {"verify", "resolve", "completed"}
    <3>1. m[1] \in CurrentKeys(r)
      BY <2>1, <2>2, <2>6 DEF TriedFits, AtHand
    <3>2. QED
      BY <2>2, <2>6, <3>1 DEF Kept, Recorded
  <2>7. QED
    BY <2>3, <2>4, <2>5, <2>6 DEF Nodes, Ended
<1>2. QED
  BY <1>1, AgentInvariant, PTL

\* The runs with their mails are runs of Lifecycle: what is proved of its
\* specification holds of them.
THEOREM ImplementsLifecycle == AgentSpec => Spec
<1>1. AgentInit => Init
  BY DEF AgentInit
<1>2. CallsInv /\ [AgentNext]_agentVars => [Next]_vars
  BY LogSteps
<1>3. QED
  BY <1>1, <1>2, CallsInvariant, PTL DEF AgentSpec, Spec

\* The mails of the runs are dispatches of Notifications, with the runs as its
\* threads: every step is one of its steps, or concerns no mail.
THEOREM MailIsService == AgentSpec => Mail!Init /\ [][Mail!Next]_(Mail!vars)
<1>1. AgentInit => Mail!Init
  BY DEF AgentInit
<1>2. [AgentNext]_agentVars => [Mail!Next]_(Mail!vars)
  BY MailSteps
<1>3. QED
  BY <1>1, <1>2, PTL DEF AgentSpec

----------------------------------------------------------------------------
\* What may end a run at a send.

\* A step that fails a run inside a provider call is the answer of that call.
LEMMA SendGoesOn ==
    ASSUME Outcomes \intersect Mail!Foreign = {}, CallsInv, [AgentNext]_agentVars,
           NEW q \in Runs, task[q].pc = "send"
    PROVE  run'[q].pc # "failed"
<1>1. /\ MailInv /\ run \in [Runs -> RunRecords] /\ DOMAIN task = Runs
      /\ task[q] # Mail!Idle
  BY TypesOfRuns, MailFacts
<1>2. run[q].pc = "dispatch"
  BY <1>1 DEF CallsInv, InCall
<1>3. ASSUME NEW r \in Runs, AgentBegin(r) PROVE run'[q].pc # "failed"
  <2>1. r # q
    BY <1>2, <1>3 DEF AgentBegin, Begin
  <2>2. run'[q] = run[q]
    BY <1>3, <2>1 DEF AgentBegin, Begin
  <2>3. QED
    BY <1>2, <2>2
<1>4. ASSUME NEW r \in Runs, MailChecked(r) PROVE run'[q].pc # "failed"
  BY <1>1, <1>2, <1>4, CheckSteps
<1>5. ASSUME NEW r \in Runs, MailSent(r) PROVE run'[q].pc # "failed"
  <2>1. CASE r = q
    <3>1. CASE MailGoesOn
      BY <1>2, <3>1 DEF MailGoesOn
    <3>2. ASSUME NEW o \in Outcomes, Mail!CallFailed(q, o),
                 IF Mail!AfterFailure(task[q], o) = Mail!Idle
                 THEN MailFails(q) ELSE MailGoesOn
          PROVE  run'[q].pc # "failed"
      <4>1. o \notin Mail!Foreign
        OBVIOUS
      <4>2. Mail!AfterFailure(task[q], o) # Mail!Idle
        BY <4>1 DEF Mail!AfterFailure, Mail!Sending, Mail!Recording, Mail!Idle
      <4>3. QED
        BY <1>2, <3>2, <4>2 DEF MailGoesOn
    <3>3. QED
      BY <1>5, <2>1, <3>1, <3>2 DEF MailSent
  <2>2. CASE r # q
    <3>1. CallGoesOn(r) \/ CallEnds(r) \/ CallRaises(r)
      BY <1>1, <1>5, CallSteps
    <3>2. run'[q] = run[q]
      BY <1>1, <2>2, <3>1 DEF CallGoesOn, CallEnds, CallRaises, EndFailed
    <3>3. QED
      BY <1>2, <3>2
  <2>3. QED
    BY <2>1, <2>2
<1>6. ASSUME NEW r \in Runs, MailRecorded(r) PROVE run'[q].pc # "failed"
  <2>1. r # q
    BY <1>6 DEF MailRecorded, Mail!RecordRead, Mail!RecordWrite, Mail!RecordRefused
  <2>2. CallGoesOn(r) \/ CallEnds(r) \/ CallRaises(r)
    BY <1>1, <1>6, CallSteps
  <2>3. run'[q] = run[q]
    BY <1>1, <2>1, <2>2 DEF CallGoesOn, CallEnds, CallRaises, EndFailed
  <2>4. QED
    BY <1>2, <2>3
<1>7. ASSUME NEW r \in Runs, AgentDispatch(r) \/ OtherWork(r) \/ AgentFail(r)
      PROVE  run'[q].pc # "failed"
  <2>1. CASE r = q
    <3>1. OtherWork(q)
      BY <1>1, <1>7, <2>1 DEF AgentDispatch, AtException, AgentFail
    <3>2. Look(q)
      BY <1>2, <3>1 DEF OtherWork, Decide, EndDecide, Record, Clash, Select, Resolve
    <3>3. run[q].sent # Len(run[q].excs)
      BY <1>1, TypesOfRuns DEF CallsInv, InCall, RunRecords
    <3>4. QED
      BY <3>2, <3>3 DEF Look
  <2>2. CASE r # q
    <3>1. run'[q] = run[q]
      BY <1>1, <1>7, <2>2
      DEF AgentDispatch, OtherWork, AgentFail, Dispatch, Decide, EndDecide, Look,
          Record, Clash, Select, Resolve, Fail, EndFailed
    <3>2. QED
      BY <1>2, <3>1
  <2>3. QED
    BY <2>1, <2>2
<1>8. CASE AgentCrash
  <2>1. run'[q] = IF Active(q) THEN [run[q] EXCEPT !.pc = "crashed"] ELSE run[q]
    BY <1>8 DEF AgentCrash, Crash
  <2>2. QED
    BY <1>1, <1>2, <2>1 DEF RunRecords
<1>9. CASE TimePasses \/ UNCHANGED agentVars
  BY <1>2, <1>9 DEF TimePasses, agentVars, vars
<1>10. QED
  BY <1>3, <1>4, <1>5, <1>6, <1>7, <1>8, <1>9 DEF AgentNext, AgentWork

\* The failures the service knows (a mail turned down for good, a provider that
\* is down or slow, the open breaker) end no run (agent/nodes.py,
\* notifications/service.py): where the promise of docs/PRD.md is broken, the
\* call has raised an error of another class.
THEOREM KnownFailuresAbortNoRun ==
    ASSUME Outcomes \intersect Mail!Foreign = {}
    PROVE  AgentSpec => SendsAbortNoRun
<1>1. CallsInv /\ [AgentNext]_agentVars =>
          [\A r \in Runs : task[r].pc = "send" => run'[r].pc # "failed"]_agentVars
  BY SendGoesOn
<1>2. QED
  BY <1>1, CallsInvariant, PTL DEF AgentSpec, SendsAbortNoRun

----------------------------------------------------------------------------
\* The account of the mails of the runs.

LEMMA AccountsInvariant == AgentSpec => [](CallsInv /\ Service!AccountInv)
<1>1. AgentInit => Service!AccountInv
  <2> SUFFICES ASSUME AgentInit PROVE Service!AccountInv
    OBVIOUS
  <2>1. Service!Init
    BY SameInit DEF AgentInit
  <2>2. QED
    BY <2>1, ServiceAssumptions, Service!AccountInit
<1>2. CallsInv /\ Service!AccountInv /\ [AgentNext]_agentVars => Service!AccountInv'
  <2> SUFFICES ASSUME CallsInv, Service!AccountInv, [AgentNext]_agentVars
               PROVE  Service!AccountInv'
    OBVIOUS
  <2>1. [Service!Next]_(Service!vars)
    BY MailSteps, SameNext, SameVars
  <2>2. Service!TypeInv
    BY DEF CallsInv, MailInv
  <2>3. QED
    BY <2>1, <2>2, ServiceAssumptions, Service!AccountStep
<1>3. QED
  BY <1>1, <1>2, CallsInvariant, PTL DEF AgentSpec

\* What the service promises of its dispatches holds of the mails of the runs:
\* every repetition has its excuse.
THEOREM RunMailsAccountedFor == AgentSpec => []Mail!EmailsAccountedFor
<1>1. CallsInv /\ Service!AccountInv => Mail!EmailsAccountedFor
  <2> SUFFICES ASSUME CallsInv, Service!AccountInv PROVE Mail!EmailsAccountedFor
    OBVIOUS
  <2>1. Service!TypeInv
    BY DEF CallsInv, MailInv
  <2>2. Service!EmailsAccountedFor
    BY <2>1, ServiceAssumptions, Service!AccountFacts
  <2>3. QED
    BY <2>2
    DEF Mail!EmailsAccountedFor, Service!EmailsAccountedFor, Mail!Excuses, Service!Excuses
<1>2. QED
  BY <1>1, AccountsInvariant, PTL

NoRivals == rivals = [m \in MailKeys |-> 0]

LEMMA InTurnNoRivals ==
    ASSUME CallsInv, OneAtATime, NoRivals, [AgentNext]_agentVars
    PROVE  NoRivals'
<1>1. MailInv
  BY DEF CallsInv
<1>2. ASSUME NEW r \in Runs, MailChecked(r) PROVE UNCHANGED rivals
  <2>1. /\ AtException(r)
        /\ \/ Mail!SkipDuplicate(r, NextKey(r))
           \/ Mail!StartSend(r, NextKey(r))
    BY <1>2 DEF MailChecked
  <2>2. \A q \in Runs : task[q] = Mail!Idle
    <3> SUFFICES ASSUME NEW q \in Runs, task[q] # Mail!Idle PROVE FALSE
      OBVIOUS
    <3>1. run[q].pc = "dispatch" /\ run[r].pc = "dispatch"
      BY <2>1 DEF CallsInv, InCall, AtException
    <3>2. LastStarted(q) /\ LastStarted(r)
      BY <3>1 DEF OneAtATime, Active, Ended
    <3>3. q = r
      BY <3>1, <3>2, BoundsAssumption DEF LastStarted, Runs
    <3>4. QED
      BY <2>1, <3>3 DEF AtException
  <2>3. QED
    BY <2>1, <2>2 DEF Mail!SkipDuplicate, Mail!StartSend, Mail!Busy
<1>3. ASSUME NEW r \in Runs, MailSent(r) \/ MailRecorded(r) PROVE UNCHANGED rivals
  BY <1>3
  DEF MailSent, MailRecorded, Mail!CallAccepted, Mail!CallFailed, Mail!CallRefused,
      Mail!RecordRead, Mail!RecordWrite, Mail!RecordRefused, Mail!history
<1>4. ASSUME NEW r \in Runs,
             AgentBegin(r) \/ AgentDispatch(r) \/ OtherWork(r) \/ AgentFail(r)
      PROVE  UNCHANGED rivals
  BY <1>4 DEF AgentBegin, AgentDispatch, OtherWork, AgentFail, mailVars
<1>5. ASSUME AgentCrash \/ TimePasses \/ UNCHANGED agentVars PROVE UNCHANGED rivals
  BY <1>5 DEF AgentCrash, TimePasses, Mail!Crash, Mail!BreakerTimeout, agentVars, mailVars
<1>6. UNCHANGED rivals
  BY <1>2, <1>3, <1>4, <1>5 DEF AgentNext, AgentWork
<1>7. QED
  BY <1>6 DEF NoRivals

\* With one run at a time nobody but a crash, a lost answer or a record the
\* database refused can cost a second mail: the recipients the exceptions of a
\* run share, and the runs that follow, never do (notifications/service.py,
\* agent/nodes.py).
THEOREM RepeatsInTurn ==
    ASSUME MaxActive <= 1
    PROVE  AgentSpec => [](\A m \in MailKeys :
               delivered[m] <= 1 + crashes + lost[m] + unrecorded[m])
<1>1. AgentInit => NoRivals
  BY DEF AgentInit, Mail!Init, NoRivals
<1>2. CallsInv /\ OneAtATime /\ NoRivals /\ [AgentNext]_agentVars => NoRivals'
  BY InTurnNoRivals
<1>3. SightInv => OneAtATime
  BY DEF SightInv
<1>4. AgentSpec => []NoRivals
  BY <1>1, <1>2, <1>3, CallsInvariant, SightInvariant, ImplementsLifecycle, PTL
  DEF AgentSpec
<1>5. CallsInv /\ NoRivals /\ Mail!EmailsAccountedFor =>
          \A m \in MailKeys : delivered[m] <= 1 + crashes + lost[m] + unrecorded[m]
  <2> SUFFICES ASSUME CallsInv, NoRivals, Mail!EmailsAccountedFor, NEW m \in MailKeys
               PROVE  delivered[m] <= 1 + crashes + lost[m] + unrecorded[m]
    OBVIOUS
  <2>1. /\ crashes \in Nat /\ delivered[m] \in Nat
        /\ lost[m] \in Nat /\ unrecorded[m] \in Nat
    BY DEF CallsInv, MailInv, Service!TypeInv, Service!TypeOK
  <2>2. delivered[m] <= 1 + (crashes + lost[m] + unrecorded[m] + rivals[m])
    BY DEF Mail!EmailsAccountedFor, Mail!Excuses
  <2>3. rivals[m] = 0
    BY DEF NoRivals
  <2>4. QED
    BY <2>1, <2>2, <2>3
<1>6. QED
  BY <1>4, <1>5, CallsInvariant, RunMailsAccountedFor, PTL
=============================================================================
