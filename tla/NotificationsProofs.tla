------------------------ MODULE NotificationsProofs ------------------------
(***************************************************************************)
(* Theorems about the notification service, for every number of threads,   *)
(* keys, attempts, failures, dispatches and crashes.                       *)
(***************************************************************************)
EXTENDS Notifications, FiniteSetTheorems, TLAPS

USE WorkersAssumption, ProducesAssumption, RetryAssumption, FailMaxAssumption,
    OutcomesAssumption, BoundsAssumption

----------------------------------------------------------------------------
\* The shapes a dispatch can have.

LEMMA SendingIsTask ==
    ASSUME NEW k \in Keys, NEW n \in 0 .. RetryAttempts - 1
    PROVE  /\ Sending(k, n) \in Tasks
           /\ Sending(k, n) # Idle
           /\ Sending(k, n).pc = "send"
           /\ Sending(k, n).key = k
           /\ Sending(k, n).tries = n
BY DEF Tasks, Sending, Idle

LEMMA RecordingIsTask ==
    ASSUME NEW k \in Keys, NEW r \in Statuses,
           NEW s \in Statuses \union {"none"}
    PROVE  /\ Recording("read", k, r, "none") \in Tasks
           /\ Recording("write", k, r, s) \in Tasks
<1>1. Recording("read", k, r, "none") \in
          {Recording("read", i, q, "none") : i \in Keys, q \in Statuses}
  OBVIOUS
<1>2. Recording("write", k, r, s) \in
          {Recording("write", i, q, u) :
               i \in Keys, q \in Statuses, u \in Statuses \union {"none"}}
  OBVIOUS
<1>3. QED
  BY <1>1, <1>2 DEF Tasks

\* A task at a given step has the fields that step uses.
LEMMA TaskFields ==
    ASSUME NEW t \in Tasks
    PROVE  /\ t.pc \in {"idle", "send", "read", "write"}
           /\ t.pc = "idle" <=> t = Idle
           /\ t.pc # "idle" => t.key \in Keys
           /\ t.pc = "send" => t.tries \in 0 .. RetryAttempts - 1
           /\ t.pc \in {"read", "write"} => t.result \in Statuses
           /\ t.pc = "write" => t.seen \in Statuses \union {"none"}
BY DEF Tasks, Idle, Sending, Recording

----------------------------------------------------------------------------
\* The breaker stays within its states, and a closed one has counted fewer
\* than FailMax failures.

BreakerOK ==
    /\ breaker \in [state : {"closed", "open"}, failures : 0 .. FailMax,
                    elapsed : BOOLEAN]
    /\ breaker.state = "closed" => breaker.failures < FailMax /\ ~ breaker.elapsed

LEMMA BreakerValues ==
    /\ Closed \in [state : {"closed", "open"}, failures : 0 .. FailMax, elapsed : BOOLEAN]
    /\ Opened \in [state : {"closed", "open"}, failures : 0 .. FailMax, elapsed : BOOLEAN]
    /\ BreakerOK => OnFailure(breaker) \in
           [state : {"closed", "open"}, failures : 0 .. FailMax, elapsed : BOOLEAN]
BY DEF Closed, Opened, OnFailure, Trips, BreakerOK

LEMMA AfterFailureIsTask ==
    ASSUME NEW t \in Tasks, t.pc = "send", NEW o \in Outcomes
    PROVE  AfterFailure(t, o) \in Tasks
<1>1. t.key \in Keys /\ t.tries \in 0 .. RetryAttempts - 1
  BY TaskFields
<1>2. t.tries + 1 < RetryAttempts => t.tries + 1 \in 0 .. RetryAttempts - 1
  BY <1>1
<1>3. Idle \in Tasks
  BY DEF Tasks
<1>4. QED
  BY <1>1, <1>2, <1>3, SendingIsTask, RecordingIsTask DEF AfterFailure, Statuses

----------------------------------------------------------------------------
TypeInv == TypeOK /\ BreakerOK

LEMMA TypeInit == Init => TypeInv
<1> SUFFICES ASSUME Init PROVE TypeInv
  OBVIOUS
<1>1. Idle \in Tasks
  BY DEF Tasks
<1>2. BreakerOK
  BY BreakerValues DEF Init, BreakerOK, Closed
<1>3. QED
  BY <1>1, <1>2 DEF Init, TypeInv, TypeOK, BreakerOK

LEMMA TypeStep == TypeInv /\ [Next]_vars => TypeInv'
<1> SUFFICES ASSUME TypeInv, [Next]_vars PROVE TypeInv'
  OBVIOUS
<1> USE DEF TypeInv, TypeOK
<1>0. Idle \in Tasks
  BY DEF Tasks
<1>1. ASSUME NEW w \in Workers, NEW k \in Keys, SkipDuplicate(w, k)
      PROVE  TypeInv'
  BY <1>1 DEF SkipDuplicate, Begin, history, BreakerOK
<1>2. ASSUME NEW w \in Workers, NEW k \in Keys, StartSend(w, k)
      PROVE  TypeInv'
  <2>1. Sending(k, 0) \in Tasks
    BY SendingIsTask
  <2>2. QED
    BY <1>2, <2>1 DEF StartSend, Begin, Become, history, BreakerOK
<1>3. ASSUME NEW w \in Workers, CallAccepted(w)
      PROVE  TypeInv'
  <2>1. task[w] \in Tasks /\ task[w].key \in Keys
    BY <1>3, TaskFields DEF CallAccepted
  <2>2. Recording("read", task[w].key, "SENT", "none") \in Tasks
    BY <2>1, RecordingIsTask DEF Statuses
  <2>3. breaker' = Closed
    BY <1>3 DEF CallAccepted
  <2>4. BreakerOK'
    BY <2>3, BreakerValues DEF BreakerOK, Closed
  <2>5. QED
    BY <1>3, <2>1, <2>2, <2>4 DEF CallAccepted, Deliver, Become, BreakerOK
<1>4. ASSUME NEW w \in Workers, NEW o \in Outcomes, CallFailed(w, o)
      PROVE  TypeInv'
  <2>1. task[w] \in Tasks /\ task[w].key \in Keys
    BY <1>4, TaskFields DEF CallFailed
  <2>2. AfterFailure(task[w], o) \in Tasks
    BY <1>4, <2>1, AfterFailureIsTask DEF CallFailed
  <2>3. breaker' = OnFailure(breaker)
    BY <1>4 DEF CallFailed
  <2>4. BreakerOK'
    BY <2>3, BreakerValues DEF BreakerOK, OnFailure, Trips, Opened
  <2>5. task' \in [Workers -> Tasks]
    BY <1>4, <2>2 DEF CallFailed, Become
  <2>6. delivered' \in [Keys -> Nat] /\ lost' \in [Keys -> Nat] /\ burst' \in Nat
    BY <1>4, <2>1 DEF CallFailed, Deliver
  <2>7. QED
    BY <1>4, <2>4, <2>5, <2>6 DEF CallFailed, BreakerOK
<1>5. ASSUME NEW w \in Workers, CallRefused(w)
      PROVE  TypeInv'
  <2>1. task[w].key \in Keys
    BY <1>5, TaskFields DEF CallRefused
  <2>2. Recording("read", task[w].key, "SKIPPED", "none") \in Tasks
    BY <2>1, RecordingIsTask DEF Statuses
  <2>3. QED
    BY <1>5, <2>2 DEF CallRefused, Become, history, BreakerOK
<1>6. ASSUME NEW w \in Workers, RecordRead(w)
      PROVE  TypeInv'
  <2>1. task[w].key \in Keys /\ task[w].result \in Statuses
    BY <1>6, TaskFields DEF RecordRead
  <2>2. Recording("write", task[w].key, task[w].result, log[task[w].key]) \in Tasks
    BY <2>1, RecordingIsTask
  <2>3. QED
    BY <1>6, <2>2 DEF RecordRead, Become, history, BreakerOK
<1>7. ASSUME NEW w \in Workers, RecordWrite(w)
      PROVE  TypeInv'
  <2>1. task[w].key \in Keys /\ task[w].result \in Statuses
    BY <1>7, TaskFields DEF RecordWrite
  <2>2. Written(task[w]) \in Statuses \union {"none"}
    BY <2>1 DEF Written
  <2>3. QED
    BY <1>0, <1>7, <2>1, <2>2 DEF RecordWrite, Become, history, BreakerOK
<1>8. ASSUME BreakerTimeout
      PROVE  TypeInv'
  BY <1>8 DEF BreakerTimeout, BreakerOK
<1>12. ASSUME NEW w \in Workers, RecordRefused(w)
       PROVE  TypeInv'
  <2>1. task[w].key \in Keys
    BY <1>12, TaskFields DEF RecordRefused
  <2>2. QED
    BY <1>0, <1>12, <2>1 DEF RecordRefused, Become, BreakerOK
<1>9. ASSUME Crash
      PROVE  TypeInv'
  <2>1. BreakerOK'
    BY <1>9, BreakerValues DEF Crash, BreakerOK, Closed
  <2>2. QED
    BY <1>0, <1>9, <2>1 DEF Crash, BreakerOK
<1>10. CASE UNCHANGED vars
  BY <1>10 DEF vars, history, BreakerOK
<1>11. QED
  BY <1>1, <1>2, <1>3, <1>4, <1>5, <1>6, <1>7, <1>8, <1>9, <1>10, <1>12
  DEF Next, Step

LEMMA TypeInvariant == Spec => []TypeInv
<1>1. QED
  BY TypeInit, TypeStep, PTL DEF Spec

\* Type correctness: every variable of the service keeps its type.
THEOREM TypeCorrect == Spec => []TypeOK
<1>1. TypeInv => TypeOK
  BY DEF TypeInv
<1>2. QED
  BY <1>1, TypeInvariant, PTL

----------------------------------------------------------------------------
\* The rest of the provider.

RestInv ==
    /\ breaker.state = "closed" => burst = breaker.failures
    /\ breaker.elapsed => burst = 0
    /\ burst <= FailMax

\* Over all the threads there are never more than FailMax failing calls in a
\* row without a success, the reset timeout or a restart in between
\* (circuit_breaker.build_circuit_breaker).
THEOREM BreakerRestsProvider == Spec => []ProviderRests
<1> USE DEF RestInv
<1>1. Init => RestInv
  BY DEF Init, Closed
<1>2. TypeInv /\ RestInv /\ [Next]_vars => RestInv'
  <2> SUFFICES ASSUME TypeInv, RestInv, [Next]_vars PROVE RestInv'
    OBVIOUS
  <2> USE DEF TypeInv, BreakerOK
  <2>1. ASSUME NEW w \in Workers, CallAccepted(w)
        PROVE  RestInv'
    BY <2>1 DEF CallAccepted, Closed
  <2>2. ASSUME NEW w \in Workers, NEW o \in Outcomes, CallFailed(w, o)
        PROVE  RestInv'
    <3>1. /\ Admits(breaker)
          /\ breaker' = OnFailure(breaker)
          /\ burst' = burst + 1
      BY <2>2 DEF CallFailed
    <3>2. CASE breaker.state = "closed"
      BY <3>1, <3>2 DEF OnFailure, Trips, Opened
    <3>3. CASE breaker.state = "open"
      BY <3>1, <3>3 DEF OnFailure, Trips, Opened, Admits
    <3>4. QED
      BY <3>2, <3>3
  <2>3. CASE BreakerTimeout
    BY <2>3 DEF BreakerTimeout
  <2>4. CASE Crash
    BY <2>4 DEF Crash, Closed
  <2>5. CASE UNCHANGED <<breaker, burst>>
    BY <2>5
  <2>6. QED
    BY <2>1, <2>2, <2>3, <2>4, <2>5
    DEF Next, Step, SkipDuplicate, StartSend, Begin, CallRefused, RecordRead,
        RecordWrite, RecordRefused, history, vars
<1>3. RestInv => ProviderRests
  BY DEF ProviderRests
<1>4. QED
  BY <1>1, <1>2, <1>3, TypeInvariant, PTL DEF Spec

----------------------------------------------------------------------------
\* A SENT row, and a SENT result on its way to the row, stand for a mail.

SentInv ==
    /\ SentWasDelivered
    /\ \A w \in Workers :
           (task[w].pc \in {"read", "write"} /\ task[w].result = "SENT")
           => delivered[task[w].key] > 0

LEMMA SentStep == TypeInv /\ SentInv /\ [Next]_vars => SentInv'
<1> SUFFICES ASSUME TypeInv, SentInv, [Next]_vars PROVE SentInv'
  OBVIOUS
<1> USE DEF TypeInv, TypeOK, SentInv, SentWasDelivered
<1>1. ASSUME NEW w \in Workers, NEW k \in Keys, StartSend(w, k)
      PROVE  SentInv'
  BY <1>1 DEF StartSend, Begin, Become, Sending, history
<1>2. ASSUME NEW w \in Workers, CallAccepted(w)
      PROVE  SentInv'
  <2>1. task[w].key \in Keys
    BY <1>2, TaskFields DEF CallAccepted
  <2>2. \A v \in Workers : v # w => task'[v] = task[v]
    BY <1>2 DEF CallAccepted, Become
  <2>3. \A k \in Keys : delivered[k] > 0 => delivered'[k] > 0
    BY <1>2, <2>1 DEF CallAccepted, Deliver
  <2>4. delivered'[task[w].key] > 0
    BY <1>2, <2>1 DEF CallAccepted, Deliver
  <2>5. task'[w].key = task[w].key
    BY <1>2 DEF CallAccepted, Become, Recording
  <2>6. \A v \in Workers : task[v].pc \in {"read", "write"} => task[v].key \in Keys
    BY TaskFields
  <2>7. log' = log
    BY <1>2 DEF CallAccepted
  <2>8. SentWasDelivered'
    BY <2>3, <2>7
  <2>9. ASSUME NEW v \in Workers, task'[v].pc \in {"read", "write"},
               task'[v].result = "SENT"
        PROVE  delivered'[task'[v].key] > 0
    <3>1. CASE v = w
      BY <3>1, <2>4, <2>5
    <3>2. CASE v # w
      BY <3>2, <2>2, <2>3, <2>6, <2>9
    <3>3. QED
      BY <3>1, <3>2
  <2>10. QED
    BY <2>8, <2>9
<1>3. ASSUME NEW w \in Workers, NEW o \in Outcomes, CallFailed(w, o)
      PROVE  SentInv'
  <2>1. task[w].key \in Keys
    BY <1>3, TaskFields DEF CallFailed
  <2>2. \A v \in Workers : v # w => task'[v] = task[v]
    BY <1>3 DEF CallFailed, Become
  <2>3. \A k \in Keys : delivered[k] > 0 => delivered'[k] > 0
    BY <1>3, <2>1 DEF CallFailed, Deliver
  <2>4. task'[w] = AfterFailure(task[w], o)
    BY <1>3 DEF CallFailed, Become
  <2>5. ~ (task'[w].pc \in {"read", "write"} /\ task'[w].result = "SENT")
    BY <2>4 DEF AfterFailure, Recording, Sending, Idle
  <2>6. \A v \in Workers : task[v].pc \in {"read", "write"} => task[v].key \in Keys
    BY TaskFields
  <2>7. log' = log
    BY <1>3 DEF CallFailed
  <2>8. SentWasDelivered'
    BY <2>3, <2>7
  <2>9. ASSUME NEW v \in Workers, task'[v].pc \in {"read", "write"},
               task'[v].result = "SENT"
        PROVE  delivered'[task'[v].key] > 0
    BY <2>2, <2>3, <2>5, <2>6, <2>9
  <2>10. QED
    BY <2>8, <2>9
<1>4. ASSUME NEW w \in Workers, CallRefused(w)
      PROVE  SentInv'
  BY <1>4 DEF CallRefused, Become, Recording, history
<1>5. ASSUME NEW w \in Workers, RecordRead(w)
      PROVE  SentInv'
  BY <1>5 DEF RecordRead, Become, Recording, history
<1>6. ASSUME NEW w \in Workers, RecordWrite(w)
      PROVE  SentInv'
  <2>1. task[w].key \in Keys
    BY <1>6, TaskFields DEF RecordWrite
  <2>2. Written(task[w]) \in {task[w].result, log[task[w].key]}
    BY DEF Written
  <2>3. QED
    BY <1>6, <2>1, <2>2 DEF RecordWrite, Become, Idle, history
<1>7. CASE BreakerTimeout
  BY <1>7 DEF BreakerTimeout
<1>8. CASE Crash
  BY <1>8 DEF Crash, Idle
<1>9. CASE UNCHANGED <<log, task, delivered>>
  BY <1>9
<1>10. ASSUME NEW w \in Workers, RecordRefused(w)
       PROVE  SentInv'
  BY <1>10 DEF RecordRefused, Become, Idle
<1>11. QED
  BY <1>1, <1>2, <1>3, <1>4, <1>5, <1>6, <1>7, <1>8, <1>9, <1>10
  DEF Next, Step, SkipDuplicate, Begin, history, vars

LEMMA SentInvariant == Spec => []SentInv
<1>1. Init => SentInv
  BY DEF Init, SentInv, SentWasDelivered, Idle
<1>2. QED
  BY <1>1, SentStep, TypeInvariant, PTL DEF Spec

\* A row that says SENT is never wrong, in spite of races and crashes.
THEOREM SentRowsAreTrue == Spec => []SentWasDelivered
<1>1. SentInv => SentWasDelivered
  BY DEF SentInv
<1>2. QED
  BY <1>1, SentInvariant, PTL

----------------------------------------------------------------------------
\* The account of the mails, when no two threads dispatch the same key.

Senders(k) == {w \in Workers : task[w].pc = "send" /\ task[w].key = k}

Recorders(k) == {w \in Workers : task[w].pc \in {"read", "write"} /\ task[w].key = k}

\* The mails of k that went out or may go out before the row is read again.
Claims(k) == delivered[k] + Cardinality(Senders(k))

\* The row of k says SENT or is going to, as no dispatch of it went wrong.
WillSay(k) ==
    /\ log[k] = "SENT" \/ \E w \in Workers : Busy(w, k)
    /\ \A w \in Recorders(k) :
           /\ task[w].result = "SENT"
           /\ task[w].pc = "write" /\ task[w].seen = "none"
              => log[k] \in {"none", "SENT"}
           /\ task[w].pc = "write" /\ task[w].seen = "SENT" => log[k] = "SENT"

\* One claim is free, all the others are excused; as long as the free one is
\* out, the row will say so.
Account(k) ==
    /\ Claims(k) <= 1 + Excuses(k)
    /\ Claims(k) > Excuses(k) => WillSay(k)

AccountInv == \A k \in Keys : Account(k)

LEMMA CountsAreNumbers ==
    ASSUME TypeInv, NEW k \in Keys
    PROVE  /\ IsFiniteSet(Senders(k))
           /\ Cardinality(Senders(k)) \in Nat
           /\ Excuses(k) \in Nat
           /\ Claims(k) \in Nat
<1>1. IsFiniteSet(Senders(k))
  <2>1. Senders(k) \subseteq Workers
    BY DEF Senders
  <2>2. QED
    BY <2>1, FS_Subset
<1>2. Cardinality(Senders(k)) \in Nat
  BY <1>1, FS_CardinalityType
<1>3. QED
  BY <1>1, <1>2 DEF TypeInv, TypeOK, Excuses, Claims

\* What a thread that stops or starts sending does to the count.
LEMMA OneSenderLess ==
    ASSUME TypeInv, NEW w \in Workers, NEW k \in Keys, w \in Senders(k),
           Senders(k)' = Senders(k) \ {w}
    PROVE  /\ Cardinality(Senders(k)) >= 1
           /\ Cardinality(Senders(k)') = Cardinality(Senders(k)) - 1
<1>1. IsFiniteSet(Senders(k)) /\ Cardinality(Senders(k)) \in Nat
  BY CountsAreNumbers
<1>2. Cardinality(Senders(k) \ {w}) = Cardinality(Senders(k)) - 1
  BY <1>1, FS_RemoveElement
<1>3. Cardinality(Senders(k) \ {w}) \in Nat
  BY <1>1, FS_RemoveElement, FS_CardinalityType
<1>4. QED
  BY <1>1, <1>2, <1>3

LEMMA OneSenderMore ==
    ASSUME TypeInv, NEW w \in Workers, NEW k \in Keys, w \notin Senders(k),
           Senders(k)' = Senders(k) \union {w}
    PROVE  Cardinality(Senders(k)') = Cardinality(Senders(k)) + 1
BY CountsAreNumbers, FS_AddElement

\* Thread w touches no other key: their accounts stay.
LEMMA OtherAccounts ==
    ASSUME TypeInv, AccountInv, NEW w \in Workers, NEW t, Become(w, t),
           NEW k \in Keys, ~ Busy(w, k), ~ (t # Idle /\ t.key = k), t.pc # "idle" => t # Idle,
           log'[k] = log[k], delivered'[k] = delivered[k],
           Excuses(k)' = Excuses(k)
    PROVE  Account(k)'
<1>1. \A v \in Workers : v # w => task'[v] = task[v]
  BY DEF Become
<1>2. task'[w] = t
  BY DEF Become, TypeInv, TypeOK
<1>3. task[w].pc # "idle" => task[w] # Idle
  BY DEF Idle
<1>4. Senders(k)' = Senders(k) /\ Recorders(k)' = Recorders(k)
  <2>1. w \notin Senders(k) /\ w \notin Recorders(k)
    BY <1>3 DEF Senders, Recorders, Busy
  <2>2. w \notin Senders(k)' /\ w \notin Recorders(k)'
    BY <1>2 DEF Senders, Recorders
  <2>3. QED
    BY <1>1, <2>1, <2>2 DEF Senders, Recorders
<1>5. Claims(k)' = Claims(k)
  BY <1>4 DEF Claims
<1>6. WillSay(k) => WillSay(k)'
  <2>1. \A v \in Recorders(k) : v # w
    BY <1>3 DEF Recorders, Busy
  <2>2. \A v \in Workers : Busy(v, k) => Busy(v, k)'
    BY <1>1 DEF Busy
  <2>3. QED
    BY <1>1, <1>4, <2>1, <2>2 DEF WillSay, Recorders
<1>7. QED
  BY <1>5, <1>6 DEF AccountInv, Account

\* A thread that stops sending k gives its claim back, lost answer or not.
LEMMA ClaimGivenBack ==
    ASSUME TypeInv, AccountInv, NEW w \in Workers, NEW k \in Keys, w \in Senders(k),
           NEW t, Become(w, t), t.pc # "send", NEW d \in {0, 1},
           delivered'[k] = delivered[k] + d, Excuses(k)' = Excuses(k) + d
    PROVE  Account(k)'
<1>1. Senders(k)' = Senders(k) \ {w}
  BY DEF Become, Senders, TypeInv, TypeOK
<1>2. Cardinality(Senders(k)') = Cardinality(Senders(k)) - 1
  BY <1>1, OneSenderLess
<1>3. /\ Cardinality(Senders(k)) \in Nat /\ Excuses(k) \in Nat
      /\ delivered[k] \in Nat
  BY CountsAreNumbers DEF TypeInv, TypeOK
<1>4. Claims(k) <= 1 + Excuses(k)
  BY DEF AccountInv, Account
<1>5. Claims(k)' = delivered[k] + d + Cardinality(Senders(k)) - 1
  BY <1>2, <1>3 DEF Claims
<1>6. Claims(k)' <= Excuses(k)'
  BY <1>3, <1>4, <1>5 DEF Claims
<1>7. Claims(k)' \in Int /\ Excuses(k)' \in Int
  BY <1>3, <1>5
<1>8. QED
  BY <1>6, <1>7 DEF Account

\* A step of w that leaves it sending k, or recording k.
LEMMA SameSenders ==
    ASSUME TypeInv, NEW w \in Workers, NEW k \in Keys, NEW t, Become(w, t),
           (w \in Senders(k)) <=> (t.pc = "send" /\ t.key = k)
    PROVE  Senders(k)' = Senders(k)
BY DEF Become, Senders, TypeInv, TypeOK

LEMMA AccountStep == TypeInv /\ AccountInv /\ [Next]_vars => AccountInv'
<1> SUFFICES ASSUME TypeInv, AccountInv, [Next]_vars PROVE AccountInv'
  OBVIOUS
<1>1. \A k \in Keys : /\ Excuses(k) \in Nat /\ Claims(k) \in Nat
                      /\ Cardinality(Senders(k)) \in Nat /\ delivered[k] \in Nat
                      /\ lost[k] \in Nat /\ unrecorded[k] \in Nat /\ rivals[k] \in Nat
  BY CountsAreNumbers DEF TypeInv, TypeOK
<1>2. crashes \in Nat /\ task \in [Workers -> Tasks]
  BY DEF TypeInv, TypeOK
<1>3. ASSUME NEW w \in Workers, NEW j \in Keys, StartSend(w, j), NEW k \in Keys
      PROVE  Account(k)'
  <2>1. /\ task[w] = Idle /\ Become(w, Sending(j, 0)) /\ log[j] # "SENT"
        /\ UNCHANGED <<log, crashes, delivered, lost, unrecorded>>
    BY <1>3 DEF StartSend, Begin, AlreadyNotified
  <2>2. /\ Sending(j, 0).pc = "send" /\ Sending(j, 0).key = j /\ Sending(j, 0) # Idle
        /\ Idle.pc = "idle"
    BY DEF Sending, Idle
  <2>3. CASE k # j
    <3>1. Excuses(k)' = Excuses(k)
      BY <1>3, <2>1, <2>3 DEF StartSend, Excuses, TypeInv, TypeOK
    <3>2. QED
      BY <2>1, <2>2, <2>3, <3>1, OtherAccounts DEF Busy
  <2>4. CASE k = j
    <3>1. w \notin Senders(k) /\ Senders(k)' = Senders(k) \union {w}
      BY <1>2, <2>1, <2>2, <2>4 DEF Senders, Become
    <3>2. Claims(k)' = Claims(k) + 1
      <4>1. Cardinality(Senders(k)') = Cardinality(Senders(k)) + 1
        BY <3>1, OneSenderMore
      <4>2. QED
        BY <1>1, <2>1, <4>1 DEF Claims
    <3>3. Busy(w, k)' /\ Recorders(k)' = Recorders(k)
      BY <1>2, <2>1, <2>2, <2>4 DEF Busy, Recorders, Become
    <3>4. \A v \in Recorders(k) : task'[v] = task[v] /\ Busy(v, k)
      BY <2>1, <2>2 DEF Recorders, Become, Busy, Idle
    <3>5. CASE \E v \in Workers : Busy(v, k)
      <4>1. Excuses(k)' = Excuses(k) + 1
        BY <1>1, <1>2, <1>3, <2>1, <2>4, <3>5 DEF StartSend, Excuses, TypeInv, TypeOK
      <4>2. WillSay(k) => WillSay(k)'
        BY <2>1, <3>3, <3>4 DEF WillSay
      <4>3. QED
        BY <1>1, <3>2, <4>1, <4>2 DEF Account, AccountInv
    <3>6. CASE ~ \E v \in Workers : Busy(v, k)
      <4>1. Excuses(k)' = Excuses(k)
        BY <1>3, <2>1, <2>4, <3>6 DEF StartSend, Excuses
      <4>2. ~ WillSay(k)
        BY <2>1, <2>4, <3>6 DEF WillSay
      <4>3. Recorders(k)' = {}
        BY <3>3, <3>4, <3>6 DEF Recorders
      <4>4. WillSay(k)'
        BY <3>3, <4>3 DEF WillSay
      <4>5. Claims(k) <= Excuses(k)
        BY <1>1, <4>2 DEF Account, AccountInv
      <4>6. QED
        BY <1>1, <3>2, <4>1, <4>4, <4>5 DEF Account
    <3>7. QED
      BY <3>5, <3>6
  <2>5. QED
    BY <2>3, <2>4
\* A step of w on its key changes nothing for the others.
<1>4. ASSUME NEW w \in Workers, task[w] # Idle, NEW t, Become(w, t),
             t = Idle \/ (t.pc # "idle" /\ t.key = task[w].key), NEW k \in Keys, k # task[w].key,
             log'[k] = log[k], delivered'[k] = delivered[k],
             Excuses(k)' = Excuses(k)
      PROVE  Account(k)'
  <2>1. ~ Busy(w, k) /\ ~ (t # Idle /\ t.key = k) /\ (t.pc # "idle" => t # Idle)
    BY <1>4 DEF Busy, Idle
  <2>2. QED
    BY <1>4, <2>1, OtherAccounts
<1>5. ASSUME NEW w \in Workers, CallAccepted(w), NEW k \in Keys
      PROVE  Account(k)'
  <2> DEFINE t == Recording("read", task[w].key, "SENT", "none")
  <2>1. /\ task[w].pc = "send" /\ task[w] # Idle /\ task[w].key \in Keys
        /\ Become(w, t) /\ delivered' = [delivered EXCEPT ![task[w].key] = @ + 1]
        /\ UNCHANGED <<log, crashes, lost, unrecorded, rivals>>
    BY <1>2, <1>5, TaskFields DEF CallAccepted, Deliver, Idle
  <2>2. t.pc = "read" /\ t.key = task[w].key /\ t.result = "SENT" /\ t # Idle
    BY DEF Recording, Idle
  <2>3. Excuses(k)' = Excuses(k)
    BY <2>1 DEF Excuses
  <2> HIDE DEF t
  <2>4. CASE k # task[w].key
    BY <1>4, <2>1, <2>2, <2>3, <2>4 DEF TypeInv, TypeOK
  <2>5. CASE k = task[w].key
    <3>1. w \in Senders(k) /\ Senders(k)' = Senders(k) \ {w}
      BY <1>2, <2>1, <2>2, <2>5 DEF Senders, Become
    <3>2. Cardinality(Senders(k)') = Cardinality(Senders(k)) - 1
      BY <3>1, OneSenderLess
    <3>3. delivered'[k] = delivered[k] + 1
      BY <2>1, <2>5 DEF TypeInv, TypeOK
    <3>4. Claims(k)' = Claims(k)
      BY <1>1, <3>2, <3>3 DEF Claims
    <3>5. task'[w] = t /\ \A v \in Workers : v # w => task'[v] = task[v]
      BY <1>2, <2>1 DEF Become
    <3>6. Busy(w, k)'
      BY <2>2, <2>5, <3>5 DEF Busy
    <3>7. Recorders(k)' = Recorders(k) \union {w}
      BY <2>2, <2>5, <3>5 DEF Recorders
    <3>8. WillSay(k) => WillSay(k)'
      BY <2>1, <2>2, <3>5, <3>6, <3>7 DEF WillSay, Recorders
    <3>9. QED
      BY <2>3, <3>4, <3>8 DEF Account, AccountInv
  <2>6. QED
    BY <2>4, <2>5
<1>6. ASSUME NEW w \in Workers, NEW o \in Outcomes, CallFailed(w, o), NEW k \in Keys
      PROVE  Account(k)'
  <2> DEFINE t == AfterFailure(task[w], o)
             d == IF o = "lost" THEN 1 ELSE 0
  <2>1. /\ task[w].pc = "send" /\ task[w] # Idle /\ task[w].key \in Keys
        /\ Become(w, t) /\ UNCHANGED <<log, crashes, unrecorded, rivals>>
    BY <1>2, <1>6, TaskFields DEF CallFailed, Idle
  <2>2. \/ t = Idle
        \/ t.pc = "read" /\ t.key = task[w].key /\ t # Idle
        \/ t.pc = "send" /\ t.key = task[w].key /\ t # Idle
    BY DEF AfterFailure, Sending, Recording, Idle
  <2>3. d \in {0, 1}
    OBVIOUS
  <2>4. k = task[w].key => delivered'[k] = delivered[k] + d /\ Excuses(k)' = Excuses(k) + d
    BY <1>1, <1>2, <1>6, <2>1 DEF CallFailed, Deliver, Excuses, TypeInv, TypeOK
  <2>5. k # task[w].key => delivered'[k] = delivered[k] /\ Excuses(k)' = Excuses(k)
    BY <1>6, <2>1 DEF CallFailed, Deliver, Excuses, TypeInv, TypeOK
  <2> HIDE DEF t, d
  <2>6. CASE k # task[w].key
    BY <1>4, <2>1, <2>2, <2>5, <2>6
  <2>7. CASE k = task[w].key /\ t.pc # "send"
    <3>1. w \in Senders(k)
      BY <2>1, <2>7 DEF Senders
    <3>2. QED
      BY <2>1, <2>3, <2>4, <2>7, <3>1, ClaimGivenBack
  <2>8. CASE k = task[w].key /\ t.pc = "send"
    <3>1. t.key = k /\ t # Idle
      BY <2>2, <2>8 DEF Idle
    <3>2. w \in Senders(k)
      BY <2>1, <2>8 DEF Senders
    <3>3. Senders(k)' = Senders(k)
      BY <2>1, <2>8, <3>1, <3>2, SameSenders
    <3>4. Claims(k)' = Claims(k) + d
      BY <1>1, <2>3, <2>4, <2>8, <3>3 DEF Claims
    <3>5. task'[w] = t /\ \A v \in Workers : v # w => task'[v] = task[v]
      BY <1>2, <2>1 DEF Become
    <3>6. Busy(w, k)'
      BY <3>1, <3>5 DEF Busy
    <3>7. Recorders(k)' = Recorders(k) /\ w \notin Recorders(k)
      BY <2>1, <2>8, <3>5 DEF Recorders
    <3>8. WillSay(k) => WillSay(k)'
      BY <2>1, <3>5, <3>6, <3>7 DEF WillSay, Recorders
    <3>9. QED
      BY <1>1, <2>3, <2>4, <2>8, <3>4, <3>8 DEF Account, AccountInv
  <2>9. QED
    BY <2>6, <2>7, <2>8
<1>7. ASSUME NEW w \in Workers, CallRefused(w), NEW k \in Keys
      PROVE  Account(k)'
  <2> DEFINE t == Recording("read", task[w].key, "SKIPPED", "none")
  <2>1. /\ task[w].pc = "send" /\ task[w] # Idle /\ Become(w, t)
        /\ UNCHANGED <<log, crashes, delivered, lost, unrecorded, rivals>>
    BY <1>7 DEF CallRefused, history, Idle
  <2>2. t.pc = "read" /\ t.key = task[w].key
    BY DEF Recording
  <2>3. Excuses(k)' = Excuses(k) /\ delivered'[k] = delivered[k]
    BY <2>1 DEF Excuses
  <2> HIDE DEF t
  <2>4. CASE k # task[w].key
    BY <1>4, <2>1, <2>2, <2>3, <2>4
  <2>5. CASE k = task[w].key
    <3>1. w \in Senders(k)
      BY <2>1, <2>5 DEF Senders
    <3>2. delivered'[k] = delivered[k] + 0 /\ Excuses(k)' = Excuses(k) + 0
      BY <1>1, <2>3
    <3>3. QED
      BY <2>1, <2>2, <3>1, <3>2, ClaimGivenBack
  <2>6. QED
    BY <2>4, <2>5
<1>8. ASSUME NEW w \in Workers, RecordRead(w), NEW k \in Keys
      PROVE  Account(k)'
  <2> DEFINE t == Recording("write", task[w].key, task[w].result, log[task[w].key])
  <2>1. /\ task[w].pc = "read" /\ task[w] # Idle /\ Become(w, t)
        /\ UNCHANGED <<log, crashes, delivered, lost, unrecorded, rivals>>
    BY <1>8 DEF RecordRead, history, Idle
  <2>2. /\ t.pc = "write" /\ t.key = task[w].key /\ t # Idle
        /\ t.result = task[w].result /\ t.seen = log[task[w].key]
    BY DEF Recording, Idle
  <2>3. Excuses(k)' = Excuses(k) /\ delivered'[k] = delivered[k]
    BY <2>1 DEF Excuses
  <2> HIDE DEF t
  <2>4. CASE k # task[w].key
    BY <1>4, <2>1, <2>2, <2>3, <2>4
  <2>5. CASE k = task[w].key
    <3>1. w \notin Senders(k) /\ t.pc # "send"
      BY <2>1, <2>2 DEF Senders
    <3>2. Claims(k)' = Claims(k)
      BY <2>1, <2>3, <3>1, SameSenders DEF Claims
    <3>3. task'[w] = t /\ \A v \in Workers : v # w => task'[v] = task[v]
      BY <1>2, <2>1 DEF Become
    <3>4. Recorders(k)' = Recorders(k) /\ w \in Recorders(k)
      BY <2>1, <2>2, <2>5, <3>3 DEF Recorders
    <3>5. Busy(w, k)'
      BY <2>2, <2>5, <3>3 DEF Busy
    <3>6. WillSay(k) => WillSay(k)'
      BY <2>1, <2>2, <2>5, <3>3, <3>4, <3>5 DEF WillSay, Recorders
    <3>7. QED
      BY <2>3, <3>2, <3>6 DEF Account, AccountInv
  <2>6. QED
    BY <2>4, <2>5
<1>9. ASSUME NEW w \in Workers, RecordWrite(w), NEW k \in Keys
      PROVE  Account(k)'
  <2>1. /\ task[w].pc = "write" /\ task[w] # Idle /\ task[w].key \in Keys
        /\ Become(w, Idle) /\ log' = [log EXCEPT ![task[w].key] = Written(task[w])]
        /\ UNCHANGED <<crashes, delivered, lost, unrecorded, rivals>>
    BY <1>2, <1>9, TaskFields DEF RecordWrite, history, Idle
  <2>2. Excuses(k)' = Excuses(k) /\ delivered'[k] = delivered[k]
    BY <2>1 DEF Excuses
  <2>3. CASE k # task[w].key
    <3>1. log'[k] = log[k]
      BY <2>1, <2>3 DEF TypeInv, TypeOK
    <3>2. QED
      BY <1>4, <2>1, <2>2, <2>3, <3>1
  <2>4. CASE k = task[w].key
    <3>1. w \notin Senders(k) /\ Idle.pc # "send"
      BY <2>1 DEF Senders, Idle
    <3>2. Claims(k)' = Claims(k)
      BY <2>1, <2>2, <3>1, SameSenders DEF Claims
    <3>3. task'[w] = Idle /\ \A v \in Workers : v # w => task'[v] = task[v]
      BY <1>2, <2>1 DEF Become
    <3>4. w \in Recorders(k)
      BY <2>1, <2>4 DEF Recorders
    <3>5. Recorders(k)' = Recorders(k) \ {w}
      BY <3>3 DEF Recorders, Idle
    <3>6. WillSay(k) => log'[k] = "SENT"
      <4>1. SUFFICES ASSUME WillSay(k) PROVE Written(task[w]) = "SENT"
        BY <2>1, <2>4 DEF TypeInv, TypeOK
      <4>2. QED
        BY <2>1, <2>4, <3>4, <4>1 DEF WillSay, Written
    <3>7. WillSay(k) => WillSay(k)'
      BY <3>3, <3>5, <3>6 DEF WillSay, Recorders
    <3>8. QED
      BY <2>2, <3>2, <3>7 DEF Account, AccountInv
  <2>5. QED
    BY <2>3, <2>4
<1>10. ASSUME NEW w \in Workers, RecordRefused(w), NEW k \in Keys
       PROVE  Account(k)'
  <2>1. /\ task[w].pc \in {"read", "write"} /\ task[w] # Idle /\ task[w].key \in Keys
        /\ Become(w, Idle) /\ UNCHANGED <<log, crashes, delivered, lost, rivals>>
    BY <1>2, <1>10, TaskFields DEF RecordRefused, Idle
  <2>2. CASE k # task[w].key
    <3>1. Excuses(k)' = Excuses(k)
      BY <1>10, <2>1, <2>2 DEF RecordRefused, Excuses, TypeInv, TypeOK
    <3>2. QED
      BY <1>4, <2>1, <2>2, <3>1
  <2>3. CASE k = task[w].key
    <3>1. w \notin Senders(k) /\ Idle.pc # "send" /\ w \in Recorders(k)
      BY <2>1, <2>3 DEF Senders, Recorders, Idle
    <3>2. Claims(k)' = Claims(k)
      BY <2>1, <3>1, SameSenders DEF Claims
    <3>3. CASE task[w].result = "SENT"
      <4>1. Excuses(k)' = Excuses(k) + 1
        BY <1>1, <1>2, <1>10, <2>1, <2>3, <3>3 DEF RecordRefused, Excuses, TypeInv, TypeOK
      <4>2. QED
        BY <1>1, <3>2, <4>1 DEF Account, AccountInv
    <3>4. CASE task[w].result # "SENT"
      <4>1. Excuses(k)' = Excuses(k)
        BY <1>10, <2>1, <3>4 DEF RecordRefused, Excuses
      <4>2. ~ WillSay(k)
        BY <3>1, <3>4 DEF WillSay
      <4>3. QED
        BY <1>1, <3>2, <4>1, <4>2 DEF Account, AccountInv
    <3>5. QED
      BY <3>3, <3>4
  <2>4. QED
    BY <2>2, <2>3
<1>11. ASSUME Crash, NEW k \in Keys
       PROVE  Account(k)'
  <2>1. /\ crashes' = crashes + 1 /\ task' = [w \in Workers |-> Idle]
        /\ UNCHANGED <<delivered, lost, unrecorded, rivals>>
    BY <1>11 DEF Crash
  <2>2. Senders(k)' = {}
    BY <2>1 DEF Senders, Idle
  <2>3. Claims(k)' = delivered[k]
    BY <1>1, <2>1, <2>2, FS_EmptySet DEF Claims
  <2>4. Excuses(k)' = Excuses(k) + 1
    BY <1>1, <1>2, <2>1 DEF Excuses
  <2>5. QED
    BY <1>1, <2>3, <2>4 DEF Account, AccountInv, Claims
<1>12. ASSUME UNCHANGED <<log, task, crashes, delivered, lost, unrecorded, rivals>>,
              NEW k \in Keys
       PROVE  Account(k)'
  <2>1. /\ Senders(k)' = Senders(k) /\ Recorders(k)' = Recorders(k)
        /\ Excuses(k)' = Excuses(k) /\ \A w \in Workers : Busy(w, k)' <=> Busy(w, k)
    BY <1>12 DEF Senders, Recorders, Excuses, Busy
  <2>2. Claims(k)' = Claims(k) /\ (WillSay(k) => WillSay(k)')
    BY <1>12, <2>1 DEF Claims, WillSay
  <2>3. QED
    BY <2>1, <2>2 DEF Account, AccountInv
<1>13. CASE UNCHANGED <<log, task, crashes, delivered, lost, unrecorded, rivals>>
  BY <1>12, <1>13 DEF AccountInv
<1>14. QED
  BY <1>3, <1>5, <1>6, <1>7, <1>8, <1>9, <1>10, <1>11, <1>13
  DEF Next, Step, SkipDuplicate, Begin, BreakerTimeout, AccountInv, history, vars

LEMMA AccountInit == Init => AccountInv
<1> SUFFICES ASSUME Init, NEW k \in Keys PROVE Account(k)
  BY DEF AccountInv
<1>1. Senders(k) = {} /\ delivered[k] = 0
  BY DEF Init, Senders, Idle
<1>2. Excuses(k) = 0
  BY DEF Init, Excuses
<1>3. Cardinality({}) = 0
  BY FS_EmptySet
<1>4. QED
  BY <1>1, <1>2, <1>3 DEF Account, Claims

LEMMA AccountInvariant == Spec => []AccountInv
BY AccountInit, AccountStep, TypeInvariant, PTL DEF Spec

LEMMA AccountFacts == TypeInv /\ AccountInv => EmailsAccountedFor
<1> SUFFICES ASSUME TypeInv, AccountInv, NEW k \in Keys
             PROVE  delivered[k] <= 1 + Excuses(k)
  BY DEF EmailsAccountedFor
<1>1. /\ Cardinality(Senders(k)) \in Nat /\ Excuses(k) \in Nat
      /\ delivered[k] \in Nat
  BY CountsAreNumbers DEF TypeInv, TypeOK
<1>2. QED
  BY <1>1 DEF AccountInv, Account, Claims

\* Every mail beyond the first one is paid for by a crash, by a lost answer or
\* record, or by two dispatches of the key at the same time.
THEOREM MailsAreAccountedFor == Spec => []EmailsAccountedFor
BY AccountFacts, AccountInvariant, TypeInvariant, PTL

----------------------------------------------------------------------------
\* For the keys nobody else dispatches the service implements its promise.

\* A thread works on its keys; what it saw of the row of a private one still
\* holds when it writes, and that row does not say SENT while it works.
OwnInv ==
    \A w \in Workers :
        /\ task[w] # Idle => task[w].key \in Produces[w]
        /\ task[w].pc = "write" /\ Private(task[w].key)
           => task[w].seen = log[task[w].key]
        /\ task[w] # Idle /\ Private(task[w].key) => log[task[w].key] # "SENT"

\* Private keys have no rivals.
AloneInv == \A k \in PrivateKeys : rivals[k] = 0

\* Only the owner of a private key is ever in a dispatch of it.
LEMMA OneOwner ==
    ASSUME OwnInv, NEW v \in Workers, NEW w \in Workers, Private(task[w].key),
           task[v] # Idle, task[w] # Idle, task[v].key = task[w].key
    PROVE  v = w
BY DEF Private, OwnInv

LEMMA OwnStep == TypeInv /\ OwnInv /\ [Next]_vars => OwnInv'
<1> SUFFICES ASSUME TypeInv, OwnInv, [Next]_vars PROVE OwnInv'
  OBVIOUS
<1> USE DEF TypeInv, TypeOK, OwnInv
<1>1. ASSUME NEW w \in Workers, NEW k \in Keys, StartSend(w, k)
      PROVE  OwnInv'
  BY <1>1 DEF StartSend, Begin, Become, Sending, AlreadyNotified, history
<1>2. ASSUME NEW w \in Workers, task[w] # Idle, log' = log,
             NEW t, t = Idle \/ (t.key = task[w].key /\ t.pc # "write"),
             Become(w, t)
      PROVE  OwnInv'
  BY <1>2 DEF Become, Idle
<1>3. ASSUME NEW w \in Workers, CallAccepted(w)
      PROVE  OwnInv'
  BY <1>2, <1>3 DEF CallAccepted, Recording, Idle
<1>4. ASSUME NEW w \in Workers, NEW o \in Outcomes, CallFailed(w, o)
      PROVE  OwnInv'
  <2> DEFINE t == AfterFailure(task[w], o)
  <2>1. t = Idle \/ (t.key = task[w].key /\ t.pc # "write")
    BY DEF AfterFailure, Sending, Recording
  <2>2. task[w] # Idle /\ log' = log /\ Become(w, t)
    BY <1>4 DEF CallFailed, Idle
  <2> HIDE DEF t
  <2>3. QED
    BY <2>1, <2>2, <1>2
<1>5. ASSUME NEW w \in Workers, CallRefused(w)
      PROVE  OwnInv'
  BY <1>2, <1>5 DEF CallRefused, Recording, Idle
<1>6. ASSUME NEW w \in Workers, RecordRead(w)
      PROVE  OwnInv'
  BY <1>6 DEF RecordRead, Become, Recording, Idle, history
<1>7. ASSUME NEW w \in Workers, RecordWrite(w)
      PROVE  OwnInv'
  <2>1. task[w] # Idle /\ task[w].key \in Keys
    BY <1>7, TaskFields DEF RecordWrite, Idle
  <2>2. \A v \in Workers : v # w /\ task[v] # Idle /\ Private(task[v].key)
                            => task[v].key # task[w].key
    BY <2>1, OneOwner
  <2>3. \A v \in Workers : task[v] # Idle => task[v].key \in Keys
    BY TaskFields
  <2>4. /\ task'[w] = Idle
        /\ \A v \in Workers : v # w => task'[v] = task[v]
    BY <1>7 DEF RecordWrite, Become
  <2>5. \A k \in Keys : k # task[w].key => log'[k] = log[k]
    BY <1>7 DEF RecordWrite
  <2>6. Idle.pc # "write"
    BY DEF Idle
  <2>7. ASSUME NEW v \in Workers, v # w
        PROVE  /\ task'[v] # Idle => task'[v].key \in Produces[v]
               /\ task'[v].pc = "write" /\ Private(task'[v].key)
                  => task'[v].seen = log'[task'[v].key]
               /\ task'[v] # Idle /\ Private(task'[v].key)
                  => log'[task'[v].key] # "SENT"
    BY <2>2, <2>3, <2>4, <2>5, <2>6, <2>7
  <2>8. QED
    BY <2>4, <2>6, <2>7
<1>8. CASE Crash
  BY <1>8 DEF Crash, Idle
<1>9. CASE UNCHANGED <<log, task>>
  BY <1>9
<1>10. ASSUME NEW w \in Workers, RecordRefused(w)
       PROVE  OwnInv'
  BY <1>2, <1>10 DEF RecordRefused, Idle
<1>11. QED
  BY <1>1, <1>3, <1>4, <1>5, <1>6, <1>7, <1>8, <1>9, <1>10
  DEF Next, Step, SkipDuplicate, Begin, BreakerTimeout, history, vars


LEMMA AloneStep == TypeInv /\ OwnInv /\ AloneInv /\ [Next]_vars => AloneInv'
<1> SUFFICES ASSUME TypeInv, OwnInv, AloneInv, [Next]_vars PROVE AloneInv'
  OBVIOUS
<1>1. ASSUME NEW w \in Workers, NEW j \in Keys, StartSend(w, j)
      PROVE  AloneInv'
  <2>1. task[w] = Idle /\ j \in Produces[w]
    BY <1>1 DEF StartSend, Begin
  <2>2. ASSUME Private(j), NEW v \in Workers, Busy(v, j) PROVE FALSE
    <3>1. v # w /\ j \in Produces[v]
      BY <2>1, <2>2 DEF Busy, OwnInv
    <3>2. QED
      BY <2>1, <2>2, <3>1 DEF Private
  <2>3. \A k \in PrivateKeys : rivals'[k] = rivals[k]
    BY <1>1, <2>2 DEF StartSend, PrivateKeys, TypeInv, TypeOK
  <2>4. QED
    BY <2>3 DEF AloneInv
<1>2. CASE UNCHANGED rivals
  BY <1>2 DEF AloneInv
<1>3. QED
  BY <1>1, <1>2
  DEF Next, Step, SkipDuplicate, CallAccepted, CallFailed, CallRefused, RecordRead,
      RecordWrite, RecordRefused, BreakerTimeout, Crash, history, vars

RefineInv == TypeInv /\ SentInv /\ AccountInv /\ OwnInv /\ AloneInv

LEMMA RefineInvariant == Spec => []RefineInv
<1>1. Init => OwnInv /\ AloneInv
  BY DEF Init, OwnInv, AloneInv, PrivateKeys, Idle
<1>2. TypeInv /\ (OwnInv /\ AloneInv) /\ [Next]_vars => (OwnInv /\ AloneInv)'
  BY OwnStep, AloneStep
<1>3. QED
  BY <1>1, <1>2, TypeInvariant, SentInvariant, AccountInvariant, PTL
  DEF RefineInv, Spec

mails == [k \in PrivateKeys |-> delivered[k]]
recorded == {k \in PrivateKeys : log[k] = "SENT"}
faults == [k \in PrivateKeys |-> crashes + lost[k] + unrecorded[k]]

\* A thread that is sending a private key has a mail to its credit.
LEMMA OwnersMaySend ==
    ASSUME RefineInv, NEW w \in Workers, task[w].pc = "send",
           task[w].key \in PrivateKeys
    PROVE  /\ delivered[task[w].key] <= crashes + lost[task[w].key] + unrecorded[task[w].key]
           /\ log[task[w].key] # "SENT"
<1> DEFINE k == task[w].key
<1>1. k \in Keys /\ Private(k) /\ task[w] # Idle
  BY DEF PrivateKeys, Idle
<1>2. log[k] # "SENT"
  BY <1>1 DEF RefineInv, OwnInv
<1>3. w \in Senders(k)
  BY DEF Senders
<1>4. IsFiniteSet(Senders(k)) /\ Cardinality(Senders(k)) \in Nat
  BY <1>1, CountsAreNumbers DEF RefineInv
<1>5. Cardinality(Senders(k)) # 0
  BY <1>3, <1>4, FS_EmptySet
<1>6. rivals[k] = 0
  BY DEF RefineInv, AloneInv
<1>7. /\ crashes \in Nat /\ delivered[k] \in Nat /\ lost[k] \in Nat
      /\ unrecorded[k] \in Nat
  BY <1>1 DEF RefineInv, TypeInv, TypeOK
<1>8. delivered[k] + Cardinality(Senders(k)) <= 1 + Excuses(k)
  BY <1>1 DEF RefineInv, AccountInv, Account, Claims
<1> HIDE DEF k
<1>9. delivered[k] <= crashes + lost[k] + unrecorded[k]
  BY <1>4, <1>5, <1>6, <1>7, <1>8 DEF Excuses
<1>10. QED
  BY <1>2, <1>9 DEF k

LEMMA RefineStep ==
    ASSUME RefineInv, [Next]_vars
    PROVE  [Promise!Next]_<<mails, recorded, faults>>
<1> USE DEF RefineInv, TypeInv, TypeOK
<1>1. /\ PrivateKeys \subseteq Keys /\ crashes \in Nat
      /\ \A k \in PrivateKeys : delivered[k] \in Nat /\ lost[k] \in Nat
                                /\ unrecorded[k] \in Nat
  BY DEF PrivateKeys
<1>2. ASSUME NEW w \in Workers, CallAccepted(w)
      PROVE  [Promise!Next]_<<mails, recorded, faults>>
  <2>1. PICK k \in Keys : k = task[w].key
    BY <1>2, TaskFields DEF CallAccepted
  <2>2. /\ delivered' = [delivered EXCEPT ![k] = @ + 1]
        /\ UNCHANGED <<log, crashes, lost, unrecorded>>
    BY <1>2, <2>1 DEF CallAccepted, Deliver
  <2>3. recorded' = recorded /\ faults' = faults
    BY <2>2 DEF recorded, faults
  <2>4. CASE k \notin PrivateKeys
    <3>1. mails' = mails
      BY <2>2, <2>4 DEF mails
    <3>2. QED
      BY <2>3, <3>1
  <2>5. CASE k \in PrivateKeys
    <3>1. mails' = [mails EXCEPT ![k] = @ + 1]
      BY <2>2, <2>5, <1>1 DEF mails
    <3>2. delivered[k] <= crashes + lost[k] + unrecorded[k] /\ log[k] # "SENT"
      BY <1>2, <2>1, <2>5, OwnersMaySend DEF CallAccepted
    <3>3. k \notin recorded /\ mails[k] <= faults[k]
      BY <2>5, <3>2 DEF recorded, mails, faults
    <3>4. Promise!Mail(k)
      BY <2>3, <3>1, <3>3 DEF Promise!Mail, mails, recorded, faults
    <3>5. QED
      BY <2>5, <3>4 DEF Promise!Next
  <2>6. QED
    BY <2>4, <2>5
<1>3. ASSUME NEW w \in Workers, NEW o \in Outcomes, CallFailed(w, o)
      PROVE  [Promise!Next]_<<mails, recorded, faults>>
  <2>1. PICK k \in Keys : k = task[w].key
    BY <1>3, TaskFields DEF CallFailed
  <2>2. UNCHANGED <<log, crashes, unrecorded>>
    BY <1>3 DEF CallFailed
  <2>3. recorded' = recorded
    BY <2>2 DEF recorded
  <2>4. CASE o # "lost" \/ k \notin PrivateKeys
    <3>1. \A i \in PrivateKeys : delivered'[i] = delivered[i] /\ lost'[i] = lost[i]
      BY <1>1, <1>3, <2>1, <2>4 DEF CallFailed, Deliver
    <3>2. mails' = mails /\ faults' = faults
      BY <2>2, <3>1 DEF mails, faults
    <3>3. QED
      BY <2>3, <3>2
  <2>5. CASE o = "lost" /\ k \in PrivateKeys
    <3>1. /\ delivered' = [delivered EXCEPT ![k] = @ + 1]
          /\ lost' = [lost EXCEPT ![k] = @ + 1]
      BY <1>3, <2>1, <2>5 DEF CallFailed, Deliver
    <3>2. mails' = [mails EXCEPT ![k] = @ + 1]
      BY <1>1, <2>5, <3>1 DEF mails
    <3>3. faults' = [faults EXCEPT ![k] = @ + 1]
      <4>1. \A i \in PrivateKeys :
                crashes' + lost'[i] + unrecorded'[i]
                = IF i = k THEN crashes + lost[i] + unrecorded[i] + 1
                  ELSE crashes + lost[i] + unrecorded[i]
        BY <1>1, <2>2, <3>1
      <4>2. QED
        BY <2>5, <4>1 DEF faults
    <3>4. delivered[k] <= crashes + lost[k] + unrecorded[k] /\ log[k] # "SENT"
      BY <1>3, <2>1, <2>5, OwnersMaySend DEF CallFailed
    <3>5. k \notin recorded /\ mails[k] <= faults[k]
      BY <2>5, <3>4 DEF recorded, mails, faults
    <3>6. Promise!Mail(k)
      BY <2>3, <3>2, <3>3, <3>5 DEF Promise!Mail, mails, recorded, faults
    <3>7. QED
      BY <2>5, <3>6 DEF Promise!Next
  <2>6. QED
    BY <2>4, <2>5
<1>4. ASSUME NEW w \in Workers, RecordWrite(w)
      PROVE  [Promise!Next]_<<mails, recorded, faults>>
  <2>1. PICK k \in Keys : k = task[w].key
    BY <1>4, TaskFields DEF RecordWrite
  <2>2. /\ task[w].pc = "write" /\ task[w] # Idle
        /\ log' = [log EXCEPT ![k] = Written(task[w])]
        /\ UNCHANGED <<crashes, delivered, lost, unrecorded>>
    BY <1>4, <2>1 DEF RecordWrite, history, Idle
  <2>3. mails' = mails /\ faults' = faults
    BY <2>2 DEF mails, faults
  <2>4. CASE k \notin PrivateKeys
    <3>1. recorded' = recorded
      BY <1>1, <2>2, <2>4 DEF recorded
    <3>2. QED
      BY <2>3, <3>1
  <2>5. CASE k \in PrivateKeys
    <3>1. task[w].seen = log[k] /\ log[k] # "SENT"
      BY <2>1, <2>2, <2>5 DEF OwnInv, PrivateKeys
    <3>2. Written(task[w]) = task[w].result
      BY <2>1, <3>1 DEF Written
    <3>3. CASE task[w].result = "SENT"
      <4>1. delivered[k] > 0
        BY <2>1, <2>2, <3>3 DEF SentInv
      <4>2. k \notin recorded /\ mails[k] > 0
        BY <2>5, <3>1, <4>1 DEF recorded, mails
      <4>3. recorded' = recorded \union {k}
        BY <1>1, <2>2, <2>5, <3>2, <3>3 DEF recorded
      <4>4. Promise!Record(k)
        BY <2>3, <4>2, <4>3 DEF Promise!Record, mails, recorded, faults
      <4>5. QED
        BY <2>5, <4>4 DEF Promise!Next
    <3>4. CASE task[w].result # "SENT"
      <4>1. recorded' = recorded
        BY <1>1, <2>2, <3>1, <3>2, <3>4 DEF recorded
      <4>2. QED
        BY <2>3, <4>1
    <3>5. QED
      BY <3>3, <3>4
  <2>6. QED
    BY <2>4, <2>5
<1>5. ASSUME NEW w \in Workers, RecordRefused(w)
      PROVE  [Promise!Next]_<<mails, recorded, faults>>
  <2>1. PICK k \in Keys : k = task[w].key
    BY <1>5, TaskFields DEF RecordRefused
  <2>2. UNCHANGED <<log, crashes, delivered, lost>>
    BY <1>5 DEF RecordRefused
  <2>3. mails' = mails /\ recorded' = recorded
    BY <2>2 DEF mails, recorded
  <2> DEFINE ks == IF task[w].result = "SENT" THEN {k} ELSE {}
  <2>4. \A i \in Keys :
            unrecorded'[i] = IF i \in ks THEN unrecorded[i] + 1 ELSE unrecorded[i]
    BY <1>5, <2>1 DEF RecordRefused
  <2>5. ks \in SUBSET Keys
    BY <2>1
  <2> HIDE DEF ks
  <2>6. PICK hit \in SUBSET PrivateKeys : hit = ks \intersect PrivateKeys
    OBVIOUS
  <2>7. \A i \in PrivateKeys :
            crashes' + lost'[i] + unrecorded'[i]
            = IF i \in hit THEN crashes + lost[i] + unrecorded[i] + 1
              ELSE crashes + lost[i] + unrecorded[i]
    BY <1>1, <2>2, <2>4, <2>5, <2>6
  <2>8. Promise!Fault(hit)
    BY <2>3, <2>7 DEF Promise!Fault, mails, recorded, faults
  <2>9. QED
    BY <2>8 DEF Promise!Next
<1>6. CASE Crash
  <2>1. crashes' = crashes + 1 /\ UNCHANGED <<log, delivered, lost, unrecorded>>
    BY <1>6 DEF Crash
  <2>2. mails' = mails /\ recorded' = recorded
    BY <2>1 DEF mails, recorded
  <2>3. \A i \in PrivateKeys : crashes' + lost'[i] + unrecorded'[i]
                               = crashes + lost[i] + unrecorded[i] + 1
    BY <1>1, <2>1
  <2>4. Promise!Fault(PrivateKeys)
    BY <2>2, <2>3 DEF Promise!Fault, mails, recorded, faults
  <2>5. QED
    BY <2>4 DEF Promise!Next
<1>7. CASE UNCHANGED <<log, crashes, delivered, lost, unrecorded>>
  BY <1>7 DEF mails, recorded, faults
<1>8. QED
  BY <1>2, <1>3, <1>4, <1>5, <1>6, <1>7
  DEF Next, Step, SkipDuplicate, StartSend, Begin, CallRefused, RecordRead,
      BreakerTimeout, history, vars

\* Whatever the other threads, the provider and the database do, the service is
\* an outbox for the keys one thread dispatches alone: what is recorded is
\* mailed no more and stays recorded, and every further mail has cost a fault.
THEOREM ImplementsOutbox == Spec => KeepsPromise
<1>1. Init => Promise!Init
  BY DEF Init, Promise!Init, PrivateKeys
<1>2. RefineInv /\ [Next]_vars => [Promise!Next]_<<mails, recorded, faults>>
  BY RefineStep
<1>3. QED
  BY <1>1, <1>2, RefineInvariant, PTL
  DEF Spec, KeepsPromise, Promise!Spec, mails, recorded, faults


----------------------------------------------------------------------------
\* A mail whose answer arrived leaves a row.

RowInv ==
    \A k \in Keys :
        (crashes = 0 /\ unrecorded[k] = 0 /\ delivered[k] > lost[k] /\ log[k] = "none")
        => \E w \in Workers : /\ task[w].pc \in {"read", "write"}
                              /\ task[w].key = k /\ task[w].result = "SENT"

SeenInv ==
    \A w \in Workers :
        (task[w].pc = "write" /\ task[w].seen # "none")
        => log[task[w].key] # "none"

LEMMA RowStep ==
    TypeInv /\ RowInv /\ SeenInv /\ [Next]_vars => RowInv' /\ SeenInv'
<1> SUFFICES ASSUME TypeInv, RowInv, SeenInv, [Next]_vars
             PROVE  RowInv' /\ SeenInv'
  OBVIOUS
<1> USE DEF TypeInv, TypeOK
<1> DEFINE OnRecord(k) == \E w \in Workers : /\ task[w].pc \in {"read", "write"}
                                             /\ task[w].key = k
                                             /\ task[w].result = "SENT"
<1>1. ASSUME NEW w \in Workers, NEW k \in Keys, StartSend(w, k)
      PROVE  RowInv' /\ SeenInv'
  BY <1>1 DEF StartSend, Begin, Become, Sending, Idle, history, RowInv, SeenInv
<1>2. ASSUME NEW w \in Workers, CallAccepted(w)
      PROVE  RowInv' /\ SeenInv'
  <2>1. PICK k \in Keys : k = task[w].key
    BY <1>2, TaskFields DEF CallAccepted
  <2>2. /\ task'[w] = Recording("read", k, "SENT", "none")
        /\ \A v \in Workers : v # w => task'[v] = task[v]
        /\ \A i \in Keys : i # k => delivered'[i] = delivered[i]
        /\ UNCHANGED <<log, crashes, lost, unrecorded>>
        /\ task[w].pc = "send"
    BY <1>2, <2>1 DEF CallAccepted, Become, Deliver
  <2>3. \A i \in Keys : OnRecord(i) \/ i = k => OnRecord(i)'
    BY <2>2 DEF Recording
  <2>4. RowInv'
    BY <2>2, <2>3 DEF RowInv
  <2>5. SeenInv'
    BY <2>2 DEF SeenInv, Recording
  <2>6. QED
    BY <2>4, <2>5
<1>3. ASSUME NEW w \in Workers, NEW o \in Outcomes, CallFailed(w, o)
      PROVE  RowInv' /\ SeenInv'
  <2>1. PICK k \in Keys : k = task[w].key
    BY <1>3, TaskFields DEF CallFailed
  <2>2. /\ task[w].pc = "send"
        /\ \A v \in Workers : v # w => task'[v] = task[v]
        /\ task'[w] = AfterFailure(task[w], o)
        /\ UNCHANGED <<log, crashes, unrecorded>>
    BY <1>3 DEF CallFailed, Become
  <2>3. \A i \in Keys : OnRecord(i) => OnRecord(i)'
    BY <2>2
  <2>4. \A i \in Keys : delivered'[i] > lost'[i] => delivered[i] > lost[i]
    BY <1>3, <2>1 DEF CallFailed, Deliver
  <2>5. RowInv'
    BY <2>2, <2>3, <2>4 DEF RowInv
  <2>6. task'[w].pc # "write"
    BY <2>2 DEF AfterFailure, Sending, Recording, Idle
  <2>7. SeenInv'
    BY <2>2, <2>6 DEF SeenInv
  <2>8. QED
    BY <2>5, <2>7
<1>4. ASSUME NEW w \in Workers, CallRefused(w)
      PROVE  RowInv' /\ SeenInv'
  BY <1>4 DEF CallRefused, Become, Recording, history, RowInv, SeenInv
<1>5. ASSUME NEW w \in Workers, RecordRead(w)
      PROVE  RowInv' /\ SeenInv'
  BY <1>5 DEF RecordRead, Become, Recording, history, RowInv, SeenInv
<1>6. ASSUME NEW w \in Workers, RecordWrite(w)
      PROVE  RowInv' /\ SeenInv'
  <2>1. PICK k \in Keys : k = task[w].key
    BY <1>6, TaskFields DEF RecordWrite
  <2>2. task[w].pc = "write" /\ task[w].result \in Statuses
    BY <1>6, TaskFields DEF RecordWrite
  <2>3. Written(task[w]) # "none"
    BY <2>1, <2>2 DEF Written, SeenInv, Statuses
  <2>4. /\ log' = [log EXCEPT ![k] = Written(task[w])]
        /\ task' = [task EXCEPT ![w] = Idle]
        /\ UNCHANGED <<crashes, delivered, lost, unrecorded>>
    BY <1>6, <2>1 DEF RecordWrite, Become, history
  <2>5. \A i \in Keys : log'[i] = "none" => log[i] = "none" /\ i # k
    BY <2>1, <2>3, <2>4
  <2>6. \A i \in Keys : OnRecord(i) /\ i # k => OnRecord(i)'
    BY <2>1, <2>4
  <2>7. RowInv'
    BY <2>4, <2>5, <2>6 DEF RowInv
  <2>8. ASSUME NEW v \in Workers, task'[v].pc = "write", task'[v].seen # "none"
        PROVE  log'[task'[v].key] # "none"
    <3>1. v # w /\ task'[v] = task[v]
      BY <2>4, <2>8 DEF Idle
    <3>2. task[v].key \in Keys
      BY <2>8, <3>1, TaskFields
    <3>3. QED
      BY <2>5, <2>8, <3>1, <3>2 DEF SeenInv
  <2>9. QED
    BY <2>7, <2>8 DEF SeenInv
<1>7. CASE Crash
  <2>1. crashes' # 0
    BY <1>7 DEF Crash
  <2>2. QED
    BY <1>7, <2>1 DEF Crash, Idle, RowInv, SeenInv
<1>8. CASE UNCHANGED <<log, task, crashes, delivered, lost, unrecorded>>
  BY <1>8 DEF RowInv, SeenInv
<1>9. ASSUME NEW w \in Workers, RecordRefused(w)
      PROVE  RowInv' /\ SeenInv'
  <2>1. PICK k \in Keys : k = task[w].key
    BY <1>9, TaskFields DEF RecordRefused
  <2>2. /\ task' = [task EXCEPT ![w] = Idle]
        /\ UNCHANGED <<log, crashes, delivered, lost>>
    BY <1>9 DEF RecordRefused, Become
  <2>3. \A i \in Keys : unrecorded'[i] = 0
                        => unrecorded[i] = 0 /\ ~ (task[w].key = i /\ task[w].result = "SENT")
    BY <1>9, <2>1 DEF RecordRefused
  <2>4. \A i \in Keys : OnRecord(i) /\ unrecorded'[i] = 0 => OnRecord(i)'
    BY <2>2, <2>3
  <2>5. RowInv'
    BY <2>2, <2>3, <2>4 DEF RowInv
  <2>6. SeenInv'
    BY <2>2 DEF SeenInv, Idle
  <2>7. QED
    BY <2>5, <2>6
<1>10. QED
  BY <1>1, <1>2, <1>3, <1>4, <1>5, <1>6, <1>7, <1>8, <1>9
  DEF Next, Step, SkipDuplicate, Begin, BreakerTimeout, history, vars

\* Without a crash, a mail whose answer arrived leaves a row once no thread
\* works on its key, in spite of the race of the inserts.
THEOREM MailsLeaveRows == Spec => []DeliveryLeavesRow
<1>1. Init => RowInv /\ SeenInv
  BY DEF Init, RowInv, SeenInv, Idle
<1>2. TypeInv /\ RowInv => DeliveryLeavesRow
  <2> SUFFICES ASSUME TypeInv, RowInv, NEW k \in Keys,
                      crashes = 0, unrecorded[k] = 0, delivered[k] > lost[k],
                      log[k] = "none"
               PROVE  \E w \in Workers : Busy(w, k)
    BY DEF DeliveryLeavesRow
  <2>1. PICK w \in Workers : task[w].pc \in {"read", "write"} /\ task[w].key = k
    BY DEF RowInv
  <2>2. task[w] # Idle
    BY <2>1 DEF Idle
  <2>3. QED
    BY <2>1, <2>2 DEF Busy
<1>3. QED
  BY <1>1, <1>2, RowStep, TypeInvariant, PTL DEF Spec

----------------------------------------------------------------------------
\* The end of a dispatch.  That it comes (DispatchReturns) needs fairness; that
\* it is not far needs none.

\* The steps a dispatch has left at most.
Left(t) == CASE t.pc = "send" -> RetryAttempts - t.tries + 2
             [] t.pc = "read" -> 2
             [] t.pc = "write" -> 1
             [] OTHER -> 0

\* A dispatch that has begun is left alone or comes nearer to its end, whatever the
\* provider, the breaker, the database and the other threads do: from its begin on
\* it takes at most RetryAttempts provider calls and two steps of the database
\* (retry.py, _send, _record).
Shrinks(w) ==
    task[w] # Idle /\ task'[w] # task[w] => Left(task'[w]) < Left(task[w])

LEMMA LeftIsNatural ==
    ASSUME NEW t \in Tasks
    PROVE  /\ Left(t) \in 0 .. RetryAttempts + 2
           /\ Left(t) = 0 <=> t = Idle
           /\ \A k, n : t = Sending(k, n) => Left(t) = RetryAttempts - n + 2
BY TaskFields DEF Left, Sending

LEMMA RecordingLeft ==
    \A k, r, s : Left(Recording("read", k, r, s)) = 2
                 /\ Left(Recording("write", k, r, s)) = 1
BY DEF Left, Recording

LEMMA ShrinkStep == TypeInv /\ [Next]_vars => \A w \in Workers : Shrinks(w)
<1> SUFFICES ASSUME TypeInv, [Next]_vars, NEW w \in Workers,
                    task[w] # Idle, task'[w] # task[w]
             PROVE  Left(task'[w]) < Left(task[w])
  BY DEF Shrinks
<1>0. task \in [Workers -> Tasks] /\ task[w] \in Tasks
  BY DEF TypeInv, TypeOK
<1>1. Left(Idle) = 0 /\ Left(task[w]) \in Nat \ {0}
  BY <1>0, LeftIsNatural DEF Left, Idle
<1>2. task'[w] = Idle => Left(task'[w]) < Left(task[w])
  BY <1>1
<1>3. ASSUME NEW v \in Workers, NEW t, task' = [task EXCEPT ![v] = t]
      PROVE  v = w /\ task'[w] = t
  BY <1>0, <1>3
<1>4. task[w].pc = "send" => Left(task[w]) > 2
  BY <1>0, TaskFields DEF Left
<1>5. ASSUME NEW v \in Workers, NEW k \in Keys, SkipDuplicate(v, k) \/ StartSend(v, k)
      PROVE  FALSE
  BY <1>0, <1>5 DEF SkipDuplicate, StartSend, Begin, Become
<1>6. ASSUME NEW v \in Workers, CallAccepted(v) \/ CallRefused(v)
      PROVE  Left(task'[w]) < Left(task[w])
  <2>1. PICK r \in Statuses :
            task[v].pc = "send"
            /\ task' = [task EXCEPT ![v] = Recording("read", task[v].key, r, "none")]
    BY <1>6 DEF CallAccepted, CallRefused, Become, Statuses
  <2>2. v = w /\ task'[w] = Recording("read", task[v].key, r, "none")
    BY <1>3, <2>1
  <2>3. QED
    BY <1>4, <2>1, <2>2, RecordingLeft
<1>7. ASSUME NEW v \in Workers, NEW o \in Outcomes, CallFailed(v, o)
      PROVE  Left(task'[w]) < Left(task[w])
  <2>1. task[v].pc = "send" /\ task' = [task EXCEPT ![v] = AfterFailure(task[v], o)]
    BY <1>7 DEF CallFailed, Become
  <2>2. v = w /\ task'[w] = AfterFailure(task[w], o)
    BY <1>3, <2>1
  <2>3. task[w].tries \in 0 .. RetryAttempts - 1
        /\ Left(task[w]) = RetryAttempts - task[w].tries + 2
    BY <1>0, <2>1, <2>2, TaskFields DEF Left
  <2>4. Left(Sending(task[w].key, task[w].tries + 1))
            = RetryAttempts - (task[w].tries + 1) + 2
    BY DEF Left, Sending
  <2>5. QED
    BY <1>1, <1>4, <2>1, <2>2, <2>3, <2>4, RecordingLeft DEF AfterFailure
<1>8. ASSUME NEW v \in Workers, RecordRead(v)
      PROVE  Left(task'[w]) < Left(task[w])
  <2>1. PICK r, s : task[v].pc = "read"
                    /\ task' = [task EXCEPT ![v] = Recording("write", task[v].key, r, s)]
    BY <1>8 DEF RecordRead, Become
  <2>2. v = w /\ task'[w] = Recording("write", task[v].key, r, s)
    BY <1>3, <2>1
  <2>3. QED
    BY <2>1, <2>2, RecordingLeft DEF Left
<1>9. ASSUME NEW v \in Workers, RecordWrite(v) \/ RecordRefused(v)
      PROVE  Left(task'[w]) < Left(task[w])
  <2>1. task' = [task EXCEPT ![v] = Idle]
    BY <1>9 DEF RecordWrite, RecordRefused, Become
  <2>2. QED
    BY <1>2, <1>3, <2>1
<1>10. CASE Crash
  BY <1>2, <1>10 DEF Crash
<1>11. CASE BreakerTimeout \/ UNCHANGED vars
  BY <1>11 DEF BreakerTimeout, vars
<1>12. QED
  BY <1>5, <1>6, <1>7, <1>8, <1>9, <1>10, <1>11 DEF Next, Step

\* A dispatch that has begun is left alone or comes nearer to its end, and Left
\* says how near: there is no way round a retry loop that never ends, for any
\* threads, limits and outcomes (retry.py, circuit_breaker.py, service.py).
THEOREM DispatchesShrink == Spec => [][\A w \in Workers : Shrinks(w)]_vars
BY TypeInvariant, ShrinkStep, PTL DEF Spec
=============================================================================
