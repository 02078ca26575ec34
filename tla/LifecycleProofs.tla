-------------------------- MODULE LifecycleProofs --------------------------
(***************************************************************************)
(* Theorems about the exception log, for every set of files, any number of   *)
(* runs and any configuration of the planner.                               *)
(***************************************************************************)
EXTENDS Lifecycle, FiniteSetTheorems, TLAPS

----------------------------------------------------------------------------
\* Routing: an exception always has a first recipient, and its keys are Keys.

LEMMA RoutedRoles ==
    ASSUME NEW reason \in DOMAIN DefaultRouting
    PROVE  DefaultRouting[reason] \in Seq(Roles) /\ Len(DefaultRouting[reason]) >= 1
<1>1. \A a \in Roles : <<a>> \in Seq(Roles) /\ Len(<<a>>) >= 1
  OBVIOUS
<1>2. \A a, b \in Roles : <<a, b>> \in Seq(Roles) /\ Len(<<a, b>>) >= 1
  OBVIOUS
<1>3. {"STORE_MANAGER", "PAYMENT_GATEWAY", "BANK", "ADMIN"} = Roles
  BY DEF Roles
<1>4. \/ \E a \in Roles : DefaultRouting[reason] = <<a>>
      \/ \E a, b \in Roles : DefaultRouting[reason] = <<a, b>>
  BY <1>3 DEF DefaultRouting
<1>5. QED
  BY <1>1, <1>2, <1>4

LEMMA TargetsAreKeys ==
    ASSUME NEW e \in Exceptions, NEW a
    PROVE  /\ TargetKeys(e, a) \subseteq Keys
           /\ FirstKey(e, a) \in TargetKeys(e, a)
           /\ \E role \in Roles : FirstKey(e, a) = MismatchKey(e, role)
           /\ Len(TargetRoles(e, a)) \in Nat
<1>1. TargetRoles(e, a) \in Seq(Roles) /\ Len(TargetRoles(e, a)) >= 1
  <2>1. CASE a = "ESCALATE"
    BY <2>1 DEF TargetRoles, Roles
  <2>2. CASE a # "ESCALATE" /\ e.party # Absent
    BY <2>2, ExceptionsAssumption DEF TargetRoles, ResolveRoles
  <2>3. CASE a # "ESCALATE" /\ e.party = Absent
    BY <2>3, ExceptionsAssumption, RoutedRoles DEF TargetRoles, ResolveRoles
  <2>4. QED
    BY <2>1, <2>2, <2>3
<1> DEFINE roles == TargetRoles(e, a)
<1>2. 1 \in DOMAIN roles /\ \A n \in DOMAIN roles : roles[n] \in Roles
  BY <1>1
<1>3. \A n \in DOMAIN roles : MismatchKey(e, roles[n]) \in Keys
  BY <1>2 DEF Keys
<1>4. QED
  BY <1>1, <1>2, <1>3 DEF TargetKeys, FirstKey

LEMMA StatusesGiven == \A a : LifeStatus(a) \in Unresolved
BY DEF LifeStatus, Unresolved

LEMMA NoneIsNoStatus == None \notin Statuses /\ Unresolved \subseteq Statuses
BY DEF None, Statuses, Unresolved

----------------------------------------------------------------------------
\* Types.

\* A run that has not begun knows nothing, and one that dispatches has decided
\* on all its exceptions.
Blank == \A r \in Runs : run[r].pc = "idle" => run[r] = Idle

Decided == \A r \in Runs :
    run[r].pc \in {"dispatch", "record", "verify", "resolve", "completed"} =>
        Len(run[r].decisions) = Len(run[r].excs)

TypeInv == TypeOK /\ Blank /\ Decided

LEMMA InitTyped == Init => TypeInv
<1> SUFFICES ASSUME Init PROVE TypeInv
  OBVIOUS
<1>1. Idle \in RunRecords /\ Idle.pc = "idle" /\ Idle.sent = 0
      /\ Len(Idle.decisions) = 0 /\ Len(Idle.excs) = 0
  BY DEF Idle, RunRecords, Nodes, Rows, NoRow
<1>2. NoRow \in Rows
  BY DEF NoRow, Rows
<1>3. QED
  BY <1>1, <1>2 DEF Init, TypeInv, TypeOK, Blank, Decided

\* A step that changes the record of one run.
LEMMA OneRunTyped ==
    ASSUME TypeInv, NEW r \in Runs, NEW me \in RunRecords,
           run' = [run EXCEPT ![r] = me],
           me.pc # "idle",
           me.sent <= Len(me.decisions), Len(me.decisions) <= Len(me.excs),
           me.pc \in {"dispatch", "record", "verify", "resolve", "completed"} =>
               Len(me.decisions) = Len(me.excs),
           log' \in [Keys -> Rows], calls' \in Nat, crashes' \in Nat
    PROVE  TypeInv'
<1>1. run \in [Runs -> RunRecords]
  BY DEF TypeInv, TypeOK
<1>2. \A q \in Runs : run'[q] = IF q = r THEN me ELSE run[q]
  BY <1>1
<1>3. run' \in [Runs -> RunRecords]
  BY <1>1
<1>4. TypeOK'
  BY <1>2, <1>3 DEF TypeInv, TypeOK
<1>5. Blank' /\ Decided'
  BY <1>2 DEF TypeInv, Blank, Decided
<1>6. QED
  BY <1>4, <1>5 DEF TypeInv

LEMMA BeginTyped == ASSUME TypeInv, NEW r \in Runs, Begin(r) PROVE TypeInv'
<1>1. PICK x \in Inputs, n \in FuzzyCalls :
          /\ run' = [run EXCEPT ![r] =
                         [run[r] EXCEPT !.pc = "decide", !.excs = x,
                                  !.alone = \A q \in Runs : ~ Active(q)]]
          /\ calls' = calls + n
  BY DEF Begin
<1> DEFINE me == [run[r] EXCEPT !.pc = "decide", !.excs = x,
                                  !.alone = \A q \in Runs : ~ Active(q)]
<1>2. x \in Seq(Exceptions) /\ n \in Nat
  BY InputsAssumption, BoundsAssumption
<1>3. run[r] \in RunRecords /\ run[r] = Idle
  BY DEF TypeInv, TypeOK, Blank, Begin
<1>4. me \in RunRecords /\ me.pc = "decide" /\ me.excs = x
      /\ me.decisions = run[r].decisions /\ me.sent = run[r].sent
  BY <1>2, <1>3 DEF RunRecords, Nodes
<1>5. me.decisions = << >> /\ me.sent = 0
  BY <1>3, <1>4 DEF Idle
<1>6. me.sent <= Len(me.decisions) /\ Len(me.decisions) <= Len(me.excs)
  BY <1>2, <1>4, <1>5
<1>7. log' \in [Keys -> Rows] /\ calls' \in Nat /\ crashes' \in Nat
  BY <1>1, <1>2 DEF TypeInv, TypeOK, Begin
<1>8. run' = [run EXCEPT ![r] = me]
  BY <1>1
<1> HIDE DEF me
<1>9. QED
  BY <1>4, <1>6, <1>7, <1>8, OneRunTyped

LEMMA DecideTyped == ASSUME TypeInv, NEW r \in Runs, Decide(r) PROVE TypeInv'
<1> DEFINE e == run[r].excs[Len(run[r].decisions) + 1]
<1>1. PICK answer \in Answers :
          run' = [run EXCEPT ![r] =
                     [run[r] EXCEPT !.decisions =
                         Append(@, PlanAction(Proposed(answer, e), e))]]
  BY DEF Decide
<1> DEFINE d == PlanAction(Proposed(answer, e), e)
           me == [run[r] EXCEPT !.decisions = Append(@, d)]
<1>2. run[r] \in RunRecords /\ run[r].pc = "decide"
      /\ run[r].sent <= Len(run[r].decisions)
      /\ Len(run[r].decisions) < Len(run[r].excs)
  BY DEF TypeInv, TypeOK, Decide
<1>3. d \in PlannerActions
  BY PlannerAssumption DEF PlanAction
<1>4. run[r].decisions \in Seq(PlannerActions) /\ run[r].excs \in Seq(Exceptions)
      /\ run[r].sent \in Nat
  BY <1>2 DEF RunRecords
<1>5. me = [run[r] EXCEPT !.decisions = Append(run[r].decisions, d)]
  BY <1>2
<1> HIDE DEF d
<1>6. /\ Append(run[r].decisions, d) \in Seq(PlannerActions)
      /\ Len(Append(run[r].decisions, d)) = Len(run[r].decisions) + 1
  BY <1>3, <1>4
<1>7. me \in RunRecords /\ me.pc = "decide" /\ me.excs = run[r].excs
      /\ me.decisions = Append(run[r].decisions, d) /\ me.sent = run[r].sent
  BY <1>2, <1>5, <1>6 DEF RunRecords
<1>8. me.sent <= Len(me.decisions) /\ Len(me.decisions) <= Len(me.excs)
  BY <1>2, <1>4, <1>6, <1>7
<1>9. log' \in [Keys -> Rows] /\ calls' \in Nat /\ crashes' \in Nat
  BY DEF TypeInv, TypeOK, Decide
<1>10. run' = [run EXCEPT ![r] = me]
  BY <1>1 DEF d
<1> HIDE DEF me
<1>11. QED
  BY <1>7, <1>8, <1>9, <1>10, OneRunTyped

\* A step that only moves r to another node.
LEMMA MoveTyped ==
    ASSUME TypeInv, NEW r \in Runs, run[r].pc # "idle",
           NEW pc \in (Nodes \union Ended) \ {"idle"},
           pc \in {"dispatch", "record", "verify", "resolve", "completed"} =>
               Len(run[r].decisions) = Len(run[r].excs),
           run' = [run EXCEPT ![r].pc = pc],
           log' \in [Keys -> Rows], calls' = calls, crashes' = crashes
    PROVE  TypeInv'
<1> DEFINE me == [run[r] EXCEPT !.pc = pc]
<1>1. run[r] \in RunRecords /\ run[r].sent <= Len(run[r].decisions)
      /\ Len(run[r].decisions) <= Len(run[r].excs)
      /\ calls \in Nat /\ crashes \in Nat
  BY DEF TypeInv, TypeOK
<1>2. me \in RunRecords /\ me.pc = pc /\ me.excs = run[r].excs
      /\ me.decisions = run[r].decisions /\ me.sent = run[r].sent
  BY <1>1 DEF RunRecords
<1>3. run' = [run EXCEPT ![r] = me]
  OBVIOUS
<1> HIDE DEF me
<1>4. /\ me.pc # "idle"
      /\ me.sent <= Len(me.decisions) /\ Len(me.decisions) <= Len(me.excs)
      /\ me.pc \in {"dispatch", "record", "verify", "resolve", "completed"} =>
             Len(me.decisions) = Len(me.excs)
      /\ calls' \in Nat /\ crashes' \in Nat
  BY <1>1, <1>2
<1>5. QED
  BY <1>2, <1>3, <1>4, OneRunTyped

LEMMA EndDecideTyped == ASSUME TypeInv, NEW r \in Runs, EndDecide(r) PROVE TypeInv'
<1>1. log' \in [Keys -> Rows]
  BY DEF EndDecide, TypeInv, TypeOK
<1>2. "dispatch" \in (Nodes \union Ended) \ {"idle"}
  BY DEF Nodes
<1>3. QED
  BY <1>1, <1>2, MoveTyped DEF EndDecide

LEMMA ListTyped ==
    ASSUME NEW me \in RunRecords, NEW ks \in SUBSET Keys,
           NEW status \in Unresolved, NEW first \in Keys
    PROVE  /\ List(me, ks, status, first) \in RunRecords
           /\ List(me, ks, status, first).pc = me.pc
           /\ List(me, ks, status, first).excs = me.excs
           /\ List(me, ks, status, first).decisions = me.decisions
           /\ List(me, ks, status, first).sent = me.sent + 1
           /\ \A k \in Keys : List(me, ks, status, first).given[k] =
                                IF k \in ks THEN status ELSE me.given[k]
           /\ List(me, ks, status, first).first =
                  IF me.first = Absent THEN first ELSE me.first
           /\ List(me, ks, status, first).seen = me.seen
           /\ List(me, ks, status, first).stale = me.stale
<1> DEFINE given == [k \in Keys |-> IF k \in ks THEN status ELSE me.given[k]]
           one == IF me.first = Absent THEN first ELSE me.first
           another == \E k \in ks \ {one} : me.given[k] = None
           flushed == IF another
                      THEN me.flushed \union {IF one = first THEN status
                                              ELSE me.given[one]}
                      ELSE me.flushed
<1>1. me.given \in [Keys -> Unresolved \union {None}]
      /\ me.flushed \in SUBSET (Unresolved \union {None})
      /\ me.first \in Keys \union {Absent} /\ me.sent \in Nat
  BY DEF RunRecords
<1>2. given \in [Keys -> Unresolved \union {None}]
  BY <1>1
<1>4. one \in Keys
  BY <1>1
<1>3. flushed \in SUBSET (Unresolved \union {None})
  <2>1. me.given[one] \in Unresolved \union {None}
    BY <1>1, <1>4
  <2> HIDE DEF one, another
  <2>2. QED
    BY <1>1, <2>1
<1>5. List(me, ks, status, first) =
          [me EXCEPT !.sent = me.sent + 1, !.given = given, !.flushed = flushed,
                     !.first = one]
  BY DEF List
<1> HIDE DEF given, flushed, another, one
<1>6. List(me, ks, status, first) \in RunRecords
  <2>1. me.sent + 1 \in Nat
    BY <1>1
  <2> DEFINE sent == me.sent + 1
  <2>2. List(me, ks, status, first) =
            [me EXCEPT !.sent = sent, !.given = given, !.flushed = flushed, !.first = one]
    BY <1>5
  <2> HIDE DEF sent
  <2>3. QED
    BY <1>2, <1>3, <1>4, <2>1, <2>2 DEF RunRecords, sent
<1>7. List(me, ks, status, first).given = given
      /\ List(me, ks, status, first).first = one
      /\ List(me, ks, status, first).pc = me.pc
      /\ List(me, ks, status, first).excs = me.excs
      /\ List(me, ks, status, first).decisions = me.decisions
      /\ List(me, ks, status, first).sent = me.sent + 1
      /\ List(me, ks, status, first).seen = me.seen
      /\ List(me, ks, status, first).stale = me.stale
  BY <1>5 DEF RunRecords
<1>8. \A k \in Keys : given[k] = IF k \in ks THEN status ELSE me.given[k]
  BY DEF given
<1>9. QED
  BY <1>6, <1>7, <1>8 DEF one

LEMMA DispatchTyped == ASSUME TypeInv, NEW r \in Runs, Dispatch(r) PROVE TypeInv'
<1> DEFINE n == run[r].sent + 1
           e == run[r].excs[n]
           a == run[r].decisions[n]
           drafts == IF a = "WAIT" THEN 0 ELSE Len(TargetRoles(e, a))
           me == List(run[r], TargetKeys(e, a), LifeStatus(a), FirstKey(e, a))
<1>1. run' = [run EXCEPT ![r] = me] /\ calls' = calls + drafts
  BY DEF Dispatch
<1>2. run[r] \in RunRecords /\ run[r].pc = "dispatch"
      /\ run[r].sent < Len(run[r].excs)
      /\ Len(run[r].decisions) = Len(run[r].excs)
  BY DEF TypeInv, TypeOK, Decided, Dispatch
<1>3. run[r].excs \in Seq(Exceptions) /\ run[r].sent \in Nat
  BY <1>2 DEF RunRecords
<1>4. e \in Exceptions
  BY <1>2, <1>3
<1> HIDE DEF e, a
<1>5. drafts \in Nat /\ TargetKeys(e, a) \in SUBSET Keys /\ FirstKey(e, a) \in Keys
      /\ LifeStatus(a) \in Unresolved
  BY <1>4, TargetsAreKeys, StatusesGiven
<1> HIDE DEF drafts
<1>6. PICK mine \in RunRecords : mine = run[r]
  BY <1>2
<1>7. me \in RunRecords /\ me.pc = "dispatch" /\ me.excs = run[r].excs
      /\ me.decisions = run[r].decisions /\ me.sent = run[r].sent + 1
  <2> DEFINE ks == TargetKeys(e, a)
             status == LifeStatus(a)
             first == FirstKey(e, a)
  <2>0. ks \in SUBSET Keys /\ status \in Unresolved /\ first \in Keys
    BY <1>5
  <2>1. me = List(mine, ks, status, first)
    BY <1>6
  <2> HIDE DEF me, ks, status, first
  <2>2. /\ List(mine, ks, status, first) \in RunRecords
        /\ List(mine, ks, status, first).pc = mine.pc
        /\ List(mine, ks, status, first).excs = mine.excs
        /\ List(mine, ks, status, first).decisions = mine.decisions
        /\ List(mine, ks, status, first).sent = mine.sent + 1
    BY <2>0, ListTyped
  <2>3. QED
    BY <1>2, <1>6, <2>1, <2>2
<1>8. me.sent <= Len(me.decisions) /\ Len(me.decisions) <= Len(me.excs)
      /\ Len(me.decisions) = Len(me.excs)
  BY <1>2, <1>3, <1>7
<1>9. log' \in [Keys -> Rows] /\ calls' \in Nat /\ crashes' \in Nat
  BY <1>1, <1>5 DEF TypeInv, TypeOK, Dispatch
<1> HIDE DEF me
<1>10. QED
  BY <1>1, <1>7, <1>8, <1>9, OneRunTyped

LEMMA LookTyped == ASSUME TypeInv, NEW r \in Runs, Look(r) PROVE TypeInv'
<1>1. run[r] \in RunRecords /\ run[r].pc = "dispatch"
      /\ log \in [Keys -> Rows] /\ log' \in [Keys -> Rows]
      /\ Len(run[r].decisions) = Len(run[r].excs)
      /\ run[r].sent <= Len(run[r].decisions)
      /\ calls' \in Nat /\ crashes' \in Nat
  BY DEF TypeInv, TypeOK, Look, Decided
<1>2. CASE run[r].first = Absent
  <2>1. "verify" \in (Nodes \union Ended) \ {"idle"}
    BY DEF Nodes
  <2>2. QED
    BY <1>1, <1>2, <2>1, MoveTyped DEF Look
<1>3. CASE run[r].first # Absent
  <2> DEFINE me == [run[r] EXCEPT !.pc = "record", !.seen = log[run[r].first]]
  <2>1. run[r].first \in Keys
    BY <1>1, <1>3 DEF RunRecords
  <2>2. me \in RunRecords /\ me.pc = "record" /\ me.excs = run[r].excs
        /\ me.decisions = run[r].decisions /\ me.sent = run[r].sent
    BY <1>1, <2>1 DEF RunRecords, Nodes
  <2>3. run' = [run EXCEPT ![r] = me]
    BY <1>3 DEF Look
  <2>4. Len(run[r].decisions) <= Len(run[r].excs)
    BY DEF TypeInv, TypeOK
  <2> HIDE DEF me
  <2>5. QED
    BY <1>1, <2>2, <2>3, <2>4, OneRunTyped
<1>4. QED
  BY <1>2, <1>3

LEMMA UpsertedTyped ==
    ASSUME TypeInv, NEW r \in Runs
    PROVE  Upserted(r) \in [Keys -> Rows]
<1>1. log \in [Keys -> Rows] /\ run[r] \in RunRecords
  BY DEF TypeInv, TypeOK
<1>2. \A k \in Keys : k \in CurrentKeys(r) => run[r].given[k] \in Unresolved
  BY <1>1 DEF CurrentKeys, RunRecords
<1>3. \A k \in Keys : log[k] \in Rows /\ log[k].status \in Statuses \union {None}
  BY <1>1 DEF Rows
<1>4. \A s \in Statuses \union {None} : [status |-> s, run |-> r] \in Rows
  BY DEF Rows
<1>5. \A k \in Keys : (IF KeepsStatus(r, k) THEN log[k].status ELSE run[r].given[k])
          \in Statuses \union {None} \/ k \notin CurrentKeys(r)
  BY <1>2, <1>3, NoneIsNoStatus
<1>6. QED
  BY <1>3, <1>4, <1>5 DEF Upserted

LEMMA ResolvedTyped ==
    ASSUME TypeInv, NEW r \in Runs
    PROVE  Resolved(r) \in [Keys -> Rows]
<1>1. log \in [Keys -> Rows]
  BY DEF TypeInv, TypeOK
<1>2. [status |-> "RESOLVED", run |-> r] \in Rows
  BY DEF Rows, Statuses
<1>3. QED
  BY <1>1, <1>2 DEF Resolved

LEMMA RecordTyped == ASSUME TypeInv, NEW r \in Runs, Record(r) PROVE TypeInv'
<1>1. log' \in [Keys -> Rows]
  BY UpsertedTyped DEF Record
<1>2. "verify" \in (Nodes \union Ended) \ {"idle"}
  BY DEF Nodes
<1>3. Len(run[r].decisions) = Len(run[r].excs) /\ run[r].pc # "idle"
  BY DEF Record, TypeInv, Decided
<1>4. QED
  BY <1>1, <1>2, <1>3, MoveTyped DEF Record

LEMMA SelectTyped == ASSUME TypeInv, NEW r \in Runs, Select(r) PROVE TypeInv'
<1> DEFINE me == [run[r] EXCEPT !.pc = "resolve", !.stale = Stale(r)]
<1>1. run[r] \in RunRecords /\ run[r].sent <= Len(run[r].decisions)
      /\ Len(run[r].decisions) = Len(run[r].excs)
      /\ Len(run[r].decisions) <= Len(run[r].excs)
      /\ log' \in [Keys -> Rows] /\ calls' \in Nat /\ crashes' \in Nat
  BY DEF TypeInv, TypeOK, Decided, Select
<1>2. Stale(r) \in SUBSET Keys
  BY DEF Stale
<1>3. me \in RunRecords /\ me.pc = "resolve" /\ me.excs = run[r].excs
      /\ me.decisions = run[r].decisions /\ me.sent = run[r].sent
  BY <1>1, <1>2 DEF RunRecords, Nodes
<1>4. run' = [run EXCEPT ![r] = me]
  BY DEF Select
<1> HIDE DEF me
<1>5. QED
  BY <1>1, <1>3, <1>4, OneRunTyped

LEMMA ResolveTyped == ASSUME TypeInv, NEW r \in Runs, Resolve(r) PROVE TypeInv'
<1>1. log' \in [Keys -> Rows]
  BY ResolvedTyped DEF Resolve
<1>2. "completed" \in (Nodes \union Ended) \ {"idle"}
  BY DEF Ended
<1>3. Len(run[r].decisions) = Len(run[r].excs) /\ run[r].pc # "idle"
  BY DEF Resolve, TypeInv, Decided
<1>4. QED
  BY <1>1, <1>2, <1>3, MoveTyped DEF Resolve

LEMMA EndFailedTyped ==
    ASSUME TypeInv, NEW r \in Runs, run[r].pc # "idle", EndFailed(r) PROVE TypeInv'
<1>1. log' \in [Keys -> Rows]
  BY DEF EndFailed, TypeInv, TypeOK
<1>2. "failed" \in (Nodes \union Ended) \ {"idle"}
  BY DEF Ended
<1>3. QED
  BY <1>1, <1>2, MoveTyped DEF EndFailed

LEMMA CrashTyped == ASSUME TypeInv, Crash PROVE TypeInv'
<1> DEFINE fallen(r) == [run[r] EXCEPT !.pc = "crashed"]
<1>1. run \in [Runs -> RunRecords] /\ log' \in [Keys -> Rows]
      /\ calls' \in Nat /\ crashes' \in Nat
  BY DEF TypeInv, TypeOK, Crash
<1>2. ASSUME NEW r \in Runs
      PROVE  /\ run'[r] = IF Active(r) THEN fallen(r) ELSE run[r]
             /\ fallen(r) \in RunRecords
             /\ fallen(r).pc = "crashed"
             /\ fallen(r).excs = run[r].excs
             /\ fallen(r).decisions = run[r].decisions
             /\ fallen(r).sent = run[r].sent
  <2>1. run[r] \in RunRecords
    BY <1>1
  <2>2. QED
    BY <2>1 DEF Crash, RunRecords, Ended
<1>3. run' = [r \in Runs |-> IF Active(r) THEN fallen(r) ELSE run[r]]
  BY DEF Crash
<1> HIDE DEF fallen
<1>4. run' \in [Runs -> RunRecords]
  BY <1>1, <1>2, <1>3
<1>5. \A r \in Runs : run[r].sent <= Len(run[r].decisions)
                      /\ Len(run[r].decisions) <= Len(run[r].excs)
  BY DEF TypeInv, TypeOK
<1>6. TypeOK'
  BY <1>1, <1>2, <1>4, <1>5 DEF TypeOK
<1>7. Blank' /\ Decided'
  BY <1>2 DEF TypeInv, Blank, Decided
<1>8. QED
  BY <1>6, <1>7 DEF TypeInv

LEMMA StepTyped == TypeInv /\ [Next]_vars => TypeInv'
<1> SUFFICES ASSUME TypeInv, [Next]_vars PROVE TypeInv'
  OBVIOUS
<1>1. ASSUME NEW r \in Runs, Begin(r) PROVE TypeInv'
  BY <1>1, BeginTyped
<1>2. ASSUME NEW r \in Runs, Work(r) PROVE TypeInv'
  <2>1. CASE Decide(r)
    BY <2>1, DecideTyped
  <2>2. CASE EndDecide(r)
    BY <2>2, EndDecideTyped
  <2>3. CASE Dispatch(r)
    BY <2>3, DispatchTyped
  <2>4. CASE Look(r)
    BY <2>4, LookTyped
  <2>5. CASE Record(r)
    BY <2>5, RecordTyped
  <2>6. CASE Clash(r)
    BY <2>6, EndFailedTyped DEF Clash
  <2>7. CASE Select(r)
    BY <2>7, SelectTyped
  <2>8. CASE Resolve(r)
    BY <2>8, ResolveTyped
  <2>9. QED
    BY <1>2, <2>1, <2>2, <2>3, <2>4, <2>5, <2>6, <2>7, <2>8 DEF Work
<1>3. ASSUME NEW r \in Runs, Fail(r) PROVE TypeInv'
  BY <1>3, EndFailedTyped DEF Fail, Active
<1>4. CASE Crash
  BY <1>4, CrashTyped
<1>5. CASE UNCHANGED vars
  BY <1>5 DEF vars, TypeInv, TypeOK, Blank, Decided
<1>6. QED
  BY <1>1, <1>2, <1>3, <1>4, <1>5 DEF Next

LEMMA AlwaysTyped == Spec => []TypeInv
<1>1. QED
  BY InitTyped, StepTyped, PTL DEF Spec

\* Every run is somewhere in the graph with at most as many decisions as
\* exceptions and at most as many mailed as decided, and the log has rows only
\* for the keys of exceptions.
THEOREM TypeCorrect == Spec => []TypeOK
<1>1. TypeInv => TypeOK
  BY DEF TypeInv
<1>2. QED
  BY <1>1, AlwaysTyped, PTL

----------------------------------------------------------------------------
\* What each step does to the list of a run and to the log.

\* No key leaves the list of a run.
ListsGrow ==
    \A q \in Runs : \A k \in Keys :
        run[q].given[k] # None => run'[q].given[k] # None

LEMMA OtherSteps ==
    ASSUME TypeInv, NEW r \in Runs, NEW me \in RunRecords,
           run' = [run EXCEPT ![r] = me], me.given = run[r].given
    PROVE  ListsGrow
BY DEF TypeInv, TypeOK, ListsGrow

\* The record of r after one exception has been dispatched.
LEMMA DispatchExact ==
    ASSUME TypeInv, NEW r \in Runs, Dispatch(r), NEW e, NEW a,
           e = run[r].excs[run[r].sent + 1], a = run[r].decisions[run[r].sent + 1]
    PROVE  /\ e \in Exceptions
           /\ \A q \in Runs : q # r => run'[q] = run[q]
           /\ run'[r].pc = "dispatch"
           /\ \A k \in Keys : run'[r].given[k] =
                                  IF k \in TargetKeys(e, a) THEN LifeStatus(a)
                                  ELSE run[r].given[k]
           /\ run'[r].first = IF run[r].first = Absent THEN FirstKey(e, a)
                              ELSE run[r].first
           /\ run'[r].excs = run[r].excs /\ run'[r].decisions = run[r].decisions
           /\ run'[r].sent = run[r].sent + 1
<1> DEFINE ks == TargetKeys(e, a)
           status == LifeStatus(a)
           first == FirstKey(e, a)
<1>1. run' = [run EXCEPT ![r] = List(run[r], ks, status, first)]
  BY DEF Dispatch
<1>2. run[r] \in RunRecords /\ run[r].pc = "dispatch" /\ run \in [Runs -> RunRecords]
      /\ run[r].sent < Len(run[r].excs)
  BY DEF TypeInv, TypeOK, Dispatch
<1>3. run[r].excs \in Seq(Exceptions) /\ run[r].sent \in Nat
  BY <1>2 DEF RunRecords
<1>4. e \in Exceptions
  BY <1>2, <1>3
<1>5. ks \in SUBSET Keys /\ first \in Keys /\ status \in Unresolved
  BY <1>4, TargetsAreKeys, StatusesGiven
<1> HIDE DEF ks, status, first
<1>6. PICK mine \in RunRecords : mine = run[r]
  BY <1>2
<1>7. /\ \A q \in Runs : q # r => run'[q] = run[q]
      /\ run'[r] = List(mine, ks, status, first)
  <2>1. run' = [run EXCEPT ![r] = List(mine, ks, status, first)]
    BY <1>1, <1>6
  <2>2. QED
    BY <1>2, <2>1
<1>8. /\ run'[r].pc = "dispatch"
      /\ \A k \in Keys : run'[r].given[k] = IF k \in ks THEN status ELSE run[r].given[k]
      /\ run'[r].first = IF run[r].first = Absent THEN first ELSE run[r].first
      /\ run'[r].excs = run[r].excs /\ run'[r].decisions = run[r].decisions
      /\ run'[r].sent = run[r].sent + 1
  <2> DEFINE me == List(mine, ks, status, first)
  <2>1. /\ me.pc = mine.pc /\ me.excs = mine.excs /\ me.sent = mine.sent + 1
        /\ me.decisions = mine.decisions
        /\ \A k \in Keys : me.given[k] = IF k \in ks THEN status ELSE mine.given[k]
        /\ me.first = IF mine.first = Absent THEN first ELSE mine.first
    BY <1>5, ListTyped
  <2> HIDE DEF me
  <2>2. run'[r] = me
    BY <1>7 DEF me
  <2>3. QED
    BY <1>2, <1>6, <2>1, <2>2
<1>9. QED
  BY <1>4, <1>7, <1>8, Zenon DEF ks, status, first

\* The same, as most invariants need it.
LEMMA DispatchLists ==
    ASSUME TypeInv, NEW r \in Runs, Dispatch(r)
    PROVE  \E ks \in SUBSET Keys : \E status \in Unresolved, first \in ks :
              /\ \A q \in Runs : q # r => run'[q] = run[q]
              /\ run'[r].pc = "dispatch"
              /\ \A k \in Keys : run'[r].given[k] =
                                  IF k \in ks THEN status ELSE run[r].given[k]
              /\ run'[r].first = IF run[r].first = Absent THEN first ELSE run[r].first
              /\ run'[r].excs = run[r].excs /\ run'[r].sent = run[r].sent + 1
              /\ \E role \in Roles :
                     first = MismatchKey(run[r].excs[run[r].sent + 1], role)
<1>1. PICK e, a : /\ e = run[r].excs[run[r].sent + 1]
                  /\ a = run[r].decisions[run[r].sent + 1]
  OBVIOUS
<1>2. /\ e \in Exceptions
      /\ \A q \in Runs : q # r => run'[q] = run[q]
      /\ run'[r].pc = "dispatch"
      /\ \A k \in Keys : run'[r].given[k] = IF k \in TargetKeys(e, a) THEN LifeStatus(a)
                                           ELSE run[r].given[k]
      /\ run'[r].first = IF run[r].first = Absent THEN FirstKey(e, a) ELSE run[r].first
      /\ run'[r].excs = run[r].excs /\ run'[r].sent = run[r].sent + 1
  BY <1>1, DispatchExact
<1>3. /\ TargetKeys(e, a) \in SUBSET Keys /\ FirstKey(e, a) \in TargetKeys(e, a)
      /\ \E role \in Roles : FirstKey(e, a) = MismatchKey(e, role)
      /\ LifeStatus(a) \in Unresolved
  BY <1>2, TargetsAreKeys, StatusesGiven
<1>4. QED
  BY <1>1, <1>2, <1>3

LEMMA NextListsGrow ==
    ASSUME TypeInv, [Next]_vars PROVE ListsGrow
<1>0. run \in [Runs -> RunRecords]
  BY DEF TypeInv, TypeOK
<1>1. ASSUME NEW r \in Runs, Begin(r) PROVE ListsGrow
  <2>1. PICK x \in Inputs, n \in FuzzyCalls :
            run' = [run EXCEPT ![r] =
                       [run[r] EXCEPT !.pc = "decide", !.excs = x,
                                  !.alone = \A q \in Runs : ~ Active(q)]]
    BY <1>1 DEF Begin
  <2>2. n \in Nat /\ x \in Seq(Exceptions)
    BY BoundsAssumption, InputsAssumption
  <2> DEFINE me == [run[r] EXCEPT !.pc = "decide", !.excs = x,
                                  !.alone = \A q \in Runs : ~ Active(q)]
  <2>3. me \in RunRecords /\ me.given = run[r].given
    <3>1. run[r] \in RunRecords
      BY <1>0
    <3>2. QED
      BY <2>2, <3>1 DEF RunRecords, Nodes
  <2> HIDE DEF me
  <2>4. run' = [run EXCEPT ![r] = me]
    BY <2>1 DEF me
  <2>5. QED
    BY <2>3, <2>4, OtherSteps
<1>2. ASSUME NEW r \in Runs, Decide(r) PROVE ListsGrow
  <2>1. PICK ds : run' = [run EXCEPT ![r] = [run[r] EXCEPT !.decisions = ds]]
    BY <1>2 DEF Decide
  <2>2. [run[r] EXCEPT !.decisions = ds].given = run[r].given
    <3>1. run[r] \in RunRecords
      BY <1>0
    <3>2. QED
      BY <3>1 DEF RunRecords
  <2>3. QED
    BY <1>0, <2>1, <2>2 DEF ListsGrow
<1>3. ASSUME NEW r \in Runs, Dispatch(r) PROVE ListsGrow
  <2>1. PICK ks \in SUBSET Keys, status \in Unresolved, first \in Keys :
            /\ \A q \in Runs : q # r => run'[q] = run[q]
            /\ \A k \in Keys : run'[r].given[k] =
                                IF k \in ks THEN status ELSE run[r].given[k]
    BY <1>3, DispatchLists
  <2>2. status # None
    BY NoneIsNoStatus
  <2>3. QED
    BY <2>1, <2>2 DEF ListsGrow
<1>4. ASSUME NEW r \in Runs,
             EndDecide(r) \/ Look(r) \/ Record(r) \/ Clash(r) \/ Select(r)
                 \/ Resolve(r) \/ Fail(r)
      PROVE  ListsGrow
  <2>1. run[r] \in RunRecords
    BY <1>0
  <2>2. \/ \E pc : run' = [run EXCEPT ![r].pc = pc]
        \/ \E pc, seen : run' = [run EXCEPT ![r].pc = pc, ![r].seen = seen]
        \/ \E pc, stale : run' = [run EXCEPT ![r].pc = pc, ![r].stale = stale]
    BY <1>4 DEF EndDecide, Look, Record, Clash, Select, Resolve, Fail, EndFailed
  <2>3. \A pc : [run[r] EXCEPT !.pc = pc].given = run[r].given
    BY <2>1 DEF RunRecords
  <2>4. \A pc, seen : [run[r] EXCEPT !.pc = pc, !.seen = seen].given = run[r].given
    BY <2>1 DEF RunRecords
  <2>5. \A pc, stale : [run[r] EXCEPT !.pc = pc, !.stale = stale].given = run[r].given
    BY <2>1 DEF RunRecords
  <2>6. \A q \in Runs : run'[q].given = run[q].given
    <3>1. CASE \E pc : run' = [run EXCEPT ![r].pc = pc]
      BY <1>0, <2>3, <3>1
    <3>2. CASE \E pc, seen : run' = [run EXCEPT ![r].pc = pc, ![r].seen = seen]
      BY <1>0, <2>4, <3>2
    <3>3. CASE \E pc, stale : run' = [run EXCEPT ![r].pc = pc, ![r].stale = stale]
      BY <1>0, <2>5, <3>3
    <3>4. QED
      BY <2>2, <3>1, <3>2, <3>3
  <2>7. QED
    BY <2>6 DEF ListsGrow
<1>5. CASE Crash
  <2>1. \A q \in Runs : run'[q].given = run[q].given
    BY <1>0, <1>5 DEF Crash, RunRecords
  <2>2. QED
    BY <2>1 DEF ListsGrow
<1>6. CASE UNCHANGED vars
  BY <1>6 DEF vars, ListsGrow
<1>7. QED
  BY <1>1, <1>2, <1>3, <1>4, <1>5, <1>6 DEF Next, Work

----------------------------------------------------------------------------
\* An unresolved row was found by the run it names.

FoundInv == TypeInv /\ UnresolvedWasFound

\* Every unresolved row is an old one, or names a run that has listed its key.
LEMMA RowsFound ==
    ASSUME FoundInv, ListsGrow, TypeInv',
           \A k \in Keys : \/ log'[k] = log[k]
                           \/ log'[k].status \notin Unresolved
                           \/ \E r \in Runs : /\ log'[k].run = r
                                             /\ run[r].given[k] # None
    PROVE  FoundInv'
<1>1. ASSUME NEW k \in Keys, log'[k].status \in Unresolved
      PROVE  log'[k].run \in Runs /\ run'[log'[k].run].given[k] # None
  <2>1. CASE log'[k] = log[k]
    <3>1. log[k].run \in Runs /\ run[log[k].run].given[k] # None
      BY <1>1, <2>1 DEF FoundInv, UnresolvedWasFound, CurrentKeys
    <3>2. QED
      BY <2>1, <3>1 DEF ListsGrow
  <2>2. CASE \E r \in Runs : log'[k].run = r /\ run[r].given[k] # None
    BY <2>2 DEF ListsGrow
  <2>3. QED
    BY <1>1, <2>1, <2>2
<1>2. UnresolvedWasFound'
  BY <1>1 DEF UnresolvedWasFound, CurrentKeys
<1>3. QED
  BY <1>2 DEF FoundInv

LEMMA StepFound == FoundInv /\ [Next]_vars => FoundInv'
<1> SUFFICES ASSUME FoundInv, [Next]_vars PROVE FoundInv'
  OBVIOUS
<1>1. TypeInv' /\ ListsGrow
  BY StepTyped, NextListsGrow DEF FoundInv
<1>2. CASE log' = log
  BY <1>1, <1>2, RowsFound
<1>3. ASSUME NEW r \in Runs, Record(r) PROVE FoundInv'
  <2>1. \A k \in Keys : \/ log'[k] = log[k]
                        \/ log'[k].run = r /\ run[r].given[k] # None
    BY <1>3 DEF Record, Upserted, CurrentKeys
  <2>2. QED
    BY <1>1, <2>1, RowsFound
<1>4. ASSUME NEW r \in Runs, Resolve(r) PROVE FoundInv'
  <2>1. \A k \in Keys : \/ log'[k] = log[k]
                        \/ log'[k].status = "RESOLVED"
    BY <1>4 DEF Resolve, Resolved
  <2>2. "RESOLVED" \notin Unresolved
    BY DEF Unresolved
  <2>3. QED
    BY <1>1, <2>1, <2>2, RowsFound
<1>5. CASE \/ \E r \in Runs : \/ Begin(r) \/ Decide(r) \/ EndDecide(r) \/ Dispatch(r)
                              \/ Look(r) \/ Clash(r) \/ Select(r) \/ Fail(r)
           \/ Crash
           \/ UNCHANGED vars
  BY <1>2, <1>5 DEF Begin, Decide, EndDecide, Dispatch, Look, Clash, Select, Fail,
                    EndFailed, Crash, vars
<1>6. QED
  BY <1>3, <1>4, <1>5 DEF Next, Work

\* However runs overlap, fail or crash, a row that is unresolved was found by
\* the run it names: upsert_exception writes both columns, and mark_resolved
\* leaves no row unresolved that it touches.
THEOREM UnresolvedRowsWereFound == Spec => []UnresolvedWasFound
<1>1. Init => FoundInv
  <2>1. Init => TypeInv
    BY InitTyped
  <2>2. Init => UnresolvedWasFound
    BY NoneIsNoStatus DEF Init, NoRow, UnresolvedWasFound
  <2>3. QED
    BY <2>1, <2>2 DEF FoundInv
<1>2. FoundInv => UnresolvedWasFound
  BY DEF FoundInv
<1>3. QED
  BY <1>1, <1>2, StepFound, PTL DEF Spec

----------------------------------------------------------------------------
\* No find is left out.

\* What a run has dispatched is on its list, under one of its keys.
Listed(r) ==
    \A n \in DOMAIN run[r].excs :
        n <= run[r].sent =>
            \E role \in Roles : MismatchKey(run[r].excs[n], role) \in CurrentKeys(r)

\* A list without a first key is empty: the one case without a session.
FirstKnown(r) == run[r].first = Absent => CurrentKeys(r) = {}

Sent(r) ==
    run[r].pc \in {"record", "verify", "resolve", "completed"} =>
        run[r].sent = Len(run[r].excs)

Recorded(r) ==
    run[r].pc \in {"verify", "resolve", "completed"} =>
        \A k \in CurrentKeys(r) : log[k] # NoRow

Kept(r) == Listed(r) /\ FirstKnown(r) /\ Sent(r) /\ Recorded(r)

KeptInv == TypeInv /\ \A r \in Runs : Kept(r)

RowsStay == \A k \in Keys : log[k] # NoRow => log'[k] # NoRow

\* A row names a run, whichever session wrote it.
LEMMA NextRowsStay == ASSUME [Next]_vars PROVE RowsStay
<1>1. ASSUME NEW r \in Runs, Record(r) PROVE RowsStay
  <2>1. \A k \in Keys : log'[k] = log[k] \/ log'[k].run = r
    BY <1>1 DEF Record, Upserted
  <2>2. r # NoRow.run
    BY BoundsAssumption DEF Runs, NoRow
  <2>3. QED
    BY <2>1, <2>2 DEF RowsStay
<1>2. ASSUME NEW r \in Runs, Resolve(r) PROVE RowsStay
  <2>1. \A k \in Keys : log'[k] = log[k] \/ log'[k].run = r
    BY <1>2 DEF Resolve, Resolved
  <2>2. r # NoRow.run
    BY BoundsAssumption DEF Runs, NoRow
  <2>3. QED
    BY <2>1, <2>2 DEF RowsStay
<1>3. CASE log' = log
  BY <1>3 DEF RowsStay
<1>4. QED
  BY <1>1, <1>2, <1>3 DEF Next, Work, Begin, Decide, EndDecide, Dispatch, Look, Clash,
                          Select, Fail, EndFailed, Crash, vars

\* A run whose list stays as it is, and which does not go on to record.
LEMMA SameListKept ==
    ASSUME NEW r \in Runs, Kept(r), RowsStay,
           run'[r].excs = run[r].excs, run'[r].sent = run[r].sent,
           run'[r].given = run[r].given, run'[r].first = run[r].first,
           run'[r].pc \in {"record", "verify", "resolve", "completed"} =>
               run[r].sent = Len(run[r].excs),
           run'[r].pc \in {"verify", "resolve", "completed"} =>
               \A k \in CurrentKeys(r) : log'[k] # NoRow
    PROVE  Kept(r)'
<1>1. CurrentKeys(r)' = CurrentKeys(r)
  BY DEF CurrentKeys
<1>2. Listed(r)' /\ FirstKnown(r)'
  BY <1>1 DEF Kept, Listed, FirstKnown
<1>3. Sent(r)' /\ Recorded(r)'
  BY <1>1 DEF Sent, Recorded
<1>4. QED
  BY <1>2, <1>3 DEF Kept

LEMMA OtherRunKept ==
    ASSUME NEW r \in Runs, Kept(r), RowsStay, run'[r] = run[r]
    PROVE  Kept(r)'
BY SameListKept DEF Kept, Sent, Recorded, RowsStay, CurrentKeys

LEMMA BeginKept == ASSUME KeptInv, NEW r \in Runs, Begin(r) PROVE Kept(r)'
<1>1. PICK x \in Inputs :
          run' = [run EXCEPT ![r] = [run[r] EXCEPT !.pc = "decide", !.excs = x,
                                  !.alone = \A q \in Runs : ~ Active(q)]]
  BY DEF Begin
<1>2. run \in [Runs -> RunRecords] /\ run[r] = Idle /\ Idle \in RunRecords
  BY DEF KeptInv, TypeInv, TypeOK, Blank, Begin
<1>3. /\ run'[r].pc = "decide" /\ run'[r].sent = 0
      /\ run'[r].excs = x /\ run'[r].given = Idle.given
  BY <1>1, <1>2 DEF Idle
<1>4. CurrentKeys(r)' = {}
  BY <1>3 DEF CurrentKeys, Idle
<1>5. \A n \in DOMAIN x : ~ (n <= 0)
  BY InputsAssumption
<1>6. QED
  BY <1>3, <1>4, <1>5 DEF Kept, Listed, FirstKnown, Sent, Recorded

LEMMA DispatchKept == ASSUME KeptInv, NEW r \in Runs, Dispatch(r) PROVE Kept(r)'
<1> DEFINE n == run[r].sent + 1
<1>1. TypeInv
  BY DEF KeptInv
<1>2. PICK ks \in SUBSET Keys, status \in Unresolved, first \in Keys :
          /\ first \in ks
          /\ run'[r].pc = "dispatch"
          /\ \A k \in Keys : run'[r].given[k] =
                              IF k \in ks THEN status ELSE run[r].given[k]
          /\ run'[r].first = IF run[r].first = Absent THEN first ELSE run[r].first
          /\ run'[r].excs = run[r].excs /\ run'[r].sent = n
          /\ \E role \in Roles : first = MismatchKey(run[r].excs[n], role)
  BY <1>1, DispatchLists
<1>3. status # None /\ first # Absent
  BY NoneIsNoStatus, AbsentAssumption
<1>4. CurrentKeys(r)' = CurrentKeys(r) \union ks
  BY <1>2, <1>3 DEF CurrentKeys
<1>5. run[r].sent \in Nat /\ DOMAIN run[r].excs \subseteq Nat
  BY <1>1 DEF TypeInv, TypeOK, RunRecords
<1>6. Listed(r)'
  <2>1. ASSUME NEW m \in DOMAIN run[r].excs, m <= n
        PROVE  \E role \in Roles : MismatchKey(run[r].excs[m], role) \in CurrentKeys(r)'
    <3>1. CASE m = n
      BY <1>2, <1>4, <3>1
    <3>2. CASE m <= run[r].sent
      BY <1>4, <3>2 DEF KeptInv, Kept, Listed
    <3>3. QED
      BY <1>5, <2>1, <3>1, <3>2
  <2>2. QED
    BY <1>2, <2>1 DEF Listed
<1>7. FirstKnown(r)' /\ Sent(r)' /\ Recorded(r)'
  BY <1>2, <1>3 DEF FirstKnown, Sent, Recorded
<1>8. QED
  BY <1>6, <1>7 DEF Kept

\* The steps that leave the list alone.
LEMMA QuietLists ==
    ASSUME TypeInv, NEW r \in Runs,
           \/ Decide(r) \/ EndDecide(r) \/ Look(r) \/ Record(r)
           \/ Clash(r) \/ Select(r) \/ Resolve(r) \/ Fail(r)
    PROVE  /\ run'[r].excs = run[r].excs /\ run'[r].sent = run[r].sent
           /\ run'[r].given = run[r].given /\ run'[r].first = run[r].first
           /\ \A n \in 1 .. run[r].sent : run'[r].decisions[n] = run[r].decisions[n]
<1>1. run \in [Runs -> RunRecords] /\ run[r] \in RunRecords
  BY DEF TypeInv, TypeOK
<1>2. CASE Decide(r)
  <2>1. PICK d : run'[r] = [run[r] EXCEPT !.decisions = Append(@, d)]
    BY <1>1, <1>2 DEF Decide
  <2>2. /\ run[r].decisions \in Seq(PlannerActions) /\ run[r].sent \in Nat
        /\ run[r].sent <= Len(run[r].decisions)
    BY <1>1 DEF TypeInv, TypeOK, RunRecords
  <2>3. \A n \in 1 .. run[r].sent : Append(run[r].decisions, d)[n] = run[r].decisions[n]
    BY <2>2
  <2> DEFINE ds == Append(run[r].decisions, d)
  <2>4. run'[r] = [run[r] EXCEPT !.decisions = ds]
    BY <2>1
  <2> HIDE DEF ds
  <2>5. run'[r].excs = run[r].excs /\ run'[r].sent = run[r].sent
        /\ run'[r].given = run[r].given /\ run'[r].first = run[r].first
        /\ run'[r].decisions = ds
    BY <1>1, <2>4 DEF RunRecords
  <2>6. QED
    BY <2>3, <2>5 DEF ds
<1>3. CASE EndDecide(r) \/ Record(r) \/ Clash(r) \/ Resolve(r) \/ Fail(r)
  <2>1. PICK pc : run'[r] = [run[r] EXCEPT !.pc = pc]
    BY <1>1, <1>3 DEF EndDecide, Record, Clash, Resolve, Fail, EndFailed
  <2> DEFINE me == [run[r] EXCEPT !.pc = pc]
  <2>2. me.excs = run[r].excs /\ me.sent = run[r].sent
        /\ me.given = run[r].given /\ me.first = run[r].first
        /\ me.decisions = run[r].decisions
    BY <1>1 DEF RunRecords
  <2> HIDE DEF me
  <2>3. run'[r] = me
    BY <2>1 DEF me
  <2>4. QED
    BY <2>2, <2>3
<1>4. CASE Look(r)
  <2>1. CASE run[r].first = Absent
    <3>1. run'[r] = [run[r] EXCEPT !.pc = "verify"]
      BY <1>1, <1>4, <2>1 DEF Look
    <3>2. QED
      BY <1>1, <3>1 DEF RunRecords
  <2>2. CASE run[r].first # Absent
    <3>1. PICK seen : run'[r] = [run[r] EXCEPT !.pc = "record", !.seen = seen]
      BY <1>1, <1>4, <2>2 DEF Look
    <3>2. QED
      BY <1>1, <3>1 DEF RunRecords
  <2>3. QED
    BY <2>1, <2>2
<1>5. CASE Select(r)
  BY <1>1, <1>5 DEF Select, RunRecords
<1>6. QED
  BY <1>2, <1>3, <1>4, <1>5

LEMMA QuietKept ==
    ASSUME KeptInv, RowsStay, NEW r \in Runs,
           \/ Decide(r) \/ EndDecide(r) \/ Look(r) \/ Record(r)
           \/ Clash(r) \/ Select(r) \/ Resolve(r) \/ Fail(r)
    PROVE  Kept(r)'
<1>1. run \in [Runs -> RunRecords] /\ run[r] \in RunRecords
  BY DEF KeptInv, TypeInv, TypeOK
<1>2. /\ run'[r].excs = run[r].excs /\ run'[r].sent = run[r].sent
      /\ run'[r].given = run[r].given /\ run'[r].first = run[r].first
  BY QuietLists DEF KeptInv
<1>3. Kept(r)
  BY DEF KeptInv
<1>4. /\ run'[r].pc \in {"record", "verify", "resolve", "completed"} =>
             run[r].sent = Len(run[r].excs)
      /\ run'[r].pc \in {"verify", "resolve", "completed"} =>
             \A k \in CurrentKeys(r) : log'[k] # NoRow
  <2>1. CASE Decide(r) \/ EndDecide(r) \/ Clash(r) \/ Fail(r)
    <3>1. run'[r].pc \in {"decide", "dispatch", "failed"}
      <4>1. CASE Decide(r)
        <5>1. PICK ds : run'[r] = [run[r] EXCEPT !.decisions = ds]
          BY <1>1, <4>1 DEF Decide
        <5>2. QED
          BY <1>1, <4>1, <5>1 DEF Decide, RunRecords
      <4>2. QED
        BY <1>1, <2>1, <4>1 DEF EndDecide, Clash, Fail, EndFailed, RunRecords
    <3>2. QED
      BY <3>1
  <2>2. CASE Look(r)
    <3>1. run[r].sent = Len(run[r].excs)
          /\ (run[r].first # Absent => run'[r].pc = "record")
      BY <1>1, <2>2 DEF Look, RunRecords
    <3>2. QED
      BY <1>3, <3>1 DEF Kept, FirstKnown
  <2>3. CASE Record(r)
    <3>1. run[r].pc = "record" /\ log' = Upserted(r)
      BY <2>3 DEF Record
    <3>2. \A k \in CurrentKeys(r) : log'[k].run = r
      BY <3>1 DEF Upserted, CurrentKeys
    <3>3. r # NoRow.run
      BY BoundsAssumption DEF Runs, NoRow
    <3>4. QED
      BY <1>3, <3>1, <3>2, <3>3 DEF Kept, Sent
  <2>4. CASE Select(r) \/ Resolve(r)
    <3>1. run[r].pc \in {"verify", "resolve"}
      BY <2>4 DEF Select, Resolve
    <3>2. QED
      BY <1>3, <3>1 DEF Kept, Sent, Recorded, RowsStay, CurrentKeys
  <2>5. QED
    BY <2>1, <2>2, <2>3, <2>4
<1>5. QED
  BY <1>2, <1>3, <1>4, SameListKept

LEMMA CrashKept == ASSUME KeptInv, RowsStay, NEW r \in Runs, Crash PROVE Kept(r)'
<1>1. run[r] \in RunRecords /\ Kept(r)
  BY DEF KeptInv, TypeInv, TypeOK
<1>2. run'[r] = IF Active(r) THEN [run[r] EXCEPT !.pc = "crashed"] ELSE run[r]
  BY DEF Crash
<1>3. CASE Active(r)
  <2>1. /\ run'[r].excs = run[r].excs /\ run'[r].sent = run[r].sent
        /\ run'[r].given = run[r].given /\ run'[r].first = run[r].first
        /\ run'[r].pc = "crashed"
    BY <1>1, <1>2, <1>3 DEF RunRecords
  <2>2. QED
    BY <1>1, <2>1, SameListKept
<1>4. CASE ~ Active(r)
  BY <1>1, <1>2, <1>4, OtherRunKept
<1>5. QED
  BY <1>3, <1>4

LEMMA StepKept == KeptInv /\ [Next]_vars => KeptInv'
<1> SUFFICES ASSUME KeptInv, [Next]_vars PROVE KeptInv'
  OBVIOUS
<1>1. TypeInv' /\ RowsStay /\ run \in [Runs -> RunRecords]
  BY StepTyped, NextRowsStay DEF KeptInv, TypeInv, TypeOK
<1>2. ASSUME NEW r \in Runs, Begin(r) \/ Work(r) \/ Fail(r), NEW q \in Runs
      PROVE  Kept(q)'
  <2>1. CASE q = r
    BY <1>1, <1>2, <2>1, BeginKept, DispatchKept, QuietKept DEF Work
  <2>2. CASE q # r
    <3>1. run'[q] = run[q]
      BY <1>1, <1>2, <2>2
      DEF Begin, Work, Decide, EndDecide, Dispatch, Look, Record, Clash, Select, Resolve,
          Fail, EndFailed
    <3>2. QED
      BY <1>1, <3>1, OtherRunKept DEF KeptInv
  <2>3. QED
    BY <2>1, <2>2
<1>3. ASSUME Crash, NEW q \in Runs PROVE Kept(q)'
  BY <1>1, <1>3, CrashKept
<1>4. ASSUME UNCHANGED vars, NEW q \in Runs PROVE Kept(q)'
  BY <1>1, <1>4, OtherRunKept DEF vars, KeptInv
<1>5. QED
  BY <1>1, <1>2, <1>3, <1>4 DEF Next, KeptInv

LEMMA InitKept == Init => KeptInv
<1> SUFFICES ASSUME Init PROVE KeptInv
  OBVIOUS
<1>1. \A r \in Runs : run[r] = Idle /\ CurrentKeys(r) = {}
  BY DEF Init, Idle, CurrentKeys
<1>2. \A r \in Runs : Kept(r)
  BY <1>1 DEF Kept, Listed, FirstKnown, Sent, Recorded, Idle
<1>3. QED
  BY <1>2, InitTyped DEF KeptInv

----------------------------------------------------------------------------
\* The list of a run in terms of its exceptions: a key has the status decided
\* for the last of the dispatched exceptions that have it.

Given(r) ==
    \A k \in Keys :
        \/ /\ run[r].given[k] = None
           /\ \A n \in 1 .. run[r].sent : k \notin KeysOf(r, n)
        \/ \E n \in 1 .. run[r].sent :
               /\ k \in KeysOf(r, n)
               /\ run[r].given[k] = LifeStatus(run[r].decisions[n])
               /\ \A m \in 1 .. run[r].sent : m > n => k \notin KeysOf(r, m)

GivenInv == KeptInv /\ \A r \in Runs : Given(r)

LEMMA SameGiven ==
    ASSUME NEW r \in Runs, Given(r), run'[r].excs = run[r].excs,
           run'[r].sent = run[r].sent, run'[r].given = run[r].given,
           \A n \in 1 .. run[r].sent : run'[r].decisions[n] = run[r].decisions[n]
    PROVE  Given(r)'
<1>1. \A n \in 1 .. run[r].sent : KeysOf(r, n)' = KeysOf(r, n)
  BY DEF KeysOf
<1>2. QED
  BY <1>1 DEF Given

LEMMA DispatchGiven == ASSUME GivenInv, NEW r \in Runs, Dispatch(r) PROVE Given(r)'
<1> DEFINE n == run[r].sent + 1
<1>1. TypeInv /\ Given(r) /\ run[r].sent \in Nat
  BY DEF GivenInv, KeptInv, TypeInv, TypeOK, RunRecords
<1>2. PICK e, a : e = run[r].excs[n] /\ a = run[r].decisions[n]
  OBVIOUS
<1>3. /\ \A k \in Keys : run'[r].given[k] = IF k \in TargetKeys(e, a) THEN LifeStatus(a)
                                             ELSE run[r].given[k]
      /\ run'[r].excs = run[r].excs /\ run'[r].decisions = run[r].decisions
      /\ run'[r].sent = n
  BY <1>1, <1>2, DispatchExact
<1>4. /\ \A m : KeysOf(r, m)' = KeysOf(r, m)
      /\ KeysOf(r, n) = TargetKeys(e, a)
  BY <1>2, <1>3 DEF KeysOf
<1>5. 1 .. n = (1 .. run[r].sent) \union {n} /\ \A m \in 1 .. run[r].sent : m < n
      /\ n \in 1 .. n
  BY <1>1
<1> HIDE DEF n
<1>6. ASSUME NEW k \in Keys, k \in TargetKeys(e, a)
      PROVE  /\ k \in KeysOf(r, n)
             /\ run'[r].given[k] = LifeStatus(run[r].decisions[n])
             /\ \A m \in 1 .. n : ~ m > n
  BY <1>1, <1>2, <1>3, <1>4, <1>6 DEF n
<1>7. ASSUME NEW k \in Keys, k \notin TargetKeys(e, a)
      PROVE  \/ /\ run'[r].given[k] = None
                /\ \A m \in 1 .. n : k \notin KeysOf(r, m)
             \/ \E l \in 1 .. n :
                    /\ k \in KeysOf(r, l)
                    /\ run'[r].given[k] = LifeStatus(run[r].decisions[l])
                    /\ \A m \in 1 .. n : m > l => k \notin KeysOf(r, m)
  <2>1. run'[r].given[k] = run[r].given[k] /\ k \notin KeysOf(r, n)
    BY <1>3, <1>4, <1>7
  <2>2. QED
    BY <1>1, <1>5, <2>1 DEF Given
<1>8. QED
  BY <1>3, <1>4, <1>5, <1>6, <1>7 DEF Given

LEMMA BeginGiven == ASSUME GivenInv, NEW r \in Runs, Begin(r) PROVE Given(r)'
<1>1. PICK x \in Inputs :
          run' = [run EXCEPT ![r] = [run[r] EXCEPT !.pc = "decide", !.excs = x,
                                  !.alone = \A q \in Runs : ~ Active(q)]]
  BY DEF Begin
<1>2. run \in [Runs -> RunRecords] /\ run[r] = Idle
  BY DEF GivenInv, KeptInv, TypeInv, TypeOK, Blank, Begin
<1>3. run'[r].sent = 0 /\ run'[r].given = Idle.given
  BY <1>1, <1>2 DEF Idle
<1>4. QED
  BY <1>3 DEF Given, Idle

LEMMA StepGiven == GivenInv /\ [Next]_vars => GivenInv'
<1> SUFFICES ASSUME GivenInv, [Next]_vars PROVE GivenInv'
  OBVIOUS
<1>1. KeptInv' /\ TypeInv /\ run \in [Runs -> RunRecords]
  BY StepKept DEF GivenInv, KeptInv, TypeInv, TypeOK
<1>2. ASSUME NEW r \in Runs, Begin(r) \/ Work(r) \/ Fail(r), NEW q \in Runs
      PROVE  Given(q)'
  <2>1. CASE q = r
    <3>1. CASE Begin(r)
      BY <2>1, <3>1, BeginGiven
    <3>2. CASE Dispatch(r)
      BY <2>1, <3>2, DispatchGiven
    <3>3. CASE \/ Decide(r) \/ EndDecide(r) \/ Look(r) \/ Record(r)
               \/ Clash(r) \/ Select(r) \/ Resolve(r) \/ Fail(r)
      BY <1>1, <2>1, <3>3, QuietLists, SameGiven DEF GivenInv
    <3>4. QED
      BY <1>2, <3>1, <3>2, <3>3 DEF Work
  <2>2. CASE q # r
    <3>1. run'[q] = run[q]
      BY <1>1, <1>2, <2>2
      DEF Begin, Work, Decide, EndDecide, Dispatch, Look, Record, Clash, Select, Resolve,
          Fail, EndFailed
    <3>2. QED
      BY <3>1, SameGiven DEF GivenInv
  <2>3. QED
    BY <2>1, <2>2
<1>3. ASSUME Crash, NEW q \in Runs PROVE Given(q)'
  <2>1. run'[q] = IF Active(q) THEN [run[q] EXCEPT !.pc = "crashed"] ELSE run[q]
    BY <1>3 DEF Crash
  <2>2. /\ run'[q].excs = run[q].excs /\ run'[q].sent = run[q].sent
        /\ run'[q].given = run[q].given /\ run'[q].decisions = run[q].decisions
    BY <1>1, <2>1 DEF RunRecords
  <2>3. QED
    BY <2>2, SameGiven DEF GivenInv
<1>4. ASSUME UNCHANGED vars, NEW q \in Runs PROVE Given(q)'
  BY <1>4, SameGiven DEF vars, GivenInv
<1>5. QED
  BY <1>1, <1>2, <1>3, <1>4 DEF Next, GivenInv

LEMMA AlwaysGiven == Spec => []GivenInv
<1>1. Init => GivenInv
  <2> SUFFICES ASSUME Init PROVE GivenInv
    OBVIOUS
  <2>1. \A r \in Runs : run[r].sent = 0 /\ run[r].given = Idle.given
    BY DEF Init, Idle
  <2>2. QED
    BY <2>1, InitKept DEF GivenInv, Given, Idle
<1>2. QED
  BY <1>1, StepGiven, PTL DEF Spec

\* What a completed run has listed.
LEMMA CompletedGiven ==
    ASSUME GivenInv, NEW r \in Runs, run[r].pc = "completed", NEW k \in Keys
    PROVE  IF k \in CurrentKeys(r)
           THEN \E n \in DOMAIN run[r].excs :
                   LastWith(r, k, n) /\ run[r].given[k] = LifeStatus(run[r].decisions[n])
           ELSE \A n \in DOMAIN run[r].excs : k \notin KeysOf(r, n)
<1>1. run[r].excs \in Seq(Exceptions) /\ run[r].sent = Len(run[r].excs) /\ Given(r)
  BY DEF GivenInv, KeptInv, Kept, Sent, TypeInv, TypeOK, RunRecords
<1>2. DOMAIN run[r].excs = 1 .. run[r].sent
  BY <1>1
<1>3. \A a : LifeStatus(a) # None
  BY StatusesGiven, NoneIsNoStatus
<1>4. QED
  BY <1>1, <1>2, <1>3 DEF Given, CurrentKeys, LastWith

\* A completed run has a row for every exception and every role it turned to,
\* whatever other runs inserted, resolved or crashed meanwhile: dispatch_node
\* lists every exception, its session is all or nothing, and verify_node deletes
\* nothing.
THEOREM FindsStayOnRecord == Spec => []FindsAreOnRecord
<1>1. GivenInv => FindsAreOnRecord
  <2> SUFFICES ASSUME GivenInv, NEW r \in Runs, run[r].pc = "completed",
                      NEW n \in DOMAIN run[r].excs,
                      NEW m \in DOMAIN TargetRoles(run[r].excs[n], run[r].decisions[n])
               PROVE  log[MismatchKey(run[r].excs[n],
                              TargetRoles(run[r].excs[n], run[r].decisions[n])[m])] # NoRow
    BY DEF FindsAreOnRecord
  <2> DEFINE k == MismatchKey(run[r].excs[n],
                      TargetRoles(run[r].excs[n], run[r].decisions[n])[m])
  <2>1. run[r].excs[n] \in Exceptions
    BY DEF GivenInv, KeptInv, TypeInv, TypeOK, RunRecords
  <2>2. k \in KeysOf(r, n)
    BY DEF KeysOf, TargetKeys
  <2>3. k \in Keys
    BY <2>1, <2>2, TargetsAreKeys DEF KeysOf
  <2> HIDE DEF k
  <2>4. k \in CurrentKeys(r)
    BY <2>2, <2>3, CompletedGiven
  <2>5. log[k] # NoRow
    BY <2>4 DEF GivenInv, KeptInv, Kept, Recorded
  <2>6. QED
    BY <2>5 DEF k
<1>2. QED
  BY <1>1, AlwaysGiven, PTL

----------------------------------------------------------------------------
\* A run that is alone: the log is its mirror.

\* Runs begin in order.
Ordered == \A q, r \in Runs : run[q].pc = "idle" /\ r > q => run[r].pc = "idle"

\* No other run began after r or was under way when it began.
Solo(r) == LastStarted(r) /\ run[r].alone

\* The first key looked up is one of the keys listed.
FirstIsListed(r) ==
    IF run[r].first = Absent THEN CurrentKeys(r) = {}
    ELSE run[r].first \in CurrentKeys(r)

\* Nobody writes the row between its reading and its update.
ReadIsFresh(r) ==
    run[r].pc = "record" =>
        run[r].first # Absent /\ run[r].seen = log[run[r].first]

\* The rows of r are in the log when it resolves the others.
ListIsWritten(r) ==
    run[r].pc \in {"verify", "resolve"} =>
        \A k \in CurrentKeys(r) : log[k] = [status |-> run[r].given[k], run |-> r]

SelectionIsFresh(r) == run[r].pc = "resolve" => run[r].stale = Stale(r)

Mirrors(r) ==
    run[r].pc = "completed" =>
        \A k \in Keys :
            IF k \in CurrentKeys(r)
            THEN log[k] = [status |-> run[r].given[k], run |-> r]
            ELSE log[k].status \notin Unresolved

Progress(r) ==
    /\ FirstIsListed(r)
    /\ ReadIsFresh(r)
    /\ ListIsWritten(r)
    /\ SelectionIsFresh(r)
    /\ Mirrors(r)

SerialInv ==
    /\ TypeInv
    /\ Ordered
    /\ \A r \in Runs : Solo(r) =>
           Progress(r) /\ \A q \in Runs : q # r => ~ Active(q)

LEMMA InitSerial == Init => SerialInv
<1> SUFFICES ASSUME Init PROVE SerialInv
  OBVIOUS
<1>1. \A r \in Runs : run[r].pc = "idle"
  BY DEF Init, Idle
<1>2. TypeInv
  BY InitTyped
<1>3. QED
  BY <1>1, <1>2 DEF SerialInv, Ordered, Solo, LastStarted

\* A step of a run under way: another run that is alone is not disturbed.
LEMMA OneRunSteps ==
    ASSUME SerialInv, TypeInv', NEW r \in Runs, Active(r),
           \A q \in Runs : q # r => run'[q] = run[q],
           run'[r].pc # "idle", run'[r].alone = run[r].alone,
           Solo(r) => Progress(r)'
    PROVE  SerialInv'
<1>1. \A q \in Runs : run'[q].pc = "idle" <=> run[q].pc = "idle"
  BY DEF Active
<1>2. \A q \in Runs : Solo(q)' <=> Solo(q)
  BY <1>1 DEF Solo, LastStarted
<1>3. Ordered'
  BY <1>1 DEF SerialInv, Ordered
<1>4. ASSUME NEW q \in Runs, Solo(q)'
      PROVE  Progress(q)' /\ \A p \in Runs : p # q => ~ Active(p)'
  <2>1. Solo(q) /\ q = r
    BY <1>2, <1>4 DEF SerialInv
  <2>2. QED
    BY <2>1 DEF SerialInv, Active
<1>5. QED
  BY <1>3, <1>4 DEF SerialInv

\* A step of the last run that moves it on without touching its list.
LEMMA ListStays ==
    ASSUME NEW r \in Runs, FirstIsListed(r),
           run'[r].given = run[r].given, run'[r].first = run[r].first
    PROVE  FirstIsListed(r)'
BY DEF FirstIsListed, CurrentKeys

LEMMA BeginSerial ==
    ASSUME SerialInv, TypeInv', NEW r \in Runs, Begin(r)
    PROVE  SerialInv'
<1>0. run \in [Runs -> RunRecords] /\ run[r] = Idle /\ run[r] \in RunRecords
  BY DEF SerialInv, TypeInv, TypeOK, Blank, Begin
<1>1. PICK x \in Inputs, n \in FuzzyCalls :
          run' = [run EXCEPT ![r] = [run[r] EXCEPT !.pc = "decide", !.excs = x,
                                  !.alone = \A q \in Runs : ~ Active(q)]]
  BY DEF Begin
<1>2. n \in Nat /\ x \in Seq(Exceptions)
  BY BoundsAssumption, InputsAssumption
<1> DEFINE me == [run[r] EXCEPT !.pc = "decide", !.excs = x,
                                  !.alone = \A q \in Runs : ~ Active(q)]
<1>3. me.pc = "decide" /\ me.given = Idle.given /\ me.first = Idle.first
  BY <1>0, <1>2 DEF RunRecords, Nodes
<1> HIDE DEF me
<1>4. run'[r] = me /\ \A q \in Runs : q # r => run'[q] = run[q]
  BY <1>0, <1>1 DEF me
<1>5. me.alone => \A q \in Runs : ~ Active(q)
  BY <1>0 DEF me, RunRecords
<1>6. LastStarted(r)'
  <2>1. \A q \in Runs : q > r => run[q].pc = "idle"
    BY DEF SerialInv, Ordered, Begin
  <2>2. \A q \in Runs : q > r => q # r
    BY BoundsAssumption DEF Runs
  <2>3. QED
    BY <1>3, <1>4, <2>1, <2>2 DEF LastStarted
<1>7. Progress(r)'
  <2>1. FirstIsListed(r)'
    BY <1>3, <1>4 DEF FirstIsListed, CurrentKeys, Idle
  <2>2. QED
    BY <1>3, <1>4, <2>1 DEF Progress, ReadIsFresh, ListIsWritten, SelectionIsFresh,
                            Mirrors
<1>8. Ordered'
  <2>1. \A q \in Runs : q < r => run'[q].pc # "idle"
    BY <1>4 DEF Begin
  <2>2. \A p, q \in Runs : p \in Int /\ q \in Int /\ r \in Int
    BY BoundsAssumption DEF Runs
  <2>3. \A q \in Runs : q > r => run'[q].pc = "idle"
    BY <1>6 DEF LastStarted
  <2>4. run'[r].pc # "idle"
    BY <1>3, <1>4
  <2>5. QED
    BY <2>1, <2>2, <2>3, <2>4 DEF Ordered
<1>9. Solo(r)' => \A q \in Runs : q # r => ~ Active(q)'
  BY <1>4, <1>5 DEF Solo, Active
<1>10. \A q \in Runs : LastStarted(q)' => q = r
  <2>1. \A q \in Runs : q \in Int /\ r \in Int
    BY BoundsAssumption DEF Runs
  <2>2. run'[r].pc # "idle"
    BY <1>3, <1>4
  <2>3. \A q \in Runs : q < r => ~ LastStarted(q)'
    BY <2>1, <2>2 DEF LastStarted
  <2>4. \A q \in Runs : q > r => ~ LastStarted(q)'
    BY <1>6 DEF LastStarted
  <2>5. QED
    BY <2>1, <2>3, <2>4
<1>11. QED
  BY <1>7, <1>8, <1>9, <1>10 DEF SerialInv, Solo

\* Steps that leave the list, the log and what was read as they are.
LEMMA QuietSerial ==
    ASSUME NEW r \in Runs, Progress(r), log' = log,
           run'[r].given = run[r].given, run'[r].first = run[r].first,
           run'[r].pc \in {"decide", "dispatch", "failed", "crashed"}
    PROVE  Progress(r)'
<1>1. FirstIsListed(r)'
  BY ListStays DEF Progress
<1>2. QED
  BY <1>1 DEF Progress, ReadIsFresh, ListIsWritten, SelectionIsFresh, Mirrors

LEMMA DispatchSerial ==
    ASSUME TypeInv, NEW r \in Runs, Progress(r), Dispatch(r)
    PROVE  Progress(r)'
<1>1. PICK ks \in SUBSET Keys : \E status \in Unresolved, first \in ks :
          /\ run'[r].pc = "dispatch"
          /\ \A k \in Keys : run'[r].given[k] =
                              IF k \in ks THEN status ELSE run[r].given[k]
          /\ run'[r].first = IF run[r].first = Absent THEN first ELSE run[r].first
  BY DispatchLists
<1>2. PICK status \in Unresolved, first \in ks :
          /\ run'[r].pc = "dispatch"
          /\ \A k \in Keys : run'[r].given[k] =
                              IF k \in ks THEN status ELSE run[r].given[k]
          /\ run'[r].first = IF run[r].first = Absent THEN first ELSE run[r].first
  BY <1>1
<1>3. status # None /\ first # Absent
  BY NoneIsNoStatus, AbsentAssumption
<1>4. run'[r].first # Absent
  BY <1>2, <1>3
<1>5. run'[r].first \in Keys /\ run'[r].given[run'[r].first] # None
  <2>1. CASE run[r].first = Absent
    BY <1>2, <1>3, <2>1
  <2>2. CASE run[r].first # Absent
    BY <1>2, <1>3, <2>2 DEF Progress, FirstIsListed, CurrentKeys
  <2>3. QED
    BY <2>1, <2>2
<1>6. FirstIsListed(r)'
  BY <1>4, <1>5 DEF FirstIsListed, CurrentKeys
<1>7. QED
  BY <1>2, <1>6 DEF Progress, ReadIsFresh, ListIsWritten, SelectionIsFresh, Mirrors

LEMMA LookSerial ==
    ASSUME TypeInv, NEW r \in Runs, Progress(r), Look(r)
    PROVE  Progress(r)'
<1>1. run \in [Runs -> RunRecords] /\ run[r] \in RunRecords
  BY DEF TypeInv, TypeOK
<1>2. CASE run[r].first = Absent
  <2>1. run'[r].pc = "verify" /\ run'[r].given = run[r].given
        /\ run'[r].first = run[r].first
    BY <1>1, <1>2 DEF Look, RunRecords
  <2>2. FirstIsListed(r)'
    BY <2>1, ListStays DEF Progress
  <2>3. CurrentKeys(r)' = {}
    BY <1>2, <2>1, <2>2 DEF FirstIsListed
  <2>4. QED
    BY <2>1, <2>2, <2>3 DEF Progress, ReadIsFresh, ListIsWritten, SelectionIsFresh,
                            Mirrors
<1>3. CASE run[r].first # Absent
  <2>1. /\ run'[r].pc = "record" /\ run'[r].given = run[r].given
        /\ run'[r].first = run[r].first
        /\ run'[r].seen = log[run[r].first] /\ log' = log
    BY <1>1, <1>3 DEF Look, RunRecords
  <2>2. FirstIsListed(r)'
    BY <2>1, ListStays DEF Progress
  <2>3. QED
    BY <1>3, <2>1, <2>2 DEF Progress, ReadIsFresh, ListIsWritten, SelectionIsFresh,
                            Mirrors
<1>4. QED
  BY <1>2, <1>3

LEMMA RecordSerial ==
    ASSUME TypeInv, NEW r \in Runs, Progress(r), Record(r)
    PROVE  Progress(r)'
<1>1. run \in [Runs -> RunRecords] /\ run[r] \in RunRecords
  BY DEF TypeInv, TypeOK
<1>2. run'[r].pc = "verify" /\ run'[r].given = run[r].given
      /\ run'[r].first = run[r].first
  BY <1>1 DEF Record, RunRecords
<1>3. FirstIsListed(r)'
  BY <1>2, ListStays DEF Progress
<1>4. run[r].first # Absent /\ run[r].seen = log[run[r].first]
  BY DEF Record, Progress, ReadIsFresh
<1>5. ASSUME NEW k \in CurrentKeys(r)
      PROVE  log'[k] = [status |-> run[r].given[k], run |-> r]
  <2>1. KeepsStatus(r, k) => log[k].status = run[r].given[k]
    BY <1>4 DEF KeepsStatus
  <2>2. k \in Keys
    BY DEF CurrentKeys
  <2>3. log'[k] = [status |-> IF KeepsStatus(r, k) THEN log[k].status
                             ELSE run[r].given[k], run |-> r]
    BY <2>2 DEF Record, Upserted
  <2>4. QED
    BY <2>1, <2>3
<1>6. ListIsWritten(r)'
  BY <1>2, <1>5 DEF ListIsWritten, CurrentKeys
<1>7. QED
  BY <1>2, <1>3, <1>6 DEF Progress, ReadIsFresh, SelectionIsFresh, Mirrors

LEMMA SelectSerial ==
    ASSUME TypeInv, NEW r \in Runs, Progress(r), Select(r)
    PROVE  Progress(r)'
<1>1. run \in [Runs -> RunRecords] /\ run[r] \in RunRecords
  BY DEF TypeInv, TypeOK
<1>2. run'[r].pc = "resolve" /\ run'[r].given = run[r].given
      /\ run'[r].first = run[r].first /\ run'[r].stale = Stale(r) /\ log' = log
  BY <1>1 DEF Select, RunRecords
<1>3. FirstIsListed(r)'
  BY <1>2, ListStays DEF Progress
<1>4. ListIsWritten(r)'
  BY <1>2 DEF Select, Progress, ListIsWritten, CurrentKeys
<1>5. SelectionIsFresh(r)'
  BY <1>2 DEF SelectionIsFresh, Stale, CurrentKeys
<1>6. QED
  BY <1>2, <1>3, <1>4, <1>5 DEF Progress, ReadIsFresh, Mirrors

LEMMA ResolveSerial ==
    ASSUME TypeInv, NEW r \in Runs, Progress(r), Resolve(r)
    PROVE  Progress(r)'
<1>1. run \in [Runs -> RunRecords] /\ run[r] \in RunRecords
  BY DEF TypeInv, TypeOK
<1>2. run'[r].pc = "completed" /\ run'[r].given = run[r].given
      /\ run'[r].first = run[r].first
  BY <1>1 DEF Resolve, RunRecords
<1>3. FirstIsListed(r)'
  BY <1>2, ListStays DEF Progress
<1>4. ASSUME NEW k \in Keys
      PROVE  IF k \in CurrentKeys(r)
             THEN log'[k] = [status |-> run[r].given[k], run |-> r]
             ELSE log'[k].status \notin Unresolved
  <2>1. log'[k] = IF k \in Stale(r) THEN [status |-> "RESOLVED", run |-> r] ELSE log[k]
    BY DEF Resolve, Resolved, Progress, SelectionIsFresh
  <2>2. CASE k \in CurrentKeys(r)
    BY <2>1, <2>2 DEF Stale, Resolve, Progress, ListIsWritten
  <2>3. CASE k \notin CurrentKeys(r)
    <3>1. "RESOLVED" \notin Unresolved
      BY DEF Unresolved
    <3>2. QED
      BY <2>1, <2>3, <3>1 DEF Stale
  <2>4. QED
    BY <2>2, <2>3
<1>5. Mirrors(r)'
  BY <1>2, <1>4 DEF Mirrors, CurrentKeys
<1>6. QED
  BY <1>2, <1>3, <1>5 DEF Progress, ReadIsFresh, ListIsWritten, SelectionIsFresh

LEMMA CrashSerial == ASSUME SerialInv, TypeInv', Crash PROVE SerialInv'
<1>1. run \in [Runs -> RunRecords]
  BY DEF SerialInv, TypeInv, TypeOK
<1>2. ASSUME NEW r \in Runs
      PROVE  /\ run'[r].pc = IF Active(r) THEN "crashed" ELSE run[r].pc
             /\ run'[r].given = run[r].given
             /\ run'[r].first = run[r].first
             /\ run'[r].seen = run[r].seen
             /\ run'[r].stale = run[r].stale
             /\ run'[r].alone = run[r].alone
  <2>1. run[r] \in RunRecords
    BY <1>1
  <2>2. run'[r] = IF Active(r) THEN [run[r] EXCEPT !.pc = "crashed"] ELSE run[r]
    BY DEF Crash
  <2>3. QED
    BY <2>1, <2>2 DEF RunRecords
<1>3. \A r \in Runs : run'[r].pc = "idle" <=> run[r].pc = "idle"
  BY <1>2 DEF Active
<1>4. Ordered' /\ \A r \in Runs : Solo(r)' => Solo(r)
  BY <1>2, <1>3 DEF SerialInv, Ordered, Solo, LastStarted
<1>5. \A r \in Runs : ~ Active(r)'
  BY <1>2 DEF Active, Ended
<1>6. log' = log
  BY DEF Crash
<1>7. ASSUME NEW r \in Runs, Solo(r)' PROVE Progress(r)'
  <2>1. Progress(r)
    BY <1>4, <1>7 DEF SerialInv
  <2>2. CASE Active(r)
    BY <1>2, <1>6, <2>1, <2>2, QuietSerial
  <2>3. CASE ~ Active(r)
    <3>1. FirstIsListed(r)'
      BY <1>2, <2>1, ListStays DEF Progress
    <3>2. run'[r].pc = run[r].pc
      BY <1>2, <2>3
    <3>3. \A k \in Keys : (k \in CurrentKeys(r))' <=> k \in CurrentKeys(r)
      BY <1>2 DEF CurrentKeys
    <3>4. Mirrors(r)'
      BY <1>2, <1>6, <2>1, <3>2 DEF Progress, Mirrors, CurrentKeys
    <3>5. ReadIsFresh(r)' /\ ListIsWritten(r)' /\ SelectionIsFresh(r)'
      <4>1. run[r].pc \notin {"record", "verify", "resolve"}
        <5>1. run[r].pc \in Ended \union {"idle"}
          BY <2>3 DEF Active
        <5>2. QED
          BY <5>1 DEF Ended
      <4>2. QED
        BY <3>2, <4>1 DEF ReadIsFresh, ListIsWritten, SelectionIsFresh
    <3>6. QED
      BY <3>1, <3>4, <3>5 DEF Progress
  <2>4. QED
    BY <2>2, <2>3
<1>8. QED
  BY <1>4, <1>5, <1>7 DEF SerialInv

LEMMA StutterSerial == ASSUME SerialInv, TypeInv', UNCHANGED vars PROVE SerialInv'
<1>1. log' = log /\ run' = run
  BY DEF vars
<1>2. Ordered' /\ \A r \in Runs : Solo(r)' => Solo(r)
  BY <1>1 DEF SerialInv, Ordered, Solo, LastStarted
<1>3. ASSUME NEW r \in Runs, Progress(r) PROVE Progress(r)'
  BY <1>1, <1>3 DEF Progress, FirstIsListed, ReadIsFresh, ListIsWritten,
                    SelectionIsFresh, Mirrors, CurrentKeys, Stale
<1>4. QED
  BY <1>1, <1>2, <1>3 DEF SerialInv, Active

\* A step of the graph, or the failure of a run that is under way: it leaves the
\* other runs as they are.
LEMMA GraphMoves ==
    ASSUME TypeInv, NEW r \in Runs, Work(r) \/ Fail(r)
    PROVE  /\ Active(r)
           /\ \A q \in Runs : q # r => run'[q] = run[q]
           /\ run'[r].pc # "idle" /\ run'[r].alone = run[r].alone
<1>1. run \in [Runs -> RunRecords] /\ run[r] \in RunRecords
  BY DEF TypeInv, TypeOK
<1>2. Active(r)
  BY DEF Work, Fail, Decide, EndDecide, Dispatch, Look, Record, Clash, Select,
         Resolve, Active, Ended
<1>4. \A q \in Runs : q # r => run'[q] = run[q]
  BY <1>1 DEF Work, Fail, Decide, EndDecide, Dispatch, Look, Record, Clash, Select,
              Resolve, EndFailed
<1>5. run'[r].pc # "idle" /\ run'[r].alone = run[r].alone
  <2>1. CASE Decide(r)
    <3>1. PICK ds : run' = [run EXCEPT ![r] = [run[r] EXCEPT !.decisions = ds]]
      BY <2>1 DEF Decide
    <3> DEFINE me == [run[r] EXCEPT !.decisions = ds]
    <3>2. me.pc = run[r].pc /\ me.alone = run[r].alone
      BY <1>1 DEF RunRecords
    <3> HIDE DEF me
    <3>3. run'[r] = me
      BY <1>1, <3>1 DEF me
    <3>4. QED
      BY <2>1, <3>2, <3>3 DEF Decide
  <2>2. CASE Dispatch(r)
    BY <1>1, <2>2 DEF Dispatch, List, RunRecords
  <2>3. CASE Look(r)
    BY <1>1, <2>3 DEF Look, RunRecords
  <2>4. CASE EndDecide(r) \/ Record(r) \/ Select(r) \/ Resolve(r)
    BY <1>1, <2>4 DEF EndDecide, Record, Select, Resolve, RunRecords
  <2>5. CASE Clash(r) \/ Fail(r)
    BY <1>1, <2>5 DEF Clash, Fail, EndFailed, RunRecords
  <2>6. QED
    BY <2>1, <2>2, <2>3, <2>4, <2>5 DEF Work
<1>6. QED
  BY <1>2, <1>4, <1>5

\* It does no harm to a run that is alone.
LEMMA GraphSerial ==
    ASSUME SerialInv, TypeInv', NEW r \in Runs, Work(r) \/ Fail(r)
    PROVE  SerialInv'
<1>1. run \in [Runs -> RunRecords] /\ run[r] \in RunRecords /\ TypeInv
  BY DEF SerialInv, TypeInv, TypeOK
<1>2. Active(r)
  BY <1>1, GraphMoves
<1>4. \A q \in Runs : q # r => run'[q] = run[q]
  BY <1>1, GraphMoves
<1>5. run'[r].pc # "idle" /\ run'[r].alone = run[r].alone
  BY <1>1, GraphMoves
<1>6. ASSUME Progress(r) PROVE Progress(r)'
  <2>1. CASE Decide(r)
    <3>1. PICK ds : run' = [run EXCEPT ![r] = [run[r] EXCEPT !.decisions = ds]]
      BY <2>1 DEF Decide
    <3>2. run'[r].pc = "decide" /\ run'[r].given = run[r].given
          /\ run'[r].first = run[r].first
      <4> DEFINE me == [run[r] EXCEPT !.decisions = ds]
      <4>1. me.pc = run[r].pc /\ me.given = run[r].given /\ me.first = run[r].first
        BY <1>1 DEF RunRecords
      <4> HIDE DEF me
      <4>2. run'[r] = me
        BY <1>1, <3>1 DEF me
      <4>3. QED
        BY <2>1, <4>1, <4>2 DEF Decide
    <3>3. log' = log
      BY <2>1 DEF Decide
    <3>4. QED
      BY <1>6, <3>2, <3>3, QuietSerial
  <2>2. CASE EndDecide(r)
    <3>1. run'[r].pc = "dispatch" /\ run'[r].given = run[r].given
          /\ run'[r].first = run[r].first /\ log' = log
      BY <1>1, <2>2 DEF EndDecide, RunRecords
    <3>2. QED
      BY <1>6, <3>1, QuietSerial
  <2>3. CASE Dispatch(r)
    <3>1. run'[r].pc = "dispatch"
      BY <1>1, <2>3, DispatchLists
    <3>2. QED
      BY <1>1, <1>6, <2>3, <3>1, DispatchSerial
  <2>4. CASE Look(r)
    <3>1. run'[r].pc # "idle"
      BY <1>1, <2>4 DEF Look, RunRecords
    <3>2. QED
      BY <1>1, <1>6, <2>4, <3>1, LookSerial
  <2>5. CASE Record(r)
    <3>1. run'[r].pc # "idle"
      BY <1>1, <2>5 DEF Record, RunRecords
    <3>2. QED
      BY <1>1, <1>6, <2>5, <3>1, RecordSerial
  <2>6. CASE Select(r)
    <3>1. run'[r].pc # "idle"
      BY <1>1, <2>6 DEF Select, RunRecords
    <3>2. QED
      BY <1>1, <1>6, <2>6, <3>1, SelectSerial
  <2>7. CASE Resolve(r)
    <3>1. run'[r].pc # "idle"
      BY <1>1, <2>7 DEF Resolve, RunRecords
    <3>2. QED
      BY <1>1, <1>6, <2>7, <3>1, ResolveSerial
  <2>8. CASE Clash(r) \/ Fail(r)
    <3>1. run'[r].pc = "failed" /\ run'[r].given = run[r].given
          /\ run'[r].first = run[r].first /\ log' = log
      BY <1>1, <2>8 DEF Clash, Fail, EndFailed, RunRecords
    <3>2. QED
      BY <1>6, <3>1, QuietSerial
  <2>9. QED
    BY <2>1, <2>2, <2>3, <2>4, <2>5, <2>6, <2>7, <2>8 DEF Work
<1>7. Solo(r) => Progress(r)
  BY DEF SerialInv
<1>8. QED
  BY <1>2, <1>4, <1>5, <1>6, <1>7, OneRunSteps

LEMMA StepSerial == SerialInv /\ [Next]_vars => SerialInv'
<1> SUFFICES ASSUME SerialInv, [Next]_vars PROVE SerialInv'
  OBVIOUS
<1>1. TypeInv'
  BY StepTyped DEF SerialInv
<1>2. ASSUME NEW r \in Runs, Begin(r) PROVE SerialInv'
  BY <1>1, <1>2, BeginSerial
<1>3. ASSUME NEW r \in Runs, Work(r) \/ Fail(r) PROVE SerialInv'
  BY <1>1, <1>3, GraphSerial
<1>4. CASE Crash
  BY <1>1, <1>4, CrashSerial
<1>5. CASE UNCHANGED vars
  BY <1>1, <1>5, StutterSerial
<1>6. QED
  BY <1>2, <1>3, <1>4, <1>5 DEF Next

\* The exception log mirrors the last run when no other run was under way with
\* it, whatever failed, crashed or overlapped before and at whichever step.
THEOREM LogMirrors == Spec => []LogMirrorsLastRun
<1>1. SerialInv /\ GivenInv => LogMirrorsLastRun
  <2> SUFFICES ASSUME SerialInv, GivenInv, NEW r \in Runs, Solo(r),
                      run[r].pc = "completed", NEW k \in Keys
               PROVE  \/ \E n \in DOMAIN run[r].excs :
                             /\ LastWith(r, k, n)
                             /\ log[k] = [status |-> LifeStatus(run[r].decisions[n]),
                                          run |-> r]
                      \/ /\ \A n \in DOMAIN run[r].excs : k \notin KeysOf(r, n)
                         /\ log[k].status \notin Unresolved
    BY DEF LogMirrorsLastRun, Solo
  <2>1. IF k \in CurrentKeys(r)
        THEN log[k] = [status |-> run[r].given[k], run |-> r]
        ELSE log[k].status \notin Unresolved
    BY DEF SerialInv, Progress, Mirrors
  <2>2. QED
    BY <2>1, CompletedGiven
<1>2. QED
  BY <1>1, InitSerial, StepSerial, AlwaysGiven, PTL DEF Spec

----------------------------------------------------------------------------
\* Runs that follow one another.

\* Every run has the database to itself, and only the last one is under way.
OneAtATime ==
    \A r \in Runs : /\ run[r].pc # "idle" => run[r].alone
                    /\ Active(r) => LastStarted(r)

Unrecorded == {"idle", "decide", "dispatch", "record"}

\* A row names a run that has recorded its finds.
NamesRecorded ==
    \A k \in Keys : log[k] # NoRow =>
        log[k].run \in Runs /\ run[log[k].run].pc \notin Unrecorded

SightInv == SerialInv /\ OneAtATime /\ NamesRecorded /\ SightingSurvives

LEMMA InitSight == Init => SightInv
<1> SUFFICES ASSUME Init PROVE SightInv
  OBVIOUS
<1>1. \A r \in Runs : run[r].pc = "idle"
  BY DEF Init, Idle
<1>2. \A k \in Keys : log[k] = NoRow /\ log[k].status # "RESOLVED"
  BY DEF Init, NoRow, None
<1>3. QED
  BY <1>1, <1>2, InitSerial
  DEF SightInv, OneAtATime, NamesRecorded, SightingSurvives, Active

\* The only run under way has what LogMirrors says of a run that is alone.
LEMMA ActiveIsSolo ==
    ASSUME SightInv, NEW r \in Runs, Active(r)
    PROVE  Progress(r)
<1>1. Solo(r)
  BY DEF SightInv, OneAtATime, Solo, Active
<1>2. QED
  BY <1>1 DEF SightInv, SerialInv

\* What was recorded or resolved stays so while the log is left alone.
LEMMA LogStays ==
    ASSUME SightInv, log' = log,
           \A r \in Runs : run[r].pc \notin Unrecorded =>
               run'[r].pc \notin Unrecorded /\ CurrentKeys(r)' = CurrentKeys(r)
    PROVE  NamesRecorded' /\ SightingSurvives'
<1>1. NamesRecorded'
  BY DEF SightInv, NamesRecorded
<1>2. ASSUME NEW k \in Keys, log[k].status = "RESOLVED"
      PROVE  k \notin CurrentKeys(log[k].run)'
  <2>1. k \notin CurrentKeys(log[k].run)
    BY <1>2 DEF SightInv, SightingSurvives
  <2>2. log[k] # NoRow
    BY <1>2 DEF NoRow, None
  <2>3. QED
    BY <2>1, <2>2 DEF SightInv, NamesRecorded
<1>3. QED
  BY <1>1, <1>2 DEF SightingSurvives

\* A run that begins finds no other under way.
LEMMA BeginSight ==
    ASSUME MaxActive <= 1, SightInv, SerialInv', NEW r \in Runs, Begin(r)
    PROVE  SightInv'
<1>0. run \in [Runs -> RunRecords] /\ run[r] \in RunRecords
  BY DEF SightInv, SerialInv, TypeInv, TypeOK
<1>1. \A q \in Runs : ~ Active(q)
  <2> DEFINE under == {q \in Runs : Active(q)}
  <2>1. IsFiniteSet(under)
    <3>1. IsFiniteSet(Runs)
      BY FS_Interval, BoundsAssumption DEF Runs
    <3>2. QED
      BY <3>1, FS_Subset
  <2>2. Cardinality(under) < 1 /\ Cardinality(under) \in Nat
    <3>1. Cardinality(under) < MaxActive /\ MaxActive \in Nat
      BY BoundsAssumption DEF Begin
    <3>2. Cardinality(under) \in Nat
      BY <2>1, FS_CardinalityType
    <3>3. QED
      BY <3>1, <3>2
  <2>3. under = {}
    BY <2>1, <2>2, FS_EmptySet
  <2>4. QED
    BY <2>3
<1>2. PICK x \in Inputs : run' = [run EXCEPT ![r] =
          [run[r] EXCEPT !.pc = "decide", !.excs = x, !.alone = \A q \in Runs : ~ Active(q)]]
  BY DEF Begin
<1> DEFINE me == [run[r] EXCEPT !.pc = "decide", !.excs = x,
                                !.alone = \A q \in Runs : ~ Active(q)]
<1>3. me.pc = "decide" /\ me.given = run[r].given /\ (me.alone <=> \A q \in Runs : ~ Active(q))
  BY <1>0 DEF RunRecords
<1> HIDE DEF me
<1>4. run'[r] = me /\ \A q \in Runs : q # r => run'[q] = run[q]
  BY <1>0, <1>2 DEF me
<1>5. run'[r].alone /\ run'[r].pc = "decide"
  BY <1>1, <1>3, <1>4
<1>6. OneAtATime'
  <2>1. LastStarted(r)'
    <3>1. \A q \in Runs : q > r => run[q].pc = "idle" /\ q # r
      BY DEF SightInv, SerialInv, Ordered, Begin, Runs
    <3>2. QED
      BY <1>4, <1>5, <3>1 DEF LastStarted
  <2>2. \A q \in Runs : q # r => ~ Active(q)'
    BY <1>1, <1>4 DEF Active
  <2>3. QED
    BY <1>4, <1>5, <2>1, <2>2 DEF SightInv, OneAtATime
<1>7. \A q \in Runs : run[q].pc \notin Unrecorded => q # r
  BY DEF Begin, Unrecorded
<1>8. \A q \in Runs : run[q].pc \notin Unrecorded =>
          run'[q].pc \notin Unrecorded /\ CurrentKeys(q)' = CurrentKeys(q)
  BY <1>4, <1>7 DEF CurrentKeys
<1>9. log' = log
  BY DEF Begin
<1>10. NamesRecorded' /\ SightingSurvives'
  BY <1>8, <1>9, LogStays
<1>11. QED
  BY <1>6, <1>10 DEF SightInv

\* What a step of the one run under way, or a crash, leaves of OneAtATime.
LEMMA StaysInTurn ==
    ASSUME SightInv,
           \A q \in Runs : /\ run'[q].pc = "idle" <=> run[q].pc = "idle"
                           /\ run'[q].alone = run[q].alone
                           /\ Active(q)' => Active(q)
    PROVE  OneAtATime'
BY DEF SightInv, OneAtATime, LastStarted

\* What was resolved stays so for the runs that list nothing new.
LEMMA ListsStand ==
    ASSUME SightInv, \A q \in Runs : CurrentKeys(q)' = CurrentKeys(q),
           \A k \in Keys : \/ log'[k] = log[k]
                           \/ log'[k].status # "RESOLVED"
                           \/ \E q \in Runs : log'[k].run = q /\ k \notin CurrentKeys(q)
    PROVE  SightingSurvives'
<1>1. ASSUME NEW k \in Keys, log'[k].status = "RESOLVED"
      PROVE  run'[log'[k].run].given[k] = None
  <2>1. CASE log'[k] = log[k]
    <3>1. k \notin CurrentKeys(log[k].run)
      BY <1>1, <2>1 DEF SightInv, SightingSurvives
    <3>2. log[k] # NoRow
      BY <1>1, <2>1 DEF NoRow, None
    <3>3. log[k].run \in Runs
      BY <3>2 DEF SightInv, NamesRecorded
    <3>4. PICK q \in Runs : q = log[k].run
      BY <3>3
    <3>5. CurrentKeys(q)' = CurrentKeys(q) /\ log'[k].run = q /\ k \notin CurrentKeys(q)
      BY <2>1, <3>1, <3>4
    <3>6. QED
      BY <3>5 DEF CurrentKeys
  <2>2. CASE \E q \in Runs : log'[k].run = q /\ k \notin CurrentKeys(q)
    <3>1. PICK q \in Runs : log'[k].run = q /\ k \notin CurrentKeys(q)
      BY <2>2
    <3>2. CurrentKeys(q)' = CurrentKeys(q)
      OBVIOUS
    <3>3. QED
      BY <3>1, <3>2 DEF CurrentKeys
  <2>3. QED
    BY <1>1, <2>1, <2>2
<1>2. QED
  BY <1>1 DEF SightingSurvives, CurrentKeys

\* Its finds are written with the statuses it gave them.
LEMMA RecordSight ==
    ASSUME SightInv, NEW r \in Runs, Record(r)
    PROVE  NamesRecorded' /\ SightingSurvives'
<1>1. run \in [Runs -> RunRecords] /\ run[r] \in RunRecords
  BY DEF SightInv, SerialInv, TypeInv, TypeOK
<1>2. /\ run'[r].pc = "verify" /\ run'[r].given = run[r].given
      /\ \A q \in Runs : q # r => run'[q] = run[q]
  BY <1>1 DEF Record, RunRecords
<1>3. \A q \in Runs : CurrentKeys(q)' = CurrentKeys(q)
  BY <1>2 DEF CurrentKeys
<1>4. run[r].seen = log[run[r].first]
  BY ActiveIsSolo DEF Active, Ended, Record, Progress, ReadIsFresh
<1>5. ASSUME NEW k \in CurrentKeys(r)
      PROVE  log'[k].run = r /\ log'[k].status # "RESOLVED"
  <2>1. k \in Keys /\ run[r].given[k] \in Unresolved
    BY <1>1 DEF CurrentKeys, RunRecords
  <2>2. KeepsStatus(r, k) => log[k].status = run[r].given[k]
    BY <1>4 DEF KeepsStatus
  <2>3. log'[k] = [status |-> run[r].given[k], run |-> r]
    BY <2>1, <2>2 DEF Record, Upserted
  <2>4. QED
    BY <2>1, <2>3 DEF Unresolved
<1>6. \A k \in Keys : k \notin CurrentKeys(r) => log'[k] = log[k]
  BY DEF Record, Upserted
<1>7. "verify" \notin Unrecorded /\ "record" \in Unrecorded
  BY DEF Unrecorded
<1>8. NamesRecorded'
  BY <1>2, <1>5, <1>6, <1>7 DEF SightInv, NamesRecorded, Record
<1>9. SightingSurvives'
  <2>1. \A k \in Keys : log'[k] = log[k] \/ log'[k].status # "RESOLVED"
    BY <1>5, <1>6
  <2>2. QED
    BY <1>3, <2>1, ListsStand
<1>10. QED
  BY <1>8, <1>9

\* It resolves what it did not find.
LEMMA ResolveSight ==
    ASSUME SightInv, NEW r \in Runs, Resolve(r)
    PROVE  NamesRecorded' /\ SightingSurvives'
<1>1. run \in [Runs -> RunRecords] /\ run[r] \in RunRecords
  BY DEF SightInv, SerialInv, TypeInv, TypeOK
<1>2. /\ run'[r].pc = "completed" /\ run'[r].given = run[r].given
      /\ \A q \in Runs : q # r => run'[q] = run[q]
  BY <1>1 DEF Resolve, RunRecords
<1>3. \A q \in Runs : CurrentKeys(q)' = CurrentKeys(q)
  BY <1>2 DEF CurrentKeys
<1>4. run[r].stale = Stale(r)
  BY ActiveIsSolo DEF Active, Ended, Resolve, Progress, SelectionIsFresh
<1>5. \A k \in Keys : log'[k] = IF k \in Stale(r) THEN [status |-> "RESOLVED", run |-> r]
                                ELSE log[k]
  BY <1>4 DEF Resolve, Resolved
<1>6. \A k \in Stale(r) : k \notin CurrentKeys(r)
  BY DEF Stale
<1>7. "completed" \notin Unrecorded
  BY DEF Unrecorded
<1>8. NamesRecorded'
  BY <1>2, <1>5, <1>7 DEF SightInv, NamesRecorded, NoRow, None
<1>9. SightingSurvives'
  <2>1. \A k \in Keys : \/ log'[k] = log[k]
                        \/ \E q \in Runs : log'[k].run = q /\ k \notin CurrentKeys(q)
    BY <1>5, <1>6
  <2>2. QED
    BY <1>3, <2>1, ListsStand
<1>10. QED
  BY <1>8, <1>9

\* The other steps of a run that has recorded its finds list nothing.
LEMMA QuietSight ==
    ASSUME SightInv, NEW r \in Runs, Work(r) \/ Fail(r), ~ Record(r), ~ Resolve(r)
    PROVE  NamesRecorded' /\ SightingSurvives'
<1>1. run \in [Runs -> RunRecords] /\ run[r] \in RunRecords /\ TypeInv
  BY DEF SightInv, SerialInv, TypeInv, TypeOK
<1>2. \A q \in Runs : q # r => run'[q] = run[q]
  BY <1>1, GraphMoves
<1>3. log' = log
  BY DEF Work, Decide, EndDecide, Dispatch, Look, Clash, Select, Fail, EndFailed
<1>4. run[r].pc \notin Unrecorded =>
          run'[r].pc \notin Unrecorded /\ run'[r].given = run[r].given
  <2>1. CASE Fail(r)
    BY <1>1, <2>1 DEF Fail, EndFailed, RunRecords, Unrecorded
  <2>2. CASE Select(r)
    BY <1>1, <2>2 DEF Select, RunRecords, Unrecorded
  <2>3. CASE ~ Fail(r) /\ ~ Select(r)
    BY <2>3 DEF Work, Decide, EndDecide, Dispatch, Look, Clash, Unrecorded
  <2>4. QED
    BY <2>1, <2>2, <2>3
<1>5. \A q \in Runs : run[q].pc \notin Unrecorded =>
          run'[q].pc \notin Unrecorded /\ CurrentKeys(q)' = CurrentKeys(q)
  BY <1>2, <1>4 DEF CurrentKeys
<1>6. QED
  BY <1>3, <1>5, LogStays

LEMMA GraphSight ==
    ASSUME SightInv, SerialInv', NEW r \in Runs, Work(r) \/ Fail(r)
    PROVE  SightInv'
<1>1. /\ Active(r) /\ run'[r].pc # "idle" /\ run'[r].alone = run[r].alone
      /\ \A q \in Runs : q # r => run'[q] = run[q]
  BY GraphMoves DEF SightInv, SerialInv
<1>2. \A q \in Runs : /\ run'[q].pc = "idle" <=> run[q].pc = "idle"
                      /\ run'[q].alone = run[q].alone
                      /\ Active(q)' => Active(q)
  BY <1>1 DEF Active
<1>3. OneAtATime'
  BY <1>2, StaysInTurn
<1>4. NamesRecorded' /\ SightingSurvives'
  BY RecordSight, ResolveSight, QuietSight
<1>5. QED
  BY <1>3, <1>4 DEF SightInv

LEMMA CrashSight == ASSUME SightInv, SerialInv', Crash PROVE SightInv'
<1>1. run \in [Runs -> RunRecords]
  BY DEF SightInv, SerialInv, TypeInv, TypeOK
<1>2. ASSUME NEW q \in Runs
      PROVE  /\ run'[q].pc = IF Active(q) THEN "crashed" ELSE run[q].pc
             /\ run'[q].given = run[q].given
             /\ run'[q].alone = run[q].alone
  <2>1. run[q] \in RunRecords
    BY <1>1
  <2>2. run'[q] = IF Active(q) THEN [run[q] EXCEPT !.pc = "crashed"] ELSE run[q]
    BY DEF Crash
  <2>3. QED
    BY <2>1, <2>2 DEF RunRecords
<1>3. \A q \in Runs : /\ run'[q].pc = "idle" <=> run[q].pc = "idle"
                      /\ run'[q].alone = run[q].alone
                      /\ Active(q)' => Active(q)
  BY <1>2 DEF Active, Ended
<1>4. OneAtATime'
  BY <1>3, StaysInTurn
<1>5. \A q \in Runs : run[q].pc \notin Unrecorded =>
          run'[q].pc \notin Unrecorded /\ CurrentKeys(q)' = CurrentKeys(q)
  BY <1>2 DEF CurrentKeys, Unrecorded
<1>6. log' = log
  BY DEF Crash
<1>7. NamesRecorded' /\ SightingSurvives'
  BY <1>5, <1>6, LogStays
<1>8. QED
  BY <1>4, <1>7 DEF SightInv

LEMMA SightInvariant ==
    ASSUME MaxActive <= 1
    PROVE  Spec => []SightInv
<1>1. SightInv /\ [Next]_vars => SightInv'
  <2> SUFFICES ASSUME SightInv, [Next]_vars PROVE SightInv'
    OBVIOUS
  <2>1. SerialInv'
    BY StepSerial DEF SightInv
  <2>2. ASSUME NEW r \in Runs, Begin(r) PROVE SightInv'
    BY <2>1, <2>2, BeginSight
  <2>3. ASSUME NEW r \in Runs, Work(r) \/ Fail(r) PROVE SightInv'
    BY <2>1, <2>3, GraphSight
  <2>4. CASE Crash
    BY <2>1, <2>4, CrashSight
  <2>5. CASE UNCHANGED vars
    <3>1. log' = log /\ run' = run
      BY <2>5 DEF vars
    <3>2. NamesRecorded' /\ SightingSurvives'
      BY <3>1, LogStays DEF CurrentKeys
    <3>3. OneAtATime'
      BY <3>1, StaysInTurn DEF Active
    <3>4. QED
      BY <2>1, <3>2, <3>3 DEF SightInv
  <2>6. QED
    BY <2>2, <2>3, <2>4, <2>5 DEF Next
<1>2. QED
  BY <1>1, InitSight, PTL DEF Spec

\* With one run at a time, as on the command line, a row is RESOLVED only in the
\* name of a run in which its exception was absent, whatever failed or crashed
\* before (agent/verifier.py, audit/repository.py): the run sighting needs two.
THEOREM SightingsSurviveInTurn ==
    ASSUME MaxActive <= 1
    PROVE  Spec => []SightingSurvives
<1>1. SightInv => SightingSurvives
  BY DEF SightInv
<1>2. QED
  BY <1>1, SightInvariant, PTL

----------------------------------------------------------------------------
\* The end of a run.  That it comes (RunsEnd) needs fairness; that it is not far
\* needs none.

\* The steps the work of a run has left at most.
StepsLeft(me) ==
    CASE me.pc = "decide" -> Len(me.excs) + Len(me.excs) - Len(me.decisions) + 5
      [] me.pc = "dispatch" -> Len(me.excs) - me.sent + 4
      [] me.pc = "record" -> 3
      [] me.pc = "verify" -> 2
      [] me.pc = "resolve" -> 1
      [] OTHER -> 0

\* A run under way is left alone or comes nearer to its end, also when the model
\* refuses, when others write the log, and when it fails.
Shrinks(r) ==
    Active(r) /\ run'[r] # run[r] => StepsLeft(run'[r]) < StepsLeft(run[r])

\* What is left is a natural number, and nothing only when the run is not under way.
LEMMA StepsAreLeft ==
    ASSUME TypeInv, NEW r \in Runs
    PROVE  /\ StepsLeft(run[r]) \in Nat
           /\ StepsLeft(run[r]) = 0 <=> ~ Active(r)
<1>1. run[r] \in RunRecords /\ run[r].sent <= Len(run[r].decisions)
      /\ Len(run[r].decisions) <= Len(run[r].excs)
  BY DEF TypeInv, TypeOK
<1>2. run[r].sent \in Nat /\ Len(run[r].decisions) \in Nat /\ Len(run[r].excs) \in Nat
      /\ run[r].pc \in Nodes \union Ended
  BY <1>1 DEF RunRecords
<1>3. \/ run[r].pc \in {"decide", "dispatch", "record", "verify", "resolve"}
      \/ run[r].pc \in Ended \union {"idle"}
  BY <1>2 DEF Nodes
<1>4. CASE run[r].pc \in Ended \union {"idle"}
  BY <1>4 DEF StepsLeft, Active, Ended
<1>5. CASE run[r].pc \in {"decide", "dispatch", "record", "verify", "resolve"}
  <2>1. Active(r)
    BY <1>5 DEF Active, Ended
  <2>2. CASE run[r].pc = "decide"
    <3>1. StepsLeft(run[r]) = Len(run[r].excs) + Len(run[r].excs) - Len(run[r].decisions) + 5
      BY <2>2 DEF StepsLeft
    <3>2. QED
      BY <1>1, <1>2, <2>1, <3>1
  <2>3. CASE run[r].pc = "dispatch"
    <3>1. StepsLeft(run[r]) = Len(run[r].excs) - run[r].sent + 4
      BY <2>3 DEF StepsLeft
    <3>2. QED
      BY <1>1, <1>2, <2>1, <3>1
  <2>4. CASE run[r].pc \in {"record", "verify", "resolve"}
    <3>1. StepsLeft(run[r]) \in {1, 2, 3}
      BY <2>4 DEF StepsLeft
    <3>2. QED
      BY <2>1, <3>1
  <2>5. QED
    BY <1>5, <2>2, <2>3, <2>4
<1>6. QED
  BY <1>3, <1>4, <1>5

LEMMA WorkShrinks ==
    ASSUME TypeInv, NEW r \in Runs, Work(r) \/ Fail(r)
    PROVE  StepsLeft(run'[r]) < StepsLeft(run[r])
<1>1. run \in [Runs -> RunRecords] /\ run[r] \in RunRecords
      /\ run[r].sent <= Len(run[r].decisions)
      /\ Len(run[r].decisions) <= Len(run[r].excs)
  BY DEF TypeInv, TypeOK
<1>2. run[r].sent \in Nat /\ Len(run[r].decisions) \in Nat /\ Len(run[r].excs) \in Nat
  BY <1>1 DEF RunRecords
<1>3. CASE Decide(r)
  <2>1. PICK d : run' = [run EXCEPT ![r] = [run[r] EXCEPT !.decisions = Append(@, d)]]
    BY <1>3 DEF Decide
  <2> DEFINE me == [run[r] EXCEPT !.decisions = Append(@, d)]
  <2>2. run[r].decisions \in Seq(PlannerActions)
    BY <1>1 DEF RunRecords
  <2>3. Len(Append(run[r].decisions, d)) = Len(run[r].decisions) + 1
    BY <2>2
  <2>4. me.pc = run[r].pc /\ me.excs = run[r].excs
        /\ me.decisions = Append(run[r].decisions, d)
    BY <1>1 DEF RunRecords
  <2> HIDE DEF me
  <2>5. run'[r] = me
    BY <1>1, <2>1 DEF me
  <2>6. StepsLeft(run[r]) = Len(run[r].excs) + Len(run[r].excs) - Len(run[r].decisions) + 5
    BY <1>3 DEF Decide, StepsLeft
  <2>7. /\ run'[r].pc = "decide" /\ run'[r].excs = run[r].excs
        /\ Len(run'[r].decisions) = Len(run[r].decisions) + 1
    BY <1>3, <2>3, <2>4, <2>5 DEF Decide
  <2>8. StepsLeft(run'[r]) = Len(run[r].excs) + Len(run[r].excs) - (Len(run[r].decisions) + 1) + 5
    BY <2>7 DEF StepsLeft
  <2>9. \A l, d1 \in Nat : l + l - (d1 + 1) + 5 < l + l - d1 + 5
    OBVIOUS
  <2>10. QED
    BY <1>2, <2>6, <2>8, <2>9
<1>4. CASE EndDecide(r)
  <2>1. run'[r].pc = "dispatch" /\ run'[r].excs = run[r].excs /\ run'[r].sent = run[r].sent
    BY <1>1, <1>4 DEF EndDecide, RunRecords
  <2>2. StepsLeft(run'[r]) = Len(run[r].excs) - run[r].sent + 4
    BY <2>1 DEF StepsLeft
  <2>3. StepsLeft(run[r]) = Len(run[r].excs) + Len(run[r].excs) - Len(run[r].decisions) + 5
    BY <1>4 DEF EndDecide, StepsLeft
  <2>4. Len(run[r].decisions) = Len(run[r].excs)
    BY <1>4 DEF EndDecide
  <2>5. QED
    BY <1>2, <2>2, <2>3, <2>4
<1>5. CASE Dispatch(r)
  <2>1. run'[r].pc = "dispatch" /\ run'[r].excs = run[r].excs
        /\ run'[r].sent = run[r].sent + 1
    BY <1>5, DispatchLists
  <2>2. StepsLeft(run'[r]) = Len(run[r].excs) - (run[r].sent + 1) + 4
    BY <2>1 DEF StepsLeft
  <2>3. StepsLeft(run[r]) = Len(run[r].excs) - run[r].sent + 4
    BY <1>5 DEF Dispatch, StepsLeft
  <2>4. QED
    BY <1>2, <2>2, <2>3
<1>6. CASE Look(r)
  <2>1. run'[r].pc \in {"record", "verify"}
    BY <1>1, <1>6 DEF Look, RunRecords
  <2>2. StepsLeft(run'[r]) \in {2, 3}
    BY <2>1 DEF StepsLeft
  <2>3. StepsLeft(run[r]) = Len(run[r].excs) - run[r].sent + 4
    BY <1>6 DEF Look, StepsLeft
  <2>4. run[r].sent = Len(run[r].excs)
    BY <1>6 DEF Look
  <2>5. StepsLeft(run[r]) = 4
    BY <1>2, <2>3, <2>4
  <2>6. QED
    BY <2>2, <2>5
<1>7. CASE Record(r)
  <2>1. run'[r].pc = "verify" /\ run[r].pc = "record"
    BY <1>1, <1>7 DEF Record, RunRecords
  <2>2. QED
    BY <2>1 DEF StepsLeft
<1>8. CASE Select(r)
  <2>1. run'[r].pc = "resolve" /\ run[r].pc = "verify"
    BY <1>1, <1>8 DEF Select, RunRecords
  <2>2. QED
    BY <2>1 DEF StepsLeft
<1>9. CASE Resolve(r)
  <2>1. run'[r].pc = "completed" /\ run[r].pc = "resolve"
    BY <1>1, <1>9 DEF Resolve, RunRecords
  <2>2. QED
    BY <2>1 DEF StepsLeft
<1>10. CASE Clash(r) \/ Fail(r)
  <2>1. run'[r].pc = "failed" /\ Active(r)
    BY <1>1, <1>10 DEF Clash, Fail, EndFailed, RunRecords, Active, Ended
  <2>2. StepsLeft(run'[r]) = 0
    BY <2>1 DEF StepsLeft
  <2>3. QED
    BY <2>1, <2>2, StepsAreLeft
<1>11. QED
  BY <1>3, <1>4, <1>5, <1>6, <1>7, <1>8, <1>9, <1>10 DEF Work

LEMMA ShrinkStep == TypeInv /\ [Next]_vars => \A r \in Runs : Shrinks(r)
<1> SUFFICES ASSUME TypeInv, [Next]_vars, NEW r \in Runs, Active(r), run'[r] # run[r]
             PROVE  StepsLeft(run'[r]) < StepsLeft(run[r])
  BY DEF Shrinks
<1>1. run \in [Runs -> RunRecords]
  BY DEF TypeInv, TypeOK
<1>2. ASSUME NEW q \in Runs, Begin(q) PROVE FALSE
  <2>1. run'[r] = run[r] \/ q = r
    BY <1>1, <1>2 DEF Begin
  <2>2. QED
    BY <1>2, <2>1 DEF Begin, Active
<1>3. ASSUME NEW q \in Runs, Work(q) \/ Fail(q)
      PROVE  StepsLeft(run'[r]) < StepsLeft(run[r])
  <2>1. q = r
    BY <1>3, GraphMoves
  <2>2. QED
    BY <1>3, <2>1, WorkShrinks
<1>4. CASE Crash
  <2>1. run[r] \in RunRecords /\ run'[r] = [run[r] EXCEPT !.pc = "crashed"]
    BY <1>1, <1>4 DEF Crash
  <2>2. run'[r].pc = "crashed"
    BY <2>1 DEF RunRecords
  <2>3. StepsLeft(run'[r]) = 0
    BY <2>2 DEF StepsLeft
  <2>4. QED
    BY <2>3, StepsAreLeft
<1>5. CASE UNCHANGED vars
  BY <1>5 DEF vars
<1>6. QED
  BY <1>2, <1>3, <1>4, <1>5 DEF Next

\* Every step of a run under way brings it nearer to its end: from its begin on it
\* takes at most two steps for each of its exceptions and five more (decide_node,
\* dispatch_node, verify_node), whatever the model answers and other runs write.
THEOREM RunsShrink == Spec => [][\A r \in Runs : Shrinks(r)]_vars
BY AlwaysTyped, ShrinkStep, PTL DEF Spec

=============================================================================
