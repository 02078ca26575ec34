--------------------------- MODULE MatchingProofs ---------------------------
(***************************************************************************)
(* Theorems about the reconciliation of a run, for every input and every    *)
(* proposal of the language model.                                          *)
(***************************************************************************)
EXTENDS Matching, FiniteSetTheorems, TLAPS

----------------------------------------------------------------------------
\* The parts of TypeOK: the two files, the result, and the leftovers.

InputTyped ==
    /\ obligations \in Seq(ObligationRows)
    /\ settlements \in Seq(SettlementRows)

ExcTyped(e) ==
    /\ e.reason \in Reasons
    /\ e.obl \in DOMAIN obligations \union {0}
    /\ e.setts \subseteq DOMAIN settlements

ResultTyped ==
    /\ consumed \subseteq Sids(DOMAIN settlements)
    /\ matched \subseteq (DOMAIN obligations) \X (DOMAIN settlements)
    /\ autoApplied \subseteq matched
    /\ \A e \in flagged : ExcTyped(e)

OpenTyped ==
    /\ openObl \subseteq DOMAIN obligations
    /\ openSett \subseteq DOMAIN settlements

LoopTyped ==
    /\ phase \in {"keys", "fuzzy", "apply", "classify", "done"}
    /\ cursor \in Nat \ {0}
    /\ pairings \in Seq(Pairings)

TypeInv == InputTyped /\ ResultTyped /\ OpenTyped /\ LoopTyped

LEMMA TypeParts == TypeInv => TypeOK
BY DEF TypeInv, TypeOK, InputTyped, ResultTyped, OpenTyped, LoopTyped, ExcTyped

LEMMA RowNumbers ==
    ASSUME InputTyped
    PROVE  DOMAIN obligations \subseteq Nat \ {0}
BY DEF InputTyped

LEMMA CandidateRows ==
    ASSUME NEW o PROVE Candidates(o) \subseteq DOMAIN settlements
BY DEF Candidates, Live, ByTxn, ByOrderType

LEMMA ReasonsOfExceptions ==
    /\ \A o : MissingReason(o) \in Reasons
    /\ \A s : AmountReason(s) \in Reasons
    /\ {"DUPLICATE_SETTLEMENT", "UNMATCHED_SETTLEMENT", "FUZZY_MATCH_REVIEW"}
       \subseteq Reasons
BY DEF MissingReason, AmountReason, Reasons

\* The fields of the exceptions, without their definition.
LEMMA ExcFields ==
    ASSUME NEW r, NEW i, NEW rows, NEW p
    PROVE  /\ Exc(r, i, rows, p).reason = r
           /\ Exc(r, i, rows, p).obl = i
           /\ Exc(r, i, rows, p).setts = rows
BY DEF Exc

LEMMA InputIsFixed == [Next]_vars => UNCHANGED input
BY DEF Next, KeyStep, PairingStep, vars, input, KeyUnmatched, KeyDuplicate,
       KeyMatched, KeyAmountDiffers, NextRow, EndKeys, Propose, SkipPairing,
       AutoApply, FlagForReview, NextPairing, EndFuzzy, Classify

----------------------------------------------------------------------------
\* Initially.

LEMMA TypeInit == Init => TypeInv
<1> SUFFICES ASSUME Init PROVE TypeInv
  OBVIOUS
<1>1. obligations \in Seq(ObligationRows)
  <2>1. PICK n \in 0 .. MaxObligations : obligations \in [1 .. n -> ObligationRows]
    BY DEF Init
  <2>2. QED
    BY <2>1, LimitsAssumption
<1>2. settlements \in Seq(SettlementRows)
  <2>1. PICK m \in 1 .. MaxSettlements : settlements \in [1 .. m -> SettlementRows]
    BY DEF Init
  <2>2. QED
    BY <2>1, LimitsAssumption
<1>3. QED
  BY <1>1, <1>2
  DEF Init, TypeInv, InputTyped, ResultTyped, OpenTyped, LoopTyped

----------------------------------------------------------------------------
\* The loops.

LEMMA LoopStep == InputTyped /\ LoopTyped /\ [Next]_vars => LoopTyped'
<1> SUFFICES ASSUME InputTyped, LoopTyped, [Next]_vars PROVE LoopTyped'
  OBVIOUS
<1> USE DEF LoopTyped
<1>1. CASE KeyStep
  BY <1>1 DEF KeyStep, KeyUnmatched, KeyDuplicate, KeyMatched,
              KeyAmountDiffers, NextRow
<1>2. CASE EndKeys
  BY <1>2 DEF EndKeys
<1>3. CASE Propose
  <2>1. PICK n \in 0 .. MaxPairings : pairings' \in [1 .. n -> Pairings]
    BY <1>3 DEF Propose, Proposals
  <2>2. pairings' \in Seq(Pairings)
    BY <2>1, LimitsAssumption
  <2>3. QED
    BY <1>3, <2>2 DEF Propose
<1>4. CASE PairingStep
  BY <1>4 DEF PairingStep, SkipPairing, AutoApply, FlagForReview, NextPairing
<1>5. CASE EndFuzzy
  BY <1>5 DEF EndFuzzy
<1>6. CASE Classify
  BY <1>6 DEF Classify
<1>7. CASE UNCHANGED vars
  BY <1>7 DEF vars
<1>8. QED
  BY <1>1, <1>2, <1>3, <1>4, <1>5, <1>6, <1>7 DEF Next

\* The leftovers are rows of the files.
LEMMA OpenStep == OpenTyped /\ [Next]_vars => OpenTyped'
<1> SUFFICES ASSUME OpenTyped, [Next]_vars PROVE OpenTyped'
  OBVIOUS
<1> USE DEF OpenTyped
<1>0. /\ obligations' = obligations
      /\ settlements' = settlements
  BY InputIsFixed DEF input
<1>1. CASE KeyStep
  BY <1>0, <1>1 DEF KeyStep, KeyUnmatched, KeyDuplicate, KeyMatched,
                    KeyAmountDiffers, NextRow
<1>2. CASE EndKeys
  BY <1>0, <1>2 DEF EndKeys, Live
<1>3. CASE Propose
  BY <1>0, <1>3 DEF Propose, LastPerOrder, LastPerSid
<1>4. CASE PairingStep
  BY <1>0, <1>4 DEF PairingStep, SkipPairing, AutoApply, FlagForReview, Take
<1>5. CASE EndFuzzy
  BY <1>0, <1>5 DEF EndFuzzy
<1>6. CASE Classify
  BY <1>0, <1>6 DEF Classify
<1>7. CASE UNCHANGED vars
  BY <1>7 DEF vars
<1>8. QED
  BY <1>1, <1>2, <1>3, <1>4, <1>5, <1>6, <1>7 DEF Next

----------------------------------------------------------------------------
\* The result.

LEMMA ResultStep == TypeInv /\ [Next]_vars => ResultTyped'
<1> SUFFICES ASSUME TypeInv, [Next]_vars PROVE ResultTyped'
  OBVIOUS
<1>0. /\ obligations' = obligations
      /\ settlements' = settlements
  BY InputIsFixed DEF input
<1> DEFINE D == DOMAIN obligations
           E == DOMAIN settlements
           Rows == D \X E
           S == Sids(E)
           Good(e) == e.reason \in Reasons /\ e.obl \in D \union {0}
                      /\ e.setts \subseteq E
<1>a. /\ consumed \subseteq S
      /\ matched \subseteq Rows
      /\ autoApplied \subseteq matched
      /\ \A e \in flagged : Good(e)
      /\ openObl \subseteq D
      /\ openSett \subseteq E
  BY DEF TypeInv, ResultTyped, OpenTyped, ExcTyped
<1>b. SUFFICES /\ consumed' \subseteq S
               /\ matched' \subseteq Rows
               /\ autoApplied' \subseteq matched'
               /\ \A e \in flagged' : Good(e)
  BY <1>0 DEF ResultTyped, ExcTyped, Sids
<1>c. \A rows \in SUBSET E : Sids(rows) \subseteq S
  BY DEF Sids
<1>d. ASSUME NEW r \in Reasons, NEW i \in D \union {0}, NEW rows \in SUBSET E,
             NEW p
      PROVE  Good(Exc(r, i, rows, p))
  BY <1>d, ExcFields
<1> HIDE DEF S, Good, D, E
<1>1. CASE KeyUnmatched
  BY <1>1, <1>a DEF KeyUnmatched, NextRow
<1>2. CASE KeyDuplicate
  <2> DEFINE rows == Candidates(obligations[cursor])
             exc == Exc("DUPLICATE_SETTLEMENT", cursor, rows, Party(cursor))
  <2>1. rows \in SUBSET E /\ cursor \in D
    BY <1>2, CandidateRows DEF KeyDuplicate, NextRow, D, E
  <2>2. Good(exc)
    BY <1>d, <2>1, ReasonsOfExceptions
  <2>3. /\ UNCHANGED <<autoApplied, matched>>
        /\ flagged' = flagged \union {exc}
        /\ consumed' = consumed \union Sids(rows)
    BY <1>2 DEF KeyDuplicate, NextRow, Consume
  <2> HIDE DEF rows, exc
  <2>4. QED
    BY <1>a, <1>c, <2>1, <2>2, <2>3
<1>3. CASE KeyMatched
  <2>1. PICK j \in E : /\ consumed' = consumed \union Sids({j})
                       /\ matched' = matched \union {<<cursor, j>>}
    BY <1>3 DEF KeyMatched, Consume, E
  <2>2. /\ UNCHANGED <<autoApplied, flagged>>
        /\ cursor \in D
    BY <1>3 DEF KeyMatched, NextRow, D
  <2>3. QED
    BY <1>a, <1>c, <2>1, <2>2
<1>4. CASE KeyAmountDiffers
  <2>0. PICK j \in E : \E s :
            /\ consumed' = consumed \union Sids({j})
            /\ flagged' = flagged \union
                   {Exc(AmountReason(s), cursor, {j}, Party(cursor))}
    BY <1>4 DEF KeyAmountDiffers, Consume, E
  <2>1. PICK s :
            /\ consumed' = consumed \union Sids({j})
            /\ flagged' = flagged \union
                   {Exc(AmountReason(s), cursor, {j}, Party(cursor))}
    BY <2>0
  <2>2. /\ UNCHANGED <<autoApplied, matched>>
        /\ cursor \in D
    BY <1>4 DEF KeyAmountDiffers, NextRow, D
  <2>3. Good(Exc(AmountReason(s), cursor, {j}, Party(cursor)))
    BY <1>d, <2>2, ReasonsOfExceptions
  <2>4. QED
    BY <1>a, <1>c, <2>1, <2>2, <2>3
<1>5. CASE EndKeys
  BY <1>5, <1>a DEF EndKeys
<1>6. CASE Propose
  BY <1>6, <1>a DEF Propose
<1>7. CASE SkipPairing
  BY <1>7, <1>a DEF SkipPairing, NextPairing
<1>8. CASE AutoApply
  <2>1. PICK i \in openObl, j \in openSett :
            /\ matched' = matched \union {<<i, j>>}
            /\ autoApplied' = autoApplied \union {<<i, j>>}
    BY <1>8 DEF AutoApply
  <2>2. UNCHANGED <<consumed, flagged>>
    BY <1>8 DEF AutoApply, NextPairing
  <2>3. QED
    BY <1>a, <2>1, <2>2
<1>9. CASE FlagForReview
  <2>1. PICK i \in openObl, j \in openSett :
            flagged' = flagged \union {Review(i, j)}
    BY <1>9 DEF FlagForReview
  <2>2. Good(Review(i, j))
    BY <1>a, <1>d, ReasonsOfExceptions DEF Review
  <2>3. UNCHANGED <<consumed, matched, autoApplied>>
    BY <1>9 DEF FlagForReview, NextPairing
  <2>4. QED
    BY <1>a, <2>1, <2>2, <2>3
<1>10. CASE EndFuzzy
  BY <1>10, <1>a DEF EndFuzzy
<1>11. CASE Classify
  <2>1. \A i \in openObl : Good(Missing(i))
    BY <1>a, <1>d, ReasonsOfExceptions DEF Missing
  <2>2. \A j \in openSett : Good(Stray(j))
    BY <1>a, <1>d, ReasonsOfExceptions DEF Stray
  <2>3. \A e \in Leftovers : Good(e)
    BY <2>1, <2>2 DEF Leftovers
  <2>4. QED
    BY <1>11, <1>a, <2>3 DEF Classify
<1>12. CASE UNCHANGED vars
  BY <1>12, <1>a DEF vars
<1>13. QED
  BY <1>1, <1>2, <1>3, <1>4, <1>5, <1>6, <1>7, <1>8, <1>9, <1>10, <1>11, <1>12
  DEF Next, KeyStep, PairingStep

LEMMA TypeStep == TypeInv /\ [Next]_vars => TypeInv'
<1>1. ASSUME InputTyped, [Next]_vars PROVE InputTyped'
  BY <1>1, InputIsFixed DEF InputTyped, input
<1>2. QED
  BY <1>1, LoopStep, OpenStep, ResultStep DEF TypeInv

LEMMA TypeInvariant == Spec => []TypeInv
<1>1. QED
  BY TypeInit, TypeStep, PTL DEF Spec

\* Whatever the files hold and the language model proposes, the result of a
\* run speaks of rows of its files: a pair or an exception never names an
\* obligation or a settlement the run was not given.
THEOREM TypeCorrect == Spec => []TypeOK
BY TypeInvariant, TypeParts, PTL

----------------------------------------------------------------------------
\* One entry more in the result, about rows that were in none.

LEMMA AddPair ==
    ASSUME TypeInv, NEW i \in DOMAIN obligations, NEW j \in DOMAIN settlements,
           matched' = matched \union {<<i, j>>}, UNCHANGED flagged
    PROVE  /\ \A k : SettInResult(k)' => SettInResult(k) \/ k = j
           /\ \A k : InResult(k)' => InResult(k) \/ k = i
           /\ SettlementsUsedOnce /\ ~ SettInResult(j) => SettlementsUsedOnce'
           /\ ObligationsUsedOnce /\ ~ InResult(i) => ObligationsUsedOnce'
<1>1. \A k : SettInResult(k)' => SettInResult(k) \/ k = j
  BY DEF SettInResult
<1>2. \A k : InResult(k)' => InResult(k) \/ k = i
  BY DEF InResult
<1>3. SettlementsUsedOnce /\ ~ SettInResult(j) => SettlementsUsedOnce'
  BY DEF SettlementsUsedOnce, SettInResult
<1>4. ObligationsUsedOnce /\ ~ InResult(i) => ObligationsUsedOnce'
  BY DEF ObligationsUsedOnce, InResult
<1>5. QED
  BY <1>1, <1>2, <1>3, <1>4

LEMMA AddException ==
    ASSUME TypeInv, NEW x, flagged' = flagged \union {x}, UNCHANGED matched
    PROVE  /\ \A k : SettInResult(k)' => SettInResult(k) \/ k \in x.setts
           /\ \A k : InResult(k)' => InResult(k) \/ k = x.obl
           /\ /\ SettlementsUsedOnce
              /\ \A k \in x.setts : ~ SettInResult(k)
              => SettlementsUsedOnce'
           /\ ObligationsUsedOnce /\ ~ InResult(x.obl) => ObligationsUsedOnce'
<1>1. \A k : SettInResult(k)' => SettInResult(k) \/ k \in x.setts
  BY DEF SettInResult
<1>2. \A k : InResult(k)' => InResult(k) \/ k = x.obl
  BY DEF InResult
<1>3. /\ SettlementsUsedOnce
      /\ \A k \in x.setts : ~ SettInResult(k)
      => SettlementsUsedOnce'
  BY DEF SettlementsUsedOnce, SettInResult
<1>4. ObligationsUsedOnce /\ ~ InResult(x.obl) => ObligationsUsedOnce'
  BY DEF ObligationsUsedOnce, InResult
<1>5. QED
  BY <1>1, <1>2, <1>3, <1>4

----------------------------------------------------------------------------
\* No settlement is used twice.  While the keys are matched, the consumed ids
\* guard the rows already used; afterwards the list of leftovers does.

SettInv ==
    /\ SettlementsUsedOnce
    /\ phase = "keys" =>
           \A j \in DOMAIN settlements :
               SettInResult(j) => settlements[j].sid \in consumed
    /\ phase \in {"fuzzy", "apply", "classify"} =>
           \A j \in openSett : ~ SettInResult(j)

LEMMA CandidatesAreFresh ==
    ASSUME SettInv, phase = "keys", NEW o
    PROVE  \A j \in Candidates(o) : ~ SettInResult(j)
BY DEF SettInv, Candidates, Live, ByTxn, ByOrderType

LEMMA SettStep == TypeInv /\ SettInv /\ [Next]_vars => SettInv'
<1> SUFFICES ASSUME TypeInv, SettInv, [Next]_vars PROVE SettInv'
  OBVIOUS
<1>0. /\ obligations' = obligations
      /\ settlements' = settlements
  BY InputIsFixed DEF input
<1>1. CASE KeyUnmatched
  BY <1>0, <1>1 DEF KeyUnmatched, NextRow, SettInv, SettlementsUsedOnce,
                    SettInResult
<1>2. CASE KeyDuplicate
  <2> DEFINE rows == Candidates(obligations[cursor])
             exc == Exc("DUPLICATE_SETTLEMENT", cursor, rows, Party(cursor))
  <2>1. /\ phase = "keys"
        /\ phase' = "keys"
        /\ UNCHANGED matched
        /\ flagged' = flagged \union {exc}
        /\ consumed' = consumed \union Sids(rows)
    BY <1>2 DEF KeyDuplicate, NextRow, Consume
  <2>2. exc.setts = rows
    BY ExcFields
  <2>3. \A k \in rows : ~ SettInResult(k)
    BY <2>1, CandidatesAreFresh
  <2> HIDE DEF rows, exc
  <2>4. /\ SettlementsUsedOnce'
        /\ \A k : SettInResult(k)' => SettInResult(k) \/ k \in rows
    BY <2>1, <2>2, <2>3, AddException DEF SettInv
  <2>5. QED
    BY <1>0, <2>1, <2>4 DEF SettInv, Sids
<1>3. CASE KeyMatched
  <2>1. PICK j \in DOMAIN settlements :
            /\ Candidates(obligations[cursor]) = {j}
            /\ consumed' = consumed \union Sids({j})
            /\ matched' = matched \union {<<cursor, j>>}
    BY <1>3 DEF KeyMatched, Consume
  <2>2. /\ phase = "keys"
        /\ phase' = "keys"
        /\ UNCHANGED flagged
        /\ cursor \in DOMAIN obligations
    BY <1>3 DEF KeyMatched, NextRow
  <2>3. ~ SettInResult(j)
    BY <2>1, <2>2, CandidatesAreFresh
  <2>4. /\ SettlementsUsedOnce'
        /\ \A k : SettInResult(k)' => SettInResult(k) \/ k = j
    BY <2>1, <2>2, <2>3, AddPair DEF SettInv
  <2>5. QED
    BY <1>0, <2>1, <2>2, <2>4 DEF SettInv, Sids
<1>4. CASE KeyAmountDiffers
  <2>0. PICK j \in DOMAIN settlements : \E s :
            /\ Candidates(obligations[cursor]) = {j}
            /\ consumed' = consumed \union Sids({j})
            /\ flagged' = flagged \union
                   {Exc(AmountReason(s), cursor, {j}, Party(cursor))}
    BY <1>4 DEF KeyAmountDiffers, Consume
  <2>1. PICK s :
            /\ Candidates(obligations[cursor]) = {j}
            /\ consumed' = consumed \union Sids({j})
            /\ flagged' = flagged \union
                   {Exc(AmountReason(s), cursor, {j}, Party(cursor))}
    BY <2>0
  <2> DEFINE exc == Exc(AmountReason(s), cursor, {j}, Party(cursor))
  <2>2. /\ phase = "keys"
        /\ phase' = "keys"
        /\ UNCHANGED matched
    BY <1>4 DEF KeyAmountDiffers, NextRow
  <2>3. /\ ~ SettInResult(j)
        /\ exc.setts = {j}
    BY <2>1, <2>2, CandidatesAreFresh, ExcFields
  <2> HIDE DEF exc
  <2>4. /\ SettlementsUsedOnce'
        /\ \A k : SettInResult(k)' => SettInResult(k) \/ k = j
    BY <2>1, <2>2, <2>3, AddException DEF SettInv, exc
  <2>5. QED
    BY <1>0, <2>1, <2>2, <2>4 DEF SettInv, Sids
<1>5. CASE EndKeys
  BY <1>0, <1>5 DEF EndKeys, SettInv, SettlementsUsedOnce, SettInResult, Live
<1>6. CASE Propose
  BY <1>0, <1>6 DEF Propose, SettInv, SettlementsUsedOnce, SettInResult,
                    LastPerSid
<1>7. CASE SkipPairing
  BY <1>0, <1>7 DEF SkipPairing, NextPairing, SettInv, SettlementsUsedOnce,
                    SettInResult
<1>8. CASE AutoApply
  <2>1. PICK i \in openObl, j \in openSett :
            /\ matched' = matched \union {<<i, j>>}
            /\ openSett' = openSett \ {j}
    BY <1>8 DEF AutoApply, Take
  <2>2. /\ phase = "apply"
        /\ phase' = "apply"
        /\ UNCHANGED flagged
    BY <1>8 DEF AutoApply, NextPairing
  <2>3. /\ i \in DOMAIN obligations
        /\ j \in DOMAIN settlements
        /\ ~ SettInResult(j)
    BY <2>1, <2>2 DEF SettInv, TypeInv, OpenTyped
  <2>4. /\ SettlementsUsedOnce'
        /\ \A k : SettInResult(k)' => SettInResult(k) \/ k = j
    BY <2>1, <2>2, <2>3, AddPair DEF SettInv
  <2>5. QED
    BY <2>1, <2>2, <2>4 DEF SettInv
<1>9. CASE FlagForReview
  <2>1. PICK i \in openObl, j \in openSett :
            /\ flagged' = flagged \union {Review(i, j)}
            /\ openSett' = openSett \ {j}
    BY <1>9 DEF FlagForReview, Take
  <2>2. /\ phase = "apply"
        /\ phase' = "apply"
        /\ UNCHANGED matched
    BY <1>9 DEF FlagForReview, NextPairing
  <2>3. /\ Review(i, j).setts = {j}
        /\ ~ SettInResult(j)
    BY <2>1, <2>2, ExcFields DEF SettInv, Review
  <2>4. /\ SettlementsUsedOnce'
        /\ \A k : SettInResult(k)' => SettInResult(k) \/ k = j
    BY <2>1, <2>2, <2>3, AddException DEF SettInv
  <2>5. QED
    BY <2>1, <2>2, <2>4 DEF SettInv
<1>10. CASE EndFuzzy
  BY <1>0, <1>10 DEF EndFuzzy, SettInv, SettlementsUsedOnce, SettInResult
<1>11. CASE Classify
  <2>1. /\ flagged' = flagged \union Leftovers
        /\ UNCHANGED matched
        /\ phase = "classify"
        /\ phase' = "done"
    BY <1>11 DEF Classify
  <2>2. \A e \in Leftovers :
            e.setts = {} \/ \E j \in openSett : e = Stray(j) /\ e.setts = {j}
    <3>1. \A i : Missing(i).setts = {}
      BY ExcFields DEF Missing
    <3>2. \A j : Stray(j).setts = {j}
      BY ExcFields DEF Stray
    <3>3. QED
      BY <3>1, <3>2 DEF Leftovers
  <2>3. \A j \in openSett : ~ SettInResult(j)
    BY <2>1 DEF SettInv
  <2>4. ASSUME NEW e \in flagged', NEW f \in flagged',
               e.setts \intersect f.setts # {}
        PROVE  e = f
    <3>1. CASE e \in flagged /\ f \in flagged
      BY <2>4, <3>1 DEF SettInv, SettlementsUsedOnce
    <3>2. CASE e \in flagged /\ f \in Leftovers
      BY <2>2, <2>3, <2>4, <3>2 DEF SettInResult
    <3>3. CASE e \in Leftovers /\ f \in flagged
      BY <2>2, <2>3, <2>4, <3>3 DEF SettInResult
    <3>4. CASE e \in Leftovers /\ f \in Leftovers
      BY <2>2, <2>4, <3>4
    <3>5. QED
      BY <2>1, <2>4, <3>1, <3>2, <3>3, <3>4
  <2>5. \A p \in matched', e \in flagged' : p[2] \notin e.setts
    BY <2>1, <2>2, <2>3 DEF SettInv, SettlementsUsedOnce, SettInResult
  <2>6. SettlementsUsedOnce'
    BY <2>1, <2>4, <2>5 DEF SettInv, SettlementsUsedOnce
  <2>7. QED
    BY <2>1, <2>6 DEF SettInv
<1>12. CASE UNCHANGED vars
  BY <1>12 DEF vars, SettInv, SettlementsUsedOnce, SettInResult
<1>13. QED
  BY <1>1, <1>2, <1>3, <1>4, <1>5, <1>6, <1>7, <1>8, <1>9, <1>10, <1>11, <1>12
  DEF Next, KeyStep, PairingStep

\* No settlement is counted twice, for any files and any proposal.
THEOREM NoSettlementTwice == Spec => []SettlementsUsedOnce
<1>1. Init => SettInv
  BY DEF Init, SettInv, SettlementsUsedOnce, SettInResult
<1>2. SettInv => SettlementsUsedOnce
  BY DEF SettInv
<1>3. QED
  BY <1>1, <1>2, SettStep, TypeInvariant, PTL DEF Spec

----------------------------------------------------------------------------
\* No obligation is used twice.  The loop has not come to the rows from the
\* cursor on; the rows left open are in no entry of the result.

OblInv ==
    /\ ObligationsUsedOnce
    /\ phase = "keys" =>
           \A i \in DOMAIN obligations :
               InResult(i) \/ i \in openObl => i < cursor
    /\ phase # "done" => \A i \in openObl : ~ InResult(i)

LEMMA CursorIsFresh ==
    ASSUME TypeInv, OblInv, phase = "keys", cursor \in DOMAIN obligations
    PROVE  ~ InResult(cursor) /\ cursor \notin openObl /\ cursor \in Nat
BY DEF OblInv, TypeInv, LoopTyped

LEMMA OblStep == TypeInv /\ OblInv /\ [Next]_vars => OblInv'
<1> SUFFICES ASSUME TypeInv, OblInv, [Next]_vars PROVE OblInv'
  OBVIOUS
<1>0. /\ obligations' = obligations
      /\ settlements' = settlements
  BY InputIsFixed DEF input
<1>a. /\ openObl \subseteq DOMAIN obligations
      /\ DOMAIN obligations \subseteq Nat \ {0}
      /\ cursor \in Nat
  BY RowNumbers DEF TypeInv, OpenTyped, LoopTyped
<1>1. CASE KeyUnmatched
  <2>1. ~ InResult(cursor)
    BY <1>1, CursorIsFresh DEF KeyUnmatched, NextRow
  <2>2. QED
    BY <1>0, <1>1, <1>a, <2>1
    DEF KeyUnmatched, NextRow, OblInv, ObligationsUsedOnce, InResult
<1>2. CASE KeyDuplicate
  <2>1. PICK x : /\ flagged' = flagged \union {x}
                 /\ x.obl = cursor
    BY <1>2, ExcFields DEF KeyDuplicate
  <2>2. /\ phase = "keys"
        /\ phase' = "keys"
        /\ cursor \in DOMAIN obligations
        /\ cursor' = cursor + 1
        /\ UNCHANGED <<matched, openObl>>
    BY <1>2 DEF KeyDuplicate, NextRow
  <2>3. /\ ObligationsUsedOnce'
        /\ \A k : InResult(k)' => InResult(k) \/ k = cursor
    BY <2>1, <2>2, CursorIsFresh, AddException DEF OblInv
  <2>4. QED
    BY <1>0, <1>a, <2>2, <2>3, CursorIsFresh DEF OblInv
<1>3. CASE KeyMatched
  <2>1. PICK j \in DOMAIN settlements : matched' = matched \union {<<cursor, j>>}
    BY <1>3 DEF KeyMatched
  <2>2. /\ phase = "keys"
        /\ phase' = "keys"
        /\ cursor \in DOMAIN obligations
        /\ cursor' = cursor + 1
        /\ UNCHANGED <<flagged, openObl>>
    BY <1>3 DEF KeyMatched, NextRow
  <2>3. /\ ObligationsUsedOnce'
        /\ \A k : InResult(k)' => InResult(k) \/ k = cursor
    BY <2>1, <2>2, CursorIsFresh, AddPair DEF OblInv
  <2>4. QED
    BY <1>0, <1>a, <2>2, <2>3, CursorIsFresh DEF OblInv
<1>4. CASE KeyAmountDiffers
  <2>1. PICK x : /\ flagged' = flagged \union {x}
                 /\ x.obl = cursor
    BY <1>4, ExcFields DEF KeyAmountDiffers
  <2>2. /\ phase = "keys"
        /\ phase' = "keys"
        /\ cursor \in DOMAIN obligations
        /\ cursor' = cursor + 1
        /\ UNCHANGED <<matched, openObl>>
    BY <1>4 DEF KeyAmountDiffers, NextRow
  <2>3. /\ ObligationsUsedOnce'
        /\ \A k : InResult(k)' => InResult(k) \/ k = cursor
    BY <2>1, <2>2, CursorIsFresh, AddException DEF OblInv
  <2>4. QED
    BY <1>0, <1>a, <2>2, <2>3, CursorIsFresh DEF OblInv
<1>5. CASE EndKeys
  BY <1>0, <1>5 DEF EndKeys, OblInv, ObligationsUsedOnce, InResult
<1>6. CASE Propose
  BY <1>0, <1>6 DEF Propose, OblInv, ObligationsUsedOnce, InResult,
                    LastPerOrder
<1>7. CASE SkipPairing
  BY <1>0, <1>7 DEF SkipPairing, NextPairing, OblInv, ObligationsUsedOnce,
                    InResult
<1>8. CASE AutoApply
  <2>1. PICK i \in openObl, j \in openSett :
            /\ matched' = matched \union {<<i, j>>}
            /\ openObl' = openObl \ {i}
    BY <1>8 DEF AutoApply, Take
  <2>2. /\ phase = "apply"
        /\ phase' = "apply"
        /\ UNCHANGED flagged
    BY <1>8 DEF AutoApply, NextPairing
  <2>3. /\ i \in DOMAIN obligations
        /\ j \in DOMAIN settlements
        /\ ~ InResult(i)
    BY <2>1, <2>2 DEF OblInv, TypeInv, OpenTyped
  <2>4. /\ ObligationsUsedOnce'
        /\ \A k : InResult(k)' => InResult(k) \/ k = i
    BY <2>1, <2>2, <2>3, AddPair DEF OblInv
  <2>5. QED
    BY <2>1, <2>2, <2>4 DEF OblInv
<1>9. CASE FlagForReview
  <2>1. PICK i \in openObl, j \in openSett :
            /\ flagged' = flagged \union {Review(i, j)}
            /\ openObl' = openObl \ {i}
    BY <1>9 DEF FlagForReview, Take
  <2>2. /\ phase = "apply"
        /\ phase' = "apply"
        /\ UNCHANGED matched
    BY <1>9 DEF FlagForReview, NextPairing
  <2>3. /\ Review(i, j).obl = i
        /\ ~ InResult(i)
    BY <2>1, <2>2, ExcFields DEF OblInv, Review
  <2>4. /\ ObligationsUsedOnce'
        /\ \A k : InResult(k)' => InResult(k) \/ k = i
    BY <2>1, <2>2, <2>3, AddException DEF OblInv
  <2>5. QED
    BY <2>1, <2>2, <2>4 DEF OblInv
<1>10. CASE EndFuzzy
  BY <1>0, <1>10 DEF EndFuzzy, OblInv, ObligationsUsedOnce, InResult
<1>11. CASE Classify
  <2>1. /\ flagged' = flagged \union Leftovers
        /\ UNCHANGED matched
        /\ phase = "classify"
        /\ phase' = "done"
    BY <1>11 DEF Classify
  <2>2. \A e \in Leftovers :
            e.obl = 0 \/ \E i \in openObl : e = Missing(i) /\ e.obl = i
    <3>1. \A i : Missing(i).obl = i
      BY ExcFields DEF Missing
    <3>2. \A j : Stray(j).obl = 0
      BY ExcFields DEF Stray
    <3>3. QED
      BY <3>1, <3>2 DEF Leftovers
  <2>3. \A i \in openObl : ~ InResult(i)
    BY <2>1 DEF OblInv
  <2>4. ASSUME NEW e \in flagged', NEW f \in flagged', e.obl = f.obl, e.obl # 0
        PROVE  e = f
    <3>1. CASE e \in flagged /\ f \in flagged
      BY <2>4, <3>1 DEF OblInv, ObligationsUsedOnce
    <3>2. CASE e \in flagged /\ f \in Leftovers
      BY <2>2, <2>3, <2>4, <3>2 DEF InResult
    <3>3. CASE e \in Leftovers /\ f \in flagged
      BY <2>2, <2>3, <2>4, <3>3 DEF InResult
    <3>4. CASE e \in Leftovers /\ f \in Leftovers
      BY <2>2, <2>4, <3>4
    <3>5. QED
      BY <2>1, <2>4, <3>1, <3>2, <3>3, <3>4
  <2>5. ASSUME NEW p \in matched', NEW e \in flagged'
        PROVE  p[1] # e.obl
    <3>1. p \in matched /\ p[1] # 0
      BY <1>a, <2>1, <2>5 DEF TypeInv, ResultTyped
    <3>2. CASE e \in flagged
      BY <3>1, <3>2 DEF OblInv, ObligationsUsedOnce
    <3>3. CASE e \in Leftovers
      BY <2>2, <2>3, <3>1, <3>3 DEF InResult
    <3>4. QED
      BY <2>1, <2>5, <3>2, <3>3
  <2>6. ObligationsUsedOnce'
    BY <2>1, <2>4, <2>5 DEF OblInv, ObligationsUsedOnce
  <2>7. QED
    BY <2>1, <2>6 DEF OblInv
<1>12. CASE UNCHANGED vars
  BY <1>12 DEF vars, OblInv, ObligationsUsedOnce, InResult
<1>13. QED
  BY <1>1, <1>2, <1>3, <1>4, <1>5, <1>6, <1>7, <1>8, <1>9, <1>10, <1>11, <1>12
  DEF Next, KeyStep, PairingStep

\* No obligation ends up in two entries of the result, for any files and any
\* proposal.
THEOREM NoObligationTwice == Spec => []ObligationsUsedOnce
<1>1. Init => OblInv
  BY DEF Init, OblInv, ObligationsUsedOnce, InResult
<1>2. OblInv => ObligationsUsedOnce
  BY DEF OblInv
<1>3. QED
  BY <1>1, <1>2, OblStep, TypeInvariant, PTL DEF Spec

----------------------------------------------------------------------------
\* Nothing is lost but what an equal id hides.  A row leaves the lists of the
\* rows still to be dealt with only into the result, or behind a row that has
\* its id.

ShadowedObl(i) ==
    /\ FuzzyEnabled
    /\ \E k \in DOMAIN obligations :
           k > i /\ obligations[k].order = obligations[i].order

ShadowedSett(j) ==
    \E k \in DOMAIN settlements :
        k # j /\ settlements[k].sid = settlements[j].sid

OblKept ==
    \A i \in DOMAIN obligations :
        \/ InResult(i)
        \/ i \in openObl /\ phase # "done"
        \/ i >= cursor /\ phase = "keys"
        \/ ShadowedObl(i) /\ phase \in {"apply", "classify", "done"}

SettKept ==
    \A j \in DOMAIN settlements :
        \/ SettInResult(j)
        \/ j \in openSett /\ phase # "done"
        \/ settlements[j].sid \notin consumed /\ phase = "keys"
        \/ ShadowedSett(j)

KeptInv ==
    /\ phase = "fuzzy" => FuzzyEnabled
    /\ OblKept
    /\ SettKept
    /\ phase = "keys" =>
           \A s \in consumed :
               \E k \in DOMAIN settlements :
                   SettInResult(k) /\ settlements[k].sid = s

\* The result only grows.
LEMMA ResultGrows ==
    ASSUME [Next]_vars
    PROVE  /\ \A k : InResult(k) => InResult(k)'
           /\ \A k : SettInResult(k) => SettInResult(k)'
<1>1. matched \subseteq matched' /\ flagged \subseteq flagged'
  BY DEF Next, KeyStep, PairingStep, vars, KeyUnmatched, KeyDuplicate,
         KeyMatched, KeyAmountDiffers, EndKeys, Propose, SkipPairing,
         AutoApply, FlagForReview, EndFuzzy, Classify
<1>2. QED
  BY <1>1 DEF InResult, SettInResult

\* What an iteration of the key matching consumes, it puts in the result.
LEMMA KeyStepKeeps ==
    ASSUME TypeInv, KeyStep, NEW c, c = cursor
    PROVE  /\ InResult(c)' \/ c \in openObl'
           /\ openObl \subseteq openObl'
           /\ \A s \in consumed' : \/ s \in consumed
                                   \/ \E k \in DOMAIN settlements :
                                          /\ SettInResult(k)'
                                          /\ settlements[k].sid = s
<1>1. CASE KeyUnmatched
  BY <1>1 DEF KeyUnmatched
<1>2. CASE KeyDuplicate
  <2> DEFINE rows == Candidates(obligations[cursor])
             exc == Exc("DUPLICATE_SETTLEMENT", cursor, rows, Party(cursor))
  <2>1. /\ flagged' = flagged \union {exc}
        /\ consumed' = consumed \union Sids(rows)
        /\ openObl' = openObl
    BY <1>2 DEF KeyDuplicate, Consume
  <2>2. exc.obl = cursor /\ exc.setts = rows
    BY ExcFields
  <2>3. rows \subseteq DOMAIN settlements
    BY CandidateRows
  <2> HIDE DEF rows, exc
  <2>4. QED
    BY <2>1, <2>2, <2>3 DEF InResult, SettInResult, Sids
<1>3. CASE KeyMatched
  <2>1. PICK j \in DOMAIN settlements :
            /\ consumed' = consumed \union Sids({j})
            /\ matched' = matched \union {<<cursor, j>>}
    BY <1>3 DEF KeyMatched, Consume
  <2>2. openObl' = openObl
    BY <1>3 DEF KeyMatched
  <2>3. <<c, j>> \in matched'
    BY <2>1
  <2>4. InResult(c)' /\ SettInResult(j)'
    BY <2>3 DEF InResult, SettInResult
  <2>5. QED
    BY <2>1, <2>2, <2>4 DEF Sids
<1>4. CASE KeyAmountDiffers
  <2>0. PICK j \in DOMAIN settlements : \E s :
            /\ consumed' = consumed \union Sids({j})
            /\ flagged' = flagged \union
                   {Exc(AmountReason(s), cursor, {j}, Party(cursor))}
    BY <1>4 DEF KeyAmountDiffers, Consume
  <2>1. PICK s :
            /\ consumed' = consumed \union Sids({j})
            /\ flagged' = flagged \union
                   {Exc(AmountReason(s), cursor, {j}, Party(cursor))}
    BY <2>0
  <2> DEFINE exc == Exc(AmountReason(s), c, {j}, Party(cursor))
  <2>2. openObl' = openObl
    BY <1>4 DEF KeyAmountDiffers
  <2>3. exc \in flagged'
    BY <2>1
  <2>4. exc.obl = c /\ exc.setts = {j}
    BY ExcFields
  <2> HIDE DEF exc
  <2>5. InResult(c)' /\ SettInResult(j)'
    BY <2>3, <2>4 DEF InResult, SettInResult
  <2>6. QED
    BY <2>1, <2>2, <2>5 DEF Sids
<1>5. QED
  BY <1>1, <1>2, <1>3, <1>4 DEF KeyStep

\* What an iteration of the fuzzy step takes from the leftovers, it puts in
\* the result.
LEMMA PairingStepKeeps ==
    ASSUME PairingStep
    PROVE  /\ \A i \in openObl : InResult(i)' \/ i \in openObl'
           /\ \A j \in openSett : SettInResult(j)' \/ j \in openSett'
<1>1. CASE SkipPairing
  BY <1>1 DEF SkipPairing
<1>2. CASE AutoApply
  <2>1. PICK i \in openObl, j \in openSett :
            /\ matched' = matched \union {<<i, j>>}
            /\ Take(i, j)
    BY <1>2 DEF AutoApply
  <2>2. <<i, j>> \in matched'
    BY <2>1
  <2>3. InResult(i)' /\ SettInResult(j)'
    BY <2>2 DEF InResult, SettInResult
  <2>4. QED
    BY <2>1, <2>3 DEF Take
<1>3. CASE FlagForReview
  <2>1. PICK i \in openObl, j \in openSett :
            /\ flagged' = flagged \union {Review(i, j)}
            /\ Take(i, j)
    BY <1>3 DEF FlagForReview
  <2>2. Review(i, j).obl = i /\ Review(i, j).setts = {j}
    BY ExcFields DEF Review
  <2>3. Review(i, j) \in flagged'
    BY <2>1
  <2>4. InResult(i)' /\ SettInResult(j)'
    BY <2>2, <2>3 DEF InResult, SettInResult
  <2>5. QED
    BY <2>1, <2>4 DEF Take
<1>4. QED
  BY <1>1, <1>2, <1>3 DEF PairingStep

LEMMA ClassifyKeeps ==
    ASSUME Classify
    PROVE  /\ \A i \in openObl : InResult(i)'
           /\ \A j \in openSett : SettInResult(j)'
<1>1. Leftovers \subseteq flagged'
  BY DEF Classify
<1>2. ASSUME NEW i \in openObl PROVE InResult(i)'
  <2>1. Missing(i).obl = i
    BY ExcFields DEF Missing
  <2>2. Missing(i) \in flagged'
    BY <1>1 DEF Leftovers
  <2>3. QED
    BY <2>1, <2>2 DEF InResult
<1>3. ASSUME NEW j \in openSett PROVE SettInResult(j)'
  <2>1. Stray(j).setts = {j}
    BY ExcFields DEF Stray
  <2>2. Stray(j) \in flagged'
    BY <1>1 DEF Leftovers
  <2>3. QED
    BY <2>1, <2>2 DEF SettInResult
<1>4. QED
  BY <1>2, <1>3

LEMMA KeptStep == TypeInv /\ KeptInv /\ [Next]_vars => KeptInv'
<1> SUFFICES ASSUME TypeInv, KeptInv, [Next]_vars PROVE KeptInv'
  OBVIOUS
<1>0. /\ obligations' = obligations
      /\ settlements' = settlements
  BY InputIsFixed DEF input
<1>a. /\ openObl \subseteq DOMAIN obligations
      /\ openSett \subseteq DOMAIN settlements
      /\ DOMAIN obligations \subseteq Nat \ {0}
      /\ DOMAIN settlements \subseteq Nat
      /\ cursor \in Nat
  BY RowNumbers DEF TypeInv, InputTyped, OpenTyped, LoopTyped
<1>b. /\ \A i : ShadowedObl(i)' <=> ShadowedObl(i)
      /\ \A j : ShadowedSett(j)' <=> ShadowedSett(j)
  BY <1>0 DEF ShadowedObl, ShadowedSett
<1>1. CASE KeyStep
  <2>1. /\ phase = "keys"
        /\ phase' = "keys"
        /\ cursor' = cursor + 1
        /\ openSett' = openSett
    BY <1>1 DEF KeyStep, KeyUnmatched, KeyDuplicate, KeyMatched,
                KeyAmountDiffers, NextRow
  <2>2. PICK c : c = cursor
    OBVIOUS
  <2>3. OblKept'
    BY <1>0, <1>a, <1>1, <2>1, <2>2, KeyStepKeeps, ResultGrows
    DEF KeptInv, OblKept
  <2>4. \A s \in consumed' :
            \E k \in DOMAIN settlements :
                SettInResult(k)' /\ settlements[k].sid = s
    BY <1>1, <2>1, <2>2, KeyStepKeeps, ResultGrows DEF KeptInv
  <2>5. SettKept'
    <3> SUFFICES ASSUME NEW j \in DOMAIN settlements,
                        ~ SettInResult(j)', settlements[j].sid \in consumed'
                 PROVE  ShadowedSett(j)
      BY <1>0, <1>b, <2>1 DEF SettKept
    <3>1. PICK k \in DOMAIN settlements :
              SettInResult(k)' /\ settlements[k].sid = settlements[j].sid
      BY <2>4
    <3>2. k # j
      BY <3>1
    <3>3. QED
      BY <3>1, <3>2 DEF ShadowedSett
  <2>6. QED
    BY <1>0, <2>1, <2>3, <2>4, <2>5 DEF KeptInv
<1>2. CASE EndKeys
  <2>1. /\ phase = "keys"
        /\ phase' \in {"fuzzy", "classify"}
        /\ phase' = "fuzzy" => FuzzyEnabled
        /\ openSett' = Live(DOMAIN settlements)
        /\ UNCHANGED openObl
        /\ cursor \notin DOMAIN obligations
    BY <1>2 DEF EndKeys
  <2>2. \A i \in DOMAIN obligations : InResult(i) \/ i \in openObl
    <3>1. \A i \in DOMAIN obligations : i < cursor
      BY <1>a, <2>1 DEF TypeInv, InputTyped, LoopTyped
    <3>2. QED
      BY <1>a, <2>1, <3>1 DEF KeptInv, OblKept
  <2>3. SettKept'
    <3>1. \A j \in DOMAIN settlements :
              SettInResult(j) \/ j \in openSett' \/ ShadowedSett(j)
      <4>1. \A j \in DOMAIN settlements :
                settlements[j].sid \notin consumed => j \in openSett'
        BY <2>1 DEF Live
      <4>2. \A j \in DOMAIN settlements :
                settlements[j].sid \in consumed =>
                    SettInResult(j) \/ ShadowedSett(j)
        <5>1. \A s \in consumed :
                  \E k \in DOMAIN settlements :
                      SettInResult(k) /\ settlements[k].sid = s
          BY <2>1 DEF KeptInv
        <5>2. QED
          BY <5>1 DEF ShadowedSett
      <4>3. QED
        BY <4>1, <4>2
    <3>2. QED
      BY <1>0, <1>b, <2>1, <3>1, ResultGrows DEF SettKept
  <2>4. QED
    BY <1>0, <2>1, <2>2, <2>3, ResultGrows DEF KeptInv, OblKept
<1>3. CASE Propose
  <2>1. /\ phase = "fuzzy"
        /\ phase' = "apply"
        /\ openObl' = LastPerOrder(openObl)
        /\ openSett' = LastPerSid(openSett)
    BY <1>3 DEF Propose
  <2>2. \A i \in openObl : i \in openObl' \/ ShadowedObl(i)
    BY <1>a, <2>1 DEF LastPerOrder, ShadowedObl, KeptInv
  <2>3. \A j \in openSett : j \in openSett' \/ ShadowedSett(j)
    BY <1>a, <2>1 DEF LastPerSid, ShadowedSett
  <2>4. OblKept'
    BY <1>0, <1>b, <2>1, <2>2, ResultGrows DEF KeptInv, OblKept
  <2>5. SettKept'
    BY <1>0, <1>b, <2>1, <2>3, ResultGrows DEF KeptInv, SettKept
  <2>6. QED
    BY <2>1, <2>4, <2>5 DEF KeptInv
<1>4. CASE PairingStep
  <2>1. phase = "apply" /\ phase' = "apply"
    BY <1>4 DEF PairingStep, SkipPairing, AutoApply, FlagForReview, NextPairing
  <2>2. OblKept'
    BY <1>0, <1>b, <1>4, <2>1, PairingStepKeeps, ResultGrows
    DEF KeptInv, OblKept
  <2>3. SettKept'
    BY <1>0, <1>b, <1>4, <2>1, PairingStepKeeps, ResultGrows
    DEF KeptInv, SettKept
  <2>4. QED
    BY <2>1, <2>2, <2>3 DEF KeptInv
<1>5. CASE EndFuzzy
  <2>1. /\ phase = "apply"
        /\ phase' = "classify"
        /\ UNCHANGED <<openObl, openSett>>
    BY <1>5 DEF EndFuzzy
  <2>2. QED
    BY <1>0, <1>b, <2>1, ResultGrows DEF KeptInv, OblKept, SettKept
<1>6. CASE Classify
  <2>1. phase = "classify" /\ phase' = "done"
    BY <1>6 DEF Classify
  <2>2. OblKept'
    BY <1>0, <1>b, <1>6, <2>1, ClassifyKeeps, ResultGrows DEF KeptInv, OblKept
  <2>3. SettKept'
    BY <1>0, <1>b, <1>6, <2>1, ClassifyKeeps, ResultGrows DEF KeptInv, SettKept
  <2>4. QED
    BY <2>1, <2>2, <2>3 DEF KeptInv
<1>7. CASE UNCHANGED vars
  <2>1. /\ UNCHANGED <<phase, cursor, openObl, openSett, consumed>>
    BY <1>7 DEF vars
  <2>2. OblKept' /\ SettKept'
    BY <1>0, <1>b, <2>1, ResultGrows DEF KeptInv, OblKept, SettKept
  <2>3. QED
    BY <1>0, <2>1, <2>2, ResultGrows DEF KeptInv
<1>8. QED
  BY <1>1, <1>2, <1>3, <1>4, <1>5, <1>6, <1>7 DEF Next

\* An obligation missing from the result is followed by one of its order, and
\* a settlement missing from it shares its settlement_id with another: the
\* dictionaries of the fuzzy step and the consumed ids are the only places
\* where a run drops a row, whatever the files and the proposal.
THEOREM OnlyEqualIdsHide == Spec => []OnlyShadowedVanish
<1>1. TypeInv /\ Init => KeptInv
  <2> SUFFICES ASSUME TypeInv, Init PROVE KeptInv
    OBVIOUS
  <2>1. \A i \in DOMAIN obligations : i >= cursor
    BY RowNumbers DEF Init, TypeInv
  <2>2. QED
    BY <2>1 DEF Init, KeptInv, OblKept, SettKept
<1>2. KeptInv => OnlyShadowedVanish
  BY DEF KeptInv, OblKept, SettKept, OnlyShadowedVanish, ShadowedObl,
         ShadowedSett
<1>3. QED
  BY <1>1, <1>2, TypeInit, KeptStep, TypeInvariant, PTL DEF Spec

----------------------------------------------------------------------------
\* The single pass computes what the keys define.  Without contention, what
\* the earlier obligations consumed is nothing the current one can reach, so
\* all the settlements it wants are still live.

Reach(i) == Sids(ByTxn(obligations[i]) \union ByOrderType(obligations[i]))

\* What the definition says of obligation i.
AsDefined(i) ==
    LET rows == Wanted(obligations[i]) IN
    /\ rows = {} => ~ \E p \in matched \ autoApplied : p[1] = i
    /\ Cardinality(rows) > 1 =>
           Exc("DUPLICATE_SETTLEMENT", i, rows, Party(i)) \in flagged
    /\ \A j \in DOMAIN settlements : rows = {j} =>
           LET status == AmountStatus(obligations[i].expected,
                                      settlements[j].amount) IN
           IF status = "MATCHED"
           THEN <<i, j>> \in matched
           ELSE Exc(AmountReason(status), i, {j}, Party(i)) \in flagged

DefInv ==
    Uncontended =>
        /\ \A i \in DOMAIN obligations : Decided(i) => AsDefined(i)
        /\ phase = "keys" =>
               /\ autoApplied = {}
               /\ \A s \in consumed :
                      \E k \in DOMAIN obligations : k < cursor /\ s \in Reach(k)

LEMMA AllWantedAreLive ==
    ASSUME TypeInv, DefInv, Uncontended, phase = "keys",
           cursor \in DOMAIN obligations
    PROVE  /\ Candidates(obligations[cursor]) = Wanted(obligations[cursor])
           /\ Sids(Candidates(obligations[cursor])) \subseteq Reach(cursor)
<1> DEFINE o == obligations[cursor]
<1>1. \A j \in ByTxn(o) \union ByOrderType(o) : settlements[j].sid \notin consumed
  <2> SUFFICES ASSUME NEW j \in ByTxn(o) \union ByOrderType(o),
                      settlements[j].sid \in consumed
               PROVE  FALSE
    OBVIOUS
  <2>1. settlements[j].sid \in Reach(cursor)
    BY DEF Reach, Sids
  <2>2. PICK k \in DOMAIN obligations :
            k < cursor /\ settlements[j].sid \in Reach(k)
    BY DEF DefInv
  <2>3. k # cursor
    BY <2>2, RowNumbers DEF TypeInv
  <2>4. Reach(k) \intersect Reach(cursor) = {}
    BY <2>3 DEF Uncontended, Reach
  <2>5. QED
    BY <2>1, <2>2, <2>4
<1>2. Live(ByTxn(o)) = ByTxn(o) /\ Live(ByOrderType(o)) = ByOrderType(o)
  BY <1>1 DEF Live
<1>3. Candidates(o) = Wanted(o)
  BY <1>2 DEF Candidates, Wanted
<1>4. Wanted(o) \subseteq ByTxn(o) \union ByOrderType(o)
  BY DEF Wanted
<1>5. Sids(Wanted(o)) \subseteq Sids(ByTxn(o) \union ByOrderType(o))
  BY <1>4 DEF Sids
<1>6. QED
  BY <1>3, <1>5 DEF Reach

\* What the definition says of a row survives every step.
LEMMA DefinedStays ==
    ASSUME [Next]_vars, NEW i, AsDefined(i), OblInv,
           matched' \ autoApplied' \subseteq matched \ autoApplied
           \/ \A p \in matched' \ matched : p[1] # i
    PROVE  AsDefined(i)'
<1>1. /\ obligations' = obligations
      /\ settlements' = settlements
  BY InputIsFixed DEF input
<1>2. /\ matched \subseteq matched'
      /\ flagged \subseteq flagged'
      /\ autoApplied \subseteq autoApplied'
  BY DEF Next, KeyStep, PairingStep, vars, KeyUnmatched, KeyDuplicate,
         KeyMatched, KeyAmountDiffers, NextRow, EndKeys, Propose, SkipPairing,
         AutoApply, FlagForReview, NextPairing, EndFuzzy, Classify
<1>3. /\ Wanted(obligations[i])' = Wanted(obligations[i])
      /\ Party(i)' = Party(i)
  BY <1>1 DEF Wanted, ByTxn, ByOrderType, Party
<1>4. (\E p \in matched' \ autoApplied' : p[1] = i)
      => \E p \in matched \ autoApplied : p[1] = i
  BY <1>2
<1>5. QED
  BY <1>1, <1>2, <1>3, <1>4 DEF AsDefined

LEMMA KeyStepDefines ==
    ASSUME TypeInv, OblInv, DefInv, Uncontended, KeyStep,
           NEW c, c = cursor
    PROVE  /\ AsDefined(c)'
           /\ \A s \in consumed' : s \in consumed \/ s \in Reach(c)
           /\ \A p \in matched' \ matched : p[1] = c
           /\ UNCHANGED autoApplied
<1> DEFINE rows == Candidates(obligations[c])
<1>0. /\ obligations' = obligations
      /\ settlements' = settlements
      /\ phase = "keys"
      /\ cursor \in DOMAIN obligations
      /\ UNCHANGED autoApplied
  BY DEF KeyStep, KeyUnmatched, KeyDuplicate, KeyMatched, KeyAmountDiffers,
         NextRow, input
<1>1. /\ rows = Wanted(obligations[c])
      /\ Sids(rows) \subseteq Reach(c)
  BY <1>0, AllWantedAreLive
<1>2. ~ InResult(c)
  BY <1>0, CursorIsFresh
<1>3. /\ Wanted(obligations[c])' = rows
      /\ Party(c)' = Party(c)
  BY <1>0, <1>1 DEF Wanted, ByTxn, ByOrderType, Party
<1> HIDE DEF rows
<1>4. CASE KeyUnmatched
  <2>1. rows = {} /\ UNCHANGED <<matched, consumed>>
    BY <1>4 DEF KeyUnmatched, rows
  <2>2. ~ (Cardinality(rows) > 1)
    BY <2>1, FS_EmptySet
  <2>3. \A p \in matched : p[1] # c
    BY <1>2 DEF InResult
  <2>4. AsDefined(c)'
    BY <1>0, <1>3, <2>1, <2>2, <2>3 DEF AsDefined
  <2>5. QED
    BY <1>0, <2>1, <2>4
<1>5. CASE KeyDuplicate
  <2>1. /\ Cardinality(rows) > 1
        /\ consumed' = consumed \union Sids(rows)
        /\ flagged' = flagged \union
               {Exc("DUPLICATE_SETTLEMENT", c, rows, Party(c))}
        /\ UNCHANGED matched
    BY <1>5 DEF KeyDuplicate, Consume, rows
  <2>2. rows # {} /\ \A j : rows # {j}
    <3>1. ~ (0 > 1) /\ ~ (1 > 1)
      OBVIOUS
    <3>2. rows # {}
      BY <2>1, <3>1, FS_EmptySet, Zenon
    <3>3. \A j : rows # {j}
      BY <2>1, <3>1, FS_Singleton, Zenon
    <3>4. QED
      BY <3>2, <3>3
  <2>3. AsDefined(c)'
    BY <1>0, <1>3, <2>1, <2>2 DEF AsDefined
  <2>4. QED
    BY <1>0, <1>1, <2>1, <2>3
<1>6. CASE KeyMatched
  <2>1. PICK j \in DOMAIN settlements :
            /\ rows = {j}
            /\ AmountStatus(obligations[c].expected, settlements[j].amount)
               = "MATCHED"
            /\ consumed' = consumed \union Sids({j})
            /\ matched' = matched \union {<<c, j>>}
    BY <1>6 DEF KeyMatched, Consume, rows
  <2>2. rows # {} /\ Cardinality(rows) = 1
    BY <2>1, FS_Singleton
  <2>3. AsDefined(c)'
    BY <1>0, <1>3, <2>1, <2>2 DEF AsDefined
  <2>4. QED
    BY <1>0, <1>1, <2>1, <2>3
<1>7. CASE KeyAmountDiffers
  <2>1. PICK j \in DOMAIN settlements :
            LET status == AmountStatus(obligations[cursor].expected,
                                       settlements[j].amount) IN
            /\ Candidates(obligations[cursor]) = {j}
            /\ status # "MATCHED"
            /\ Consume({j})
            /\ flagged' = flagged \union
                   {Exc(AmountReason(status), cursor, {j}, Party(cursor))}
    BY <1>7 DEF KeyAmountDiffers
  <2> DEFINE status == AmountStatus(obligations[c].expected,
                                    settlements[j].amount)
             exc == Exc(AmountReason(status), c, {j}, Party(c))
  <2>2. /\ rows = {j}
        /\ status # "MATCHED"
        /\ consumed' = consumed \union Sids({j})
        /\ exc \in flagged'
    BY <2>1 DEF Consume, rows
  <2>3. UNCHANGED matched
    BY <1>7 DEF KeyAmountDiffers
  <2>4. rows # {} /\ Cardinality(rows) = 1
    BY <2>2, FS_Singleton
  <2>5. AsDefined(c)'
    <3>1. ~ (Cardinality(rows) > 1)
      BY <2>4
    <3>2. ASSUME NEW k \in DOMAIN settlements, rows = {k}
          PROVE  LET st == AmountStatus(obligations[c].expected,
                                        settlements[k].amount) IN
                 /\ st # "MATCHED"
                 /\ Exc(AmountReason(st), c, {k}, Party(c)) \in flagged'
      <4>1. k = j
        BY <2>2, <3>2
      <4>2. QED
        BY <2>2, <4>1
    <3>3. QED
      BY <1>0, <1>3, <2>4, <3>1, <3>2 DEF AsDefined
  <2>6. QED
    BY <1>0, <1>1, <2>2, <2>3, <2>5
<1>8. QED
  BY <1>4, <1>5, <1>6, <1>7 DEF KeyStep

LEMMA DefStep == TypeInv /\ OblInv /\ DefInv /\ [Next]_vars => DefInv'
<1> SUFFICES ASSUME TypeInv, OblInv, DefInv, [Next]_vars, Uncontended'
             PROVE  /\ \A i \in DOMAIN obligations' : Decided(i)' => AsDefined(i)'
                    /\ phase' = "keys" =>
                           /\ autoApplied' = {}
                           /\ \A s \in consumed' :
                                  \E k \in DOMAIN obligations' :
                                      k < cursor' /\ s \in Reach(k)'
  BY DEF DefInv
<1>0. /\ obligations' = obligations
      /\ settlements' = settlements
  BY InputIsFixed DEF input
<1>a. Uncontended
  BY <1>0 DEF Uncontended, ByTxn, ByOrderType, Sids
<1>b. \A k : Reach(k)' = Reach(k)
  BY <1>0 DEF Reach, ByTxn, ByOrderType, Sids
<1>c. /\ DOMAIN obligations \subseteq Nat \ {0}
      /\ cursor \in Nat
  BY RowNumbers DEF TypeInv, LoopTyped
<1>d. \A i \in DOMAIN obligations : Decided(i) => AsDefined(i)
  BY <1>a DEF DefInv
<1>1. CASE KeyStep
  <2>1. /\ phase = "keys"
        /\ phase' = "keys"
        /\ cursor \in DOMAIN obligations
        /\ cursor' = cursor + 1
    BY <1>1 DEF KeyStep, KeyUnmatched, KeyDuplicate, KeyMatched,
                KeyAmountDiffers, NextRow
  <2>2. PICK c : c = cursor
    OBVIOUS
  <2>3. /\ AsDefined(c)'
        /\ \A s \in consumed' : s \in consumed \/ s \in Reach(c)
        /\ \A p \in matched' \ matched : p[1] = c
        /\ UNCHANGED autoApplied
    BY <1>1, <1>a, <2>2, KeyStepDefines
  <2>4. ASSUME NEW i \in DOMAIN obligations, Decided(i)'
        PROVE  AsDefined(i)'
    <3>1. CASE i = c
      BY <2>3, <3>1
    <3>2. CASE i # c
      <4>1. Decided(i)
        BY <1>c, <2>1, <2>2, <2>4, <3>2 DEF Decided
      <4>2. AsDefined(i)
        BY <1>d, <4>1
      <4>3. QED
        BY <2>3, <3>2, <4>2, DefinedStays
    <3>3. QED
      BY <3>1, <3>2
  <2>5. ASSUME NEW s \in consumed'
        PROVE  \E k \in DOMAIN obligations : k < cursor' /\ s \in Reach(k)
    <3>1. CASE s \in Reach(c)
      BY <1>c, <2>1, <2>2, <3>1
    <3>2. CASE s \in consumed
      <4>1. PICK k \in DOMAIN obligations : k < cursor /\ s \in Reach(k)
        BY <1>a, <2>1, <3>2 DEF DefInv
      <4>2. k < cursor'
        BY <1>c, <2>1, <4>1
      <4>3. QED
        BY <4>1, <4>2
    <3>3. QED
      BY <2>3, <2>5, <3>1, <3>2
  <2>6. autoApplied' = {}
    BY <1>a, <2>1, <2>3 DEF DefInv
  <2>7. QED
    BY <1>0, <1>b, <2>4, <2>5, <2>6
<1>2. CASE EndKeys
  <2>1. /\ phase' # "keys"
        /\ UNCHANGED <<matched, autoApplied>>
        /\ phase = "keys" /\ cursor \notin DOMAIN obligations
    BY <1>2 DEF EndKeys
  <2>2. \A i \in DOMAIN obligations : Decided(i)
    BY <1>c, <2>1 DEF Decided, TypeInv, InputTyped, LoopTyped
  <2>3. QED
    BY <1>0, <1>d, <2>1, <2>2, DefinedStays
<1>3. CASE Propose \/ SkipPairing \/ FlagForReview \/ EndFuzzy \/ Classify
  <2>1. /\ phase' # "keys"
        /\ phase # "keys"
        /\ UNCHANGED <<matched, autoApplied>>
    BY <1>3 DEF Propose, SkipPairing, FlagForReview, NextPairing, EndFuzzy,
                Classify
  <2>2. QED
    BY <1>0, <1>d, <2>1, DefinedStays DEF Decided
<1>4. CASE AutoApply
  <2>1. PICK i \in openObl, j \in openSett :
            /\ matched' = matched \union {<<i, j>>}
            /\ autoApplied' = autoApplied \union {<<i, j>>}
    BY <1>4 DEF AutoApply
  <2>2. phase = "apply" /\ phase' = "apply"
    BY <1>4 DEF AutoApply, NextPairing
  <2>3. matched' \ autoApplied' \subseteq matched \ autoApplied
    BY <2>1
  <2>4. QED
    BY <1>0, <1>d, <2>2, <2>3, DefinedStays DEF Decided
<1>5. CASE UNCHANGED vars
  <2>1. UNCHANGED <<phase, cursor, matched, autoApplied, consumed>>
    BY <1>5 DEF vars
  <2>2. \A i : Decided(i)' => Decided(i)
    BY <2>1 DEF Decided
  <2>3. \A i \in DOMAIN obligations : Decided(i)' => AsDefined(i)'
    BY <1>d, <2>1, <2>2, DefinedStays
  <2>4. QED
    BY <1>0, <1>a, <1>b, <2>1, <2>3 DEF DefInv
<1>6. QED
  BY <1>1, <1>2, <1>3, <1>4, <1>5 DEF Next, PairingStep

\* The judgement of the amount in terms of the gap.
Judged(i, j) ==
    LET gap == settlements[j].amount - obligations[i].expected IN
    /\ gap <= Tolerance /\ -gap <= Tolerance => <<i, j>> \in matched
    /\ -gap > Tolerance => Exc("AMOUNT_SHORT", i, {j}, Party(i)) \in flagged
    /\ gap > Tolerance => Exc("AMOUNT_EXCESS", i, {j}, Party(i)) \in flagged

LEMMA GapJudged ==
    ASSUME NEW x \in Int, NEW y \in Int
    PROVE  /\ y - x <= Tolerance /\ -(y - x) <= Tolerance =>
                  AmountStatus(x, y) = "MATCHED"
           /\ -(y - x) > Tolerance => /\ AmountStatus(x, y) # "MATCHED"
                                      /\ AmountReason(AmountStatus(x, y)) = "AMOUNT_SHORT"
           /\ y - x > Tolerance => /\ AmountStatus(x, y) # "MATCHED"
                                   /\ AmountReason(AmountStatus(x, y)) = "AMOUNT_EXCESS"
BY LimitsAssumption DEF AmountStatus, AmountReason

\* When no settlement can be reached by two obligations, the single pass with
\* its consumed ids gives every obligation the entry the matching keys of
\* reconcile_keys define, for any number of rows in any order.
THEOREM PassComputesKeys == Spec => []MatchesDefinition
<1>1. TypeInv /\ Init => DefInv
  <2> SUFFICES ASSUME TypeInv, Init PROVE DefInv
    OBVIOUS
  <2>1. \A i \in DOMAIN obligations : ~ Decided(i)
    BY RowNumbers DEF Init, TypeInv, Decided
  <2>2. QED
    BY <2>1 DEF Init, DefInv
<1>2. TypeInv /\ DefInv => MatchesDefinition
  <2> SUFFICES ASSUME TypeInv, DefInv, Uncontended,
                      NEW i \in DOMAIN obligations, Decided(i)
               PROVE  LET rows == Wanted(obligations[i]) IN
                      /\ rows = {} => ~ \E p \in matched \ autoApplied : p[1] = i
                      /\ Cardinality(rows) > 1 =>
                             Exc("DUPLICATE_SETTLEMENT", i, rows, Party(i)) \in flagged
                      /\ \A j \in DOMAIN settlements : rows = {j} => Judged(i, j)
    BY DEF MatchesDefinition, Judged
  <2>1. AsDefined(i)
    BY DEF DefInv
  <2>2. ASSUME NEW j \in DOMAIN settlements, Wanted(obligations[i]) = {j}
        PROVE  Judged(i, j)
    <3>1. obligations[i].expected \in Int /\ settlements[j].amount \in Int
      BY RowsAssumption DEF TypeInv, InputTyped
    <3>2. LET status == AmountStatus(obligations[i].expected, settlements[j].amount) IN
          IF status = "MATCHED" THEN <<i, j>> \in matched
          ELSE Exc(AmountReason(status), i, {j}, Party(i)) \in flagged
      BY <2>1, <2>2 DEF AsDefined
    <3>3. QED
      BY <3>1, <3>2, GapJudged DEF Judged
  <2>3. QED
    BY <2>1, <2>2 DEF AsDefined
<1>3. Init => OblInv
  BY DEF Init, OblInv, ObligationsUsedOnce, InResult
<1>4. QED
  BY <1>1, <1>2, <1>3, TypeInit, OblStep, DefStep, TypeInvariant, PTL DEF Spec

----------------------------------------------------------------------------
\* When the documents are right: the two claims the runs refute hold of every
\* input that stays clear of what refutes them.

NothingSplit ==
    FuzzyEnabled => \A i, k \in DOMAIN obligations :
                        obligations[i].order = obligations[k].order => i = k

\* Each obligation gets a status when the fuzzy step is off, or when no two
\* obligations are of one order: only split orders lose one (fuzzy_node).
THEOREM StatusUnlessSplit == Spec => [](NothingSplit => ExactlyOneStatus)
<1>1. TypeInv /\ OnlyShadowedVanish => (NothingSplit => ExactlyOneStatus)
  <2> SUFFICES ASSUME TypeInv, OnlyShadowedVanish, NothingSplit,
                      phase = "done", NEW i \in DOMAIN obligations, ~ InResult(i)
               PROVE  FALSE
    BY DEF ExactlyOneStatus
  <2>1. FuzzyEnabled
    BY DEF OnlyShadowedVanish
  <2>2. PICK k \in DOMAIN obligations :
            k > i /\ obligations[k].order = obligations[i].order
    BY DEF OnlyShadowedVanish
  <2>3. k = i
    BY <2>1, <2>2 DEF NothingSplit
  <2>4. i \in Nat
    BY RowNumbers DEF TypeInv
  <2>5. QED
    BY <2>2, <2>3, <2>4
<1>2. QED
  BY <1>1, TypeInvariant, OnlyEqualIdsHide, PTL

\* Where no two obligations can reach the same settlement, a settlement that
\* carries the transaction id of one obligation is matched with no other, with the
\* pairings of the language model applied (reconcile_keys, fuzzy_node).
THEOREM TxnFirstUnlessContended == Spec => [](Uncontended => TxnKeyComesFirst)
<1>1. TypeInv /\ SettlementsUsedOnce /\ MatchesDefinition =>
          (Uncontended => TxnKeyComesFirst)
  <2> SUFFICES ASSUME TypeInv, SettlementsUsedOnce, MatchesDefinition, Uncontended,
                      phase = "done",
                      NEW i \in DOMAIN obligations, NEW j \in DOMAIN settlements,
                      ByTxn(obligations[i]) = {j},
                      NEW p \in matched, p[2] = j
               PROVE  p[1] = i
    BY DEF TxnKeyComesFirst
  <2>1. Wanted(obligations[i]) = {j}
    BY DEF Wanted
  <2>2. Judged(i, j)
    BY <2>1 DEF MatchesDefinition, Decided, Judged
  <2>3. obligations[i].expected \in Int /\ settlements[j].amount \in Int
    BY RowsAssumption DEF TypeInv, InputTyped
  <2>4. <<i, j>> \in matched \/ \E e \in flagged : e.setts = {j}
    BY <2>2, <2>3, LimitsAssumption DEF Judged, Exc
  <2>5. CASE <<i, j>> \in matched
    <3>1. <<i, j>>[2] = j
      OBVIOUS
    <3>2. p = <<i, j>>
      BY <2>5, <3>1 DEF SettlementsUsedOnce
    <3>3. QED
      BY <3>2
  <2>6. CASE \E e \in flagged : e.setts = {j}
    <3>1. PICK e \in flagged : e.setts = {j}
      BY <2>6
    <3>2. QED
      BY <3>1 DEF SettlementsUsedOnce
  <2>7. QED
    BY <2>4, <2>5, <2>6
<1>2. QED
  BY <1>1, TypeInvariant, NoSettlementTwice, PassComputesKeys, PTL
=============================================================================
