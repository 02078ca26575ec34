------------------------------ MODULE Matching ------------------------------
(***************************************************************************)
(* The reconciliation of one run, from the two parsed files to the list of *)
(* exceptions: reconcile_keys (reconciliation/matcher.py), the fuzzy step   *)
(* (fuzzy_node of agent/nodes.py) and classify_leftovers, joined the way    *)
(* the graph joins them.  A run's reconciliation is sequential; the         *)
(* behaviours range over the inputs and over what the language model       *)
(* proposes.                                                               *)
(*                                                                         *)
(* Obligations and settlements are known by their row numbers, because     *)
(* nothing makes the ids in the rows unique.                               *)
(***************************************************************************)
EXTENDS Integers, Sequences, FiniteSets

CONSTANTS
    ObligationRows,   \* the obligations a file can hold
    SettlementRows,   \* the settlements a file can hold
    MaxObligations,   \* bound: rows of either kind
    MaxSettlements,
    Tolerance,        \* reconciliation.amount_tolerance
    GraceDays,        \* reconciliation.sla_grace_days, a partial function
    FuzzyEnabled,     \* fuzzy_match.enabled
    Pairings,         \* the pairings the language model can propose
    MaxPairings,      \* bound: pairings in one proposal
    Absent            \* Python's None in an id column

Cash == "CASH"
PaymentTypes == {Cash, "UPI", "CARD", "NETBANKING", "WALLET"}

\* The two thresholds of the fuzzy step cut the confidences in three.
Confidences == {"auto", "review", "low"}

ASSUME RowsAssumption ==
    /\ \A o \in ObligationRows :
           /\ DOMAIN o = {"order", "type", "txn", "expected", "age", "party"}
           /\ o.type \in PaymentTypes
           /\ o.expected \in Nat /\ o.age \in Int
    /\ \A s \in SettlementRows :
           /\ DOMAIN s = {"sid", "txn", "order", "type", "amount"}
           /\ s.type \in PaymentTypes
           /\ s.amount \in Nat
    /\ \A p \in Pairings :
           DOMAIN p = {"order", "sid", "conf"} /\ p.conf \in Confidences

ASSUME LimitsAssumption ==
    /\ Tolerance \in Nat
    /\ DOMAIN GraceDays \subseteq PaymentTypes
    /\ \A t \in DOMAIN GraceDays : GraceDays[t] \in Nat
    /\ FuzzyEnabled \in BOOLEAN
    /\ {MaxObligations, MaxSettlements, MaxPairings} \subseteq Nat

VARIABLES
    obligations,  \* the obligations of the run, in order
    settlements,  \* the settlements of the run, in order
    phase,        \* where the run is
    cursor,       \* the row or pairing the current loop is at
    consumed,     \* the settlement ids the key matching used
    matched,      \* pairs of an obligation and a settlement row
    flagged,      \* the exceptions
    openObl,      \* unmatched_obligations
    openSett,     \* unmatched_settlements
    pairings,     \* the proposal, sorted by confidence
    autoApplied   \* the pairs among matched that the fuzzy step made

vars == <<obligations, settlements, phase, cursor, consumed, matched, flagged,
          openObl, openSett, pairings, autoApplied>>
input == <<obligations, settlements>>

----------------------------------------------------------------------------
\* Amounts and SLA.

FaultyAmountStatus(expected, actual) ==
    IF actual - expected \in -Tolerance + 1 .. Tolerance - 1 THEN "MATCHED"
    ELSE IF actual < expected THEN "PARTIALLY_MATCHED" ELSE "EXCESS"

AmountStatus(expected, actual) ==
    IF actual - expected \in -Tolerance .. Tolerance THEN "MATCHED"
    ELSE IF actual < expected THEN "PARTIALLY_MATCHED" ELSE "EXCESS"

AmountReason(status) ==
    IF status = "PARTIALLY_MATCHED" THEN "AMOUNT_SHORT" ELSE "AMOUNT_EXCESS"

IsOnline(type) == type # Cash

SlaStatus(o) ==
    IF ~ IsOnline(o.type) \/ o.type \notin DOMAIN GraceDays THEN "NA"
    ELSE IF o.age <= GraceDays[o.type] THEN "WITHIN_SLA" ELSE "BREACHED"

MissingReason(o) ==
    IF ~ IsOnline(o.type) THEN "CASH_MISSING"
    ELSE IF SlaStatus(o) = "WITHIN_SLA" THEN "LATE_SETTLEMENT"
    ELSE "ONLINE_MISSING"

----------------------------------------------------------------------------
\* Exceptions.  obl is the row of the obligation, 0 for a stray settlement;
\* setts are the rows of the settlements it is about.

Exc(reason, i, setts, party) ==
    [reason |-> reason, obl |-> i, setts |-> setts, party |-> party]

Party(i) == obligations[i].party

Missing(i) == Exc(MissingReason(obligations[i]), i, {}, Party(i))

Stray(j) == Exc("UNMATCHED_SETTLEMENT", 0, {j}, Absent)

\* The review exception does not carry the responsible party over.
Review(i, j) == Exc("FUZZY_MATCH_REVIEW", i, {j}, Absent)

----------------------------------------------------------------------------
\* The two indexes of reconcile_keys and the settlements still live in them.

ByTxn(o) ==
    {j \in DOMAIN settlements : o.txn # Absent /\ settlements[j].txn = o.txn}

ByOrderType(o) ==
    {j \in DOMAIN settlements : /\ settlements[j].order # Absent
                                /\ settlements[j].order = o.order
                                /\ settlements[j].type = o.type}

FaultyLive(rows) == rows

Live(rows) == {j \in rows : settlements[j].sid \notin consumed}

Candidates(o) ==
    IF Live(ByTxn(o)) # {} THEN Live(ByTxn(o)) ELSE Live(ByOrderType(o))

Sids(rows) == {settlements[j].sid : j \in rows}

----------------------------------------------------------------------------
Init ==
    /\ \E n \in 0 .. MaxObligations : obligations \in [1 .. n -> ObligationRows]
    /\ \E m \in 1 .. MaxSettlements : settlements \in [1 .. m -> SettlementRows]
    /\ phase = "keys"
    /\ cursor = 1
    /\ consumed = {}
    /\ matched = {}
    /\ flagged = {}
    /\ openObl = {}
    /\ openSett = {}
    /\ pairings = << >>
    /\ autoApplied = {}

----------------------------------------------------------------------------
\* reconcile_keys: one iteration of its loop for each obligation.

NextRow ==
    /\ phase = "keys"
    /\ cursor \in DOMAIN obligations
    /\ cursor' = cursor + 1
    /\ UNCHANGED <<input, phase, openSett, pairings, autoApplied>>

Consume(rows) == consumed' = consumed \union Sids(rows)

KeyUnmatched ==
    /\ NextRow
    /\ Candidates(obligations[cursor]) = {}
    /\ openObl' = openObl \union {cursor}
    /\ UNCHANGED <<consumed, matched, flagged>>

KeyDuplicate ==
    LET rows == Candidates(obligations[cursor]) IN
    /\ NextRow
    /\ Cardinality(rows) > 1
    /\ Consume(rows)
    /\ flagged' = flagged \union
           {Exc("DUPLICATE_SETTLEMENT", cursor, rows, Party(cursor))}
    /\ UNCHANGED <<matched, openObl>>

KeyMatched ==
    /\ NextRow
    /\ \E j \in DOMAIN settlements :
           /\ Candidates(obligations[cursor]) = {j}
           /\ AmountStatus(obligations[cursor].expected, settlements[j].amount)
              = "MATCHED"
           /\ Consume({j})
           /\ matched' = matched \union {<<cursor, j>>}
    /\ UNCHANGED <<flagged, openObl>>

KeyAmountDiffers ==
    /\ NextRow
    /\ \E j \in DOMAIN settlements :
           LET status == AmountStatus(obligations[cursor].expected,
                                      settlements[j].amount) IN
           /\ Candidates(obligations[cursor]) = {j}
           /\ status # "MATCHED"
           /\ Consume({j})
           /\ flagged' = flagged \union
                  {Exc(AmountReason(status), cursor, {j}, Party(cursor))}
    /\ UNCHANGED <<matched, openObl>>

\* The end of the loop, and the conditional edge of the graph.
EndKeys ==
    /\ phase = "keys"
    /\ cursor \notin DOMAIN obligations
    /\ openSett' = Live(DOMAIN settlements)
    /\ phase' = IF FuzzyEnabled /\ openObl # {} /\ openSett' # {}
                THEN "fuzzy" ELSE "classify"
    /\ UNCHANGED <<input, cursor, consumed, matched, flagged, openObl,
                   pairings, autoApplied>>

----------------------------------------------------------------------------
\* fuzzy_node.

Rank(p) == CASE p.conf = "auto" -> 2 [] p.conf = "review" -> 1 [] OTHER -> 0

\* What sorted(pairings, reverse=True) can be.
Proposals ==
    {q \in UNION {[1 .. n -> Pairings] : n \in 0 .. MaxPairings} :
        \A a, b \in DOMAIN q : a < b => Rank(q[a]) >= Rank(q[b])}

\* A dictionary by id keeps the last row of every id.
LastPerOrder(rows) ==
    {i \in rows : \A k \in rows :
        obligations[k].order = obligations[i].order => k <= i}

LastPerSid(rows) ==
    {j \in rows : \A k \in rows :
        settlements[k].sid = settlements[j].sid => k <= j}

\* The language model proposes; when its call fails, the node goes on with
\* no pairing, the first proposal here.
Propose ==
    /\ phase = "fuzzy"
    /\ pairings' \in Proposals
    /\ phase' = "apply"
    /\ cursor' = 1
    /\ openObl' = LastPerOrder(openObl)
    /\ openSett' = LastPerSid(openSett)
    /\ UNCHANGED <<input, consumed, matched, flagged, autoApplied>>

NextPairing ==
    /\ phase = "apply"
    /\ cursor \in DOMAIN pairings
    /\ cursor' = cursor + 1
    /\ UNCHANGED <<input, phase, consumed, pairings>>

\* The pairing names an obligation and a settlement that are both still open.
Names(p, i, j) ==
    /\ i \in openObl /\ obligations[i].order = p.order
    /\ j \in openSett /\ settlements[j].sid = p.sid
    /\ p.order # Absent /\ p.sid # Absent

FaultyTakeSett(i, j) == openSett' = openSett \ {j} /\ UNCHANGED openObl

Take(i, j) == openObl' = openObl \ {i} /\ openSett' = openSett \ {j}

SkipPairing ==
    /\ NextPairing
    /\ \/ pairings[cursor].conf = "low"
       \/ ~ \E i \in openObl, j \in openSett : Names(pairings[cursor], i, j)
    /\ UNCHANGED <<matched, flagged, openObl, openSett, autoApplied>>

FaultyAutoApply ==
    /\ NextPairing
    /\ pairings[cursor].conf = "auto"
    /\ \E i \in openObl, j \in openSett :
           /\ Names(pairings[cursor], i, j)
           /\ autoApplied' = autoApplied \union {<<i, j>>}
           /\ Take(i, j)
    /\ UNCHANGED <<matched, flagged>>

AutoApply ==
    /\ NextPairing
    /\ pairings[cursor].conf = "auto"
    /\ \E i \in openObl, j \in openSett :
           /\ Names(pairings[cursor], i, j)
           /\ matched' = matched \union {<<i, j>>}
           /\ autoApplied' = autoApplied \union {<<i, j>>}
           /\ Take(i, j)
    /\ UNCHANGED flagged

FlagForReview ==
    /\ NextPairing
    /\ pairings[cursor].conf = "review"
    /\ \E i \in openObl, j \in openSett :
           /\ Names(pairings[cursor], i, j)
           /\ flagged' = flagged \union {Review(i, j)}
           /\ Take(i, j)
    /\ UNCHANGED <<matched, autoApplied>>

EndFuzzy ==
    /\ phase = "apply"
    /\ cursor \notin DOMAIN pairings
    /\ phase' = "classify"
    /\ UNCHANGED <<input, cursor, consumed, matched, flagged, openObl,
                   openSett, pairings, autoApplied>>

----------------------------------------------------------------------------
FaultyLeftovers == {Missing(i) : i \in openObl}

\* classify_leftovers.
Leftovers == {Missing(i) : i \in openObl} \union {Stray(j) : j \in openSett}

Classify ==
    /\ phase = "classify"
    /\ flagged' = flagged \union Leftovers
    /\ phase' = "done"
    /\ UNCHANGED <<input, cursor, consumed, matched, openObl, openSett,
                   pairings, autoApplied>>

KeyStep == KeyUnmatched \/ KeyDuplicate \/ KeyMatched \/ KeyAmountDiffers

PairingStep == SkipPairing \/ AutoApply \/ FlagForReview

Next == KeyStep \/ EndKeys \/ Propose \/ PairingStep \/ EndFuzzy \/ Classify

Spec == Init /\ [][Next]_vars

----------------------------------------------------------------------------
\* Properties.

Reasons == {"CASH_MISSING", "ONLINE_MISSING", "LATE_SETTLEMENT",
            "AMOUNT_SHORT", "AMOUNT_EXCESS", "DUPLICATE_SETTLEMENT",
            "UNMATCHED_SETTLEMENT", "FUZZY_MATCH_REVIEW"}

TypeOK ==
    /\ obligations \in Seq(ObligationRows)
    /\ settlements \in Seq(SettlementRows)
    /\ phase \in {"keys", "fuzzy", "apply", "classify", "done"}
    /\ cursor \in Nat
    /\ consumed \subseteq Sids(DOMAIN settlements)
    /\ matched \subseteq (DOMAIN obligations) \X (DOMAIN settlements)
    /\ autoApplied \subseteq matched
    /\ \A e \in flagged : /\ e.reason \in Reasons
                          /\ e.obl \in DOMAIN obligations \union {0}
                          /\ e.setts \subseteq DOMAIN settlements
    /\ openObl \subseteq DOMAIN obligations
    /\ openSett \subseteq DOMAIN settlements
    /\ pairings \in Seq(Pairings)

\* No settlement is counted twice, whatever the ids in the rows and whatever
\* the language model proposes: two entries of the result (matched pairs and
\* exceptions) never share a settlement row.
SettlementsUsedOnce ==
    /\ \A p, q \in matched : p[2] = q[2] => p = q
    /\ \A e, f \in flagged : e.setts \intersect f.setts # {} => e = f
    /\ \A p \in matched, e \in flagged : p[2] \notin e.setts

\* Nor does an obligation end up in two entries of the result.
ObligationsUsedOnce ==
    /\ \A p, q \in matched : p[1] = q[1] => p = q
    /\ \A e, f \in flagged : e.obl = f.obl /\ e.obl # 0 => e = f
    /\ \A p \in matched, e \in flagged : p[1] # e.obl

InResult(i) == (\E p \in matched : p[1] = i) \/ (\E e \in flagged : e.obl = i)
SettInResult(j) ==
    (\E p \in matched : p[2] = j) \/ (\E e \in flagged : j \in e.setts)

\* Nothing gets lost on the way but what the dictionaries of the fuzzy step
\* and the consumed ids hide: an obligation missing from the result is
\* followed by another one of its order, and then only if the fuzzy step was
\* on; a settlement missing from it shares its settlement_id with another.
OnlyShadowedVanish ==
    phase = "done" =>
        /\ \A i \in DOMAIN obligations : ~ InResult(i) =>
               /\ FuzzyEnabled
               /\ \E k \in DOMAIN obligations :
                      k > i /\ obligations[k].order = obligations[i].order
        /\ \A j \in DOMAIN settlements : ~ SettInResult(j) =>
               \E k \in DOMAIN settlements :
                   k # j /\ settlements[k].sid = settlements[j].sid

\* The matching keys of section 7.4a, without an order of evaluation: the
\* settlements of the obligation's transaction, or failing that those of its
\* order and payment type.
Wanted(o) == IF ByTxn(o) # {} THEN ByTxn(o) ELSE ByOrderType(o)

\* No settlement can be reached by two obligations.
Uncontended ==
    \A i, k \in DOMAIN obligations : i # k =>
        Sids(ByTxn(obligations[i]) \union ByOrderType(obligations[i]))
        \intersect
        Sids(ByTxn(obligations[k]) \union ByOrderType(obligations[k])) = {}

Decided(i) == phase # "keys" \/ i < cursor

\* Without contention the single pass computes what the keys define, in
\* whatever order the rows come: no settlement leaves the obligation open,
\* several flag it as a duplicate, one is a match up to the tolerance in either
\* direction, short below it and in excess above.
MatchesDefinition ==
    Uncontended =>
        \A i \in DOMAIN obligations : Decided(i) =>
            LET rows == Wanted(obligations[i]) IN
            /\ rows = {} => ~ \E p \in matched \ autoApplied : p[1] = i
            /\ Cardinality(rows) > 1 =>
                   Exc("DUPLICATE_SETTLEMENT", i, rows, Party(i)) \in flagged
            /\ \A j \in DOMAIN settlements : rows = {j} =>
                   LET gap == settlements[j].amount - obligations[i].expected IN
                   /\ gap <= Tolerance /\ -gap <= Tolerance => <<i, j>> \in matched
                   /\ -gap > Tolerance => Exc("AMOUNT_SHORT", i, {j}, Party(i)) \in flagged
                   /\ gap > Tolerance => Exc("AMOUNT_EXCESS", i, {j}, Party(i)) \in flagged

----------------------------------------------------------------------------
\* What the documents say and the code does not do.

\* Each obligation is classified as exactly one status (docs/PRD.md, 7.4b).
ExactlyOneStatus ==
    phase = "done" => \A i \in DOMAIN obligations : InResult(i)

\* The transaction id comes before the fallback (7.4a): a settlement and an
\* obligation that alone carry a transaction id belong together.
TxnKeyComesFirst ==
    phase = "done" =>
        \A i \in DOMAIN obligations, j \in DOMAIN settlements :
            (/\ ByTxn(obligations[i]) = {j}
             /\ \A k \in DOMAIN obligations :
                    obligations[k].txn = obligations[i].txn => k = i)
            => \A p \in matched : p[2] = j => p[1] = i

=============================================================================
