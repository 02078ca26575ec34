----------------------------- MODULE MCMatching -----------------------------
(***************************************************************************)
(* Instances of Matching for TLC.  Their rows share orders, transaction ids *)
(* and settlement ids, with amounts on both sides of the tolerance.         *)
(***************************************************************************)
EXTENDS Matching, TLC

CONSTANTS o1, o2, t1, t2, s1, s2, manager

Grace == ("UPI" :> 1) @@ ("CARD" :> 2)

Obl(order, type, txn, age, party) ==
    [order |-> order, type |-> type, txn |-> txn, expected |-> 10,
     age |-> age, party |-> party]

Sett(sid, txn, order, type, amount) ==
    [sid |-> sid, txn |-> txn, order |-> order, type |-> type,
     amount |-> amount]

\* Two orders, cash with a party of its own, or paid online with one of two
\* transaction ids.
KeyObligations ==
    {Obl(o, Cash, Absent, 1, manager) : o \in {o1, o2}} \union
    {Obl(o, "UPI", t, 1, Absent) : o \in {o1, o2}, t \in {t1, t2}}

\* Settlements by transaction, by order, or both, the sound amount or another.
KeySettlements ==
    UNION {{Sett(s, t1, o1, "UPI", 11), Sett(s, t1, Absent, "UPI", 8),
            Sett(s, Absent, o1, "UPI", 9), Sett(s, Absent, o2, "UPI", 12),
            Sett(s, t2, o1, "UPI", 10), Sett(s, Absent, o1, Cash, 10)}
           : s \in {s1, s2}}

\* Leftovers: nothing in the settlements names an order or a transaction.
FuzzyObligations ==
    {Obl(o1, "UPI", t1, 1, Absent), Obl(o2, "UPI", t2, 2, Absent)}

FuzzySettlements ==
    {Sett(s, Absent, Absent, "UPI", a) : s \in {s1, s2}, a \in {5, 10}}

AllPairings ==
    [order : {o1, o2}, sid : {s1, s2}, conf : Confidences] \union
    {[order |-> o1, sid |-> Absent, conf |-> "auto"]}
=============================================================================
