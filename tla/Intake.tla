------------------------------- MODULE Intake -------------------------------
(***************************************************************************)
(* From the two uploaded files to the obligations: the row validation of    *)
(* the readers (parsers/base.py, with the rules of Order and Settlement in  *)
(* models/domain.py) and build_obligations (reconciliation/obligations.py).  *)
(*                                                                         *)
(* A file is a sequence of rows as the spreadsheet has them; a cell may be   *)
(* blank, of no known enumeration value or, in a money column, not a number. *)
(* The work is sequential: the behaviours range over the files.              *)
(***************************************************************************)
EXTENDS Integers, Sequences, FiniteSetsExt, Functions

CONSTANTS
    OrderRows,        \* the rows an orders file can hold
    SettlementRows,   \* the rows a settlements file can hold
    MaxOrders,        \* bound: rows of either file
    MaxSettlements,
    Tolerance,        \* reconciliation.amount_tolerance
    Blank,            \* an empty cell
    Invalid,          \* a text that is no value of the enumeration, or no date
    NotANumber        \* a text that is not a number

Cash == "CASH"
PaymentTypes == {Cash, "UPI", "CARD", "NETBANKING", "WALLET"}
OrderStatus == {"PLACED", "CANCELLED"}
Money == Int \union {Blank, NotANumber}

ASSUME RowsAssumption ==
    /\ \A o \in OrderRows :
           /\ DOMAIN o = {"order", "date", "store", "amount", "pay", "type",
                          "gateway", "txn", "party", "status"}
           /\ o.amount \in Money /\ o.pay \in Money
           /\ o.type \in PaymentTypes \union {Blank, Invalid}
           /\ o.status \in OrderStatus \union {Blank, Invalid}
    /\ \A s \in SettlementRows :
           /\ DOMAIN s = {"sid", "date", "amount", "fee", "net", "type", "source"}
           /\ {s.amount, s.fee, s.net} \subseteq Money
           /\ s.type \in PaymentTypes \union {Blank, Invalid}

ASSUME MarksAssumption ==
    /\ {Blank, Invalid, NotANumber} \intersect (Int \union OrderStatus \union PaymentTypes) = {}
    /\ Tolerance \in Nat /\ MaxOrders \in Nat /\ MaxSettlements \in Nat

VARIABLES
    orders,       \* the rows of the orders file
    settlements,  \* the rows of the settlements file
    phase,        \* what is being done
    cursor,       \* the row, or the order, the current loop is at
    parsed,       \* the orders read
    errors,       \* what is wrong: pairs of a row and a column
    groups,       \* the rows of each order, known by their numbers
    placed,       \* the placed rows of the order at hand
    place,        \* the position in its rows
    obligations,  \* rows that became obligations, in their order
    mismatches    \* the ORDER_SUM_MISMATCH exceptions

input == <<orders, settlements>>
hand == <<placed, place>>
built == <<obligations, mismatches>>
vars == <<input, phase, cursor, parsed, errors, groups, hand, built>>

----------------------------------------------------------------------------
\* What is wrong with a row.  A validator that raises ValueError is an error
\* of the row; decimal.InvalidOperation is not a ValueError and leaves
\* validate_rows, whatever else the row holds.

Negative(x) == x \in Int /\ x < 0

OrderExplodes(o) == NotANumber \in {o.amount, o.pay}

OrderCells(o) ==
    {c \in {"order", "date", "store", "amount", "pay", "type"} : o[c] = Blank}
    \union {c \in {"date", "type", "gateway", "party", "status"} : o[c] = Invalid}
    \union {c \in {"amount", "pay"} : Negative(o[c])}

\* _check_payment_fields runs only when the cells are sound.
OrderFaults(o) ==
    IF OrderCells(o) = {} /\ o.type # Cash /\ Blank \in {o.gateway, o.txn}
    THEN {"row"} ELSE OrderCells(o)

SettlementExplodes(s) == NotANumber \in {s.amount, s.fee, s.net}

\* net_amount defaults to amount - fee, before the cells are checked.
Net(s) ==
    IF s.net # Blank \/ s.amount = Blank THEN s.net
    ELSE s.amount - (IF s.fee = Blank THEN 0 ELSE s.fee)

SettlementFaults(s) ==
    {c \in {"sid", "date", "amount", "type", "source"} : s[c] = Blank}
    \union {c \in {"date", "type", "source"} : s[c] = Invalid}
    \union {c \in {"amount", "fee"} : Negative(s[c])}
    \union (IF Net(s) = Blank \/ Negative(Net(s)) THEN {"net"} ELSE {})

FaultyAsOrder(o) == o

\* A blank status is the default of the model.
AsOrder(o) == [o EXCEPT !.status = IF @ = Blank THEN "PLACED" ELSE @]

----------------------------------------------------------------------------
Init ==
    /\ \E n \in 0 .. MaxOrders : orders \in [1 .. n -> OrderRows]
    /\ \E m \in 0 .. MaxSettlements : settlements \in [1 .. m -> SettlementRows]
    /\ phase = "orders"
    /\ cursor = 1
    /\ parsed = << >>
    /\ errors = {}
    /\ groups = << >>
    /\ placed = << >>
    /\ place = 1
    /\ obligations = << >>
    /\ mismatches = {}

At(ph, rows) == phase = ph /\ cursor \in DOMAIN rows
Past(ph, rows) == phase = ph /\ cursor \notin DOMAIN rows

FaultyReadOrder ==
    /\ At("orders", orders)
    /\ ~ OrderExplodes(orders[cursor])
    /\ LET faults == OrderFaults(orders[cursor]) IN
       /\ errors' = IF errors = {} THEN {cursor} \X faults ELSE errors
       /\ parsed' = IF faults = {} THEN Append(parsed, AsOrder(orders[cursor])) ELSE parsed
    /\ cursor' = cursor + 1
    /\ UNCHANGED <<input, phase, groups, hand, built>>

\* validate_rows, one iteration: the errors of all the rows are collected.
ReadOrder ==
    /\ At("orders", orders)
    /\ ~ OrderExplodes(orders[cursor])
    /\ LET faults == OrderFaults(orders[cursor]) IN
       /\ errors' = errors \union ({cursor} \X faults)
       /\ parsed' = IF faults = {} THEN Append(parsed, AsOrder(orders[cursor])) ELSE parsed
    /\ cursor' = cursor + 1
    /\ UNCHANGED <<input, phase, groups, hand, built>>

\* An empty file, or one with an error in any row, is a ParseError.
EndOrders ==
    /\ Past("orders", orders)
    /\ phase' = IF orders = << >> \/ errors # {} THEN "rejected" ELSE "settlements"
    /\ cursor' = 1
    /\ UNCHANGED <<input, parsed, errors, groups, hand, built>>

ReadSettlement ==
    /\ At("settlements", settlements)
    /\ ~ SettlementExplodes(settlements[cursor])
    /\ errors' = errors \union ({cursor} \X SettlementFaults(settlements[cursor]))
    /\ cursor' = cursor + 1
    /\ UNCHANGED <<input, phase, parsed, groups, hand, built>>

EndSettlements ==
    /\ Past("settlements", settlements)
    /\ phase' = IF settlements = << >> \/ errors # {} THEN "rejected" ELSE "group"
    /\ cursor' = 1
    /\ UNCHANGED <<input, parsed, errors, groups, hand, built>>

\* Neither the endpoint nor the command line expects this exception.
Explode ==
    /\ \/ At("orders", orders) /\ OrderExplodes(orders[cursor])
       \/ At("settlements", settlements) /\ SettlementExplodes(settlements[cursor])
    /\ phase' = "dead"
    /\ UNCHANGED <<input, cursor, parsed, errors, groups, hand, built>>

----------------------------------------------------------------------------
\* build_obligations.  Rows are known by their numbers.

\* setdefault without append: the rows of an order are those of its first row.
FaultyGrouped(i) ==
    IF \E g \in DOMAIN groups : groups[g].order = parsed[i].order
    THEN groups ELSE Append(groups, [order |-> parsed[i].order, rows |-> <<i>>])

\* The dictionary of _group_by_order with one row more; it keeps the order in
\* which it met its keys.
Grouped(i) ==
    IF \E g \in DOMAIN groups : groups[g].order = parsed[i].order
    THEN [g \in DOMAIN groups |->
             IF groups[g].order = parsed[i].order
             THEN [groups[g] EXCEPT !.rows = Append(@, i)] ELSE groups[g]]
    ELSE Append(groups, [order |-> parsed[i].order, rows |-> <<i>>])

\* One iteration of _group_by_order.
Group ==
    /\ At("group", parsed)
    /\ groups' = Grouped(cursor)
    /\ cursor' = cursor + 1
    /\ UNCHANGED <<input, phase, parsed, errors, hand, built>>

EndGroups ==
    /\ Past("group", parsed)
    /\ phase' = "build"
    /\ cursor' = 1
    /\ UNCHANGED <<input, parsed, errors, groups, hand, built>>

\* One row of the order at hand: the rows that are not PLACED are left out.
Place ==
    /\ At("build", groups)
    /\ place \in DOMAIN groups[cursor].rows
    /\ LET i == groups[cursor].rows[place] IN
       placed' = IF parsed[i].status = "PLACED" THEN Append(placed, i) ELSE placed
    /\ place' = place + 1
    /\ UNCHANGED <<input, phase, cursor, parsed, errors, groups, built>>

Paid(rows) == SumFunction([n \in DOMAIN rows |-> parsed[rows[n]].pay])

\* The total is the one the first row states.
Total(rows) == parsed[rows[1]].amount

FaultySumDiffers(rows) == Paid(rows) - Total(rows) > Tolerance

SumDiffers(rows) == Paid(rows) - Total(rows) \notin -Tolerance .. Tolerance

\* The party of the first row that has one.
Override(rows) ==
    LET own == {n \in DOMAIN rows : parsed[rows[n]].party # Blank} IN
    IF own = {} THEN Blank ELSE parsed[rows[Min(own)]].party

Mismatch(rows) ==
    [order  |-> parsed[rows[1]].order,
     status |-> IF Paid(rows) > Total(rows) THEN "EXCESS" ELSE "PARTIALLY_MATCHED",
     party  |-> Override(rows)]

\* The rest of the iteration of an order; without placed rows it adds nothing.
BuildOrder ==
    /\ At("build", groups)
    /\ place \notin DOMAIN groups[cursor].rows
    /\ obligations' = obligations \o placed
    /\ mismatches' = IF placed # << >> /\ SumDiffers(placed)
                     THEN mismatches \union {Mismatch(placed)} ELSE mismatches
    /\ placed' = << >>
    /\ place' = 1
    /\ cursor' = cursor + 1
    /\ UNCHANGED <<input, phase, parsed, errors, groups>>

EndBuild ==
    /\ Past("build", groups)
    /\ phase' = "done"
    /\ UNCHANGED <<input, cursor, parsed, errors, groups, hand, built>>

Next == \/ ReadOrder \/ EndOrders \/ ReadSettlement \/ EndSettlements
        \/ Explode \/ Group \/ EndGroups \/ Place \/ BuildOrder \/ EndBuild

Spec == Init /\ [][Next]_vars

----------------------------------------------------------------------------
\* Properties.

ParsedRow(o) ==
    /\ o.amount \in Nat /\ o.pay \in Nat
    /\ o.type \in PaymentTypes /\ o.status \in OrderStatus

TypeOK ==
    /\ orders \in Seq(OrderRows)
    /\ settlements \in Seq(SettlementRows)
    /\ phase \in {"orders", "settlements", "group", "build", "done", "rejected", "dead"}
    /\ cursor \in Nat \ {0}
    /\ \A i \in DOMAIN parsed : ParsedRow(parsed[i])
    /\ \A x \in errors : x[1] \in Nat
    /\ \A g \in DOMAIN groups : groups[g].rows \in Seq(DOMAIN parsed)
    /\ {placed, obligations} \subseteq Seq(DOMAIN parsed)
    /\ \A m \in mismatches : m.status \in {"EXCESS", "PARTIALLY_MATCHED"}

ErrorsOfOrders == UNION {{i} \X OrderFaults(orders[i]) : i \in DOMAIN orders}
ErrorsOfSettlements ==
    UNION {{j} \X SettlementFaults(settlements[j]) : j \in DOMAIN settlements}

\* A file that is rejected is rejected with all its errors at once, and with
\* nothing that is not in it; the settlements file is looked at only when the
\* orders file is sound (validate_rows, and the endpoint that calls it).
RejectionNamesFaults ==
    phase = "rejected" =>
        errors = IF orders = << >> \/ ErrorsOfOrders # {} THEN ErrorsOfOrders
                 ELSE ErrorsOfSettlements

PlacedRows == {i \in DOMAIN parsed : parsed[i].status = "PLACED"}

\* However the rows of the orders are mixed in the file, each placed row and no
\* other becomes one obligation.
PlacedRowsBecomeObligations ==
    phase = "done" =>
        /\ Range(obligations) = PlacedRows
        /\ IsInjective(obligations)

\* An order whose placed rows agree on its total has a sum exception if and
\* only if the payments differ from it by more than the tolerance.
SumsAreJudged ==
    phase = "done" =>
        \A i \in PlacedRows :
            LET rows == {k \in PlacedRows : parsed[k].order = parsed[i].order}
                gap == SumFunction([k \in rows |-> parsed[k].pay]) - parsed[i].amount IN
            (\A k \in rows : parsed[k].amount = parsed[i].amount) =>
                ((gap > Tolerance \/ -gap > Tolerance)
                 <=> \E m \in mismatches : m.order = parsed[i].order)

----------------------------------------------------------------------------
\* What the documents say and the code does not do.

BadOrder(o) == OrderExplodes(o) \/ OrderFaults(o) # {}
BadSettlement(s) == SettlementExplodes(s) \/ SettlementFaults(s) # {}

\* A bad row does not stop the run while the file has a good one: the system
\* goes on with the other valid records (docs/PRD.md).
RowFailuresStopNoRun ==
    phase \in {"rejected", "dead"} =>
        \/ \A i \in DOMAIN orders : BadOrder(orders[i])
        \/ \A j \in DOMAIN settlements : BadSettlement(settlements[j])
=============================================================================
