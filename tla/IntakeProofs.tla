---------------------------- MODULE IntakeProofs ----------------------------
(***************************************************************************)
(* Proofs about Intake: a file is rejected with all its errors, and only for *)
(* them, and what the rest becomes is judged by its sums, for files of any   *)
(* length and rows of any content.                                          *)
(***************************************************************************)
EXTENDS Intake, Sums, TLAPS

\* The errors in the first n rows of a file.
OrderErrors(n) == UNION {{i} \X OrderFaults(orders[i]) : i \in 1 .. n}
SettlementErrors(n) ==
    UNION {{j} \X SettlementFaults(settlements[j]) : j \in 1 .. n}

\* The orders read from the first n rows.
Read(n) == [i \in 1 .. n |-> AsOrder(orders[i])]

Files == orders \in Seq(OrderRows) /\ settlements \in Seq(SettlementRows)

SoundOrders ==
    OrderErrors(Len(orders)) = {} /\ orders # << >> /\ parsed = Read(Len(orders))

SoundSettlements == SettlementErrors(Len(settlements)) = {} /\ settlements # << >>

\* errors and parsed are those of the rows before the cursor.
OrdersInv ==
    phase = "orders" =>
        /\ cursor \in 1 .. Len(orders) + 1
        /\ errors = OrderErrors(cursor - 1)
        /\ errors = {} => parsed = Read(cursor - 1)

SettlementsInv ==
    phase = "settlements" =>
        /\ cursor \in 1 .. Len(settlements) + 1
        /\ errors = SettlementErrors(cursor - 1)
        /\ SoundOrders

RejectedInv ==
    phase = "rejected" =>
        \/ /\ errors = OrderErrors(Len(orders))
           /\ errors # {} \/ orders = << >>
        \/ /\ errors = SettlementErrors(Len(settlements))
           /\ errors # {} \/ settlements = << >>
           /\ SoundOrders

BuildInv == phase \in {"group", "build", "done"} => SoundOrders /\ SoundSettlements

IntakeInv == Files /\ OrdersInv /\ SettlementsInv /\ RejectedInv /\ BuildInv

----------------------------------------------------------------------------
\* One row more.

LEMMA NoOrderErrors == OrderErrors(0) = {} /\ SettlementErrors(0) = {}
BY DEF OrderErrors, SettlementErrors

LEMMA OneOrderMore ==
    ASSUME NEW n \in Nat \ {0}
    PROVE  OrderErrors(n) = OrderErrors(n - 1) \union ({n} \X OrderFaults(orders[n]))
<1>1. 1 .. n = (1 .. n - 1) \union {n}
  OBVIOUS
<1>2. QED
  BY <1>1, Zenon DEF OrderErrors

LEMMA OneSettlementMore ==
    ASSUME NEW n \in Nat \ {0}
    PROVE  SettlementErrors(n) =
               SettlementErrors(n - 1) \union ({n} \X SettlementFaults(settlements[n]))
<1>1. 1 .. n = (1 .. n - 1) \union {n}
  OBVIOUS
<1>2. QED
  BY <1>1, Zenon DEF SettlementErrors

LEMMA OneReadMore ==
    ASSUME NEW n \in Nat \ {0}
    PROVE  Read(n) = Append(Read(n - 1), AsOrder(orders[n]))
BY DEF Read

----------------------------------------------------------------------------
LEMMA InitIntake == Init => IntakeInv
<1> SUFFICES ASSUME Init PROVE IntakeInv
  OBVIOUS
<1>1. Files
  <2>1. PICK n \in 0 .. MaxOrders : orders \in [1 .. n -> OrderRows]
    BY DEF Init
  <2>2. PICK m \in 0 .. MaxSettlements : settlements \in [1 .. m -> SettlementRows]
    BY DEF Init
  <2>3. QED
    BY <2>1, <2>2, MarksAssumption DEF Files
<1>2. phase = "orders" /\ cursor = 1 /\ errors = {} /\ parsed = << >>
  BY DEF Init
<1>3. cursor - 1 = 0 /\ Read(0) = << >> /\ cursor \in 1 .. Len(orders) + 1
  BY <1>1, <1>2 DEF Read, Files
<1>4. OrdersInv
  BY <1>2, <1>3, NoOrderErrors DEF OrdersInv
<1>5. QED
  BY <1>1, <1>2, <1>4 DEF IntakeInv, SettlementsInv, RejectedInv, BuildInv

LEMMA ReadOrderKeeps == ASSUME IntakeInv, ReadOrder PROVE IntakeInv'
<1> DEFINE faults == OrderFaults(orders[cursor])
<1>1. /\ phase = "orders" /\ cursor \in 1 .. Len(orders) /\ Len(orders) \in Nat
      /\ errors = OrderErrors(cursor - 1)
      /\ errors = {} => parsed = Read(cursor - 1)
  BY DEF IntakeInv, OrdersInv, Files, ReadOrder, At
<1>2. /\ orders' = orders /\ settlements' = settlements /\ phase' = phase
      /\ cursor' = cursor + 1
      /\ errors' = errors \union ({cursor} \X faults)
      /\ parsed' = IF faults = {} THEN Append(parsed, AsOrder(orders[cursor])) ELSE parsed
  BY DEF ReadOrder, input
<1> HIDE DEF faults
<1>3. cursor \in Nat \ {0} /\ cursor' - 1 = cursor /\ cursor' \in 1 .. Len(orders) + 1
  BY <1>1, <1>2
<1>4. errors' = OrderErrors(cursor)
  BY <1>1, <1>2, <1>3, OneOrderMore DEF faults
<1>5. errors' = {} => errors = {} /\ faults = {}
  <2>1. \A x \in faults : <<cursor, x>> \in {cursor} \X faults
    OBVIOUS
  <2>2. QED
    BY <1>2, <2>1
<1>6. errors' = {} => parsed' = Read(cursor)
  BY <1>1, <1>2, <1>3, <1>5, OneReadMore
<1>7. OrdersInv'
  <2>1. OrderErrors(cursor' - 1) = OrderErrors(cursor) /\ Read(cursor' - 1) = Read(cursor)
    BY <1>3
  <2>2. QED
    BY <1>2, <1>3, <1>4, <1>6, <2>1 DEF OrdersInv, OrderErrors, Read
<1>8. Files'
  BY <1>2 DEF IntakeInv, Files
<1>9. QED
  BY <1>1, <1>2, <1>7, <1>8 DEF IntakeInv, SettlementsInv, RejectedInv, BuildInv

\* What is known of the files is known of the next state, as the files stay.
LEMMA SameFiles ==
    ASSUME UNCHANGED <<orders, settlements>>
    PROVE  /\ Files' <=> Files
           /\ \A n : OrderErrors(n)' = OrderErrors(n)
           /\ \A n : SettlementErrors(n)' = SettlementErrors(n)
           /\ SoundSettlements' <=> SoundSettlements
           /\ parsed' = parsed => (SoundOrders' <=> SoundOrders)
BY DEF Files, OrderErrors, SettlementErrors, SoundSettlements, SoundOrders, Read

LEMMA EndOrdersKeeps == ASSUME IntakeInv, EndOrders PROVE IntakeInv'
<1>1. /\ phase = "orders" /\ cursor = Len(orders) + 1 /\ Len(orders) \in Nat
      /\ errors = OrderErrors(cursor - 1)
      /\ errors = {} => parsed = Read(cursor - 1)
  BY DEF IntakeInv, OrdersInv, Files, EndOrders, Past
<1>2. /\ UNCHANGED <<orders, settlements>> /\ parsed' = parsed /\ errors' = errors
      /\ cursor' = 1
      /\ phase' = IF orders = << >> \/ errors # {} THEN "rejected" ELSE "settlements"
  BY DEF EndOrders, input
<1>3. errors = OrderErrors(Len(orders)) /\ (errors = {} => parsed = Read(Len(orders)))
  <2>1. cursor - 1 = Len(orders)
    BY <1>1
  <2>2. QED
    BY <1>1, <2>1
<1>4. CASE orders = << >> \/ errors # {}
  <2>1. phase' = "rejected" /\ errors' = OrderErrors(Len(orders))'
        /\ (errors' # {} \/ orders' = << >>)
    BY <1>2, <1>3, <1>4 DEF OrderErrors
  <2>2. QED
    BY <1>2, <2>1, SameFiles DEF IntakeInv, OrdersInv, SettlementsInv, RejectedInv, BuildInv
<1>5. CASE ~ (orders = << >> \/ errors # {})
  <2>1. SoundOrders /\ errors = {}
    BY <1>3, <1>5 DEF SoundOrders
  <2>2. phase' = "settlements" /\ SoundOrders' /\ errors' = SettlementErrors(0)' /\ Files'
    BY <1>2, <1>5, <2>1, SameFiles, NoOrderErrors DEF IntakeInv
  <2>3. cursor' \in 1 .. Len(settlements') + 1 /\ cursor' - 1 = 0
    BY <1>2, <2>2 DEF Files
  <2>4. SettlementsInv'
    BY <2>2, <2>3 DEF SettlementsInv
  <2>5. QED
    BY <2>2, <2>4 DEF IntakeInv, OrdersInv, RejectedInv, BuildInv
<1>6. QED
  BY <1>4, <1>5

LEMMA ReadSettlementKeeps == ASSUME IntakeInv, ReadSettlement PROVE IntakeInv'
<1> DEFINE faults == SettlementFaults(settlements[cursor])
<1>1. /\ phase = "settlements" /\ cursor \in 1 .. Len(settlements)
      /\ Len(settlements) \in Nat
      /\ errors = SettlementErrors(cursor - 1) /\ SoundOrders
  BY DEF IntakeInv, SettlementsInv, Files, ReadSettlement, At
<1>2. /\ UNCHANGED <<orders, settlements>> /\ phase' = phase /\ parsed' = parsed
      /\ cursor' = cursor + 1
      /\ errors' = errors \union ({cursor} \X faults)
  BY DEF ReadSettlement, input
<1> HIDE DEF faults
<1>3. cursor \in Nat \ {0} /\ cursor' - 1 = cursor
      /\ cursor' \in 1 .. Len(settlements') + 1
  BY <1>1, <1>2
<1>4. errors' = SettlementErrors(cursor)
  BY <1>1, <1>2, <1>3, OneSettlementMore DEF faults
<1>5. SettlementErrors(cursor' - 1) = SettlementErrors(cursor)
  BY <1>3
<1>6. SettlementsInv' /\ Files'
  <2>1. Files' /\ SoundOrders'
    BY <1>1, <1>2, SameFiles DEF IntakeInv
  <2>2. QED
    BY <1>2, <1>3, <1>4, <1>5, <2>1 DEF SettlementsInv, SettlementErrors
<1>7. QED
  BY <1>1, <1>2, <1>6 DEF IntakeInv, OrdersInv, RejectedInv, BuildInv

LEMMA EndSettlementsKeeps == ASSUME IntakeInv, EndSettlements PROVE IntakeInv'
<1>1. /\ phase = "settlements" /\ cursor = Len(settlements) + 1
      /\ Len(settlements) \in Nat
      /\ errors = SettlementErrors(cursor - 1) /\ SoundOrders
  BY DEF IntakeInv, SettlementsInv, Files, EndSettlements, Past
<1>2. /\ UNCHANGED <<orders, settlements>> /\ parsed' = parsed /\ errors' = errors
      /\ phase' = IF settlements = << >> \/ errors # {} THEN "rejected" ELSE "group"
  BY DEF EndSettlements, input
<1>3. errors = SettlementErrors(Len(settlements))
  <2>1. cursor - 1 = Len(settlements)
    BY <1>1
  <2>2. QED
    BY <1>1, <2>1
<1>4. errors' = SettlementErrors(Len(settlements))' /\ SoundOrders' /\ Files'
  <2>1. SoundOrders' /\ Files'
    BY <1>1, <1>2, SameFiles DEF IntakeInv
  <2>2. QED
    BY <1>2, <1>3, <2>1 DEF SettlementErrors
<1>5. phase' = "group" => SoundSettlements'
  <2>1. SoundSettlements' <=> SoundSettlements
    BY <1>2, SameFiles
  <2>2. phase' = "group" => settlements # << >> /\ errors = {}
    BY <1>2
  <2>3. QED
    BY <1>3, <2>1, <2>2 DEF SoundSettlements
<1>6. /\ phase' \in {"rejected", "group"}
      /\ phase' = "rejected" => errors' # {} \/ settlements' = << >>
  BY <1>2
<1>7. QED
  BY <1>4, <1>5, <1>6 DEF IntakeInv, OrdersInv, SettlementsInv, RejectedInv, BuildInv

LEMMA BuildKeeps ==
    ASSUME IntakeInv,
           Group \/ EndGroups \/ Place \/ BuildOrder \/ EndBuild \/ Explode \/ UNCHANGED vars
    PROVE  IntakeInv'
<1>1. UNCHANGED <<orders, settlements, parsed, errors>>
  BY DEF Group, EndGroups, Place, BuildOrder, EndBuild, Explode, vars, input
<1>2. CASE Group \/ EndGroups \/ Place \/ BuildOrder \/ EndBuild
  <2>1. phase \in {"group", "build"} /\ phase' \in {"group", "build", "done"}
    BY <1>2 DEF Group, EndGroups, Place, BuildOrder, EndBuild, At, Past
  <2>2. QED
    BY <1>1, <2>1, SameFiles
    DEF IntakeInv, OrdersInv, SettlementsInv, RejectedInv, BuildInv
<1>3. CASE Explode
  <2>1. phase' = "dead"
    BY <1>3 DEF Explode
  <2>2. QED
    BY <1>1, <2>1, SameFiles
    DEF IntakeInv, OrdersInv, SettlementsInv, RejectedInv, BuildInv
<1>4. CASE UNCHANGED vars
  <2>1. phase' = phase /\ cursor' = cursor
    BY <1>4 DEF vars
  <2>2. QED
    BY <1>1, <2>1, SameFiles
    DEF IntakeInv, OrdersInv, SettlementsInv, RejectedInv, BuildInv, Read,
        OrderErrors, SettlementErrors
<1>5. QED
  BY <1>2, <1>3, <1>4

LEMMA AlwaysIntake == Spec => []IntakeInv
<1>1. IntakeInv /\ [Next]_vars => IntakeInv'
  BY ReadOrderKeeps, EndOrdersKeeps, ReadSettlementKeeps, EndSettlementsKeeps, BuildKeeps
  DEF Next
<1>2. QED
  BY <1>1, InitIntake, PTL DEF Spec

----------------------------------------------------------------------------
LEMMA WholeFiles ==
    ASSUME Files
    PROVE  /\ ErrorsOfOrders = OrderErrors(Len(orders))
           /\ ErrorsOfSettlements = SettlementErrors(Len(settlements))
<1>1. DOMAIN orders = 1 .. Len(orders) /\ DOMAIN settlements = 1 .. Len(settlements)
  BY DEF Files
<1>2. QED
  BY <1>1 DEF ErrorsOfOrders, ErrorsOfSettlements, OrderErrors, SettlementErrors

\* A rejection names every error of the file it rejects and no other.
THEOREM RejectionsAreComplete == Spec => []RejectionNamesFaults
<1>1. ASSUME IntakeInv PROVE RejectionNamesFaults
  BY <1>1, WholeFiles DEF IntakeInv, RejectedInv, RejectionNamesFaults, SoundOrders
<1>2. QED
  BY <1>1, AlwaysIntake, PTL

\* Only a row that holds no number where money should be kills the request.
DeadInv ==
    phase = "dead" => \/ \E i \in DOMAIN orders : OrderExplodes(orders[i])
                      \/ \E j \in DOMAIN settlements : SettlementExplodes(settlements[j])

LEMMA AlwaysDead == Spec => []DeadInv
<1>1. Init => DeadInv
  BY DEF Init, DeadInv
<1>2. DeadInv /\ [Next]_vars => DeadInv'
  <2> SUFFICES ASSUME DeadInv, [Next]_vars PROVE DeadInv'
    OBVIOUS
  <2>1. CASE Explode
    BY <2>1 DEF Explode, At, DeadInv, input
  <2>2. CASE UNCHANGED vars
    BY <2>2 DEF DeadInv, vars, input
  <2>3. CASE ReadOrder \/ EndOrders \/ ReadSettlement \/ EndSettlements
               \/ Group \/ EndGroups \/ Place \/ BuildOrder \/ EndBuild
    <3>1. phase' # "dead"
      BY <2>3 DEF ReadOrder, EndOrders, ReadSettlement, EndSettlements,
                  Group, EndGroups, Place, BuildOrder, EndBuild, At, Past
    <3>2. QED
      BY <3>1 DEF DeadInv
  <2>4. QED
    BY <2>1, <2>2, <2>3 DEF Next
<1>3. QED
  BY <1>1, <1>2, PTL DEF Spec

SoundFiles ==
    /\ orders # << >> /\ \A i \in DOMAIN orders : ~ BadOrder(orders[i])
    /\ settlements # << >> /\ \A j \in DOMAIN settlements : ~ BadSettlement(settlements[j])

\* The claim that a row failure stops no run holds where no row fails: two files
\* of sound rows only are never turned away, whatever their length (validate_rows,
\* which turns every other pair of files away).
THEOREM SoundFilesGoOn == Spec => [](SoundFiles => phase \notin {"rejected", "dead"})
<1>1. ASSUME IntakeInv, DeadInv, SoundFiles PROVE phase \notin {"rejected", "dead"}
  <2>1. phase # "dead"
    BY <1>1 DEF DeadInv, SoundFiles, BadOrder, BadSettlement
  <2>2. ErrorsOfOrders = {} /\ ErrorsOfSettlements = {}
    BY <1>1 DEF ErrorsOfOrders, ErrorsOfSettlements, SoundFiles, BadOrder, BadSettlement
  <2>3. OrderErrors(Len(orders)) = {} /\ SettlementErrors(Len(settlements)) = {}
    BY <1>1, <2>2, WholeFiles DEF IntakeInv
  <2>4. phase # "rejected"
    BY <1>1, <2>3 DEF IntakeInv, RejectedInv, SoundFiles
  <2>5. QED
    BY <2>1, <2>4
<1>2. QED
  BY <1>1, AlwaysIntake, AlwaysDead, PTL

----------------------------------------------------------------------------
(***************************************************************************)
(* The builder.  The rows met so far are spread over the groups, each in the *)
(* group of its order and there once; the obligations and the rows placed of *)
(* the order at hand list the placed ones among the rows passed, each once.  *)
(***************************************************************************)

ParsedRows == {AsOrder(o) : o \in {x \in OrderRows : ParsedRow(AsOrder(x))}}

GroupSet(ps) == [order : {ps[i].order : i \in DOMAIN ps}, rows : Seq(DOMAIN ps)]

\* gs is the dictionary of _group_by_order after the first n rows of ps.
GroupsOf(ps, gs, n) ==
    /\ gs \in Seq(GroupSet(ps))
    /\ \A g, h \in DOMAIN gs : gs[g].order = gs[h].order => g = h
    /\ \A g \in DOMAIN gs : IsInjective(gs[g].rows)
    /\ \A g \in DOMAIN gs, k \in DOMAIN ps :
           k \in Range(gs[g].rows) <=> k <= n /\ ps[k].order = gs[g].order
    /\ \A k \in 1 .. n : \E g \in DOMAIN gs : gs[g].order = ps[k].order

\* s lists the rows in K, each of them once.
Lists(ps, s, K) == s \in Seq(DOMAIN ps) /\ IsInjective(s) /\ Range(s) = K

\* The placed rows of the groups before c, and those before position p of rows.
Met(ps, gs, c) ==
    {k \in DOMAIN ps : /\ ps[k].status = "PLACED"
                       /\ \E g \in DOMAIN gs : g < c /\ k \in Range(gs[g].rows)}
Taken(ps, rows, p) ==
    {k \in DOMAIN ps : /\ ps[k].status = "PLACED"
                       /\ \E q \in DOMAIN rows : q < p /\ rows[q] = k}

Nothing == placed = << >> /\ place = 1 /\ obligations = << >>

ShapeInv ==
    /\ phase \in {"orders", "settlements", "group", "build", "done", "rejected", "dead"}
    /\ cursor \in Nat \ {0} /\ place \in Nat \ {0}
    /\ parsed \in Seq(ParsedRows)
    /\ \A x \in errors : x[1] \in Nat
    /\ \A m \in mismatches : m.status \in {"EXCESS", "PARTIALLY_MATCHED"}

ReadingInv == phase \notin {"group", "build", "done"} => groups = << >> /\ Nothing

GroupInv ==
    phase = "group" =>
        /\ cursor \in 1 .. Len(parsed) + 1
        /\ GroupsOf(parsed, groups, cursor - 1)
        /\ Nothing

PlaceInv ==
    phase = "build" =>
        /\ cursor \in 1 .. Len(groups) + 1
        /\ GroupsOf(parsed, groups, Len(parsed))
        /\ Lists(parsed, obligations, Met(parsed, groups, cursor))
        /\ placed \in Seq(DOMAIN parsed)
        /\ cursor \in DOMAIN groups =>
               /\ place \in 1 .. Len(groups[cursor].rows) + 1
               /\ Lists(parsed, placed, Taken(parsed, groups[cursor].rows, place))

DoneInv ==
    phase = "done" =>
        /\ GroupsOf(parsed, groups, Len(parsed))
        /\ Lists(parsed, obligations, PlacedRows)
        /\ placed \in Seq(DOMAIN parsed)

BuilderInv == ShapeInv /\ ReadingInv /\ GroupInv /\ PlaceInv /\ DoneInv

----------------------------------------------------------------------------
\* A row that passed the checks is an order.
LEMMA SoundRow ==
    ASSUME NEW o \in OrderRows, ~ OrderExplodes(o), OrderFaults(o) = {}
    PROVE  AsOrder(o) \in ParsedRows
<1>1. OrderCells(o) = {}
  BY DEF OrderFaults
<1>2. /\ DOMAIN o = {"order", "date", "store", "amount", "pay", "type", "gateway",
                     "txn", "party", "status"}
      /\ o.amount \in Money /\ o.pay \in Money
      /\ o.type \in PaymentTypes \union {Blank, Invalid}
      /\ o.status \in OrderStatus \union {Blank, Invalid}
  BY RowsAssumption
<1>3. /\ o.amount # Blank /\ o.pay # Blank /\ o.type # Blank
      /\ o.type # Invalid /\ o.status # Invalid
      /\ ~ Negative(o.amount) /\ ~ Negative(o.pay)
  BY <1>1 DEF OrderCells
<1>4. o.amount # NotANumber /\ o.pay # NotANumber
  BY DEF OrderExplodes
<1>5. o.amount \in Nat /\ o.pay \in Nat /\ o.type \in PaymentTypes
  BY <1>2, <1>3, <1>4 DEF Money, Negative
<1>6. AsOrder(o).amount = o.amount /\ AsOrder(o).pay = o.pay /\ AsOrder(o).type = o.type
      /\ AsOrder(o).status = IF o.status = Blank THEN "PLACED" ELSE o.status
  BY <1>2 DEF AsOrder
<1>7. AsOrder(o).status \in OrderStatus
  BY <1>2, <1>3, <1>6 DEF OrderStatus
<1>8. QED
  BY <1>5, <1>6, <1>7 DEF ParsedRows, ParsedRow

LEMMA AppendLists ==
    ASSUME NEW ps, NEW s, NEW K, Lists(ps, s, K), NEW e \in DOMAIN ps, e \notin K
    PROVE  Lists(ps, Append(s, e), K \union {e})
<1>1. s \in Seq(DOMAIN ps) /\ IsInjective(s) /\ Range(s) = K
  BY DEF Lists
<1>2. /\ Append(s, e) \in Seq(DOMAIN ps) /\ Len(Append(s, e)) = Len(s) + 1
      /\ DOMAIN s = 1 .. Len(s) /\ DOMAIN Append(s, e) = 1 .. Len(s) + 1
      /\ Len(s) \in Nat
      /\ \A n \in 1 .. Len(s) : Append(s, e)[n] = s[n]
      /\ Append(s, e)[Len(s) + 1] = e
  BY <1>1
<1>3. \A n \in 1 .. Len(s) : s[n] # e
  BY <1>1, <1>2 DEF Range
<1>4. IsInjective(Append(s, e))
  BY <1>1, <1>2, <1>3 DEF IsInjective
<1>5. Range(Append(s, e)) = K \union {e}
  BY <1>1, <1>2 DEF Range
<1>6. QED
  BY <1>2, <1>4, <1>5 DEF Lists

LEMMA ConcatLists ==
    ASSUME NEW ps, NEW s, NEW K, Lists(ps, s, K), NEW t, NEW L, Lists(ps, t, L),
           K \intersect L = {}
    PROVE  Lists(ps, s \o t, K \union L)
<1>1. /\ s \in Seq(DOMAIN ps) /\ IsInjective(s) /\ Range(s) = K
      /\ t \in Seq(DOMAIN ps) /\ IsInjective(t) /\ Range(t) = L
  BY DEF Lists
<1>2. /\ s \o t \in Seq(DOMAIN ps)
      /\ DOMAIN s = 1 .. Len(s) /\ DOMAIN t = 1 .. Len(t)
      /\ Len(s) \in Nat /\ Len(t) \in Nat
      /\ DOMAIN (s \o t) = 1 .. Len(s) + Len(t)
      /\ \A n \in 1 .. Len(s) : (s \o t)[n] = s[n]
      /\ \A n \in 1 .. Len(s) + Len(t) : n > Len(s) => (s \o t)[n] = t[n - Len(s)]
  BY <1>1
<1>3. \A m \in 1 .. Len(s), n \in 1 .. Len(t) : s[m] # t[n]
  BY <1>1, <1>2 DEF Range
<1>4. ASSUME NEW m \in 1 .. Len(s) + Len(t), NEW n \in 1 .. Len(s) + Len(t),
             (s \o t)[m] = (s \o t)[n]
      PROVE  m = n
  <2>1. CASE m <= Len(s) /\ n <= Len(s)
    BY <1>1, <1>2, <1>4, <2>1 DEF IsInjective
  <2>2. CASE m > Len(s) /\ n > Len(s)
    <3>1. m - Len(s) \in 1 .. Len(t) /\ n - Len(s) \in 1 .. Len(t)
          /\ t[m - Len(s)] = t[n - Len(s)]
      BY <1>2, <1>4, <2>2
    <3>2. m - Len(s) = n - Len(s)
      BY <1>1, <1>2, <3>1 DEF IsInjective
    <3>3. QED
      BY <1>2, <3>2
  <2>3. CASE m <= Len(s) /\ n > Len(s)
    BY <1>2, <1>3, <1>4, <2>3
  <2>4. CASE m > Len(s) /\ n <= Len(s)
    BY <1>2, <1>3, <1>4, <2>4
  <2>5. QED
    BY <1>2, <2>1, <2>2, <2>3, <2>4
<1>5. IsInjective(s \o t)
  BY <1>2, <1>4 DEF IsInjective
<1>6. Range(s \o t) = K \union L
  <2>1. ASSUME NEW x \in Range(s \o t) PROVE x \in K \union L
    <3>1. PICK n \in 1 .. Len(s) + Len(t) : x = (s \o t)[n]
      BY <1>2 DEF Range
    <3>2. CASE n <= Len(s)
      BY <1>1, <1>2, <3>1, <3>2 DEF Range
    <3>3. CASE n > Len(s)
      <4>1. n - Len(s) \in 1 .. Len(t) /\ x = t[n - Len(s)]
        BY <1>2, <3>1, <3>3
      <4>2. QED
        BY <1>1, <1>2, <4>1 DEF Range
    <3>4. QED
      BY <1>2, <3>2, <3>3
  <2>2. ASSUME NEW x \in K PROVE x \in Range(s \o t)
    <3>1. PICK n \in 1 .. Len(s) : x = s[n]
      BY <1>1, <1>2 DEF Range
    <3>2. n \in 1 .. Len(s) + Len(t) /\ x = (s \o t)[n]
      BY <1>2, <3>1
    <3>3. QED
      BY <1>2, <3>2 DEF Range
  <2>3. ASSUME NEW x \in L PROVE x \in Range(s \o t)
    <3>1. PICK n \in 1 .. Len(t) : x = t[n]
      BY <1>1, <1>2 DEF Range
    <3>2. n + Len(s) \in 1 .. Len(s) + Len(t) /\ (n + Len(s)) - Len(s) = n
          /\ n + Len(s) > Len(s)
      BY <1>2, <3>1
    <3>3. x = (s \o t)[n + Len(s)]
      BY <1>2, <3>1, <3>2
    <3>4. QED
      BY <1>2, <3>2, <3>3 DEF Range
  <2>4. QED
    BY <2>1, <2>2, <2>3
<1>7. QED
  BY <1>2, <1>5, <1>6 DEF Lists

\* Before the first row nothing is listed.
LEMMA NoRows ==
    ASSUME NEW ps
    PROVE  Lists(ps, << >>, {}) /\ GroupsOf(ps, << >>, 0)
BY DEF Lists, Range, IsInjective, GroupsOf

----------------------------------------------------------------------------
LEMMA ListIsSeq ==
    ASSUME NEW S, NEW m \in Nat, NEW f \in [1 .. m -> S]
    PROVE  f \in Seq(S)
OBVIOUS

\* The groups after one row more: first where its order has one.
LEMMA RowJoinsGroup ==
    ASSUME NEW ps, NEW gs, NEW n \in Nat, Len(ps) \in Nat, DOMAIN ps = 1 .. Len(ps),
           n + 1 \in DOMAIN ps, GroupsOf(ps, gs, n),
           NEW j \in DOMAIN gs, gs[j].order = ps[n + 1].order,
           NEW hs,
           hs = [g \in DOMAIN gs |->
                    IF gs[g].order = ps[n + 1].order
                    THEN [gs[g] EXCEPT !.rows = Append(@, n + 1)] ELSE gs[g]]
    PROVE  GroupsOf(ps, hs, n + 1)
<1> DEFINE r == gs[j].rows
<1>1. gs \in Seq(GroupSet(ps)) /\ DOMAIN gs = 1 .. Len(gs) /\ Len(gs) \in Nat
  BY DEF GroupsOf
<1>2. \A g, h \in DOMAIN gs : gs[g].order = gs[h].order => g = h
  BY DEF GroupsOf
<1>3. \A g \in DOMAIN gs, k \in DOMAIN ps :
          k \in Range(gs[g].rows) <=> k <= n /\ ps[k].order = gs[g].order
  BY DEF GroupsOf
<1>4. \A g \in DOMAIN gs : gs[g] \in GroupSet(ps) /\ IsInjective(gs[g].rows)
  BY <1>1 DEF GroupsOf
<1>5. /\ gs[j] \in GroupSet(ps) /\ r \in Seq(DOMAIN ps)
      /\ gs[j] = [order |-> gs[j].order, rows |-> r]
  BY <1>4 DEF GroupSet
<1>6. Lists(ps, Append(r, n + 1), Range(r) \union {n + 1})
  <2>1. n + 1 \notin Range(r)
    BY <1>3
  <2>2. Lists(ps, r, Range(r))
    BY <1>4, <1>5 DEF Lists
  <2>3. QED
    BY <2>1, <2>2, AppendLists
<1>7. DOMAIN hs = DOMAIN gs /\ hs[j] = [order |-> gs[j].order, rows |-> Append(r, n + 1)]
  BY <1>5
<1>8. ASSUME NEW g \in DOMAIN gs, g # j
      PROVE  hs[g] = gs[g] /\ gs[g].order # ps[n + 1].order
  BY <1>2, <1>8
<1> HIDE DEF r
<1>9. ASSUME NEW g \in DOMAIN gs
      PROVE  hs[g] \in GroupSet(ps) /\ IsInjective(hs[g].rows) /\ hs[g].order = gs[g].order
  <2>1. hs[j] \in GroupSet(ps) /\ IsInjective(hs[j].rows) /\ hs[j].order = gs[j].order
    BY <1>5, <1>6, <1>7 DEF GroupSet, Lists
  <2>2. CASE g # j
    BY <1>4, <1>8, <2>2
  <2>3. QED
    BY <2>1, <2>2
<1>10. hs \in Seq(GroupSet(ps))
  <2>1. hs = [g \in 1 .. Len(gs) |-> hs[g]]
    BY <1>1, Zenon
  <2>2. \A g \in 1 .. Len(gs) : hs[g] \in GroupSet(ps)
    BY <1>1, <1>9
  <2>3. hs \in [1 .. Len(gs) -> GroupSet(ps)]
    BY <2>1, <2>2, Zenon
  <2>4. QED
    BY <1>1, <2>3, ListIsSeq, Zenon
<1>11. ASSUME NEW g \in DOMAIN gs, NEW k \in DOMAIN ps
       PROVE  k \in Range(hs[g].rows) <=> k <= n + 1 /\ ps[k].order = hs[g].order
  <2>1. k \in Range(gs[g].rows) <=> k <= n /\ ps[k].order = gs[g].order
    BY <1>3
  <2>2. k <= n + 1 <=> k <= n \/ k = n + 1
    OBVIOUS
  <2>3. CASE g = j
    <3>1. hs[g].rows = Append(r, n + 1)
      BY <1>7, <2>3
    <3>2. Range(hs[g].rows) = Range(gs[g].rows) \union {n + 1}
      BY <1>6, <2>3, <3>1 DEF Lists, r
    <3>3. QED
      BY <1>9, <2>1, <2>2, <2>3, <3>2
  <2>4. CASE g # j
    BY <1>8, <2>1, <2>2, <2>4
  <2>5. QED
    BY <2>3, <2>4
<1>12. ASSUME NEW k \in 1 .. n + 1 PROVE \E g \in DOMAIN hs : hs[g].order = ps[k].order
  <2>1. CASE k = n + 1
    BY <1>7, <1>9, <2>1
  <2>2. CASE k \in 1 .. n
    <3>1. PICK g \in DOMAIN gs : gs[g].order = ps[k].order
      BY <2>2 DEF GroupsOf
    <3>2. QED
      BY <1>7, <1>9, <3>1
  <2>3. QED
    BY <2>1, <2>2
<1>13. ASSUME NEW g \in DOMAIN hs, NEW h \in DOMAIN hs, hs[g].order = hs[h].order
       PROVE  g = h
  BY <1>2, <1>7, <1>9, <1>13
<1>14. QED
  BY <1>7, <1>9, <1>10, <1>11, <1>12, <1>13 DEF GroupsOf

\* Then where the order is a new one.
LEMMA RowOpensGroup ==
    ASSUME NEW ps, NEW gs, NEW n \in Nat, Len(ps) \in Nat, DOMAIN ps = 1 .. Len(ps),
           n + 1 \in DOMAIN ps, GroupsOf(ps, gs, n),
           ~ \E g \in DOMAIN gs : gs[g].order = ps[n + 1].order,
           NEW hs,
           hs = Append(gs, [order |-> ps[n + 1].order, rows |-> <<n + 1>>])
    PROVE  GroupsOf(ps, hs, n + 1)
<1> DEFINE new == [order |-> ps[n + 1].order, rows |-> <<n + 1>>]
<1>1. /\ gs \in Seq(GroupSet(ps)) /\ DOMAIN gs = 1 .. Len(gs) /\ Len(gs) \in Nat
      /\ \A g, h \in DOMAIN gs : gs[g].order = gs[h].order => g = h
      /\ \A g \in DOMAIN gs : IsInjective(gs[g].rows)
      /\ \A g \in DOMAIN gs, k \in DOMAIN ps :
             k \in Range(gs[g].rows) <=> k <= n /\ ps[k].order = gs[g].order
      /\ \A k \in 1 .. n : \E g \in DOMAIN gs : gs[g].order = ps[k].order
  BY DEF GroupsOf
<1>2. /\ new \in GroupSet(ps) /\ new.order = ps[n + 1].order
      /\ IsInjective(new.rows) /\ Range(new.rows) = {n + 1}
  BY DEF GroupSet, IsInjective, Range
<1> HIDE DEF new
<1>3. hs = Append(gs, new)
  BY DEF new
<1>4. /\ hs \in Seq(GroupSet(ps)) /\ DOMAIN hs = 1 .. Len(gs) + 1
      /\ \A g \in 1 .. Len(gs) : hs[g] = gs[g]
      /\ hs[Len(gs) + 1] = new
  BY <1>1, <1>2, <1>3
<1>5. \A g, h \in DOMAIN hs : hs[g].order = hs[h].order => g = h
  BY <1>1, <1>2, <1>4
<1>6. \A g \in DOMAIN hs : IsInjective(hs[g].rows)
  BY <1>1, <1>2, <1>4
<1>7. ASSUME NEW g \in DOMAIN hs, NEW k \in DOMAIN ps
      PROVE  k \in Range(hs[g].rows) <=> k <= n + 1 /\ ps[k].order = hs[g].order
  <2>1. CASE g \in 1 .. Len(gs)
    <3>1. hs[g] = gs[g] /\ gs[g].order # ps[n + 1].order
      BY <1>1, <1>4, <2>1
    <3>2. k \in Range(gs[g].rows) <=> k <= n /\ ps[k].order = gs[g].order
      BY <1>1, <2>1
    <3>3. QED
      BY <3>1, <3>2
  <2>2. CASE g = Len(gs) + 1
    <3>1. hs[g] = new
      BY <1>4, <2>2
    <3>2. k <= n /\ ps[k].order = ps[n + 1].order => FALSE
      BY <1>1
    <3>3. QED
      BY <1>2, <3>1, <3>2
  <2>3. QED
    BY <1>1, <1>4, <2>1, <2>2
<1>8. \A k \in 1 .. n + 1 : \E g \in DOMAIN hs : hs[g].order = ps[k].order
  <2>1. ASSUME NEW k \in 1 .. n + 1 PROVE \E g \in DOMAIN hs : hs[g].order = ps[k].order
    <3>1. CASE k = n + 1
      <4>1. Len(gs) + 1 \in DOMAIN hs /\ hs[Len(gs) + 1].order = ps[k].order
        BY <1>1, <1>2, <1>4, <3>1
      <4>2. QED
        BY <4>1
    <3>2. CASE k \in 1 .. n
      <4>1. PICK g \in DOMAIN gs : gs[g].order = ps[k].order
        BY <1>1, <3>2
      <4>2. g \in DOMAIN hs /\ hs[g].order = ps[k].order
        BY <1>1, <1>4, <4>1
      <4>3. QED
        BY <4>2
    <3>3. QED
      BY <3>1, <3>2
  <2>2. QED
    BY <2>1
<1>9. QED
  BY <1>4, <1>5, <1>6, <1>7, <1>8 DEF GroupsOf

----------------------------------------------------------------------------
\* One position further in the rows of a group, and past the last one.
LEMMA OnePositionMore ==
    ASSUME NEW ps, NEW rows \in Seq(DOMAIN ps), NEW p \in DOMAIN rows, IsInjective(rows)
    PROVE  /\ rows[p] \in DOMAIN ps /\ rows[p] \notin Taken(ps, rows, p)
           /\ Taken(ps, rows, p + 1) =
                  IF ps[rows[p]].status = "PLACED" THEN Taken(ps, rows, p) \union {rows[p]}
                  ELSE Taken(ps, rows, p)
<1>1. DOMAIN rows = 1 .. Len(rows) /\ Len(rows) \in Nat /\ p \in Nat /\ rows[p] \in DOMAIN ps
  OBVIOUS
<1>2. rows[p] \notin Taken(ps, rows, p)
  BY <1>1 DEF Taken, IsInjective
<1>3. \A q \in DOMAIN rows : q < p + 1 <=> q < p \/ q = p
  BY <1>1
<1>4. ASSUME NEW k
      PROVE  k \in Taken(ps, rows, p + 1) <=>
                 k \in Taken(ps, rows, p) \/ (k = rows[p] /\ ps[k].status = "PLACED")
  BY <1>1, <1>3 DEF Taken
<1>5. QED
  BY <1>1, <1>2, <1>4

LEMMA WholeGroup ==
    ASSUME NEW ps, NEW gs, NEW n, GroupsOf(ps, gs, n), NEW c \in DOMAIN gs
    PROVE  /\ Met(ps, gs, c) \intersect Taken(ps, gs[c].rows, Len(gs[c].rows) + 1) = {}
           /\ Met(ps, gs, c + 1) =
                  Met(ps, gs, c) \union Taken(ps, gs[c].rows, Len(gs[c].rows) + 1)
<1> DEFINE rows == gs[c].rows
<1>1. gs \in Seq(GroupSet(ps)) /\ DOMAIN gs = 1 .. Len(gs) /\ Len(gs) \in Nat /\ c \in Nat
  BY DEF GroupsOf
<1>2. rows \in Seq(DOMAIN ps) /\ DOMAIN rows = 1 .. Len(rows) /\ Len(rows) \in Nat
  <2>1. gs[c] \in GroupSet(ps)
    BY <1>1
  <2>2. QED
    BY <2>1 DEF GroupSet
<1>3. Taken(ps, rows, Len(rows) + 1) =
          {k \in DOMAIN ps : ps[k].status = "PLACED" /\ k \in Range(rows)}
  <2>1. \A q \in DOMAIN rows : q < Len(rows) + 1
    BY <1>2
  <2>2. QED
    BY <2>1 DEF Taken, Range
<1>4. \A g \in DOMAIN gs, k \in DOMAIN ps :
          k \in Range(gs[g].rows) => ps[k].order = gs[g].order
  BY DEF GroupsOf
<1>5. \A g \in DOMAIN gs : g < c => gs[g].order # gs[c].order
  BY <1>1 DEF GroupsOf
<1>6. \A g \in DOMAIN gs : g < c + 1 <=> g < c \/ g = c
  BY <1>1
<1>7. \A k \in Met(ps, gs, c) : k \notin Range(rows)
  BY <1>4, <1>5 DEF Met
<1>8. ASSUME NEW k
      PROVE  k \in Met(ps, gs, c + 1) <=>
                 \/ k \in Met(ps, gs, c)
                 \/ k \in DOMAIN ps /\ ps[k].status = "PLACED" /\ k \in Range(rows)
  BY <1>6 DEF Met
<1>9. QED
  BY <1>3, <1>7, <1>8

\* All the groups hold all the rows.
LEMMA AllMet ==
    ASSUME NEW ps, Len(ps) \in Nat, DOMAIN ps = 1 .. Len(ps), NEW gs,
           GroupsOf(ps, gs, Len(ps)), NEW c, c \in 1 .. Len(gs) + 1, c \notin DOMAIN gs
    PROVE  Met(ps, gs, c) = {k \in DOMAIN ps : ps[k].status = "PLACED"}
<1>1. DOMAIN gs = 1 .. Len(gs) /\ Len(gs) \in Nat
  BY DEF GroupsOf
<1>2. \A g \in DOMAIN gs : g < c
  BY <1>1
<1>3. ASSUME NEW k \in DOMAIN ps PROVE \E g \in DOMAIN gs : k \in Range(gs[g].rows)
  BY DEF GroupsOf
<1>4. QED
  BY <1>2, <1>3 DEF Met

----------------------------------------------------------------------------
LEMMA InitBuilder == Init => BuilderInv
BY MarksAssumption
DEF Init, BuilderInv, ShapeInv, ReadingInv, GroupInv, PlaceInv, DoneInv, Nothing

\* The readers leave the builder alone until both files are sound.
LEMMA ReadOrderBuilds == ASSUME IntakeInv, BuilderInv, ReadOrder PROVE BuilderInv'
<1> DEFINE o == orders[cursor]
<1>1. /\ phase = "orders" /\ phase' = phase /\ cursor' = cursor + 1
      /\ errors' = errors \union ({cursor} \X OrderFaults(o))
      /\ parsed' = IF OrderFaults(o) = {} THEN Append(parsed, AsOrder(o)) ELSE parsed
      /\ groups' = groups /\ placed' = placed /\ place' = place
      /\ obligations' = obligations /\ mismatches' = mismatches
      /\ ~ OrderExplodes(o)
  BY DEF ReadOrder, At, hand, built
<1>2. o \in OrderRows
  BY DEF IntakeInv, Files, ReadOrder, At
<1> HIDE DEF o
<1>3. parsed' \in Seq(ParsedRows)
  BY <1>1, <1>2, SoundRow DEF BuilderInv, ShapeInv
<1>4. \A x \in errors' : x[1] \in Nat
  BY <1>1 DEF BuilderInv, ShapeInv
<1>5. ShapeInv'
  BY <1>1, <1>3, <1>4 DEF BuilderInv, ShapeInv
<1>6. QED
  BY <1>1, <1>5 DEF BuilderInv, ReadingInv, GroupInv, PlaceInv, DoneInv, Nothing

LEMMA ReadingBuilds ==
    ASSUME BuilderInv, EndOrders \/ ReadSettlement \/ Explode
    PROVE  BuilderInv'
<1>1. /\ UNCHANGED <<parsed, groups, placed, place, obligations, mismatches>>
      /\ phase \in {"orders", "settlements"}
      /\ phase' \in {"orders", "settlements", "rejected", "dead"}
      /\ cursor' \in {1, cursor, cursor + 1}
  BY DEF EndOrders, ReadSettlement, Explode, At, Past, hand, built
<1>2. \A x \in errors' : x[1] \in Nat
  <2>1. errors' = errors \/ errors' = errors \union ({cursor} \X SettlementFaults(settlements[cursor]))
    BY DEF EndOrders, ReadSettlement, Explode
  <2>2. QED
    BY <2>1 DEF BuilderInv, ShapeInv
<1>3. ShapeInv'
  BY <1>1, <1>2 DEF BuilderInv, ShapeInv
<1>4. QED
  BY <1>1, <1>3 DEF BuilderInv, ReadingInv, GroupInv, PlaceInv, DoneInv, Nothing

LEMMA EndSettlementsBuilds == ASSUME BuilderInv, EndSettlements PROVE BuilderInv'
<1>1. /\ UNCHANGED <<parsed, errors, groups, placed, place, obligations, mismatches>>
      /\ phase = "settlements" /\ phase' \in {"rejected", "group"} /\ cursor' = 1
  BY DEF EndSettlements, Past, hand, built
<1>2. ShapeInv'
  BY <1>1 DEF BuilderInv, ShapeInv
<1>3. groups = << >> /\ Nothing /\ Nothing'
  BY <1>1 DEF BuilderInv, ReadingInv, Nothing
<1>4. cursor' - 1 = 0 /\ GroupsOf(parsed', groups', 0) /\ cursor' \in 1 .. Len(parsed') + 1
  BY <1>1, <1>3, NoRows DEF BuilderInv, ShapeInv
<1>5. GroupsOf(parsed', groups', cursor' - 1)
  BY <1>4
<1>6. QED
  BY <1>1, <1>2, <1>3, <1>4, <1>5 DEF BuilderInv, ReadingInv, GroupInv, PlaceInv, DoneInv

LEMMA GroupBuilds == ASSUME BuilderInv, Group PROVE BuilderInv'
<1>1. /\ phase = "group" /\ cursor \in DOMAIN parsed /\ groups' = Grouped(cursor)
      /\ cursor' = cursor + 1
      /\ UNCHANGED <<phase, parsed, errors, placed, place, obligations, mismatches>>
  BY DEF Group, At, hand, built
<1>2. /\ DOMAIN parsed = 1 .. Len(parsed) /\ Len(parsed) \in Nat
      /\ GroupsOf(parsed, groups, cursor - 1) /\ Nothing
  BY <1>1 DEF BuilderInv, ShapeInv, GroupInv
<1>3. cursor - 1 \in Nat /\ (cursor - 1) + 1 = cursor
  BY <1>1, <1>2
<1>4. GroupsOf(parsed, groups', cursor)
  <2>1. CASE \E g \in DOMAIN groups : groups[g].order = parsed[cursor].order
    <3>1. PICK j \in DOMAIN groups : groups[j].order = parsed[cursor].order
      BY <2>1
    <3>2. groups' = [g \in DOMAIN groups |->
                        IF groups[g].order = parsed[cursor].order
                        THEN [groups[g] EXCEPT !.rows = Append(@, cursor)] ELSE groups[g]]
      BY <1>1, <2>1 DEF Grouped
    <3>3. QED
      BY <1>1, <1>2, <1>3, <3>1, <3>2, RowJoinsGroup
  <2>2. CASE ~ \E g \in DOMAIN groups : groups[g].order = parsed[cursor].order
    <3>1. groups' = Append(groups, [order |-> parsed[cursor].order, rows |-> <<cursor>>])
      BY <1>1, <2>2 DEF Grouped
    <3>2. QED
      BY <1>1, <1>2, <1>3, <2>2, <3>1, RowOpensGroup
  <2>3. QED
    BY <2>1, <2>2
<1>5. cursor' \in 1 .. Len(parsed') + 1 /\ cursor' - 1 = cursor
  BY <1>1, <1>2
<1>6. GroupsOf(parsed', groups', cursor' - 1)
  BY <1>1, <1>4, <1>5
<1>7. ShapeInv' /\ Nothing'
  BY <1>1, <1>2 DEF BuilderInv, ShapeInv, Nothing
<1>8. QED
  BY <1>1, <1>5, <1>6, <1>7 DEF BuilderInv, ReadingInv, GroupInv, PlaceInv, DoneInv

LEMMA EndGroupsBuilds == ASSUME BuilderInv, EndGroups PROVE BuilderInv'
<1>1. /\ phase = "group" /\ cursor \notin DOMAIN parsed /\ phase' = "build" /\ cursor' = 1
      /\ UNCHANGED <<parsed, errors, groups, placed, place, obligations, mismatches>>
  BY DEF EndGroups, Past, hand, built
<1>2. /\ DOMAIN parsed = 1 .. Len(parsed) /\ Len(parsed) \in Nat
      /\ cursor \in 1 .. Len(parsed) + 1
      /\ GroupsOf(parsed, groups, cursor - 1) /\ Nothing
  BY <1>1 DEF BuilderInv, ShapeInv, GroupInv
<1>3. cursor - 1 = Len(parsed)
  BY <1>1, <1>2
<1>4. GroupsOf(parsed, groups, Len(parsed))
  BY <1>2, <1>3
<1>5. DOMAIN groups = 1 .. Len(groups) /\ Len(groups) \in Nat
  BY <1>4 DEF GroupsOf
<1>6. Met(parsed, groups, 1) = {}
  BY <1>5 DEF Met
<1>7. ASSUME 1 \in DOMAIN groups
      PROVE  /\ Taken(parsed, groups[1].rows, 1) = {}
             /\ 1 \in 1 .. Len(groups[1].rows) + 1
  <2>1. groups[1] \in GroupSet(parsed)
    BY <1>4, <1>7 DEF GroupsOf
  <2>2. groups[1].rows \in Seq(DOMAIN parsed)
    BY <2>1 DEF GroupSet
  <2>3. QED
    BY <2>2 DEF Taken
<1>8. PlaceInv'
  <2>1. Lists(parsed, << >>, {}) /\ << >> \in Seq(DOMAIN parsed)
    BY NoRows
  <2>2. cursor' \in 1 .. Len(groups') + 1
    BY <1>1, <1>5
  <2>3. placed = << >> /\ place = 1 /\ obligations = << >>
    BY <1>2 DEF Nothing
  <2>4. QED
    BY <1>1, <1>4, <1>6, <1>7, <2>1, <2>2, <2>3 DEF PlaceInv
<1>9. ShapeInv'
  BY <1>1 DEF BuilderInv, ShapeInv
<1>10. QED
  BY <1>1, <1>8, <1>9 DEF BuilderInv, ReadingInv, GroupInv, DoneInv

LEMMA PlaceBuilds == ASSUME BuilderInv, Place PROVE BuilderInv'
<1> DEFINE rows == groups[cursor].rows
           i == rows[place]
<1>1. /\ phase = "build" /\ cursor \in DOMAIN groups /\ place \in DOMAIN rows
      /\ placed' = IF parsed[i].status = "PLACED" THEN Append(placed, i) ELSE placed
      /\ place' = place + 1
      /\ UNCHANGED <<phase, cursor, parsed, errors, groups, obligations, mismatches>>
  BY DEF Place, At, built
<1>2. /\ GroupsOf(parsed, groups, Len(parsed))
      /\ cursor \in 1 .. Len(groups) + 1
      /\ Lists(parsed, obligations, Met(parsed, groups, cursor))
      /\ Lists(parsed, placed, Taken(parsed, rows, place))
  BY <1>1 DEF BuilderInv, PlaceInv
<1>3. rows \in Seq(DOMAIN parsed) /\ IsInjective(rows)
  <2>1. groups[cursor] \in GroupSet(parsed) /\ IsInjective(rows)
    BY <1>1, <1>2 DEF GroupsOf
  <2>2. QED
    BY <2>1 DEF GroupSet
<1>4. place' \in 1 .. Len(rows) + 1 /\ place' \in Nat \ {0}
  BY <1>1, <1>3
<1> HIDE DEF rows
<1>5. Lists(parsed, placed', Taken(parsed, rows, place + 1))
  <2>1. /\ i \in DOMAIN parsed /\ i \notin Taken(parsed, rows, place)
        /\ Taken(parsed, rows, place + 1) =
               IF parsed[i].status = "PLACED" THEN Taken(parsed, rows, place) \union {i}
               ELSE Taken(parsed, rows, place)
    BY <1>1, <1>3, OnePositionMore
  <2> HIDE DEF i
  <2>2. Lists(parsed, Append(placed, i), Taken(parsed, rows, place) \union {i})
    BY <1>2, <2>1, AppendLists
  <2>3. QED
    BY <1>1, <1>2, <2>1, <2>2
<1>6. PlaceInv'
  <2>1. groups'[cursor'].rows = rows
    BY <1>1 DEF rows
  <2>2. Lists(parsed', placed', Taken(parsed', rows, place'))
    BY <1>1, <1>5
  <2>3. placed' \in Seq(DOMAIN parsed')
    BY <2>2 DEF Lists
  <2>4. QED
    BY <1>1, <1>2, <1>4, <2>1, <2>2, <2>3 DEF PlaceInv
<1>7. ShapeInv'
  BY <1>1, <1>4 DEF BuilderInv, ShapeInv
<1>8. QED
  BY <1>1, <1>6, <1>7 DEF BuilderInv, ReadingInv, GroupInv, DoneInv

LEMMA BuildOrderBuilds == ASSUME BuilderInv, BuildOrder PROVE BuilderInv'
<1> DEFINE rows == groups[cursor].rows
<1>1. /\ phase = "build" /\ cursor \in DOMAIN groups /\ place \notin DOMAIN rows
      /\ obligations' = obligations \o placed
      /\ placed' = << >> /\ place' = 1 /\ cursor' = cursor + 1
      /\ UNCHANGED <<phase, parsed, errors, groups>>
  BY DEF BuildOrder, At
<1>2. /\ GroupsOf(parsed, groups, Len(parsed))
      /\ Lists(parsed, obligations, Met(parsed, groups, cursor))
      /\ Lists(parsed, placed, Taken(parsed, rows, place))
      /\ place \in 1 .. Len(rows) + 1
  BY <1>1 DEF BuilderInv, PlaceInv
<1>3. \A g \in DOMAIN groups : groups[g].rows \in Seq(DOMAIN parsed)
  <2>1. \A g \in DOMAIN groups : groups[g] \in GroupSet(parsed)
    BY <1>2 DEF GroupsOf
  <2>2. QED
    BY <2>1 DEF GroupSet
<1>4. place = Len(rows) + 1
  BY <1>1, <1>2, <1>3
<1>5. Lists(parsed, obligations', Met(parsed, groups, cursor + 1))
  <2>1. Lists(parsed, placed, Taken(parsed, rows, Len(rows) + 1))
    BY <1>2, <1>4
  <2>2. /\ Met(parsed, groups, cursor) \intersect Taken(parsed, rows, Len(rows) + 1) = {}
        /\ Met(parsed, groups, cursor + 1) =
               Met(parsed, groups, cursor) \union Taken(parsed, rows, Len(rows) + 1)
    BY <1>1, <1>2, WholeGroup
  <2>3. QED
    BY <1>1, <1>2, <2>1, <2>2, ConcatLists
<1>6. cursor' \in 1 .. Len(groups') + 1 /\ cursor' \in Nat \ {0}
  BY <1>1, <1>2 DEF GroupsOf
<1>7. ASSUME NEW g \in DOMAIN groups
      PROVE  1 \in 1 .. Len(groups[g].rows) + 1 /\ Taken(parsed, groups[g].rows, 1) = {}
  <2>1. groups[g].rows \in Seq(DOMAIN parsed)
    BY <1>3
  <2>2. QED
    BY <2>1 DEF Taken
<1>8. PlaceInv'
  <2>1. Lists(parsed', obligations', Met(parsed', groups', cursor'))
    BY <1>1, <1>5
  <2>2. Lists(parsed', placed', {}) /\ placed' \in Seq(DOMAIN parsed')
    BY <1>1, NoRows
  <2>3. cursor' \in DOMAIN groups' =>
            /\ place' \in 1 .. Len(groups'[cursor'].rows) + 1
            /\ Taken(parsed', groups'[cursor'].rows, place') = {}
    BY <1>1, <1>7
  <2>4. GroupsOf(parsed', groups', Len(parsed'))
    BY <1>1, <1>2
  <2>5. QED
    BY <1>6, <2>1, <2>2, <2>3, <2>4 DEF PlaceInv
<1>9. \A m \in mismatches' : m.status \in {"EXCESS", "PARTIALLY_MATCHED"}
  <2>1. mismatches' = mismatches \/ mismatches' = mismatches \union {Mismatch(placed)}
    BY DEF BuildOrder
  <2>2. Mismatch(placed).status \in {"EXCESS", "PARTIALLY_MATCHED"}
    BY DEF Mismatch
  <2>3. QED
    BY <2>1, <2>2 DEF BuilderInv, ShapeInv
<1>10. ShapeInv'
  BY <1>1, <1>6, <1>9 DEF BuilderInv, ShapeInv
<1>11. QED
  BY <1>1, <1>8, <1>10 DEF BuilderInv, ReadingInv, GroupInv, DoneInv

LEMMA EndBuildBuilds == ASSUME BuilderInv, EndBuild PROVE BuilderInv'
<1>1. /\ phase = "build" /\ cursor \notin DOMAIN groups /\ phase' = "done"
      /\ UNCHANGED <<cursor, parsed, errors, groups, placed, place, obligations, mismatches>>
  BY DEF EndBuild, Past, hand, built
<1>2. /\ GroupsOf(parsed, groups, Len(parsed)) /\ cursor \in 1 .. Len(groups) + 1
      /\ Lists(parsed, obligations, Met(parsed, groups, cursor))
      /\ placed \in Seq(DOMAIN parsed)
      /\ DOMAIN parsed = 1 .. Len(parsed) /\ Len(parsed) \in Nat
  BY <1>1 DEF BuilderInv, PlaceInv, ShapeInv
<1>3. Met(parsed, groups, cursor) = PlacedRows
  BY <1>1, <1>2, AllMet DEF PlacedRows
<1>4. PlacedRows' = PlacedRows
  BY <1>1 DEF PlacedRows
<1>5. DoneInv'
  BY <1>1, <1>2, <1>3, <1>4 DEF DoneInv
<1>6. ShapeInv'
  BY <1>1 DEF BuilderInv, ShapeInv
<1>7. QED
  BY <1>1, <1>5, <1>6 DEF BuilderInv, ReadingInv, GroupInv, PlaceInv

LEMMA AlwaysBuilder == Spec => []BuilderInv
<1>1. ASSUME BuilderInv, UNCHANGED vars PROVE BuilderInv'
  <2>1. UNCHANGED <<phase, cursor, parsed, errors, groups, placed, place, obligations, mismatches>>
    BY <1>1 DEF vars, hand, built
  <2>2. QED
    BY <1>1, <2>1
    DEF BuilderInv, ShapeInv, ReadingInv, GroupInv, PlaceInv, DoneInv, Nothing, PlacedRows
<1>2. IntakeInv /\ BuilderInv /\ [Next]_vars => BuilderInv'
  BY <1>1, ReadOrderBuilds, ReadingBuilds, EndSettlementsBuilds, GroupBuilds,
     EndGroupsBuilds, PlaceBuilds, BuildOrderBuilds, EndBuildBuilds
  DEF Next
<1>3. QED
  BY <1>2, InitBuilder, AlwaysIntake, PTL DEF Spec

----------------------------------------------------------------------------
\* Intake keeps its types: an order that is parsed has amounts that are
\* numbers and enumerations that are known.
THEOREM TypeCorrect == Spec => []TypeOK
<1>1. ASSUME IntakeInv, BuilderInv PROVE TypeOK
  <2>1. orders \in Seq(OrderRows) /\ settlements \in Seq(SettlementRows)
    BY <1>1 DEF IntakeInv, Files
  <2>2. /\ phase \in {"orders", "settlements", "group", "build", "done", "rejected", "dead"}
        /\ cursor \in Nat \ {0} /\ parsed \in Seq(ParsedRows)
        /\ \A x \in errors : x[1] \in Nat
        /\ \A m \in mismatches : m.status \in {"EXCESS", "PARTIALLY_MATCHED"}
    BY <1>1 DEF BuilderInv, ShapeInv
  <2>3. \A i \in DOMAIN parsed : ParsedRow(parsed[i])
    <3>1. \A r \in ParsedRows : ParsedRow(r)
      BY DEF ParsedRows
    <3>2. QED
      BY <2>2, <3>1
  <2>4. CASE phase \in {"group", "build", "done"}
    <3> DEFINE Typed == /\ groups \in Seq(GroupSet(parsed))
                        /\ placed \in Seq(DOMAIN parsed)
                        /\ obligations \in Seq(DOMAIN parsed)
    <3>1. ASSUME phase = "group" PROVE Typed
      BY <1>1, <3>1 DEF BuilderInv, GroupInv, GroupsOf, Nothing
    <3>2. ASSUME phase = "build" PROVE Typed
      BY <1>1, <3>2 DEF BuilderInv, PlaceInv, GroupsOf, Lists
    <3>3. ASSUME phase = "done" PROVE Typed
      BY <1>1, <3>3 DEF BuilderInv, DoneInv, GroupsOf, Lists
    <3>4. Typed
      BY <2>4, <3>1, <3>2, <3>3
    <3>5. \A g \in DOMAIN groups : groups[g].rows \in Seq(DOMAIN parsed)
      <4>1. groups \in Seq(GroupSet(parsed))
        BY <3>4
      <4>2. \A x \in GroupSet(parsed) : x.rows \in Seq(DOMAIN parsed)
        BY DEF GroupSet
      <4>3. QED
        BY <4>1, <4>2
    <3>6. QED
      BY <2>1, <2>2, <2>3, <3>4, <3>5 DEF TypeOK
  <2>5. CASE phase \notin {"group", "build", "done"}
    <3>1. groups = << >> /\ placed = << >> /\ obligations = << >>
      BY <1>1, <2>5 DEF BuilderInv, ReadingInv, Nothing
    <3>2. QED
      BY <2>1, <2>2, <2>3, <3>1 DEF TypeOK
  <2>6. QED
    BY <2>4, <2>5
<1>2. QED
  BY <1>1, AlwaysIntake, AlwaysBuilder, PTL

\* However the rows of the orders are mixed in a file of any length, each
\* placed row and no other becomes one obligation.
THEOREM ObligationsAreThePlacedRows == Spec => []PlacedRowsBecomeObligations
<1>1. BuilderInv => PlacedRowsBecomeObligations
  BY DEF BuilderInv, DoneInv, Lists, PlacedRowsBecomeObligations
<1>2. QED
  BY <1>1, AlwaysBuilder, PTL
----------------------------------------------------------------------------
(***************************************************************************)
(* The sums.  The orders of the groups passed are judged, each by the set of *)
(* its placed rows; the exceptions there are belong to those orders, so that *)
(* the one of a group to come is still open.                                *)
(***************************************************************************)

PlacedOf(ps, o) == {k \in DOMAIN ps : ps[k].status = "PLACED" /\ ps[k].order = o}

SumOf(ps, K) == SumFunction([k \in K |-> ps[k].pay])

Judged(ps, ms, o) ==
    \A i \in PlacedOf(ps, o) :
        (\A k \in PlacedOf(ps, o) : ps[k].amount = ps[i].amount) =>
            (SumOf(ps, PlacedOf(ps, o)) - ps[i].amount \notin -Tolerance .. Tolerance
             <=> \E m \in ms : m.order = o)

UnjudgedInv == phase \notin {"build", "done"} => mismatches = {}

JudgingInv ==
    phase = "build" =>
        /\ \A g \in DOMAIN groups :
               g < cursor => Judged(parsed, mismatches, groups[g].order)
        /\ \A m \in mismatches :
               \E g \in DOMAIN groups : g < cursor /\ groups[g].order = m.order

JudgedInv ==
    phase = "done" =>
        \A g \in DOMAIN groups : Judged(parsed, mismatches, groups[g].order)

SumInv == UnjudgedInv /\ JudgingInv /\ JudgedInv

\* When all the rows of a group are taken, those placed are the placed rows of
\* its order.
LEMMA GroupIsOrder ==
    ASSUME NEW ps, Len(ps) \in Nat, DOMAIN ps = 1 .. Len(ps), NEW gs,
           GroupsOf(ps, gs, Len(ps)), NEW c \in DOMAIN gs
    PROVE  Taken(ps, gs[c].rows, Len(gs[c].rows) + 1) = PlacedOf(ps, gs[c].order)
<1> DEFINE rows == gs[c].rows
<1>1. rows \in Seq(DOMAIN ps)
  <2>1. gs[c] \in GroupSet(ps)
    BY DEF GroupsOf
  <2>2. QED
    BY <2>1 DEF GroupSet
<1>2. \A q \in DOMAIN rows : q < Len(rows) + 1
  BY <1>1
<1>3. \A k \in DOMAIN ps : k \in Range(rows) <=> k <= Len(ps) /\ ps[k].order = gs[c].order
  BY DEF GroupsOf
<1>4. \A k \in DOMAIN ps : k \in Range(rows) <=> \E q \in DOMAIN rows : rows[q] = k
  BY DEF Range
<1> HIDE DEF rows
<1>5. Taken(ps, rows, Len(rows) + 1) = PlacedOf(ps, gs[c].order)
  BY <1>2, <1>3, <1>4 DEF Taken, PlacedOf
<1>6. QED
  BY <1>5 DEF rows

\* The payments added up along a list of rows are those of the rows it lists.
LEMMA PaidIsSum ==
    ASSUME parsed \in Seq(ParsedRows), NEW s, NEW K, Lists(parsed, s, K)
    PROVE  Paid(s) = SumOf(parsed, K) /\ SumOf(parsed, K) \in Int
<1> DEFINE v == [n \in DOMAIN s |-> parsed[s[n]].pay]
           w == [k \in K |-> parsed[k].pay]
<1>1. /\ s \in Seq(DOMAIN parsed) /\ IsInjective(s) /\ Range(s) = K
      /\ DOMAIN s = 1 .. Len(s) /\ Len(s) \in Nat
  BY DEF Lists
<1>2. \A k \in DOMAIN parsed : parsed[k].pay \in Int
  <2>1. \A r \in ParsedRows : r.pay \in Int
    BY DEF ParsedRows, ParsedRow
  <2>2. QED
    BY <2>1
<1>3. IsFiniteSet(DOMAIN s)
  BY <1>1, FS_Interval
<1>4. K = {s[n] : n \in DOMAIN s}
  BY <1>1 DEF Range
<1>5. \A m, n \in DOMAIN s : s[m] = s[n] => m = n
  BY <1>1 DEF IsInjective
<1>6. \A n \in DOMAIN s : s[n] \in K /\ s[n] \in DOMAIN parsed
  BY <1>1, <1>4
<1>7. \A n \in DOMAIN s : v[n] \in Int /\ w[s[n]] = v[n]
  BY <1>2, <1>6
<1>8. DOMAIN v = DOMAIN s /\ DOMAIN w = K
  OBVIOUS
<1> HIDE DEF v, w
<1>9. SumFunctionOnSet(v, DOMAIN s) = SumFunctionOnSet(w, K)
  <2>1. SumFunctionOnSet(v, DOMAIN s) = SumFunctionOnSet(w, {s[n] : n \in DOMAIN s})
    BY <1>3, <1>5, <1>7, SumMoves
  <2>2. QED
    BY <1>4, <2>1
<1>10. Paid(s) = SumFunctionOnSet(v, DOMAIN s)
  BY <1>8 DEF Paid, SumFunction, v
<1>11. SumOf(parsed, K) = SumFunctionOnSet(w, K)
  BY <1>8 DEF SumOf, SumFunction, w
<1>12. SumFunctionOnSet(v, DOMAIN s) \in Int
  BY <1>3, <1>7, SumIsInteger
<1>13. QED
  BY <1>9, <1>10, <1>11, <1>12

\* What was judged stays judged when an exception of another order is added.
LEMMA StaysJudged ==
    ASSUME NEW ps, NEW ms, NEW ns, NEW o, Judged(ps, ms, o),
           \A m \in ns : m.order = o => m \in ms, ms \subseteq ns
    PROVE  Judged(ps, ns, o)
<1>1. (\E m \in ms : m.order = o) <=> (\E m \in ns : m.order = o)
  OBVIOUS
<1>2. QED
  BY <1>1 DEF Judged

\* The order at hand is judged by BuildOrder.
LEMMA OrderIsJudged ==
    ASSUME BuilderInv, JudgingInv, BuildOrder
    PROVE  /\ Judged(parsed, mismatches', groups[cursor].order)
           /\ \A m \in mismatches' \ mismatches : m.order = groups[cursor].order
<1> DEFINE o == groups[cursor].order
           K == PlacedOf(parsed, o)
<1>1. /\ phase = "build" /\ cursor \in DOMAIN groups
      /\ place \notin DOMAIN groups[cursor].rows
      /\ mismatches' = IF placed # << >> /\ SumDiffers(placed)
                       THEN mismatches \union {Mismatch(placed)} ELSE mismatches
  BY DEF BuildOrder, At
<1>2. /\ GroupsOf(parsed, groups, Len(parsed))
      /\ Lists(parsed, placed, Taken(parsed, groups[cursor].rows, place))
      /\ place \in 1 .. Len(groups[cursor].rows) + 1
      /\ parsed \in Seq(ParsedRows) /\ DOMAIN parsed = 1 .. Len(parsed)
      /\ Len(parsed) \in Nat
  BY <1>1 DEF BuilderInv, PlaceInv, ShapeInv
<1>3. place = Len(groups[cursor].rows) + 1
  <2>1. groups[cursor] \in GroupSet(parsed)
    BY <1>1, <1>2 DEF GroupsOf
  <2>2. groups[cursor].rows \in Seq(DOMAIN parsed)
    BY <2>1 DEF GroupSet
  <2>3. QED
    BY <1>1, <1>2, <2>2
<1>4. Lists(parsed, placed, K)
  BY <1>1, <1>2, <1>3, GroupIsOrder
<1>5. Paid(placed) = SumOf(parsed, K) /\ SumOf(parsed, K) \in Int
  BY <1>2, <1>4, PaidIsSum
<1>6. \A m \in mismatches : m.order # o
  <2>1. \A m \in mismatches : \E g \in DOMAIN groups : g < cursor /\ groups[g].order = m.order
    BY <1>1 DEF JudgingInv
  <2>2. \A g, h \in DOMAIN groups : groups[g].order = groups[h].order => g = h
    BY <1>2 DEF GroupsOf
  <2>3. cursor \in Nat
    BY DEF BuilderInv, ShapeInv
  <2>4. QED
    BY <1>1, <2>1, <2>2, <2>3
<1>7. placed # << >> =>
          /\ placed[1] \in K /\ Mismatch(placed).order = o
          /\ Total(placed) = parsed[placed[1]].amount
  <2>1. ASSUME placed # << >> PROVE 1 \in DOMAIN placed
    <3>1. placed \in Seq(DOMAIN parsed)
      BY <1>4 DEF Lists
    <3>2. QED
      BY <2>1, <3>1
  <2>2. ASSUME placed # << >> PROVE placed[1] \in K
    BY <1>4, <2>1, <2>2 DEF Lists, Range
  <2>3. \A k \in K : parsed[k].order = o
    BY DEF PlacedOf
  <2> HIDE DEF K, o
  <2>4. QED
    BY <2>2, <2>3 DEF Mismatch, Total
<1>8. placed = << >> => K = {}
  BY <1>4 DEF Lists, Range
<1>9. \A m \in mismatches' \ mismatches : m.order = o
  BY <1>1, <1>7
<1>10. ASSUME NEW i \in K, \A k \in K : parsed[k].amount = parsed[i].amount
       PROVE  SumOf(parsed, K) - parsed[i].amount \notin -Tolerance .. Tolerance
              <=> \E m \in mismatches' : m.order = o
  <2>1. placed # << >>
    BY <1>8
  <2>2. SumDiffers(placed)
        <=> SumOf(parsed, K) - parsed[i].amount \notin -Tolerance .. Tolerance
    <3> HIDE DEF K
    <3>1. Total(placed) = parsed[i].amount
      BY <1>7, <1>10, <2>1
    <3>2. QED
      BY <1>5, <3>1 DEF SumDiffers
  <2> HIDE DEF K, o
  <2>3. SumDiffers(placed) <=> \E m \in mismatches' : m.order = o
    BY <1>1, <1>6, <1>7, <2>1
  <2>4. QED
    BY <2>2, <2>3
<1>11. Judged(parsed, mismatches', o)
  BY <1>10 DEF Judged
<1>12. QED
  BY <1>9, <1>11

----------------------------------------------------------------------------
LEMMA BuildOrderJudges == ASSUME BuilderInv, SumInv, BuildOrder PROVE SumInv'
<1>1. /\ phase = "build" /\ phase' = phase /\ cursor \in DOMAIN groups
      /\ cursor' = cursor + 1 /\ parsed' = parsed /\ groups' = groups
      /\ mismatches \subseteq mismatches'
  BY DEF BuildOrder, At
<1>2. /\ Judged(parsed, mismatches', groups[cursor].order)
      /\ \A m \in mismatches' \ mismatches : m.order = groups[cursor].order
  BY OrderIsJudged DEF SumInv
<1>3. /\ \A g \in DOMAIN groups : g < cursor => Judged(parsed, mismatches, groups[g].order)
      /\ \A m \in mismatches : \E g \in DOMAIN groups : g < cursor /\ groups[g].order = m.order
  BY <1>1 DEF SumInv, JudgingInv
<1>4. /\ DOMAIN groups \subseteq Nat /\ cursor \in Nat
      /\ \A g, h \in DOMAIN groups : groups[g].order = groups[h].order => g = h
  BY <1>1 DEF BuilderInv, PlaceInv, GroupsOf
<1>5. ASSUME NEW g \in DOMAIN groups, g < cursor'
      PROVE  Judged(parsed, mismatches', groups[g].order)
  <2>1. CASE g = cursor
    BY <1>2, <2>1
  <2>2. CASE g # cursor
    <3>1. g < cursor /\ groups[g].order # groups[cursor].order
      BY <1>1, <1>4, <1>5, <2>2
    <3>2. Judged(parsed, mismatches, groups[g].order)
      BY <1>3, <3>1
    <3>3. \A m \in mismatches' : m.order = groups[g].order => m \in mismatches
      BY <1>2, <3>1
    <3>4. QED
      BY <1>1, <3>2, <3>3, StaysJudged
  <2>3. QED
    BY <2>1, <2>2
<1>6. ASSUME NEW m \in mismatches'
      PROVE  \E g \in DOMAIN groups : g < cursor' /\ groups[g].order = m.order
  <2>1. CASE m \in mismatches
    BY <1>1, <1>3, <1>4, <2>1
  <2>2. CASE m \notin mismatches
    BY <1>1, <1>2, <1>4, <2>2
  <2>3. QED
    BY <2>1, <2>2
<1>7. QED
  BY <1>1, <1>5, <1>6 DEF SumInv, UnjudgedInv, JudgingInv, JudgedInv

\* The other steps judge nothing.
LEMMA EndGroupsJudges == ASSUME BuilderInv, SumInv, EndGroups PROVE SumInv'
<1>1. /\ phase = "group" /\ phase' = "build" /\ cursor' = 1
      /\ groups' = groups /\ mismatches' = mismatches
  BY DEF EndGroups, Past, built
<1>2. mismatches = {}
  BY <1>1 DEF SumInv, UnjudgedInv
<1>3. DOMAIN groups \subseteq Nat \ {0}
  <2>1. groups \in Seq(GroupSet(parsed))
    BY <1>1 DEF BuilderInv, GroupInv, GroupsOf
  <2>2. QED
    BY <2>1
<1>4. \A g \in DOMAIN groups : ~ (g < 1)
  BY <1>3
<1>5. QED
  BY <1>1, <1>2, <1>4 DEF SumInv, UnjudgedInv, JudgingInv, JudgedInv

LEMMA EndBuildJudges == ASSUME BuilderInv, SumInv, EndBuild PROVE SumInv'
<1>1. /\ phase = "build" /\ phase' = "done" /\ cursor \notin DOMAIN groups
      /\ UNCHANGED <<parsed, groups, mismatches>>
  BY DEF EndBuild, Past, built
<1>2. cursor \in 1 .. Len(groups) + 1 /\ groups \in Seq(GroupSet(parsed))
  BY <1>1 DEF BuilderInv, PlaceInv, GroupsOf
<1>3. \A g \in DOMAIN groups : g < cursor
  BY <1>1, <1>2
<1>4. \A g \in DOMAIN groups : Judged(parsed, mismatches, groups[g].order)
  BY <1>1, <1>3 DEF SumInv, JudgingInv
<1>5. QED
  BY <1>1, <1>4 DEF SumInv, UnjudgedInv, JudgingInv, JudgedInv

LEMMA OthersJudge ==
    ASSUME SumInv,
           ReadOrder \/ EndOrders \/ ReadSettlement \/ EndSettlements \/ Explode
             \/ Group \/ Place \/ UNCHANGED vars
    PROVE  SumInv'
<1>1. CASE ReadOrder \/ EndOrders \/ ReadSettlement \/ EndSettlements \/ Explode \/ Group
  <2>1. phase \notin {"build", "done"} /\ phase' \notin {"build", "done"}
        /\ mismatches' = mismatches
    BY <1>1
    DEF ReadOrder, EndOrders, ReadSettlement, EndSettlements, Explode, Group, At, Past, built
  <2>2. QED
    BY <2>1 DEF SumInv, UnjudgedInv, JudgingInv, JudgedInv
<1>2. CASE Place \/ UNCHANGED vars
  <2>1. UNCHANGED <<phase, cursor, parsed, groups, mismatches>>
    BY <1>2 DEF Place, vars, built
  <2>2. QED
    BY <2>1 DEF SumInv, UnjudgedInv, JudgingInv, JudgedInv
<1>3. QED
  BY <1>1, <1>2

LEMMA AlwaysSum == Spec => []SumInv
<1>1. Init => SumInv
  BY DEF Init, SumInv, UnjudgedInv, JudgingInv, JudgedInv
<1>2. BuilderInv /\ SumInv /\ [Next]_vars => SumInv'
  BY BuildOrderJudges, EndGroupsJudges, EndBuildJudges, OthersJudge DEF Next
<1>3. QED
  BY <1>1, <1>2, AlwaysBuilder, PTL DEF Spec

\* An order whose placed rows agree on its total has a sum exception if and
\* only if its payments miss the total by more than the tolerance: for files of
\* any length, however the rows of the orders are mixed.
THEOREM SumsAreAlwaysJudged == Spec => []SumsAreJudged
<1>1. ASSUME BuilderInv, SumInv PROVE SumsAreJudged
  <2>1. SUFFICES ASSUME phase = "done", NEW i \in PlacedRows,
                        \A k \in PlacedOf(parsed, parsed[i].order) :
                            parsed[k].amount = parsed[i].amount
                 PROVE  LET K == PlacedOf(parsed, parsed[i].order)
                            gap == SumOf(parsed, K) - parsed[i].amount IN
                        (gap > Tolerance \/ -gap > Tolerance)
                        <=> \E m \in mismatches : m.order = parsed[i].order
    <3>1. \A i \in PlacedRows :
              {k \in PlacedRows : parsed[k].order = parsed[i].order}
              = PlacedOf(parsed, parsed[i].order)
      BY DEF PlacedRows, PlacedOf
    <3>2. QED
      BY <3>1 DEF SumsAreJudged, SumOf
  <2> DEFINE K == PlacedOf(parsed, parsed[i].order)
             gap == SumOf(parsed, K) - parsed[i].amount
  <2>2. /\ parsed \in Seq(ParsedRows) /\ GroupsOf(parsed, groups, Len(parsed))
        /\ DOMAIN parsed = 1 .. Len(parsed) /\ Len(parsed) \in Nat
    BY <1>1, <2>1 DEF BuilderInv, ShapeInv, DoneInv
  <2>3. i \in DOMAIN parsed /\ i \in K
    BY DEF PlacedRows, PlacedOf
  <2>4. PICK g \in DOMAIN groups : groups[g].order = parsed[i].order
    BY <2>2, <2>3 DEF GroupsOf
  <2>5. Judged(parsed, mismatches, parsed[i].order)
    BY <1>1, <2>1, <2>4 DEF SumInv, JudgedInv
  <2>6. gap \notin -Tolerance .. Tolerance
        <=> \E m \in mismatches : m.order = parsed[i].order
    BY <2>1, <2>3, <2>5 DEF Judged
  <2>7. gap \in Int
    <3>1. \A r \in ParsedRows : r.pay \in Int /\ r.amount \in Int
      BY DEF ParsedRows, ParsedRow
    <3>2. parsed[i].amount \in Int /\ \A k \in DOMAIN parsed : parsed[k].pay \in Int
      BY <2>2, <2>3, <3>1
    <3>3. IsFiniteSet(K) /\ K \subseteq DOMAIN parsed
      <4>1. IsFiniteSet(1 .. Len(parsed))
        BY <2>2, FS_Interval
      <4>2. K \subseteq DOMAIN parsed
        BY DEF PlacedOf
      <4>3. QED
        BY <2>2, <4>1, <4>2, FS_Subset
    <3> DEFINE w == [k \in K |-> parsed[k].pay]
    <3>4. \A k \in K : w[k] \in Int
      BY <3>2, <3>3
    <3>5. DOMAIN w = K
      OBVIOUS
    <3> HIDE DEF w, K
    <3>6. SumFunctionOnSet(w, K) \in Int
      BY <3>3, <3>4, SumIsInteger
    <3>7. SumOf(parsed, K) = SumFunctionOnSet(w, K)
      BY <3>5 DEF SumOf, SumFunction, w
    <3>8. QED
      BY <3>2, <3>6, <3>7
  <2> HIDE DEF gap
  <2>8. (gap > Tolerance \/ -gap > Tolerance) <=> gap \notin -Tolerance .. Tolerance
    BY <2>7, MarksAssumption
  <2>9. QED
    BY <2>6, <2>8 DEF gap
<1>2. QED
  BY <1>1, AlwaysBuilder, AlwaysSum, PTL
=============================================================================
