------------------------------ MODULE MCIntake ------------------------------
(***************************************************************************)
(* An instance of Intake for TLC: two orders whose payments meet, just meet  *)
(* or miss their totals, rows that lack something and cells that hold        *)
(* something else.                                                          *)
(***************************************************************************)
EXTENDS Intake, TLC

CONSTANTS o1, o2, t1, s1, day, store, gateway, manager

Row(order, amount, pay, type, status) ==
    [order |-> order, date |-> day, store |-> store,
     amount |-> amount, pay |-> pay, type |-> type,
     gateway |-> IF type = Cash THEN Blank ELSE gateway,
     txn |-> IF type = Cash THEN Blank ELSE t1,
     party |-> Blank, status |-> status]

SoundOrders ==
    {Row(o1, 10, 7, "UPI", "PLACED"), Row(o1, 10, 4, Cash, Blank),
     [Row(o2, 5, 2, Cash, "PLACED") EXCEPT !.party = manager],
     Row(o2, 5, 1, Cash, "CANCELLED")}

FaultyOrders ==
    {[Row(o1, 10, 3, "CARD", "PLACED") EXCEPT !.txn = Blank],
     [Row(o2, -1, Blank, Invalid, "PLACED") EXCEPT !.date = Invalid, !.store = Blank],
     Row(o2, 5, NotANumber, Cash, Invalid)}

Orders == SoundOrders \union FaultyOrders

Sett(sid, amount, fee, net, type) ==
    [sid |-> sid, date |-> day, amount |-> amount, fee |-> fee, net |-> net,
     type |-> type, source |-> "BANK"]

Settlements ==
    {Sett(s1, 9, 2, Blank, "UPI"), Sett(s1, 1, 2, Blank, "UPI"),
     [Sett(Blank, Blank, Blank, Blank, Cash) EXCEPT !.date = Blank, !.source = Invalid],
     Sett(s1, 3, NotANumber, 3, Invalid)}
=============================================================================
