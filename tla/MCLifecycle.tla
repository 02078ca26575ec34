---------------------------- MODULE MCLifecycle ----------------------------
(***************************************************************************)
(* Instances of Lifecycle for TLC: files without an exception, with one that  *)
(* may wait, with one that has two recipients, and with two exceptions that   *)
(* share their mismatch keys.                                               *)
(***************************************************************************)
EXTENDS Lifecycle, TLC

CONSTANTS o1, o2, s1

E(reason, order, sid, type, within) ==
    [reason |-> reason, order |-> order, sid |-> sid, type |-> type,
     party |-> Absent, within |-> within]

late == E("LATE_SETTLEMENT", o2, Absent, "UPI", TRUE)
short == E("AMOUNT_SHORT", o1, s1, "UPI", FALSE)

FewFiles == {<< >>, <<late>>, <<short>>}

SharedKeys == {<< >>, <<short, short>>}
=============================================================================
