------------------------------ MODULE MCAgent ------------------------------
(***************************************************************************)
(* Instance of Agent for TLC: files without an exception, with an order that *)
(* may wait and whose two exceptions share a key but not their gateway, and  *)
(* with an exception that has two recipients.                               *)
(***************************************************************************)
EXTENDS Agent, TLC

CONSTANTS o1, s1, razorpay, payu

E(reason, sid, gateway, within) ==
    [reason |-> reason, order |-> o1, sid |-> sid, type |-> "UPI",
     party |-> Absent, gateway |-> gateway, within |-> within]

late(gateway) == E("LATE_SETTLEMENT", Absent, gateway, TRUE)
short == E("AMOUNT_SHORT", s1, payu, FALSE)

Files == {<< >>, <<late(razorpay), late(payu)>>, <<short>>}

\* payu has no address of its own.
Addresses == razorpay :> "RAZORPAY"
=============================================================================
