------------------------------- MODULE Outbox -------------------------------
(***************************************************************************)
(* What the notification service promises to a caller that nobody else       *)
(* competes with, without threads, retries, breaker or database: a key that  *)
(* is recorded is never mailed again and stays recorded, it is recorded only *)
(* after a mail went out, and every mail beyond the first has cost a fault.  *)
(***************************************************************************)
EXTENDS Naturals

CONSTANT Keys

VARIABLES
    mails,      \* mails[k]: how many mails for k went out
    recorded,   \* the keys whose mail is known to have gone out
    faults      \* faults[k]: what went wrong that may cost k another mail

Init == mails = [k \in Keys |-> 0] /\ recorded = {} /\ faults = [k \in Keys |-> 0]

\* A mail for k goes out; that the answer is lost is a fault at once.
Mail(k) ==
    /\ k \notin recorded
    /\ mails[k] <= faults[k]
    /\ mails' = [mails EXCEPT ![k] = @ + 1]
    /\ faults' \in {faults, [faults EXCEPT ![k] = @ + 1]}
    /\ UNCHANGED recorded

\* The mail for k is recorded, which forbids any later one.
Record(k) ==
    /\ mails[k] > 0
    /\ k \notin recorded
    /\ recorded' = recorded \union {k}
    /\ UNCHANGED <<mails, faults>>

\* A fault may cost any number of keys another mail.
Fault(ks) ==
    /\ faults' = [k \in Keys |-> IF k \in ks THEN faults[k] + 1 ELSE faults[k]]
    /\ UNCHANGED <<mails, recorded>>

Next == (\E k \in Keys : Mail(k) \/ Record(k)) \/ \E ks \in SUBSET Keys : Fault(ks)

Spec == Init /\ [][Next]_<<mails, recorded, faults>>
=============================================================================
