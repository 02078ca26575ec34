------------------------------ MODULE Verdicts ------------------------------
(***************************************************************************)
(* What a run owes to those who look it up, without threads, registry or     *)
(* database sessions: its row gets one verdict and keeps it, its trail grows *)
(* only until then, the verdict is "failed" if and only if its incident is    *)
(* on file, and its page is told an end once, of a run that has come to it.  *)
(***************************************************************************)

CONSTANTS Runs, Events

VARIABLES
    row,     \* row[r]: "none", "running", or the verdict
    trail,   \* trail[r]: the events on record
    filed,   \* the runs whose incident is on file
    shown    \* shown[r]: "none", "polling", or what the page was told

Verdicts == {"completed", "failed"}

Init ==
    /\ row = [r \in Runs |-> "none"]
    /\ trail = [r \in Runs |-> {}]
    /\ filed = {}
    /\ shown = [r \in Runs |-> "none"]

\* A page that finds no record of its run says nothing about it.
Open(r) == row[r] \notin Verdicts /\ shown[r] \in {"polling", "not found"}

Show(r) ==
    /\ row[r] = "none" /\ shown[r] = "none"
    /\ shown' = [shown EXCEPT ![r] = "polling"]
    /\ UNCHANGED <<row, trail, filed>>

Start(r) ==
    /\ Open(r) /\ row[r] = "none"
    /\ row' = [row EXCEPT ![r] = "running"]
    /\ UNCHANGED <<trail, filed, shown>>

Log(r) ==
    /\ Open(r) /\ row[r] = "running"
    /\ \E more \in SUBSET Events : trail' = [trail EXCEPT ![r] = @ \union more]
    /\ UNCHANGED <<row, filed, shown>>

\* A rejected upload has an incident and no page.
File(r) ==
    /\ Open(r) \/ shown[r] = "none"
    /\ filed' = filed \union {r}
    /\ UNCHANGED <<row, trail, shown>>

Close(r) ==
    /\ Open(r) /\ row[r] = "running"
    /\ row' = [row EXCEPT ![r] = IF r \in filed THEN "failed" ELSE "completed"]
    /\ UNCHANGED <<trail, filed, shown>>

Tell(r) ==
    /\ shown[r] = "polling"
    /\ \/ shown' = [shown EXCEPT ![r] = "not found"]
       \/ row[r] \in Verdicts /\ shown' = [shown EXCEPT ![r] = "completed"]
       \/ row[r] \notin Verdicts /\ shown' = [shown EXCEPT ![r] = "failed"]
    /\ UNCHANGED <<row, trail, filed>>

Next == \E r \in Runs :
            Show(r) \/ Start(r) \/ Log(r) \/ File(r) \/ Close(r) \/ Tell(r)

Spec == Init /\ [][Next]_<<row, trail, filed, shown>>
=============================================================================
