------------------------------ MODULE Routing ------------------------------
(***************************************************************************)
(* What is decided about one exception and whom it concerns: the planner    *)
(* (agent/planner.py), the rules the language model falls back to           *)
(* (agent/llm.py), the routing table (reconciliation/rules.py) and the       *)
(* mismatch key (models/domain.py).  Operators only.                        *)
(***************************************************************************)
EXTENDS Integers, Sequences, FiniteSets

CONSTANTS
    AllowedActions,   \* planner.allowed_actions
    Fallback,         \* planner.off_list_fallback
    Absent            \* Python's None

PlannerActions == {"WAIT", "EMAIL_STORE_MANAGER", "EMAIL_PG", "EMAIL_BANK",
                   "ESCALATE", "REQUEST_RECHECK"}

Roles == {"STORE_MANAGER", "PAYMENT_GATEWAY", "BANK", "ADMIN"}

ASSUME PlannerAssumption ==
    AllowedActions \subseteq PlannerActions /\ Fallback \in PlannerActions

----------------------------------------------------------------------------
\* An exception is a record with the fields of its mismatch key (reason,
\* order, sid, type), the party of its row and whether it is WITHIN_SLA.

DefaultRouting ==
    [CASH_MISSING         |-> <<"STORE_MANAGER">>,
     ONLINE_MISSING       |-> <<"PAYMENT_GATEWAY">>,
     LATE_SETTLEMENT      |-> <<"PAYMENT_GATEWAY">>,
     AMOUNT_SHORT         |-> <<"PAYMENT_GATEWAY", "STORE_MANAGER">>,
     AMOUNT_EXCESS        |-> <<"PAYMENT_GATEWAY", "STORE_MANAGER">>,
     DUPLICATE_SETTLEMENT |-> <<"PAYMENT_GATEWAY", "BANK">>,
     UNMATCHED_SETTLEMENT |-> <<"BANK", "PAYMENT_GATEWAY">>,
     ORDER_SUM_MISMATCH   |-> <<"STORE_MANAGER">>,
     FUZZY_MATCH_REVIEW   |-> <<"ADMIN">>]

ResolveRoles(e) ==
    IF e.party # Absent THEN <<e.party>> ELSE DefaultRouting[e.reason]

\* make_mismatch_key: the digest is as good as the fields it is made from.
MismatchKey(e, role) == <<e.reason, e.order, e.sid, e.type, role>>

----------------------------------------------------------------------------
\* The action.

\* _mock_action, the decision without a language model.
RuleAction(e) ==
    CASE e.reason = "LATE_SETTLEMENT" -> IF e.within THEN "WAIT" ELSE "EMAIL_PG"
      [] e.reason \in {"CASH_MISSING", "ORDER_SUM_MISMATCH"} ->
             "EMAIL_STORE_MANAGER"
      [] e.reason = "UNMATCHED_SETTLEMENT" -> "EMAIL_BANK"
      [] e.reason = "FUZZY_MATCH_REVIEW" -> "ESCALATE"
      [] OTHER -> "EMAIL_PG"

\* plan_action; the fallback itself is not checked.
PlanAction(action, e) ==
    IF action \in AllowedActions /\ (action = "WAIT" => e.within)
    THEN action ELSE Fallback

\* The roles dispatch_node turns to.  An EMAIL action does not choose among
\* the roles of the exception.
TargetRoles(e, action) ==
    IF action = "ESCALATE" THEN <<"ADMIN">> ELSE ResolveRoles(e)

FaultyOneTarget(e, action) == {MismatchKey(e, TargetRoles(e, action)[1])}

TargetKeys(e, action) ==
    {MismatchKey(e, TargetRoles(e, action)[n]) :
        n \in DOMAIN TargetRoles(e, action)}

FirstKey(e, action) == MismatchKey(e, TargetRoles(e, action)[1])

\* The status the exception log gets.
FaultyLifeStatus(action) ==
    IF action \in {"WAIT", "REQUEST_RECHECK"} THEN "WAITING" ELSE "OPEN"

LifeStatus(action) ==
    CASE action = "ESCALATE" -> "ESCALATED"
      [] action = "REQUEST_RECHECK" -> "AWAITING_RECHECK"
      [] OTHER -> "OPEN"
=============================================================================
