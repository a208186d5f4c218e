------------------------------- MODULE MCApi -------------------------------
(***************************************************************************)
(* Small instances of the request handlers of the API for TLC.             *)
(*                                                                         *)
(* The eight components share no variable, so their product says nothing   *)
(* that they do not say one by one. The initial state chooses one of them, *)
(* its area, and the others stay where they start.                         *)
(***************************************************************************)
EXTENDS PeriodClose, FindingReview, ReportDelivery, LoginGate, StripeSync, TenantScope, GroupMembers,
        KeyRotation

CONSTANT Areas          \* the components to be explored

VARIABLE area

apiVars == <<area, periodVars, reviewVars, reportVars, loginVars, billingVars, tenantVars, groupVars, keyVars>>

(***************************************************************************)
(* Values of the constants.                                                *)
(***************************************************************************)
\* January, and January to February: they share a day at the end of the first.
MCSpan == [p \in Periods |-> IF p = "jan" THEN {1, 2} ELSE {2, 3}]

\* One wrong guess locks for one step of 30 s, three for two steps.
MCTiers == {[atLeast |-> 1, duration |-> 1], [atLeast |-> 3, duration |-> 2]}

\* Two events of the first subscription, and one of the second between them.
MCAbout == [e \in Events |-> IF e = "other" THEN "s2" ELSE "s1"]
MCCreated == [e \in Events |-> CASE e = "created" -> 1 [] e = "other" -> 2 [] OTHER -> 3]
MCPrice == [e \in Events |->
    CASE e = "created" -> {"starter"} [] e = "other" -> {"scale"} [] OTHER -> {}]

MCFirmOf == [x \in Books \cup Staff \cup Admins |->
    IF x \in {"b1", "ada", "sam"} THEN "acme" ELSE "bolt"]

\* A proper split, one that names a member twice, one that may leave one out, and
\* one of empty partitions.
MCPartitions == {<<{"e"}, {"f"}>>, <<{"e", "f"}, {"f"}>>, <<{"e"}, {"e"}>>, <<>>}

(***************************************************************************)
(* The specification.                                                      *)
(***************************************************************************)
Init ==
    /\ area \in Areas
    /\ PeriodInit /\ ReviewInit /\ ReportInit /\ LoginInit /\ BillingInit
    /\ TenantInit /\ GroupInit /\ KeyInit
    /\ area # "periods" => Present = {}
    /\ area # "tenants" => book = {}
    /\ area # "groups" => group[1].members = Entities

Periodic == area = "periods" /\ PeriodNext
    /\ UNCHANGED <<area, reviewVars, reportVars, loginVars, billingVars, tenantVars, groupVars, keyVars>>
Reviewing == area = "findings" /\ ReviewNext
    /\ UNCHANGED <<area, periodVars, reportVars, loginVars, billingVars, tenantVars, groupVars, keyVars>>
Reporting == area = "reports" /\ ReportNext
    /\ UNCHANGED <<area, periodVars, reviewVars, loginVars, billingVars, tenantVars, groupVars, keyVars>>
LoggingIn == area = "login" /\ LoginNext
    /\ UNCHANGED <<area, periodVars, reviewVars, reportVars, billingVars, tenantVars, groupVars, keyVars>>
Billing == area = "billing" /\ BillingNext
    /\ UNCHANGED <<area, periodVars, reviewVars, reportVars, loginVars, tenantVars, groupVars, keyVars>>
Scoping == area = "tenants" /\ TenantNext
    /\ UNCHANGED <<area, periodVars, reviewVars, reportVars, loginVars, billingVars, groupVars, keyVars>>
Grouping == area = "groups" /\ GroupNext
    /\ UNCHANGED <<area, periodVars, reviewVars, reportVars, loginVars, billingVars, tenantVars, keyVars>>
Rotating == area = "keys" /\ KeyNext
    /\ UNCHANGED <<area, periodVars, reviewVars, reportVars, loginVars, billingVars, tenantVars, groupVars>>

Next ==
    \/ Periodic \/ Reviewing \/ Reporting \/ LoggingIn \/ Billing \/ Scoping \/ Grouping \/ Rotating

Spec == Init /\ [][Next]_apiVars

\* Every variable of the API holds what its table column or handler may hold.
TypeOK ==
    /\ area \in Areas
    /\ PeriodTypeOK /\ ReviewTypeOK /\ ReportTypeOK /\ LoginTypeOK
    /\ BillingTypeOK /\ TenantTypeOK /\ GroupTypeOK /\ KeyTypeOK
=============================================================================
