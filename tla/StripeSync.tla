------------------------------- MODULE StripeSync -------------------------------
(***************************************************************************)
(* A firm's subscription and the Stripe events that describe it            *)
(* (services/api/internal/billing).                                        *)
(*                                                                         *)
(* Stripe delivers an event again until it is answered 2xx, may deliver it *)
(* after that too, in any order, and two deliveries may be handled at the  *)
(* same time. A handler reads the firm's watermark in one statement and    *)
(* writes the state in another. What the columns hold is named by the      *)
(* event they come from.                                                   *)
(***************************************************************************)
EXTENDS Naturals, FiniteSets

CONSTANTS
    Sessions,           \* checkout sessions the firm may start
    Events,             \* subscription events
    About,              \* About[e]: the session whose subscription e describes
    Created,            \* Created[e]: when e happened
    Price,              \* Price[e]: the known tier of its first item, or none
    Copies,             \* deliveries of one event handled at the same time
    MaxBillingFaults    \* bound on the statements that fail

ASSUME BillingBounds ==
    /\ About \in [Events -> Sessions] /\ Created \in [Events -> Nat]
    /\ MaxBillingFaults \in Nat

VARIABLES
    firm,           \* the billing columns of the row of firms
    checkout,       \* checkout[s]: the session, and the customer it is for
    acked,          \* subscription events answered 2xx
    delivery,       \* delivery[<<e, h>>]: whether copy h of e has its write still to come
    overlapped,     \* a delivery wrote after another wrote since its read
    billingFaults

billingVars == <<firm, checkout, acked, delivery, overlapped, billingFaults>>

BillingTypeOK ==
    /\ firm \in [customer: SUBSET Sessions, last: SUBSET Events, tier: SUBSET UNION {Price[e] : e \in Events}]
    /\ checkout \in [Sessions -> [status: {"none", "open", "completed", "synced"},
                                  customer: SUBSET Sessions]]
    /\ acked \subseteq Events
    /\ delivery \in [Events \X Copies -> {"idle", "read", "stale"}]
    /\ overlapped \in BOOLEAN
    /\ billingFaults \in 0..MaxBillingFaults

BillingInit ==
    /\ firm = [customer |-> {}, last |-> {}, tier |-> {}]
    /\ checkout = [s \in Sessions |-> [status |-> "none", customer |-> {}]]
    /\ acked = {}
    /\ delivery = [d \in Events \X Copies |-> "idle"]
    /\ overlapped = FALSE
    /\ billingFaults = 0

(***************************************************************************)
(* Checkout. Stripe makes a customer of its own, here named like the       *)
(* session, when the firm has none yet.                                    *)
(***************************************************************************)
HandleCheckout(s) ==
    /\ checkout[s].status = "none"
    /\ checkout' = [checkout EXCEPT ![s] = [status |-> "open",
           customer |-> IF firm.customer = {} THEN {s} ELSE firm.customer]]
    /\ UNCHANGED <<firm, acked, delivery, overlapped, billingFaults>>

Pay(s) ==
    /\ checkout[s].status = "open"
    /\ checkout' = [checkout EXCEPT ![s].status = "completed"]
    /\ UNCHANGED <<firm, acked, delivery, overlapped, billingFaults>>

\* checkout.session.completed, delivered for the first time or again.
ApplyCheckout(s) ==
    /\ checkout[s].status \in {"completed", "synced"}
    /\ firm' = [firm EXCEPT !.customer = checkout[s].customer]
    /\ checkout' = [checkout EXCEPT ![s].status = "synced"]
    /\ UNCHANGED <<acked, delivery, overlapped, billingFaults>>

(***************************************************************************)
(* customer.subscription.*                                                 *)
(***************************************************************************)
Happened(e) == checkout[About[e]].status \in {"completed", "synced"}
Linked(e) == firm.customer # {} /\ firm.customer = checkout[About[e]].customer
\* Mutant: the watermark is not compared.
NeverOutOfOrder(e) == FALSE
OutOfOrder(e) == \E last \in firm.last : Created[last] > Created[e]

\* An event whose customer no firm carries is answered 500 and comes again.
ReadWatermark(e, h) ==
    /\ delivery[<<e, h>>] = "idle"
    /\ Happened(e) /\ Linked(e) /\ ~OutOfOrder(e)
    /\ delivery' = [delivery EXCEPT ![<<e, h>>] = "read"]
    /\ UNCHANGED <<firm, checkout, acked, overlapped, billingFaults>>

IgnoreOutOfOrder(e) ==
    /\ Happened(e) /\ Linked(e) /\ OutOfOrder(e)
    /\ acked' = acked \cup {e}
    /\ UNCHANGED <<firm, checkout, delivery, overlapped, billingFaults>>

\* COALESCE: an event without a known price leaves the tier alone.
Written(e) == [firm EXCEPT !.last = {e}, !.tier = IF Price[e] = {} THEN @ ELSE Price[e]]

\* The firm is found by the id read before, whatever customer it has by now.
WriteState(e, h) ==
    /\ delivery[<<e, h>>] # "idle"
    /\ firm' = Written(e)
    /\ acked' = acked \cup {e}
    /\ overlapped' = (overlapped \/ delivery[<<e, h>>] = "stale")
    /\ delivery' = [d \in Events \X Copies |->
           IF d = <<e, h>> \/ delivery[d] = "idle" THEN "idle" ELSE "stale"]
    /\ UNCHANGED <<checkout, billingFaults>>

\* The UPDATE fails: 500, and Stripe delivers the event again.
WriteStateFails(e, h) ==
    /\ delivery[<<e, h>>] # "idle"
    /\ billingFaults < MaxBillingFaults
    /\ billingFaults' = billingFaults + 1
    /\ delivery' = [delivery EXCEPT ![<<e, h>>] = "idle"]
    /\ UNCHANGED <<firm, checkout, acked, overlapped>>

DeliverBilling(e) ==
    \/ IgnoreOutOfOrder(e)
    \/ \E h \in Copies : ReadWatermark(e, h) \/ WriteState(e, h)

BillingNext ==
    \/ \E s \in Sessions : HandleCheckout(s) \/ Pay(s) \/ ApplyCheckout(s)
    \/ \E e \in Events : DeliverBilling(e) \/ \E h \in Copies : WriteStateFails(e, h)

BillingSpec == BillingInit /\ [][BillingNext]_billingVars

------------------------------------------------------------------------------
(***************************************************************************)
(* The last event to have happened wins, not the last to be delivered:     *)
(* unless two deliveries overlapped, nothing answered 2xx is newer than    *)
(* what the firm's row shows (billing.go:371-379).                         *)
(***************************************************************************)
NewestEventShown ==
    ~overlapped =>
        \A e \in acked : \E last \in firm.last : Created[e] <= Created[last]
==============================================================================
