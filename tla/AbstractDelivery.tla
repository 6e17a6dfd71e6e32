-------------------------- MODULE AbstractDelivery --------------------------
(***************************************************************************)
(* What the dispatcher promises about each delivery while its calls end    *)
(* within their lease.  One call at a time works on a delivery that is not *)
(* settled, and it sends at most one request.  A delivery succeeds only by *)
(* a request that was sent, is put back only if another request is allowed *)
(* and is settled for good.  A call may be lost at any time, the delivery  *)
(* may be cancelled under it, and the call may bring it back.              *)
(***************************************************************************)
EXTENDS Integers

CONSTANTS
    Deliveries,
    Calls,
    MAX_ATTEMPTS

VARIABLES
    status,     \* WebhookDelivery.status, none before there is a row
    open,       \* per delivery, the calls that may still send a request
    sent,       \* per delivery, the calls that have sent theirs
    sends       \* per delivery, the requests

vars == <<status, open, sent, sends>>

Statuses == {"none", "pending", "success", "failed", "cancelled"}

Settled == {"success", "failed"}

Init ==
    /\ status = [d \in Deliveries |-> "none"]
    /\ open = [d \in Deliveries |-> {}]
    /\ sent = [d \in Deliveries |-> {}]
    /\ sends = [d \in Deliveries |-> 0]

Busy(d) == open[d] # {} \/ sent[d] # {}

NoCall(d) == open'[d] = {} /\ sent'[d] = {}

SameCalls(d) == open'[d] = open[d] /\ sent'[d] = sent[d]

Same(d) == status'[d] = status[d] /\ SameCalls(d) /\ sends'[d] = sends[d]

Begin(d) ==
    /\ ~Busy(d) /\ status[d] \in {"none", "pending"}
    /\ \E c \in Calls : open'[d] = {c}
    /\ sent'[d] = {}
    /\ status'[d] = status[d] /\ sends'[d] = sends[d]

Mark(d) ==
    /\ open[d] # {} /\ status[d] \notin Settled
    /\ status'[d] = "pending"
    /\ SameCalls(d) /\ sends'[d] = sends[d]

Send(d) ==
    /\ sends[d] < MAX_ATTEMPTS /\ status[d] \notin Settled
    /\ \E c \in open[d] : open'[d] = open[d] \ {c} /\ sent'[d] = sent[d] \cup {c}
    /\ sends'[d] = sends[d] + 1
    /\ status'[d] = status[d]

Finish(d) ==
    /\ Busy(d) /\ status[d] \notin Settled
    /\ status'[d] \in {"pending", "success", "failed", "cancelled"}
    /\ status'[d] = "success" => sent[d] # {}
    /\ status'[d] = "pending" => sends[d] < MAX_ATTEMPTS
    /\ NoCall(d) /\ sends'[d] = sends[d]

Abandon(d) ==
    /\ Busy(d) /\ NoCall(d)
    /\ status'[d] = status[d] /\ sends'[d] = sends[d]

Cancel(d) ==
    /\ status[d] = "pending" /\ status'[d] = "cancelled"
    /\ SameCalls(d) /\ sends'[d] = sends[d]

Step(d) == Same(d) \/ Begin(d) \/ Mark(d) \/ Send(d) \/ Finish(d) \/ Abandon(d) \/ Cancel(d)

\* A claim begins and a crash abandons several deliveries at once.
Next ==
    /\ status' \in [Deliveries -> Statuses]
    /\ open' \in [Deliveries -> SUBSET Calls]
    /\ sent' \in [Deliveries -> SUBSET Calls]
    /\ sends' \in [Deliveries -> Nat]
    /\ \A d \in Deliveries : Step(d)

Spec == Init /\ [][Next]_vars
=============================================================================
