---------------------------- MODULE AbstractLease ----------------------------
(***************************************************************************)
(* What the leader election promises to the program that runs only while   *)
(* it leads: a lease is granted to one instance at a time, only its holder *)
(* leads, and a lease ends only when nobody leads by it.  The promise is   *)
(* void as soon as something was late.                                     *)
(***************************************************************************)
CONSTANTS
    Instances,
    None        \* nobody holds the lease

VARIABLES
    holder,     \* the instance that has the lease, or None
    leaders,    \* the instances that act as the leader
    late        \* a call or a timer was late

Init == holder = None /\ leaders = {} /\ late = FALSE

Grant(i) ==
    /\ holder = None
    /\ holder' = i
    /\ leaders' = leaders

Lead ==
    /\ holder # None
    /\ leaders' = {holder}
    /\ holder' = holder

StepDown ==
    /\ leaders' = {}
    /\ holder' = holder

Free ==
    /\ leaders = {}
    /\ holder' = None
    /\ leaders' = leaders

Next ==
    \/ late' = TRUE
    \/ late' = FALSE /\ (Lead \/ StepDown \/ Free \/ \E i \in Instances : Grant(i))

Spec == Init /\ [][Next]_<<holder, leaders, late>>
=============================================================================
