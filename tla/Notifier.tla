------------------------------ MODULE Notifier ------------------------------
(***************************************************************************)
(* What the notification path of AddressService promises its observer,   *)
(* independent of how the flush is scheduled: every reason passed to     *)
(* callback(reason) is held in a pending set, and a flush eventually      *)
(* hands the observer every pending reason once and empties the set.     *)
(* Coalesce.tla implements this with the timer of coalesce().             *)
(***************************************************************************)
CONSTANT Reasons

VARIABLES
    pending,    \* reasons recorded and not yet handed to the observer
    delivered   \* the reasons handed over by the most recent flush

vars == <<pending, delivered>>

Init ==
    /\ pending = {}
    /\ delivered = {}

\* callback(reason): the reason joins the pending set.
Record(r) ==
    /\ pending' = pending \cup {r}
    /\ UNCHANGED delivered

\* A flush hands every pending reason to the observer and clears the set.
Flush ==
    /\ pending # {}
    /\ delivered' = pending
    /\ pending' = {}

Next ==
    \/ \E r \in Reasons : Record(r)
    \/ Flush

Spec == Init /\ [][Next]_vars /\ WF_vars(Flush)

=============================================================================
