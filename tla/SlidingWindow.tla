--------------------------- MODULE SlidingWindow ---------------------------
(***************************************************************************)
(* What a WindowedDelta promises (spec sections 4.3 and 8): it keeps the *)
(* last Window non-negative deltas of a counter, oldest first, and a      *)
(* value below the previous one (a counter reset) or a missing value     *)
(* contributes no delta but becomes the new baseline.  Slots never       *)
(* written count as zero.                                                 *)
(***************************************************************************)
EXTENDS Naturals, Sequences

CONSTANTS Window, Values, Undefined

VARIABLES last, window

vars == <<last, window>>

Init ==
    /\ last = Undefined
    /\ window = [i \in 1..Window |-> 0]

\* A value is fed in: the delta from the baseline enters the window and
\* the oldest delta leaves it, unless there is no usable baseline.
Observe(v) ==
    /\ IF last # Undefined /\ v # Undefined /\ last <= v
         THEN window' = Append(Tail(window), v - last)
         ELSE UNCHANGED window
    /\ last' = v

Next == \E v \in Values \cup {Undefined} : Observe(v)

Spec == Init /\ [][Next]_vars

=============================================================================
