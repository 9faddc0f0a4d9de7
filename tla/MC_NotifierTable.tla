--------------------------- MODULE MC_NotifierTable ---------------------------
(***************************************************************************)
(* One state space for two small components that share no state: the    *)
(* coalesced notifier of address_service.js (Coalesce) and the metadata *)
(* table of the console (TableRow).  Every step is a step of one of them *)
(* with the other unchanged, so each property of either is checked over *)
(* all interleavings with the other, whose states it never reads.        *)
(*                                                                         *)
(* Coalesce: on_update uses delay 10 ms and max_delay 500 ms; the logic  *)
(* only depends on how many re-arms fit before start + max_delay, so one *)
(* time unit stands for several ms and MaxDelay is a few multiples of    *)
(* Delay: enough for a burst to re-arm several times and then hit the   *)
(* ceiling.  Two reasons, two callbacks per time unit.                   *)
(*                                                                         *)
(* TableRow: a metadata tree of depth three, as the address-space detail *)
(* page shows it: "metadata" (an object rendered as an array of entries) *)
(* holds "labels", an array with one array element, "annotations", an    *)
(* object without nested rows, and "ownerReferences", an array holding  *)
(* one object; the innermost array of "labels" holds a scalar.  Toggles  *)
(* at three depths let the icon click land on a root-level and on a      *)
(* nested toggle, each collapsed and expanded.                            *)
(***************************************************************************)
EXTENDS Naturals, TLC

CONSTANTS r0, r1, r2, r3, r4, r5, r6, address_added, address_deleted

VARIABLES timeout, timerLive, started, elapsed, scheduled, reasons, delivered, calls,
          expandedList, lastEvent

notifier == <<timeout, timerLive, started, elapsed, scheduled, reasons, delivered, calls>>
table == <<expandedList, lastEvent>>
vars == <<notifier, table>>

CO == INSTANCE Coalesce WITH Reasons <- {address_added, address_deleted},
                             Delay <- 2, MaxDelay <- 5, MaxCallsPerTick <- 2

MCChildren == (r0 :> <<r1, r2, r5>>) @@ (r1 :> <<r3>>) @@ (r3 :> <<r4>>)
              @@ (r5 :> <<r6>>) @@ [r \in {r2, r4, r6} |-> <<>>]
MCType == (r0 :> "array") @@ (r1 :> "array") @@ (r2 :> "object")
          @@ (r3 :> "array") @@ (r4 :> "string") @@ (r5 :> "array")
          @@ (r6 :> "object")
MCKey == (r0 :> "metadata") @@ (r1 :> "labels") @@ (r2 :> "annotations")
         @@ (r3 :> "0") @@ (r4 :> "app") @@ (r5 :> "ownerReferences")
         @@ (r6 :> "1")

TR == INSTANCE TableRow WITH Rows <- {r0, r1, r2, r3, r4, r5, r6}, Root <- r0,
                             Children <- MCChildren, Type <- MCType, Key <- MCKey

CoalesceStep == CO!Next /\ UNCHANGED table
TableStep == TR!Next /\ UNCHANGED notifier

\* Coalesce's fairness: due timers fire and time passes.  Clicks get none.
Spec == /\ CO!Init /\ TR!Init
        /\ [][CoalesceStep \/ TableStep]_vars
        /\ WF_vars(CO!Fire /\ UNCHANGED table)
        /\ WF_vars(CO!Tick /\ UNCHANGED table)

\* The notifier's state has the type Coalesce gives it.
NotifierTypeOK == CO!TypeOK

\* Every reason reaches the observer within max_delay + delay of the first
\* callback of its burst, the bound the re-arm test in can_delay() gives.
MaxLatency == CO!MaxLatency

\* Section 4.1 of the spec: a flush fires no later than max_delay after
\* the first pending call, even if calls keep arriving.
SpecLatency == CO!SpecLatency

\* coalesce + _reasons implement the abstract notifier: no reason is lost,
\* invented or delivered twice, and every pending reason is eventually
\* delivered however callbacks keep arriving.
RefinesNotifier == CO!RefinesNotifier

\* Each row's expandedList holds at most the row's own key, once.
TableTypeOK == TR!TypeOK

\* A click on a row's toggle flips whether the row is expanded, whichever
\* element of the toggle button receives it.
ToggleFlips == TR!ToggleFlips
=============================================================================
