--------------------------- MODULE WindowedDelta ---------------------------
(***************************************************************************)
(* WindowedDelta of address_service.js (lines 60-83): a ring of Window   *)
(* per-update deltas of a cumulative counter, a write cursor and the     *)
(* last value seen.  AddressDefinition owns two (messages_in and         *)
(* messages_out) and feeds them every 5 s; their total() is the rate     *)
(* shown in the console.                                                  *)
(*                                                                         *)
(* The operators take the tracker record as a parameter so that         *)
(* AddressService can apply them to the trackers it keeps per address;   *)
(* the variable wd and Spec describe one tracker fed by its owner.       *)
(***************************************************************************)
EXTENDS Naturals, Sequences, Functions

CONSTANTS
    Window,      \* the window passed to the constructor (60 in the code)
    Values,      \* counter values the owner may pass (messages_in/out)
    Undefined,   \* JavaScript undefined: a field the address does not have
    MaxUpdates   \* bound: updates in one behaviour (for the history only)

ASSUME Window \in Nat \ {0} /\ Undefined \notin Values

VARIABLES
    wd,             \* the tracker: [last, deltas, current]
    contributions   \* history: what each update added (0 when skipped)

vars == <<wd, contributions>>

Slots == 0..(Window - 1)

TypeOK ==
    /\ wd \in [last : Values \cup {Undefined}, deltas : [Slots -> Int], current : Slots]
    /\ contributions \in Seq(Int)

\* new WindowedDelta(name, window): last undefined, Window zero slots,
\* cursor 0.
New == [last |-> Undefined, deltas |-> [i \in Slots |-> 0], current |-> 0]

(***************************************************************************)
(* Mutations used to test the properties.                                 *)
(***************************************************************************)
\* push() wraps the cursor one slot late (> instead of >=).
PushWrapLate(w, value) ==
    [w EXCEPT !.deltas[w.current] = value,
              !.current = IF w.current + 1 > Window
                            THEN (w.current + 1) % Window
                            ELSE w.current + 1]

\* update() drops the last <= value guard.
UpdateNoResetGuard(w, value) ==
    LET d == IF w.last # Undefined /\ value # Undefined
               THEN [w EXCEPT !.deltas[w.current] = value - w.last,
                              !.current = (w.current + 1) % Window]
               ELSE w
    IN  [d EXCEPT !.last = value]

(***************************************************************************)
(* The code.                                                               *)
(***************************************************************************)
\* push(value): write the slot under the cursor, advance it and wrap it
\* when it reaches the end of the array.
Push(w, value) ==
    [w EXCEPT !.deltas[w.current] = value,
              !.current = IF w.current + 1 >= Window
                            THEN (w.current + 1) % Window
                            ELSE w.current + 1]

\* The test of update(): last !== undefined && last <= value.  Comparing
\* a number with undefined is false in JavaScript.
HasDelta(w, value) ==
    w.last # Undefined /\ value # Undefined /\ w.last <= value

\* update(value): push the delta when there is one; the baseline always
\* becomes value.
Update(w, value) ==
    LET d == IF HasDelta(w, value) THEN Push(w, value - w.last) ELSE w
    IN  [d EXCEPT !.last = value]

\* total(): the sum of every slot.
Total(w) == SumFunction(w.deltas)

(***************************************************************************)
(* One tracker fed by its owner with any value, as update_periodic_deltas *)
(* does with the address's current counter.                               *)
(***************************************************************************)
Init ==
    /\ wd = New
    /\ contributions = <<>>

UpdateStep(v) ==
    /\ wd' = Update(wd, v)
    /\ contributions' = Append(contributions,
                               IF HasDelta(wd, v) THEN v - wd.last ELSE 0)

Next == \E v \in Values \cup {Undefined} : UpdateStep(v)

Spec == Init /\ [][Next]_vars

\* State constraint: the history is only followed for MaxUpdates updates.
HistoryBound == Len(contributions) <= MaxUpdates

(***************************************************************************)
(* Properties.                                                             *)
(***************************************************************************)

\* The ring with its wrapping cursor holds exactly the last Window deltas
\* in order (read from the cursor round to the slot before it), with the
\* reset rule of section 4.3: a value below the baseline or undefined adds
\* nothing and becomes the new baseline.
Abstract == INSTANCE SlidingWindow WITH
    last <- wd.last,
    window <- [i \in 1..Window |-> wd.deltas[(wd.current + i - 1) % Window]]

RefinesSlidingWindow == Abstract!Spec

=============================================================================
