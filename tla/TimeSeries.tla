----------------------------- MODULE TimeSeries -----------------------------
(***************************************************************************)
(* TimeSeries of address_service.js (lines 35-58): the depth history of  *)
(* an address.  yData and xData are parallel arrays that start with a    *)
(* header ('messages-stored' / 'time'); push evicts the oldest sample    *)
(* (index 1, after the header) when xData is longer than max_size, then  *)
(* appends.  max_size is "max_size | 10": AddressDefinition passes no    *)
(* size, and undefined | 10 is 10.                                        *)
(*                                                                         *)
(* A series is the record [samples, last]: samples are the (time, value) *)
(* pairs after the header, oldest first.  The operators take the record  *)
(* so that AddressService can apply them per address; ts and Spec        *)
(* describe one series pushed by its owner.                              *)
(***************************************************************************)
EXTENDS Integers, Sequences

CONSTANTS
    MaxSize,     \* the effective max_size (10 in the code)
    Values,      \* values pushed
    Times,       \* readings of new Date().getTime()
    Undefined,   \* JavaScript undefined
    MaxPushes    \* bound: pushes in one behaviour (for the history only)

ASSUME MaxSize \in Nat \ {0}

VARIABLES
    ts,       \* the series
    now,      \* the clock read by push
    history   \* every (time, value) pair pushed so far

vars == <<ts, now, history>>

Sample == [time : Times, value : Int]

TypeOK ==
    /\ ts \in [samples : Seq(Sample), last : Int \cup {Undefined}]
    /\ Len(ts.samples) <= MaxSize
    /\ now \in Times
    /\ history \in Seq(Sample)

\* new TimeSeries(label): only the headers, last undefined.
NewSeries == [samples |-> <<>>, last |-> Undefined]

(***************************************************************************)
(* Mutations used to test the properties.                                 *)
(***************************************************************************)
\* push() never evicts.
PushNoEvict(s, value, t) ==
    [s EXCEPT !.samples = Append(s.samples, [time |-> t, value |-> value])]

\* push() evicts when xData.length >= max_size (one sample too early).
PushEvictEarly(s, value, t) ==
    LET kept == IF Len(s.samples) + 1 >= MaxSize THEN Tail(s.samples) ELSE s.samples
    IN  [s EXCEPT !.samples = Append(kept, [time |-> t, value |-> value])]

(***************************************************************************)
(* The code.                                                               *)
(***************************************************************************)
\* push(value) at time t: xData.length is Len(samples) + 1 (the header);
\* when it exceeds max_size the first sample goes, then (t, value) is
\* appended to both arrays.
Push(s, value, t) ==
    LET kept == IF Len(s.samples) + 1 > MaxSize THEN Tail(s.samples) ELSE s.samples
    IN  [s EXCEPT !.samples = Append(kept, [time |-> t, value |-> value])]

\* push_delta(value): the first value is pushed as is, later ones as the
\* difference from the previous value; last becomes value.
PushDelta(s, value, t) ==
    LET pushed == IF s.last = Undefined THEN Push(s, value, t)
                                        ELSE Push(s, value - s.last, t)
    IN  [pushed EXCEPT !.last = value]

(***************************************************************************)
(* One series pushed by its owner, with a clock that never goes back.     *)
(***************************************************************************)
Init ==
    /\ ts = NewSeries
    /\ now \in Times
    /\ history = <<>>

PushStep(v) ==
    /\ ts' = Push(ts, v, now)
    /\ history' = Append(history, [time |-> now, value |-> v])
    /\ UNCHANGED now

PushDeltaStep(v) ==
    /\ ts' = PushDelta(ts, v, now)
    /\ history' = Append(history, [time |-> now,
                                   value |-> IF ts.last = Undefined THEN v ELSE v - ts.last])
    /\ UNCHANGED now

ClockStep ==
    /\ \E t \in Times : t > now /\ now' = t
    /\ UNCHANGED <<ts, history>>

Next ==
    \/ \E v \in Values : PushStep(v) \/ PushDeltaStep(v)
    \/ ClockStep

Spec == Init /\ [][Next]_vars

\* State constraint: the history is only followed for MaxPushes pushes.
HistoryBound == Len(history) <= MaxPushes

(***************************************************************************)
(* Properties.                                                             *)
(***************************************************************************)

\* Section 8 of the spec: with max_size = N, after any number of pushes
\* the series holds exactly the N most recent samples (all of them while
\* fewer than N were pushed), in the order they were pushed.
KeepsMostRecent ==
    ts.samples = SubSeq(history, IF Len(history) > MaxSize THEN Len(history) - MaxSize + 1 ELSE 1,
                        Len(history))

=============================================================================
