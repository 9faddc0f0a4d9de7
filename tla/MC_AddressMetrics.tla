------------------------ MODULE MC_AddressMetrics ------------------------
(***************************************************************************)
(* The metrics an AddressDefinition owns, checked in one run: a         *)
(* WindowedDelta fed by the 5 s sweep (update_periodic_deltas) and the   *)
(* depth TimeSeries fed by the 30 s sweep (update_depth_series).  The    *)
(* two share no state, so a behaviour interleaves their steps freely.   *)
(*                                                                         *)
(* The code uses 60 slots and 10 samples.  Three slots with 6 updates   *)
(* let the cursor wrap twice, with counter values 0..2 giving increases, *)
(* equal values and resets; three samples with 5 pushes evict twice,     *)
(* with two clock readings and two depth values.                          *)
(***************************************************************************)
EXTENDS Naturals, Sequences

CONSTANT Undefined

VARIABLES wd, contributions, ts, now, history

tracker == <<wd, contributions>>
series == <<ts, now, history>>
vars == <<tracker, series>>

WD == INSTANCE WindowedDelta WITH Window <- 3, Values <- 0..2, MaxUpdates <- 6
TS == INSTANCE TimeSeries WITH MaxSize <- 3, Values <- 0..1, Times <- 1..2, MaxPushes <- 5

Spec ==
    /\ WD!Init /\ TS!Init
    /\ [][(WD!Next /\ UNCHANGED series) \/ (TS!Next /\ UNCHANGED tracker)]_vars

HistoryBound == WD!HistoryBound /\ TS!HistoryBound

\* The tracker's ring, cursor and baseline are well formed.
TrackerTypeOK == WD!TypeOK

\* The series holds at most max_size samples after its header.
SeriesTypeOK == TS!TypeOK

\* The ring read from the cursor is the window of the last Window deltas
\* that update() wrote, with section 4.3's reset rule.
RefinesSlidingWindow == WD!RefinesSlidingWindow

\* push() keeps exactly the max_size most recent samples, in order.
KeepsMostRecent == TS!KeepsMostRecent
=============================================================================
