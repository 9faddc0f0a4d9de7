------------------------------ MODULE Coalesce ------------------------------
(***************************************************************************)
(* The notification path of address_service.js: coalesce(f, delay,       *)
(* max_delay) (lines 3-33) together with the reason set that on_update  *)
(* installs (lines 334-350).  callback(reason) records the reason in     *)
(* _reasons and calls the coalesced function, which arms, re-arms or     *)
(* leaves the single setTimeout; when the timer fires, fire() clears    *)
(* start and the handle and runs _notify, which calls the observer once  *)
(* per recorded reason and empties _reasons.                             *)
(*                                                                         *)
(* Time.  The code reads Date.now() only to store start and scheduled    *)
(* and to compare scheduled with start + max_delay, so only differences  *)
(* from start matter: elapsed is now - start and scheduled is stored     *)
(* as scheduled - start.  Tick advances the clock by one unit; it cannot *)
(* pass a due timer (a due timer fires before time moves on, though a    *)
(* callback queued in the same instant may run first).  calls bounds the *)
(* callbacks in one instant: events arrive at a finite rate.             *)
(***************************************************************************)
EXTENDS Naturals

CONSTANTS
    Reasons,          \* the reason strings passed to callback()
    Delay,            \* coalesce's delay     (10 ms in on_update)
    MaxDelay,         \* coalesce's max_delay (500 ms in on_update)
    MaxCallsPerTick   \* bound: callbacks that may run within one time unit

ASSUME Delay \in Nat \ {0} /\ MaxDelay \in Nat \ {0} /\ MaxCallsPerTick \in Nat \ {0}

VARIABLES
    timeout,    \* the variable timeout holds a handle (is truthy)
    timerLive,  \* a setTimeout(fire, delay) is armed and not cleared
    started,    \* start is defined
    elapsed,    \* Date.now() - start
    scheduled,  \* scheduled - start
    reasons,    \* the keys of _reasons
    delivered,  \* the reasons _notify passed to the observer last time
    calls       \* callbacks run in the current time unit

vars == <<timeout, timerLive, started, elapsed, scheduled, reasons, delivered, calls>>

TypeOK ==
    /\ timeout \in BOOLEAN
    /\ timerLive \in BOOLEAN
    /\ started \in BOOLEAN
    /\ elapsed \in 0..(MaxDelay + Delay)
    /\ scheduled \in 0..(MaxDelay + Delay)
    /\ reasons \subseteq Reasons
    /\ delivered \subseteq Reasons
    /\ calls \in 0..MaxCallsPerTick

\* on_update: _reasons = {} and a fresh coalesce closure with every
\* variable undefined.
Init ==
    /\ timeout = FALSE
    /\ timerLive = FALSE
    /\ started = FALSE
    /\ elapsed = 0
    /\ scheduled = 0
    /\ reasons = {}
    /\ delivered = {}
    /\ calls = 0

(***************************************************************************)
(* Mutations of the code, used to show that the properties below are     *)
(* sensitive to plausible bugs (see "mutants" in PROJECT.json).          *)
(***************************************************************************)
\* can_delay() loses the max_delay ceiling.
CanDelayNoCeiling == started

\* can_delay compares with <= instead of <.
CanDelayInclusive == started /\ scheduled <= MaxDelay

\* fire() forgets to reset the timeout handle.
FireKeepsHandle ==
    /\ timerLive
    /\ elapsed >= scheduled
    /\ started' = FALSE
    /\ timerLive' = FALSE
    /\ delivered' = reasons
    /\ reasons' = {}
    /\ elapsed' = 0
    /\ UNCHANGED <<timeout, scheduled, calls>>

(***************************************************************************)
(* The code.                                                               *)
(***************************************************************************)
\* can_delay(): start is set and the armed time is still before
\* start + max_delay.  Note that it tests the time already armed, not the
\* time a re-arm would choose.
CanDelay == started /\ scheduled < MaxDelay

\* schedule(): clearTimeout is done by the caller; setTimeout(fire, delay)
\* and scheduled = now + delay, with now = start + e.
Schedule(e) ==
    /\ timeout' = TRUE
    /\ timerLive' = TRUE
    /\ scheduled' = e + Delay

\* this.callback(reason) from on_update, followed by the coalesced function.
Callback(r) ==
    /\ calls < MaxCallsPerTick
    /\ calls' = calls + 1
    /\ reasons' = reasons \cup {r}
    /\ IF timeout
         THEN IF CanDelay
                THEN /\ Schedule(elapsed)
                     /\ UNCHANGED <<started, elapsed>>
                \* else just wait for the previously scheduled call
                ELSE UNCHANGED <<timeout, timerLive, started, elapsed, scheduled>>
         ELSE /\ started' = TRUE
              /\ elapsed' = 0
              /\ Schedule(0)
    /\ UNCHANGED delivered

\* The timer fires: fire() clears start and timeout, then f() = _notify
\* calls the observer for every key of _reasons and empties _reasons.
Fire ==
    /\ timerLive
    /\ elapsed >= scheduled
    /\ started' = FALSE
    /\ timeout' = FALSE
    /\ timerLive' = FALSE
    /\ delivered' = reasons
    /\ reasons' = {}
    /\ elapsed' = 0
    /\ UNCHANGED <<scheduled, calls>>

\* One unit of time passes; an armed timer that is due must fire first.
Tick ==
    /\ timerLive => elapsed < scheduled
    /\ elapsed' = IF timerLive THEN elapsed + 1 ELSE elapsed
    /\ calls' = 0
    /\ UNCHANGED <<timeout, timerLive, started, scheduled, reasons, delivered>>

Next ==
    \/ \E r \in Reasons : Callback(r)
    \/ Fire
    \/ Tick

\* Timers fire when due and time passes: the JavaScript event loop runs
\* every due timer task.  The callers of callback() get no fairness.
Spec == Init /\ [][Next]_vars /\ WF_vars(Fire) /\ WF_vars(Tick)

(***************************************************************************)
(* Properties.                                                             *)
(***************************************************************************)

\* The observer hears of every reason within max_delay + delay of the first
\* callback of a burst: while reasons are pending (start is set), no more
\* than MaxDelay + Delay - 1 units have passed since start.  This is the
\* bound the re-arm test in can_delay() actually gives.
MaxLatency == started => elapsed < MaxDelay + Delay

\* The bound section 4.1 of the spec states: a flush fires no later than
\* max_delay after the first pending call, even if calls keep arriving.
SpecLatency == started => elapsed <= MaxDelay

\* coalesce + _reasons implement the abstract notifier: no reason is lost,
\* invented or delivered twice, and every pending reason is eventually
\* delivered however callbacks keep arriving.
Abstract == INSTANCE Notifier WITH pending <- reasons, delivered <- delivered

RefinesNotifier == Abstract!Spec

=============================================================================
