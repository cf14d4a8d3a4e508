-------------------------- MODULE PeriodicSchedule --------------------------
(***************************************************************************)
(* AbsolutePeriodicSchedule (periodic_schedule.h), by which the periodic   *)
(* threads release themselves: WaitForNextRelease as its two halves around *)
(* the sleep, between which time passes as the scheduler likes.            *)
(***************************************************************************)
EXTENDS Naturals

CONSTANTS
  Period,      \* period_ticks_
  MaxMissed,   \* UINT32_MAX
  Phase,       \* initial_phase_ticks_ % period_ticks_
  MaxTicks     \* bound: kernel ticks

ASSUME PeriodAssumption ==
  /\ Period \in Nat \ {0} /\ Phase \in 0 .. Period - 1
  /\ MaxMissed \in Nat /\ MaxTicks \in Nat

VARIABLES
  now,        \* k_uptime_ticks
  next,       \* next_release_tick_
  total,      \* total_missed_releases_
  pending,    \* missed, of the call in progress
  schedPc,    \* the caller: running its cycle, or asleep in WaitForNextRelease
  slot,       \* history: slot of the phase grid that next stands for
  runs        \* history: cycles the caller was released for, slots before its first one included

schedVars == <<now, next, total, pending, schedPc, slot, runs>>

\* Reset at any tick: the first grid point that is not past.
SchedInit ==
  /\ now \in 0 .. Period + Period
  /\ slot = (IF now % Period <= Phase THEN now \div Period ELSE (now \div Period) + 1)
  /\ next = (IF now % Period <= Phase THEN now - (now % Period) + Phase
                                      ELSE now - (now % Period) + Phase + Period)
  /\ total = 0
  /\ pending = 0
  /\ schedPc = "running"
  /\ runs = slot

\* Time, which a cycle that takes long or a preemption spends as well.  A
\* sleeper that is due is woken, but perhaps not at once.
SchedTick ==
  /\ now < MaxTicks
  /\ now' = now + 1
  /\ UNCHANGED <<next, total, pending, schedPc, slot, runs>>

Skip(n) ==
  /\ next' = next + n * Period
  /\ slot' = slot + n

\* Slots that are over when the caller comes back, the one it is late for included.
LateSlots == IF now > next THEN (now - next + Period - 1) \div Period ELSE 0

\* The first half: old releases are skipped, then the caller sleeps.
SleepUntilNext ==
  /\ schedPc = "running"
  /\ Skip(LateSlots)
  /\ pending' = LateSlots
  /\ schedPc' = "asleep"
  /\ UNCHANGED <<now, total, runs>>

\* Mutant: a late wake-up is not looked at.
OversleptSlotsIgnored == 0

\* Whole slots the wake-up came late for.
OversleptSlots == IF now >= next + Period THEN (now - next) \div Period ELSE 0

\* AddMissedReleases: the total saturates.
AddMissedReleases(missed) ==
  IF missed >= MaxMissed - total THEN MaxMissed ELSE total + missed

\* Mutant: what the first half counted is forgotten.
WakeUpForgetting ==
  /\ schedPc = "asleep" /\ now >= next
  /\ Skip(OversleptSlots + 1)
  /\ total' = AddMissedReleases(OversleptSlots)
  /\ pending' = 0
  /\ runs' = runs + 1
  /\ schedPc' = "running"
  /\ UNCHANGED now

\* The second half: obsolete releases are skipped, the newest one is taken.
WakeUp ==
  /\ schedPc = "asleep" /\ now >= next
  /\ Skip(OversleptSlots + 1)
  /\ total' = AddMissedReleases(pending + OversleptSlots)
  /\ pending' = 0
  /\ runs' = runs + 1
  /\ schedPc' = "running"
  /\ UNCHANGED now

SchedNext == SchedTick \/ SleepUntilNext \/ WakeUp

SchedSpec == SchedInit /\ [][SchedNext]_schedVars

-----------------------------------------------------------------------------
(* Properties.                                                               *)

SchedTypeOK ==
  /\ now \in Nat /\ next \in Nat /\ total \in Nat /\ pending \in Nat
  /\ slot \in Nat /\ runs \in Nat
  /\ schedPc \in {"running", "asleep"}

(***************************************************************************)
(* "Phase preservation": releases stay on the grid of the phase however    *)
(* late the caller comes or wakes, and each slot of the grid is either a   *)
(* run of the caller or a missed release that was counted, until the       *)
(* count saturates.                                                        *)
(***************************************************************************)
EverySlotAccounted ==
  /\ next = slot * Period + Phase
  /\ runs + total + pending <= slot
  /\ total < MaxMissed => slot = runs + total + pending

(***************************************************************************)
(* "Preventing an overloaded thread from running back-to-back to replay    *)
(* obsolete work": two runs are never released in one slot, and a run is   *)
(* never released for a slot that is over.                                 *)
(***************************************************************************)
NoReplay == [][WakeUp => now < next' /\ next' - Period <= now]_schedVars
=============================================================================
