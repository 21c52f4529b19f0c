------------------------------- MODULE Backoff -------------------------------
(***************************************************************************)
(* The doubling interval of crates/symbian/src/backoff.rs, as functions of *)
(* its one mutable field, `current`: the interval the next request arms.   *)
(* base and max are the two fields fixed by Backoff::new, base <= max.     *)
(* The i32 saturation of saturating_mul(2) is out of reach: every caller's *)
(* max is far below 2^30.                                                  *)
(***************************************************************************)
LOCAL INSTANCE Integers

\* clamp(base, max), with base <= max
Clamp(v, base, max) == IF v < base THEN base ELSE IF v > max THEN max ELSE v

\* `current` after on_tick(); the delay on_tick returns is the old `current`
AfterTickMutant(current, base, max) == Clamp(current, base, max)
AfterTickMutant2(current, base, max) == 2 * current
AfterTick(current, base, max) == Clamp(2 * current, base, max)

\* `current` after on_reset(jitter); the delay it returns is ResetDelay
AfterReset(base, max) == Clamp(2 * base, base, max)
ResetDelay(base, jitter) == base + (IF jitter > 0 THEN jitter ELSE 0)

\* `current` after on_hold(), which is also the delay it returns
AfterHold(max) == max

\* the values `current` can take, whatever is called in whatever order
Intervals(base, max) == base..max
==============================================================================
