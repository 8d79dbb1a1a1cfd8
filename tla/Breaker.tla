------------------------------ MODULE Breaker ------------------------------
(***************************************************************************)
(* The per-ledger trading breaker of the kernel                            *)
(* (kernel/internal/store/pnl_breaker.go and the callers that put an       *)
(* evaluation in a ledger transaction, kernel/cmd/kernel/main.go).         *)
(*                                                                         *)
(* Every evaluation and every resume is one transaction under the ledger's *)
(* advisory lock.  The market day is read from the database clock inside   *)
(* it and read again before the commit, and a transaction that crosses     *)
(* midnight, or whose provider call fails, is rolled back: an action below *)
(* is a transaction that commits, and `day' is the day it commits on.      *)
(*                                                                         *)
(* What the breaker is told: `local', the realised PnL of each market day  *)
(* (a fold over the imported close fills; a fill carries the broker's time *)
(* and may be imported late, so any day up to today can change), the       *)
(* provider's figure for today (Unknown on the shadow ledger, or when the  *)
(* account provider has none) and the account's equity.  What it keeps:    *)
(* the day_open, daily_pnl, breaker_state and breaker_override rows of one *)
(* ledger; the two ledgers share nothing.                                  *)
(***************************************************************************)
EXTENDS Integers, FiniteSets

CONSTANTS MaxDay,         \* bound: market days 1 .. MaxDay
          MaxPnL,         \* bound: |realised PnL of a day|
          Deltas,         \* what one close fill may add to a day's PnL
          Readings,       \* the provider's answers for today's PnL
          Equities,       \* the account's equity at the day's first look
          Unknown,        \* no provider figure / no row
          MaxDailyLossPct,          \* hard_limits.max_daily_loss_pct
          ConsecutiveLossDaysHalt,  \* hard_limits.consecutive_loss_days_halt
          PnLReconciliationLimit    \* pnl_reconciliation_tolerance_usd

ASSUME BreakerBounds ==
    /\ MaxDay \in Nat \ {0} /\ MaxPnL \in Nat
    /\ Deltas \subseteq Int
    /\ Equities \subseteq Int
    /\ Unknown \notin Int
    /\ Readings \subseteq Int \cup {Unknown}

\* The configured limits are non-negative (EvaluateDayRisk refuses others).
ASSUME BreakerLimits ==
    /\ MaxDailyLossPct \in Nat
    /\ ConsecutiveLossDaysHalt \in Nat
    /\ PnLReconciliationLimit \in Nat

VARIABLES day,        \* the market day of the database clock
          local,      \* local[d]: realised PnL of the imported close fills of d
          dayOpen,    \* dayOpen[d]: day_open.equity, or Unknown
          provider,   \* provider[d]: daily_pnl.provider_realized_pnl, or Unknown
          breaker,    \* breaker_state: [reason, updated]; reason "none" = not halted
          overrides,  \* breaker_override: {<<reason, day>>}
          verdict,    \* what the last committed transaction reported: [day, reason]
          tripped,    \* history: days on which an evaluation reported daily_loss
          stopped     \* history: days on which the row was written as daily_loss

vars == <<day, local, dayOpen, provider, breaker, overrides, verdict, tripped, stopped>>

Days    == 1 .. MaxDay
Reasons == {"daily_loss", "loss_streak", "pnl_divergence"}
Outcome == Reasons \cup {"none"}

BreakerInit ==
    /\ day = 1
    /\ local = [d \in Days |-> 0]
    /\ dayOpen = [d \in Days |-> Unknown]
    /\ provider = [d \in Days |-> Unknown]
    /\ breaker = [reason |-> "none", updated |-> 1]
    /\ overrides = {}
    /\ verdict = [day |-> 1, reason |-> "none"]
    /\ tripped = {}
    /\ stopped = {}

----------------------------------------------------------------------------
(* The figures an evaluation computes.                                     *)

\* The lower of the two figures; a missing provider figure is ignored.
MoreLossMaking(mine, theirs) ==
    IF theirs # Unknown /\ theirs < mine THEN theirs ELSE mine

\* daily_pnl keeps the last figure the provider gave: COALESCE(new, old).
PersistDailyPnL(old, new) == IF new = Unknown THEN old ELSE new

\* units.PercentFloor of the day's opening equity; 0 switches the stop off.
DailyLossLimit(equity) ==
    IF MaxDailyLossPct > 0 /\ equity > 0 THEN (equity * MaxDailyLossPct) \div 100 ELSE 0

\* INSERT ... ON CONFLICT DO NOTHING: the first look of the day decides.
InsertDayOpen(equity) ==
    IF dayOpen[day] = Unknown THEN [dayOpen EXCEPT ![day] = equity] ELSE dayOpen

\* The days the streak query returns: the last `limit' opened days before today.
RecentDays(limit) ==
    {d \in 1 .. day - 1 : /\ dayOpen[d] # Unknown
                          /\ Cardinality({e \in d + 1 .. day - 1 : dayOpen[e] # Unknown}) < limit}

EffectivePast(d) == MoreLossMaking(local[d], provider[d])

\* Mutant of ConsecutiveLossDays: a flat day ends the streak before it is over.
StreakEndedByFlatDay(today) ==
    IF today >= 0 THEN 0
    ELSE 1 + Cardinality({d \in RecentDays(ConsecutiveLossDaysHalt) :
                            \A e \in d .. day - 1 : dayOpen[e] # Unknown => EffectivePast(e) < 0})

\* Today's loss, plus the losing days before it up to the first that is not one.
ConsecutiveLossDays(today) ==
    LET recent == RecentDays(ConsecutiveLossDaysHalt)
        losing == {d \in recent : \A e \in recent : e >= d => EffectivePast(e) < 0}
    IN  IF ConsecutiveLossDaysHalt = 0 \/ today > 0 THEN 0
        ELSE (IF today < 0 THEN 1 ELSE 0) + Cardinality(losing)

BreakerOverridden(reason) == <<reason, day>> \in overrides

\* units.DifferenceExceeds: the two figures are more than the tolerance apart.
Diverged(mine, theirs) ==
    /\ theirs # Unknown
    /\ \/ mine - theirs > PnLReconciliationLimit
       \/ theirs - mine > PnLReconciliationLimit
    /\ ~BreakerOverridden("pnl_divergence")

DailyLossHit(effective, limit) ==
    limit > 0 /\ effective <= -limit /\ ~BreakerOverridden("daily_loss")

\* Mutant of LossStreakHit: today's override is not looked up.
StreakIgnoringOverride(effective) ==
    /\ ConsecutiveLossDaysHalt > 0
    /\ ConsecutiveLossDays(effective) >= ConsecutiveLossDaysHalt

LossStreakHit(effective) ==
    /\ ConsecutiveLossDaysHalt > 0
    /\ ConsecutiveLossDays(effective) >= ConsecutiveLossDaysHalt
    /\ ~BreakerOverridden("loss_streak")

\* The first condition that holds and is not overridden today.
Trigger(reading, limit) ==
    LET effective == MoreLossMaking(local[day], reading)
    IN  IF Diverged(local[day], reading) THEN "pnl_divergence"
        ELSE IF DailyLossHit(effective, limit) THEN "daily_loss"
        ELSE IF LossStreakHit(effective) THEN "loss_streak"
        ELSE "none"

\* The daily stop is kept on its own day, except for a divergence.
StopIsKept(trigger) ==
    breaker.reason = "daily_loss" /\ breaker.updated = day /\ trigger # "pnl_divergence"

\* Mutant of Latched: a divergence clears when a later read agrees.
LatchedStopOnly(trigger) ==
    IF ~BreakerOverridden(breaker.reason) /\ StopIsKept(trigger) THEN breaker.reason ELSE trigger

\* Mutant of Latched: the daily stop follows the PnL back up.
LatchedDivergenceOnly(trigger) ==
    IF ~BreakerOverridden(breaker.reason) /\ breaker.reason = "pnl_divergence"
      THEN breaker.reason ELSE trigger

\* A latched reason wins over this evaluation's trigger.
Latched(trigger) ==
    IF /\ ~BreakerOverridden(breaker.reason)
       /\ breaker.reason = "pnl_divergence" \/ StopIsKept(trigger)
      THEN breaker.reason ELSE trigger

\* The row is written, and its timestamp moved, only when the reason changes.
TransitionBreaker(trigger) ==
    IF breaker.reason = Latched(trigger) THEN breaker
    ELSE [reason |-> Latched(trigger), updated |-> day]

----------------------------------------------------------------------------
(* A close fill with a broker time on day d is imported.                   *)
ImportCloseFill(d, delta) ==
    /\ d <= day
    /\ local[d] + delta \in -MaxPnL .. MaxPnL
    /\ local' = [local EXCEPT ![d] = @ + delta]
    /\ UNCHANGED <<day, dayOpen, provider, breaker, overrides, verdict, tripped, stopped>>

(* dayStateAtAccountWithLimits -> EvaluateDayRisk: a proposal, a review, a  *)
(* claim, the repricer or a GET /state looks at the day.                    *)
EvaluateDayRisk(reading, equity) ==
    /\ dayOpen' = InsertDayOpen(equity)
    /\ provider' = [provider EXCEPT ![day] = PersistDailyPnL(@, reading)]
    /\ breaker' = TransitionBreaker(Trigger(reading, DailyLossLimit(dayOpen'[day])))
    /\ verdict' = [day |-> day, reason |-> breaker'.reason]
    /\ tripped' = IF breaker'.reason = "daily_loss" THEN tripped \cup {day} ELSE tripped
    /\ stopped' = IF breaker' # breaker /\ breaker'.reason = "daily_loss"
                    THEN stopped \cup {day} ELSE stopped
    /\ UNCHANGED <<day, local, overrides>>

\* Mutant of ResumeAllowed: the day of a daily stop is not compared.
ResumeAllowedAnyDay(reason) == breaker.reason = reason

\* The guards of ResumeBreaker; anything else is answered breaker_not_active.
ResumeAllowed(reason) ==
    /\ breaker.reason = reason
    /\ reason = "daily_loss" => breaker.updated = day

\* Mutant of ResumeBreaker: the override is dated with the day's end.
ResumeForTomorrow(reason) ==
    /\ ResumeAllowed(reason)
    /\ overrides' = overrides \cup {<<reason, day + 1>>}
    /\ breaker' = [reason |-> "none", updated |-> day]
    /\ verdict' = [day |-> day, reason |-> "none"]
    /\ UNCHANGED <<day, local, dayOpen, provider, tripped, stopped>>

(* POST /breaker/resume by an administrator.                               *)
ResumeBreaker(reason) ==
    /\ ResumeAllowed(reason)
    /\ overrides' = overrides \cup {<<reason, day>>}
    /\ breaker' = [reason |-> "none", updated |-> day]
    /\ verdict' = [day |-> day, reason |-> "none"]
    /\ UNCHANGED <<day, local, dayOpen, provider, tripped, stopped>>

(* The database clock crosses midnight in the market's time zone.          *)
Midnight ==
    /\ day < MaxDay
    /\ day' = day + 1
    /\ UNCHANGED <<local, dayOpen, provider, breaker, overrides, verdict, tripped, stopped>>

BreakerNext ==
    \/ \E d \in Days, delta \in Deltas : ImportCloseFill(d, delta)
    \/ \E reading \in Readings, equity \in Equities : EvaluateDayRisk(reading, equity)
    \/ \E reason \in Reasons : ResumeBreaker(reason)
    \/ Midnight

BreakerSpec == BreakerInit /\ [][BreakerNext]_vars

----------------------------------------------------------------------------
(* Properties.                                                             *)

\* The type invariant: rows exist for days up to today only, and no override
\* is dated in the future.
BreakerTypeOK ==
    /\ day \in Days
    /\ local \in [Days -> Int]
    /\ dayOpen \in [Days -> Int \cup {Unknown}]
    /\ provider \in [Days -> Int \cup {Unknown}]
    /\ breaker \in [reason : Outcome, updated : 1 .. day]
    /\ overrides \subseteq (Reasons \X (1 .. day))
    /\ verdict \in [day : 1 .. day, reason : Outcome]
    /\ tripped \subseteq 1 .. day
    /\ stopped \subseteq 1 .. day

\* An administrator's override for today suppresses its reason for the rest of
\* the day: no evaluation, latch or left-over row halts the ledger again for it
\* ("Resume must suppress, not just clear").
OverrideSuppresses == <<breaker.reason, day>> \notin overrides

\* An override of the daily stop exists only for a day on which the stop was
\* written: a stale row of an earlier day never overrides today's stop in
\* advance (the second early return of ResumeBreaker).
OverrideNeedsStop == \A d \in Days : <<"daily_loss", d>> \in overrides => d \in stopped

\* Once the daily stop is written on a day, the ledger trades again that day
\* only after an administrator resumed it, by a daily_loss override or by a
\* pnl_divergence override of a divergence that took the row over.
DailyStopHolds ==
    (verdict.reason = "none" /\ verdict.day \in stopped)
        => \E reason \in {"daily_loss", "pnl_divergence"} : <<reason, verdict.day>> \in overrides

\* A provider disagreement stays in the row, through agreeing readings, stops,
\* streaks and midnights, until an administrator overrides it that day.
DivergenceKept ==
    (breaker.reason = "pnl_divergence" /\ breaker' # breaker)
        => <<"pnl_divergence", day'>> \in overrides'
DivergenceIsLatched == [][DivergenceKept]_vars

\* The losing run that ends now: `run' is a set of ConsecutiveLossDaysHalt losing
\* days, today counted if it loses and passed over if it is flat, and no opened
\* day since the first of them did not lose.
LosingRun(reading) ==
    LET today == MoreLossMaking(local[day], reading)
        losses == {d \in 1 .. day - 1 : dayOpen[d] # Unknown /\ EffectivePast(d) < 0}
                    \cup (IF today < 0 THEN {day} ELSE {})
    IN  /\ today <= 0
        /\ \E run \in SUBSET losses :
             /\ run # {}
             /\ Cardinality(run) = ConsecutiveLossDaysHalt
             /\ \A f \in run : \A d \in f .. day - 1 : dayOpen[d] # Unknown => d \in losses

\* The human gate: an evaluation that sees a losing run of the configured length
\* leaves the ledger halted unless loss_streak was overridden that day, whatever
\* gaps, late fills and provider corrections the days in between had.
StreakStops ==
    \A reading \in Readings, equity \in Equities :
        (EvaluateDayRisk(reading, equity) /\ LosingRun(reading)
            /\ ~BreakerOverridden("loss_streak"))
        => breaker'.reason # "none"

\* No step forgets a stop: a divergence stays until it is overridden, and a losing
\* run halts the ledger whenever it is looked at.
StopsHold == [][DivergenceKept /\ StreakStops]_vars

\* pnl_breaker.go:395: "Once hit, the daily stop remains latched for that market
\* day."  Read of the verdicts: after a daily_loss verdict no verdict of the same
\* day lets the ledger trade without a daily_loss override.
DailyStopStaysLatched ==
    (verdict.reason = "none" /\ verdict.day \in tripped)
        => <<"daily_loss", verdict.day>> \in overrides

\* An administrator and nobody else lets a stopped ledger trade again: overrides
\* suppress for their day and never in advance, and a written daily stop ends
\* before midnight only by one (EvaluateDayRisk, ResumeBreaker).
BreakerSafe == BreakerTypeOK /\ OverrideSuppresses /\ OverrideNeedsStop /\ DailyStopHolds
============================================================================
