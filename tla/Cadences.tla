------------------------------ MODULE Cadences ------------------------------
(***************************************************************************)
(* city::schedule: which entries of the schedule are due when the worker    *)
(* looks, having looked last at `after`. Clocks count milliseconds of a     *)
(* minute that has MinuteMs of them, in days of DayMinutes.                 *)
(***************************************************************************)
EXTENDS Naturals

CONSTANTS MinuteMs, DayMinutes, MaxClock

ASSUME CadencesAssumption == MinuteMs \in Nat \ {0} /\ DayMinutes \in Nat \ {0} /\ MaxClock \in Nat

WeekMinutes == 7 * DayMinutes
EpochOffset == 3 * DayMinutes     \* the epoch was a Thursday

Every(n) == [kind |-> "every", at |-> n]
Daily(n) == [kind |-> "daily", at |-> n]
Weekly(n) == [kind |-> "weekly", at |-> n]
Cadence ==
    {Every(n) : n \in 0..DayMinutes + 1} \cup {Daily(n) : n \in 0..DayMinutes - 1}
        \cup {Weekly(n) : n \in 0..WeekMinutes - 1}

VARIABLES
    cadence,
    after, now,   \* when the worker looked last, and the clock
    looked        \* history: the last look, and whether the entry was due

cadenceVars == <<cadence, after, now, looked>>

\* The clock begins a week or more after the epoch.
CadencesInit ==
    /\ cadence \in Cadence
    /\ now \in (WeekMinutes * MinuteMs)..((WeekMinutes + 1) * MinuteMs)
    /\ after = now /\ looked = [after |-> now, now |-> now, due |-> FALSE]

\* A firing that is yet to come was last one length ago.
Back(firing, minutes, length) == IF firing <= minutes THEN firing ELSE firing - length

\* Cadence::last_firing.
last_firing(c, minutes) ==
    CASE c.kind = "every" ->
            minutes - (minutes % (IF c.at = 0 THEN 1 ELSE c.at))
      [] c.kind = "daily" -> Back(minutes - (minutes % DayMinutes) + c.at, minutes, DayMinutes)
      [] OTHER -> Back(minutes - ((minutes + EpochOffset) % WeekMinutes) + c.at, minutes, WeekMinutes)

\* Schedule::due.
due(c, from, to) ==
    LET fired == last_firing(c, to \div MinuteMs)
    IN  fired > from \div MinuteMs /\ fired <= to \div MinuteMs

\* The worker looks, and looks from here the next time.
look ==
    /\ looked' = [after |-> after, now |-> now, due |-> due(cadence, after, now)]
    /\ after' = now
    /\ UNCHANGED <<cadence, now>>

\* Time passes, up to a stretch nobody looked in.
pass(ms) ==
    /\ now + ms <= MaxClock + WeekMinutes * MinuteMs /\ now' = now + ms
    /\ UNCHANGED <<cadence, after, looked>>

CadencesNext == look \/ \E ms \in {1, MinuteMs * DayMinutes} : pass(ms)

-----------------------------------------------------------------------------
(* Properties *)

\* The minutes an entry is written for.
FiresAt(c, m) ==
    CASE c.kind = "every" -> c.at \in {0, 1} \/ m % c.at = 0
      [] c.kind = "daily" -> m % DayMinutes = c.at
      [] OTHER -> (m + EpochOffset) % WeekMinutes = c.at

\* An entry is due exactly when a minute it is written for has come since
\* the last look: none is missed however long nobody looked, several come
\* as one, and none is served twice because two looks fell into its minute
\* (last_firing, due).
DueWhenItFired ==
    looked.due <=>
        \E m \in (looked.after \div MinuteMs) + 1..looked.now \div MinuteMs : FiresAt(cadence, m)
=============================================================================
