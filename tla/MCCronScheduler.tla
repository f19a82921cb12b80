--------------------------- MODULE MCCronScheduler ---------------------------
(* A one-shot, from the legacy file or new, that matches in every minute,   *)
(* and a recurring schedule that matches in every other one.                *)
EXTENDS CronScheduler, TLC

CONSTANTS once, often, p1, p2

MCMatches == {m \in Schedules \X (1..LastMinute) : m[1] = once \/ m[2] % 2 = 1}
=============================================================================
