------------------------------- MODULE MCCron -------------------------------
(* Cron for TLC: jobs for every minute and for a single one; three units   *)
(* to a minute, so that a run of one unit can end inside its minute or     *)
(* cross into the next.                                                    *)
EXTENDS Cron, TLC

TwoSchedules == {0 .. Horizon, {1}}

Symmetric == Permutations(Jobs)
=============================================================================
