---------------------------- MODULE MCCronMatch ----------------------------
(* CronMatch for TLC: ranges that end in 7.                                *)
EXTENDS CronMatch, CronText

UpToSeven == Field(Part({}, {5, 7}, {2}))
=============================================================================
