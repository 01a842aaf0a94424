------------------------------- MODULE MCTools -------------------------------
(***************************************************************************)
(* Tools for TLC: two calls at once, two or three things for them to be    *)
(* about.                                                                  *)
(***************************************************************************)
EXTENDS Tools, CronText

(* Dev and dev are one category, spelled twice.                            *)
Lower(category) == IF category = "Dev" THEN "dev" ELSE category

(* Lists of up to two parts over the full ranges of all five fields.       *)
TwoParts == Field(Part({0, 7}, {1, 5}, {0, 2}))
=============================================================================
