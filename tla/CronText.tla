------------------------------ MODULE CronText ------------------------------
(***************************************************************************)
(* The fields of a cron expression, as they are written.                   *)
(***************************************************************************)
EXTENDS Integers

(* A part: "*", "n" or "a-b", perhaps "/step".                             *)
Part(singles, ends, steps) ==
  [kind : {"star"}, a : {0}, b : {0}, step : steps \cup {1}]
    \cup [kind : {"range"}, a : ends, b : ends, step : steps \cup {1}]
    \cup {[kind |-> "range", a |-> n, b |-> n, step |-> 1] : n \in singles}

(* Fields of one part or two.                                              *)
Field(parts) == {{p, q} : p, q \in parts}
=============================================================================
