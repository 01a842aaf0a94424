------------------------------ MODULE CronMatch ------------------------------
(***************************************************************************)
(* app/cron.py, _field_match and _is_due: which minutes a five-field cron  *)
(* expression stands for.  A field is a set of comma-separated parts; the  *)
(* order of the parts does not matter, one that is no number is skipped.   *)
(* The expression and the time vary; nothing else has a state.             *)
(***************************************************************************)
EXTENDS Integers, FiniteSets

CONSTANTS
  Written,    \* fields a schedule may be given: sets of parts (module CronText)
  MaxFields   \* bound on the fields that are not "*"

VARIABLES schedule, now

Fields == {"minute", "hour", "dom", "mon", "dow"}
Low(f) == IF f \in {"dom", "mon"} THEN 1 ELSE 0
High(f) == CASE f = "minute" -> 59 [] f = "hour" -> 23 [] f = "dom" -> 31
             [] f = "mon" -> 12 [] f = "dow" -> 6

Star == {[kind |-> "star", a |-> 0, b |-> 0, step |-> 1]}

(* What the constants stand for.                                           *)
FieldPart == [kind : {"star", "range"}, a : Nat, b : Nat, step : Nat]
ConstantsOK == Written \subseteq SUBSET FieldPart

TypeOK ==
  /\ schedule \in [Fields -> Written \cup {Star}]
  /\ now \in [Fields -> 0 .. 59] /\ \A f \in Fields : now[f] \in Low(f) .. High(f)

Init ==
  /\ schedule = [f \in Fields |-> Star]
  /\ now = [f \in Fields |-> Low(f)]

Restricted == {f \in Fields : schedule[f] # Star}

Edit(f, field) ==
  /\ schedule[f] = Star
  /\ Cardinality(Restricted) < MaxFields
  /\ schedule' = [schedule EXCEPT ![f] = field]
  /\ UNCHANGED now

Elapse(f) ==
  /\ f \in Restricted
  /\ now' = [now EXCEPT ![f] = IF @ = High(f) THEN Low(f) ELSE @ + 1]
  /\ UNCHANGED schedule

Next == \E f \in Fields : Elapse(f) \/ \E field \in Written : Edit(f, field)

Spec == Init /\ [][Next]_<<schedule, now>>

-----------------------------------------------------------------------------
(* _field_match.                                                           *)
AtLeastOne(step) == IF step < 1 THEN 1 ELSE step

MultipleMatch(part, value, lo, hi) ==
  LET start == IF part.kind = "star" THEN lo ELSE part.a
      end == IF part.kind = "star" THEN hi ELSE part.b
  IN  start <= value /\ value <= end /\ value % AtLeastOne(part.step) = 0

PartMatch(part, value, lo, hi) ==
  LET start == IF part.kind = "star" THEN lo ELSE part.a
      end == IF part.kind = "star" THEN hi ELSE part.b
  IN  start <= value /\ value <= end /\ (value - start) % AtLeastOne(part.step) = 0

FieldMatch(parts, value, lo, hi) == \E p \in parts : PartMatch(p, value, lo, hi)

(* dow.replace("7", "0"): in the text of the field, wherever a 7 stands.   *)
Zero7(n) == IF n = 7 THEN 0 ELSE n
Replaced(parts) ==
  {[p EXCEPT !.a = Zero7(@), !.b = Zero7(@), !.step = Zero7(@)] : p \in parts}

IsDue ==
  \A f \in Fields :
    FieldMatch(IF f = "dow" THEN Replaced(schedule[f]) ELSE schedule[f],
               now[f], Low(f), High(f))

-----------------------------------------------------------------------------
(* What the documentation says a field stands for, cron.py:11-13: "*", ","   *)
(* lists, a-b ranges and */step; dow 0/7 = Sunday.                         *)
Counted(f, p) ==
  LET from == IF p.kind = "star" THEN Low(f) ELSE p.a
      to == IF p.kind = "star" THEN High(f) ELSE p.b
      every == IF p.step = 0 THEN 1 ELSE p.step
  IN  {n \in from .. to : \E i \in 0 .. (to - from) : n = from + i * every}

Denoted(f) ==
  LET listed == UNION {Counted(f, p) : p \in schedule[f]}
  IN  IF f = "dow" THEN {n % 7 : n \in listed} ELSE listed

(* A job is due exactly in the minutes its five fields list.               *)
DueAsListed == IsDue <=> \A f \in Fields : now[f] \in Denoted(f)
=============================================================================
