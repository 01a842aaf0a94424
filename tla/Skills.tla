------------------------------- MODULE Skills -------------------------------
(***************************************************************************)
(* app/skills.py: one folder per skill, whose SKILL.md names the skill's   *)
(* category.  A new category is snapped onto an existing one that differs  *)
(* from it in case only, and every call reads all the files for that.      *)
(***************************************************************************)
CONSTANTS
  Writers,           \* calls of skill_write that can be under way at once
  Names,             \* skills
  Spellings,         \* categories as they may be spelled
  Folded(_),         \* a spelling in lower case
  Overlap,           \* may two of the calls be under way at once?
  Missing, Torn      \* no such skill; a SKILL.md truncated, not yet filled

VARIABLES skills, writer

Idle == [at |-> "idle"]

(* What the constants stand for.                                           *)
ConstantsOK == Missing \notin Spellings /\ Torn \notin Spellings

TypeOK ==
  /\ skills \in [Names -> Spellings \cup {Missing, Torn}]
  /\ writer \in [Writers -> {Idle} \cup [at : {"truncate", "flush"}, name : Names, category : Spellings]]

Init ==
  /\ skills = [n \in Names |-> Missing]
  /\ writer = [w \in Writers |-> Idle]

(* An empty file reads as uncategorized, which is no category.             *)
ExistingCategories == {skills[n] : n \in Names} \cap Spellings

CanonicalExact(category) == category

CanonicalCategory(category) ==
  LET same == {e \in ExistingCategories : Folded(e) = Folded(category)}
  IN  IF same = {} THEN category ELSE CHOOSE e \in same : TRUE

(* skill_write; without a category it is refused.                          *)
SkillWrite(w, n, category) ==
  /\ writer[w] = Idle
  /\ Overlap \/ \A v \in Writers : writer[v] = Idle
  /\ writer' = [writer EXCEPT ![w] =
       [at |-> "truncate", name |-> n, category |-> CanonicalCategory(category)]]
  /\ UNCHANGED skills

Truncate(w) ==
  /\ writer[w].at = "truncate"
  /\ skills' = [skills EXCEPT ![writer[w].name] = Torn]
  /\ writer' = [writer EXCEPT ![w].at = "flush"]

Flush(w) ==
  LET n == writer[w].name IN
  /\ writer[w].at = "flush"
  /\ skills' = IF skills[n] = Missing THEN skills ELSE [skills EXCEPT ![n] = writer[w].category]
  /\ writer' = [writer EXCEPT ![w] = Idle]

SkillDelete(n) ==
  /\ skills[n] # Missing
  /\ skills' = [skills EXCEPT ![n] = Missing]
  /\ UNCHANGED writer

Restart ==
  /\ writer' = [w \in Writers |-> Idle]
  /\ UNCHANGED skills

Next ==
  \/ \E w \in Writers : Truncate(w) \/ Flush(w)
  \/ \E w \in Writers, n \in Names, c \in Spellings : SkillWrite(w, n, c)
  \/ \E n \in Names : SkillDelete(n)
  \/ Restart

Spec == Init /\ [][Next]_<<skills, writer>>

-----------------------------------------------------------------------------
(* skills.py:146-147 "Categories are matched case-insensitively, so you    *)
(* can't accidentally split one into near-duplicates": no two skills have  *)
(* categories that differ in case only, crashes and deletions included.    *)
CategoriesNotSplit ==
  \A a, b \in ExistingCategories : Folded(a) = Folded(b) => a = b

(* Without overlap it is inductive together with this: one call at a time, *)
(* whose category is still the canonical one.                              *)
OneAtATime == \A v, w \in Writers : writer[v] # Idle /\ writer[w] # Idle => v = w

Canonical ==
  \A w \in Writers : writer[w] # Idle =>
    \A e \in ExistingCategories : Folded(e) = Folded(writer[w].category) => e = writer[w].category

IInv == TypeOK /\ CategoriesNotSplit /\ OneAtATime /\ Canonical
=============================================================================
