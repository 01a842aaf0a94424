------------------------------- MODULE Memory -------------------------------
(***************************************************************************)
(* app/memory.py and app/learn.py: one Markdown file per memory, a folder  *)
(* per scope, and the reserved scope of candidates awaiting review.  A     *)
(* file is rewritten by write_text, which truncates it first; promotion    *)
(* writes the memory and then unlinks the candidate.                       *)
(*                                                                         *)
(* A file is the fact it holds; an empty one reads as a memory without     *)
(* text.  Who is confined to which scope is in Policy.                     *)
(***************************************************************************)
CONSTANTS
  Callers,      \* tool calls that can be under way at once
  Names,        \* slugs of titles
  Facts,        \* contents
  Scopes,       \* folders of live memories
  Missing,      \* no such file
  Torn          \* truncated, not yet filled

VARIABLES
  files,     \* MEMORY_DIR
  call,      \* the call each caller is in
  noted      \* the candidate under each name that is still to be kept

vars == <<files, call, noted>>

CANDIDATES_SCOPE == "candidates"
Folders == Scopes \cup {CANDIDATES_SCOPE}

Idle == [at |-> "idle"]
Writing == [at : {"truncate", "flush"}, tool : {"write", "stage", "promote"},
            scope : Folders, name : Names, fact : Facts \cup {Torn}]
Unlinking == [at : {"unlink"}, name : Names]

(* What the constants stand for; candidates are no live memories.          *)
ConstantsOK ==
  /\ CANDIDATES_SCOPE \notin Scopes
  /\ Missing # Torn /\ Missing \notin Facts /\ Torn \notin Facts

TypeOK ==
  /\ files \in [Folders \X Names -> Facts \cup {Missing, Torn}]
  /\ call \in [Callers -> {Idle} \cup Writing \cup Unlinking]
  /\ noted \in [Names -> Facts \cup {Missing}]

Init ==
  /\ files = [f \in Folders \X Names |-> Missing]
  /\ call = [c \in Callers |-> Idle]
  /\ noted = [n \in Names |-> Missing]

Go(c, next) == call' = [call EXCEPT ![c] = next]
Candidate(n) == files[<<CANDIDATES_SCOPE, n>>]
Promoting(c, n) ==
  \/ call[c].at = "unlink" /\ call[c].name = n
  \/ call[c].at \in {"truncate", "flush"} /\ call[c].tool = "promote" /\ call[c].name = n

-----------------------------------------------------------------------------
(* memory_write: an untyped memory is refused, which writes nothing.       *)
MemoryWrite(c, scope, n, fact) ==
  /\ call[c] = Idle
  /\ Go(c, [at |-> "truncate", tool |-> "write", scope |-> scope, name |-> n, fact |-> fact])
  /\ UNCHANGED <<files, noted>>

StageCandidate(c, n, fact) ==
  /\ call[c] = Idle
  /\ Go(c, [at |-> "truncate", tool |-> "stage", scope |-> CANDIDATES_SCOPE,
            name |-> n, fact |-> fact])
  /\ UNCHANGED <<files, noted>>

MemoryNote(c, n, fact) == StageCandidate(c, n, fact)

(* LearnMiddleware, after a tool of _DURABLE, whatever it has answered.    *)
Learn(c, n, fact) == StageCandidate(c, n, fact)

PromoteMoved(c, n, scope) ==
  /\ call[c] = Idle
  /\ \A d \in Callers : ~ Promoting(d, n)
  /\ Candidate(n) # Missing
  /\ Go(c, [at |-> "truncate", tool |-> "promote", scope |-> scope, name |-> n,
            fact |-> Candidate(n)])
  /\ files' = [files EXCEPT ![<<CANDIDATES_SCOPE, n>>] = Missing]
  /\ UNCHANGED noted

(* memory_promote, which reads the candidate first, into any scope: the    *)
(* queue's own too, where the memory is the candidate, rewritten and then  *)
(* unlinked.  One review of a candidate at a time.                         *)
MemoryPromote(c, n, scope) ==
  /\ call[c] = Idle
  /\ \A d \in Callers : ~ Promoting(d, n)
  /\ Candidate(n) # Missing
  /\ Go(c, [at |-> "truncate", tool |-> "promote", scope |-> scope, name |-> n,
            fact |-> Candidate(n)])
  /\ UNCHANGED <<files, noted>>

(* One call at a time is filling a file.  Whoever rewrites a memory of that *)
(* name takes its fact out of review, and so does a promotion that stays   *)
(* in the queue.                                                           *)
GoesLive(w) == w.tool = "promote" /\ w.scope # CANDIDATES_SCOPE

Truncate(c) ==
  LET n == call[c].name IN
  /\ call[c].at = "truncate"
  /\ \A d \in Callers : call[d].at = "flush" => call[d].name # n \/ call[d].scope # call[c].scope
  /\ files' = [files EXCEPT ![<<call[c].scope, n>>] = Torn]
  /\ Go(c, [call[c] EXCEPT !.at = "flush"])
  /\ noted' = IF GoesLive(call[c]) THEN noted ELSE [noted EXCEPT ![n] = Missing]

(* A file unlinked since stays away.  A candidate staged again while it is *)
(* under review goes with the review.                                      *)
Flush(c) ==
  LET f == <<call[c].scope, call[c].name>>
      n == call[c].name
      gone == files[f] = Missing
  IN
  /\ call[c].at = "flush"
  /\ files' = IF gone THEN files ELSE [files EXCEPT ![f] = call[c].fact]
  /\ noted' = IF call[c].tool = "stage" /\ ~ gone /\ \A d \in Callers : ~ Promoting(d, n)
              THEN [noted EXCEPT ![n] = call[c].fact] ELSE noted
  /\ Go(c, IF call[c].tool = "promote" THEN [at |-> "unlink", name |-> n] ELSE Idle)

(* src.unlink(): raises if the candidate is gone.                          *)
UnlinkCandidate(c) ==
  /\ call[c].at = "unlink"
  /\ files' = [files EXCEPT ![<<CANDIDATES_SCOPE, call[c].name>>] = Missing]
  /\ Go(c, Idle)
  /\ UNCHANGED noted

MemoryDelete(scope, n) ==
  /\ files[<<scope, n>>] # Missing
  /\ files' = [files EXCEPT ![<<scope, n>>] = Missing]
  /\ noted' = [noted EXCEPT ![n] = Missing]
  /\ UNCHANGED call

MemoryReject(n) == MemoryDelete(CANDIDATES_SCOPE, n)

Restart ==
  /\ \E c \in Callers : call[c] # Idle
  /\ call' = [c \in Callers |-> Idle]
  /\ UNCHANGED <<files, noted>>

Next ==
  \/ \E c \in Callers : Truncate(c) \/ Flush(c) \/ UnlinkCandidate(c)
  \/ \E c \in Callers, n \in Names :
       \/ \E fact \in Facts : MemoryNote(c, n, fact) \/ Learn(c, n, fact)
       \/ \E scope \in Folders, fact \in Facts : MemoryWrite(c, scope, n, fact)
       \/ \E scope \in Folders : MemoryPromote(c, n, scope)
  \/ \E n \in Names : MemoryReject(n) \/ \E scope \in Folders : MemoryDelete(scope, n)
  \/ Restart

Spec == Init /\ [][Next]_vars

-----------------------------------------------------------------------------
(* "queue for review": a fact that was staged stays in the queue or in     *)
(* live memory until somebody deletes or rewrites a memory of that name,   *)
(* wherever a promotion or the server stops.  Two calls lose it and say    *)
(* they have not: staging another fact while the candidate before it is    *)
(* being promoted, and promoting it into the scope of candidates, whose    *)
(* file memory_promote writes and then unlinks (memory.py:361-362).        *)
NotedIsKept ==
  \A n \in Names : noted[n] # Missing => \E s \in Folders : files[<<s, n>>] = noted[n]
=============================================================================
