---------------------------- MODULE Memory_proofs ----------------------------
(***************************************************************************)
(* Proofs about Memory, for any number of callers, names, facts and        *)
(* scopes.                                                                 *)
(*                                                                         *)
(* The argument: a candidate that is to be kept is alone in its file       *)
(* (Queued), and a promotion under way has that fact in its hands and in   *)
(* the queue (UnderReview) until the memory holds it (Promoted); one that  *)
(* stays in the queue has taken the fact out of review by then.  A call    *)
(* that fills a file fills an empty one or one that is gone (Hollow), so   *)
(* it overwrites no fact that was not taken out of review when the file    *)
(* was truncated.                                                          *)
(***************************************************************************)
EXTENDS Memory, TLAPS

(* What is staged goes into the queue.                                     *)
Kind(w) ==
  w.tool = "stage" => w.scope = CANDIDATES_SCOPE /\ w.fact \in Facts
Filling(c) == call[c].at \in {"truncate", "flush"}
File(c) == <<call[c].scope, call[c].name>>

KindsOK == \A c \in Callers : Filling(c) => Kind(call[c])

OnePromoter == \A c, d \in Callers, n \in Names : Promoting(c, n) /\ Promoting(d, n) => c = d

OneFlusher ==
  \A c, d \in Callers : call[c].at = "flush" /\ call[d].at = "flush" /\ File(c) = File(d) => c = d

Hollow == \A c \in Callers : call[c].at = "flush" => files[File(c)] \in {Torn, Missing}

Queued == \A n \in Names : noted[n] # Missing => Candidate(n) \in {noted[n], Missing}

UnderReview ==
  \A c \in Callers : Filling(c) /\ call[c].tool = "promote" /\ noted[call[c].name] # Missing =>
    /\ call[c].fact = noted[call[c].name]
    /\ Candidate(call[c].name) = noted[call[c].name]
    /\ call[c].at = "flush" => files[File(c)] = Torn

Promoted ==
  \A c \in Callers : call[c].at = "unlink" /\ noted[call[c].name] # Missing =>
    \E s \in Scopes : files[<<s, call[c].name>>] = noted[call[c].name]

IInv ==
  /\ TypeOK /\ KindsOK /\ OnePromoter /\ OneFlusher
  /\ Hollow /\ Queued /\ UnderReview /\ Promoted
  /\ NotedIsKept

-----------------------------------------------------------------------------
LEMMA CallKinds ==
  ASSUME TypeOK, NEW c \in Callers
  PROVE  /\ call[c] \in {Idle} \cup Writing \cup Unlinking
         /\ Filling(c) => call[c] \in Writing
         /\ call[c].at = "unlink" => call[c] \in Unlinking
         /\ call[c] = Idle => call[c].at = "idle"
BY DEF TypeOK, Idle, Writing, Unlinking, Filling

LEMMA InitInv == ASSUME ConstantsOK, Init PROVE IInv
<1> USE DEF Init, Idle, Filling
<1>1. TypeOK
  BY DEF TypeOK
<1>2. KindsOK /\ OnePromoter /\ OneFlusher /\ Hollow
  BY DEF KindsOK, OnePromoter, Promoting, OneFlusher, Hollow
<1>3. Queued /\ UnderReview /\ Promoted /\ NotedIsKept
  BY DEF Queued, UnderReview, Promoted, NotedIsKept
<1> QED
  BY <1>1, <1>2, <1>3 DEF IInv

(* A call begins; a promotion holds the candidate it has read, and is the  *)
(* only one of its name.                                                   *)
LEMMA BeginStep ==
  ASSUME ConstantsOK, IInv, NEW c \in Callers, NEW next \in Writing,
         call[c] = Idle, call' = [call EXCEPT ![c] = next], UNCHANGED <<files, noted>>,
         next.at = "truncate", Kind(next),
         next.tool = "promote" =>
           /\ \A d \in Callers : ~ Promoting(d, next.name)
           /\ Candidate(next.name) # Missing /\ next.fact = Candidate(next.name)
  PROVE  IInv'
<1> USE DEF IInv
<1>1. TypeOK'
  BY DEF TypeOK
<1>2. call'[c] = next /\ \A d \in Callers : d # c => call'[d] = call[d]
  BY DEF TypeOK
<1>3. KindsOK'
  BY <1>2 DEF KindsOK, Filling, Kind
<1>4. OnePromoter'
  BY <1>2 DEF OnePromoter, Promoting
<1>5. OneFlusher' /\ Hollow'
  BY <1>2 DEF OneFlusher, File, Hollow
<1>6. Queued' /\ NotedIsKept'
  BY DEF Queued, Candidate, NotedIsKept
<1>7. UnderReview'
  <2> SUFFICES ASSUME NEW d \in Callers, Filling(d)', call'[d].tool = "promote",
                      noted[call'[d].name] # Missing
               PROVE  /\ call'[d].fact = noted[call'[d].name]
                      /\ Candidate(call'[d].name) = noted[call'[d].name]
                      /\ call'[d].at = "flush" => files[File(d)'] = Torn
    BY DEF UnderReview, Candidate
  <2>1. CASE d = c
    <3>1. next.name \in Names
      BY DEF Writing
    <3> QED
      BY <1>2, <2>1, <3>1 DEF Queued
  <2>2. CASE d # c
    BY <1>2, <2>2 DEF UnderReview, Filling, File
  <2> QED
    BY <2>1, <2>2
<1>8. Promoted'
  BY <1>2 DEF Promoted
<1> QED
  BY <1>1, <1>3, <1>4, <1>5, <1>6, <1>7, <1>8

LEMMA WriteStep ==
  ASSUME ConstantsOK, IInv, NEW c \in Callers, NEW n \in Names, NEW fact \in Facts,
         StageCandidate(c, n, fact) \/ \E scope \in Folders : MemoryWrite(c, scope, n, fact)
  PROVE  IInv'
<1>1. CASE StageCandidate(c, n, fact)
  <2> DEFINE next == [at |-> "truncate", tool |-> "stage", scope |-> CANDIDATES_SCOPE,
                      name |-> n, fact |-> fact]
  <2>1. next \in Writing /\ Kind(next) /\ next.at = "truncate" /\ next.tool # "promote"
    BY DEF Writing, Kind, Folders
  <2>2. call[c] = Idle /\ call' = [call EXCEPT ![c] = next] /\ UNCHANGED <<files, noted>>
    BY <1>1 DEF StageCandidate, Go
  <2> HIDE DEF next
  <2> QED
    BY <2>1, <2>2, BeginStep
<1>2. ASSUME NEW scope \in Folders, MemoryWrite(c, scope, n, fact) PROVE IInv'
  <2> DEFINE next == [at |-> "truncate", tool |-> "write", scope |-> scope,
                      name |-> n, fact |-> fact]
  <2>1. next \in Writing /\ Kind(next) /\ next.at = "truncate" /\ next.tool # "promote"
    BY DEF Writing, Kind
  <2>2. call[c] = Idle /\ call' = [call EXCEPT ![c] = next] /\ UNCHANGED <<files, noted>>
    BY <1>2 DEF MemoryWrite, Go
  <2> HIDE DEF next
  <2> QED
    BY <2>1, <2>2, BeginStep
<1> QED
  BY <1>1, <1>2

LEMMA PromoteStep ==
  ASSUME ConstantsOK, IInv, NEW c \in Callers, NEW n \in Names, NEW scope \in Folders,
         MemoryPromote(c, n, scope)
  PROVE  IInv'
<1> DEFINE next == [at |-> "truncate", tool |-> "promote", scope |-> scope, name |-> n,
                    fact |-> Candidate(n)]
<1>1. Candidate(n) \in Facts \cup {Torn}
  BY DEF MemoryPromote, Candidate, IInv, TypeOK, Folders
<1>2. next \in Writing /\ Kind(next) /\ next.at = "truncate" /\ next.name = n
      /\ next.fact = Candidate(n)
  BY <1>1 DEF Writing, Kind, Folders
<1>3. call[c] = Idle /\ call' = [call EXCEPT ![c] = next] /\ UNCHANGED <<files, noted>>
      /\ Candidate(n) # Missing /\ \A d \in Callers : ~ Promoting(d, n)
  BY DEF MemoryPromote, Go
<1> HIDE DEF next
<1> QED
  BY <1>2, <1>3, BeginStep

(* Truncating takes the fact out of review; a promotion into live memory   *)
(* truncates another file than the candidate's.                            *)
LEMMA TruncateStep ==
  ASSUME ConstantsOK, IInv, NEW c \in Callers, Truncate(c)
  PROVE  IInv'
<1> DEFINE f == File(c)
           n == call[c].name
           next == [call[c] EXCEPT !.at = "flush"]
<1> USE DEF IInv
<1>1. call[c] \in Writing /\ call[c].at = "truncate" /\ Filling(c)
  BY CallKinds DEF Truncate, Filling
<1>2. f \in Folders \X Names /\ n \in Names /\ call[c].scope \in Folders
  BY <1>1 DEF Writing, File
<1>3. next \in Writing /\ next.at = "flush" /\ next.tool = call[c].tool /\ next.scope = call[c].scope
      /\ next.name = n /\ next.fact = call[c].fact
  BY <1>1 DEF Writing
<1>4. call' = [call EXCEPT ![c] = next]
  BY DEF Truncate, Go
<1> HIDE DEF next
<1>5. call'[c] = next /\ \A d \in Callers : d # c => call'[d] = call[d]
  BY <1>4 DEF TypeOK
<1>6. files'[f] = Torn /\ (\A g \in Folders \X Names : g # f => files'[g] = files[g])
      /\ files' \in [Folders \X Names -> Facts \cup {Missing, Torn}]
  BY <1>2 DEF Truncate, TypeOK, File
<1>7. /\ noted'[n] = IF GoesLive(call[c]) THEN noted[n] ELSE Missing
      /\ \A m \in Names : m # n => noted'[m] = noted[m]
      /\ noted' \in [Names -> Facts \cup {Missing}]
  BY <1>2 DEF Truncate, TypeOK
<1>8. \A d \in Callers : call[d].at = "flush" => File(d) # f
  BY DEF Truncate, File
<1>9. GoesLive(call[c]) => call[c].tool = "promote" /\ call[c].scope # CANDIDATES_SCOPE
  BY DEF GoesLive
<1>10. TypeOK'
  BY <1>3, <1>4, <1>6, <1>7 DEF TypeOK
<1>11. KindsOK'
  BY <1>1, <1>3, <1>5 DEF KindsOK, Filling, Kind
<1>12. OnePromoter'
  <2>1. \A d \in Callers, m \in Names : Promoting(d, m)' => Promoting(d, m)
    BY <1>1, <1>3, <1>5 DEF Promoting
  <2> QED
    BY <2>1 DEF OnePromoter
<1>13. OneFlusher'
  BY <1>3, <1>5, <1>8 DEF OneFlusher, File
<1>14. Hollow'
  <2> SUFFICES ASSUME NEW d \in Callers, call'[d].at = "flush"
               PROVE  files'[File(d)'] \in {Torn, Missing}
    BY DEF Hollow
  <2>1. CASE d = c
    BY <1>3, <1>5, <1>6, <2>1 DEF File
  <2>2. CASE d # c
    <3>1. File(d)' = File(d) /\ call[d].at = "flush"
      BY <1>5, <2>2 DEF File
    <3>2. File(d) \in Folders \X Names
      BY <3>1, CallKinds DEF Filling, Writing, File
    <3> QED
      BY <1>6, <1>8, <3>1, <3>2 DEF Hollow
  <2> QED
    BY <2>1, <2>2
(* Where something is still noted, the candidate is as it was.             *)
<1>15. \A m \in Names : noted'[m] # Missing => noted'[m] = noted[m] /\ Candidate(m)' = Candidate(m)
  <2> SUFFICES ASSUME NEW m \in Names, noted'[m] # Missing
               PROVE  noted'[m] = noted[m] /\ Candidate(m)' = Candidate(m)
    OBVIOUS
  <2>1. <<CANDIDATES_SCOPE, m>> \in Folders \X Names
    BY DEF Folders
  <2>2. <<CANDIDATES_SCOPE, m>> # f
    BY <1>7, <1>9 DEF File
  <2> QED
    BY <1>6, <1>7, <2>1, <2>2 DEF Candidate
<1>16. Queued'
  BY <1>15 DEF Queued
<1>17. UnderReview'
  <2> SUFFICES ASSUME NEW d \in Callers, Filling(d)', call'[d].tool = "promote",
                      noted'[call'[d].name] # Missing
               PROVE  /\ call'[d].fact = noted'[call'[d].name]
                      /\ files'[<<CANDIDATES_SCOPE, call'[d].name>>] = noted'[call'[d].name]
                      /\ call'[d].at = "flush" => files'[File(d)'] = Torn
    BY DEF UnderReview, Candidate
  <2>1. CASE d = c
    BY <1>1, <1>2, <1>3, <1>5, <1>6, <1>15, <2>1 DEF UnderReview, File, Candidate
  <2>2. CASE d # c
    <3>1. call'[d] = call[d] /\ Filling(d) /\ File(d)' = File(d)
      BY <1>5, <2>2 DEF Filling, File
    <3>2. File(d) \in Folders \X Names /\ call[d].name \in Names
      BY <3>1, CallKinds DEF Writing, File
    <3> QED
      BY <1>6, <1>8, <1>15, <3>1, <3>2 DEF UnderReview, Candidate
  <2> QED
    BY <2>1, <2>2
<1>18. Promoted'
  <2> SUFFICES ASSUME NEW d \in Callers, call'[d].at = "unlink", noted'[call'[d].name] # Missing
               PROVE  \E s \in Scopes : files'[<<s, call'[d].name>>] = noted'[call'[d].name]
    BY DEF Promoted
  <2>1. d # c /\ call'[d] = call[d] /\ call[d].name \in Names
    BY <1>3, <1>5, CallKinds DEF Unlinking
  <2>2. call[d].name # n
    BY <1>1, <1>2, <1>7, <1>9, <2>1 DEF OnePromoter, Promoting
  <2>3. PICK s \in Scopes : files[<<s, call[d].name>>] = noted[call[d].name]
    BY <1>15, <2>1 DEF Promoted
  <2> QED
    BY <1>6, <1>7, <2>1, <2>2, <2>3 DEF File, Folders
<1>19. NotedIsKept'
  <2> SUFFICES ASSUME NEW m \in Names, noted'[m] # Missing
               PROVE  \E s \in Folders : files'[<<s, m>>] = noted'[m]
    BY DEF NotedIsKept
  <2>1. CASE m = n
    <3>1. Candidate(m) = noted[m]
      BY <1>1, <1>7, <1>9, <1>15, <2>1 DEF UnderReview
    <3> QED
      BY <1>15, <3>1 DEF Candidate, Folders
  <2>2. CASE m # n
    <3>1. PICK s \in Folders : files[<<s, m>>] = noted[m]
      BY <1>15 DEF NotedIsKept
    <3>2. <<s, m>> \in Folders \X Names /\ <<s, m>> # f
      BY <2>2 DEF File
    <3> QED
      BY <1>6, <1>15, <3>1, <3>2
  <2> QED
    BY <2>1, <2>2
<1> QED
  BY <1>10, <1>11, <1>12, <1>13, <1>14, <1>16, <1>17, <1>18, <1>19

(* The fact goes into a file that holds none, or nowhere.                  *)
LEMMA FlushStep ==
  ASSUME ConstantsOK, IInv, NEW c \in Callers, Flush(c)
  PROVE  IInv'
<1> DEFINE f == File(c)
           n == call[c].name
           gone == files[f] = Missing
           next == IF call[c].tool = "promote" THEN [at |-> "unlink", name |-> n] ELSE Idle
<1> USE DEF IInv
<1>1. call[c] \in Writing /\ call[c].at = "flush" /\ Filling(c) /\ Kind(call[c])
  BY CallKinds DEF Flush, Filling, KindsOK
<1>2. f \in Folders \X Names /\ n \in Names /\ call[c].scope \in Folders
      /\ call[c].fact \in Facts \cup {Torn} /\ f = <<call[c].scope, n>>
  BY <1>1 DEF Writing, File
<1>3. /\ next \in {Idle} \cup Unlinking /\ next.at \in {"idle", "unlink"}
      /\ next.at = "unlink" => call[c].tool = "promote" /\ next.name = n
  BY <1>2 DEF Unlinking, Idle
<1>4. call' = [call EXCEPT ![c] = next]
  BY DEF Flush, Go
<1> HIDE DEF next
<1>5. call'[c] = next /\ \A d \in Callers : d # c => call'[d] = call[d]
  BY <1>4 DEF TypeOK
<1>6. /\ files'[f] = IF gone THEN Missing ELSE call[c].fact
      /\ \A g \in Folders \X Names : g # f => files'[g] = files[g]
      /\ files' \in [Folders \X Names -> Facts \cup {Missing, Torn}]
  BY <1>2 DEF Flush, TypeOK, File
<1>7. files[f] \in {Torn, Missing}
  BY <1>1 DEF Hollow
<1>8. CASE call[c].tool = "stage" /\ ~ gone /\ \A d \in Callers : ~ Promoting(d, n)
  <2>1. f = <<CANDIDATES_SCOPE, n>> /\ call[c].fact \in Facts
    BY <1>1, <1>2, <1>8 DEF Kind
  <2>2. noted' = [noted EXCEPT ![n] = call[c].fact]
    BY <1>8 DEF Flush, File
  <2>3. noted'[n] = call[c].fact /\ (\A m \in Names : m # n => noted'[m] = noted[m])
        /\ noted' \in [Names -> Facts \cup {Missing}]
    BY <1>2, <2>1, <2>2 DEF TypeOK
  <2>4. TypeOK'
    BY <1>3, <1>4, <1>6, <2>3 DEF TypeOK
  <2>5. KindsOK' /\ OneFlusher'
    BY <1>3, <1>5 DEF KindsOK, Filling, OneFlusher, File
  <2>6. OnePromoter'
    BY <1>3, <1>5, <1>8 DEF OnePromoter, Promoting
  <2>7. Hollow'
    BY <1>1, <1>3, <1>5, <1>6, CallKinds DEF Hollow, OneFlusher, Filling, Writing, File
  <2>8. Queued'
    BY <1>6, <1>8, <2>1, <2>3 DEF Queued, Candidate, Folders
  <2>9. UnderReview'
    <3> SUFFICES ASSUME NEW d \in Callers, Filling(d)', call'[d].tool = "promote",
                        noted'[call'[d].name] # Missing
                 PROVE  /\ call'[d].fact = noted'[call'[d].name]
                        /\ files'[<<CANDIDATES_SCOPE, call'[d].name>>] = noted'[call'[d].name]
                        /\ call'[d].at = "flush" => files'[File(d)'] = Torn
      BY DEF UnderReview, Candidate
    <3>1. d # c /\ call'[d] = call[d] /\ Filling(d) /\ File(d)' = File(d)
      BY <1>3, <1>5 DEF Filling, File
    <3>2. call[d] \in Writing /\ call[d].name # n
      BY <1>8, <3>1, CallKinds DEF Filling, Promoting
    <3>3. call[d].name \in Names /\ File(d) \in Folders \X Names /\ File(d) # f
          /\ <<CANDIDATES_SCOPE, call[d].name>> # f
          /\ <<CANDIDATES_SCOPE, call[d].name>> \in Folders \X Names
      BY <1>2, <3>2 DEF Writing, File, Folders
    <3> QED
      BY <1>6, <2>3, <3>1, <3>2, <3>3 DEF UnderReview, Candidate
  <2>10. Promoted'
    <3> SUFFICES ASSUME NEW d \in Callers, call'[d].at = "unlink", noted'[call'[d].name] # Missing
                 PROVE  \E s \in Scopes : files'[<<s, call'[d].name>>] = noted'[call'[d].name]
      BY DEF Promoted
    <3>1. d # c /\ call'[d] = call[d] /\ call[d].name \in Names /\ call[d].name # n
      BY <1>3, <1>5, <1>8, CallKinds DEF Unlinking, Promoting
    <3>2. PICK s \in Scopes : files[<<s, call[d].name>>] = noted[call[d].name]
      BY <2>3, <3>1 DEF Promoted
    <3> QED
      BY <1>2, <1>6, <2>3, <3>1, <3>2 DEF Folders
  <2>11. NotedIsKept'
    <3> SUFFICES ASSUME NEW m \in Names, noted'[m] # Missing
                 PROVE  \E s \in Folders : files'[<<s, m>>] = noted'[m]
      BY DEF NotedIsKept
    <3>1. CASE m = n
      BY <1>2, <1>6, <1>8, <2>3, <3>1
    <3>2. CASE m # n
      <4>1. PICK s \in Folders : files[<<s, m>>] = noted[m]
        BY <2>3, <3>2 DEF NotedIsKept
      <4> QED
        BY <1>2, <1>6, <2>3, <3>2, <4>1
    <3> QED
      BY <3>1, <3>2
  <2> QED
    BY <2>4, <2>5, <2>6, <2>7, <2>8, <2>9, <2>10, <2>11
<1>9. CASE ~ (call[c].tool = "stage" /\ ~ gone /\ \A d \in Callers : ~ Promoting(d, n))
  <2>1. noted' = noted
    BY <1>9 DEF Flush, File
  <2>2. TypeOK'
    BY <1>3, <1>4, <1>6, <2>1 DEF TypeOK
  <2>3. KindsOK' /\ OneFlusher'
    BY <1>3, <1>5 DEF KindsOK, Filling, OneFlusher, File
  <2>4. OnePromoter'
    <3>1. \A d \in Callers, m \in Names : Promoting(d, m)' => Promoting(d, m)
      BY <1>1, <1>3, <1>5 DEF Promoting
    <3> QED
      BY <3>1 DEF OnePromoter
  <2>5. Hollow'
    BY <1>1, <1>3, <1>5, <1>6, CallKinds DEF Hollow, OneFlusher, Filling, Writing, File
(* What is noted and in some file is not in this one.                      *)
  <2>6. ASSUME NEW m \in Names, NEW s \in Folders, noted[m] # Missing, files[<<s, m>>] = noted[m]
        PROVE  files'[<<s, m>>] = noted[m]
    <3>1. noted[m] \in Facts
      BY <2>6 DEF TypeOK
    <3>2. <<s, m>> # f
      BY <1>7, <2>6, <3>1 DEF ConstantsOK
    <3> QED
      BY <1>6, <2>6, <3>2
  <2>7. Queued'
    <3> SUFFICES ASSUME NEW m \in Names, noted[m] # Missing
                 PROVE  files'[<<CANDIDATES_SCOPE, m>>] \in {noted[m], Missing}
      BY <2>1 DEF Queued, Candidate
    <3>1. CANDIDATES_SCOPE \in Folders
      BY DEF Folders
    <3>2. CASE files[<<CANDIDATES_SCOPE, m>>] = noted[m]
      BY <2>6, <3>1, <3>2
    <3>3. CASE files[<<CANDIDATES_SCOPE, m>>] = Missing
      BY <1>6, <3>1, <3>3
    <3> QED
      BY <3>2, <3>3 DEF Queued, Candidate
  <2>8. UnderReview'
    <3> SUFFICES ASSUME NEW d \in Callers, Filling(d)', call'[d].tool = "promote",
                        noted[call'[d].name] # Missing
                 PROVE  /\ call'[d].fact = noted[call'[d].name]
                        /\ files'[<<CANDIDATES_SCOPE, call'[d].name>>] = noted[call'[d].name]
                        /\ call'[d].at = "flush" => files'[File(d)'] = Torn
      BY <2>1 DEF UnderReview, Candidate
    <3>1. d # c /\ call'[d] = call[d] /\ Filling(d) /\ File(d)' = File(d)
      BY <1>3, <1>5 DEF Filling, File
    <3>2. call[d].name \in Names /\ File(d) \in Folders \X Names /\ CANDIDATES_SCOPE \in Folders
      BY <3>1, CallKinds DEF Writing, File, Folders
    <3>3. call[d].at = "flush" => File(d) # f
      BY <1>1, <3>1 DEF OneFlusher
    <3> QED
      BY <1>6, <2>6, <3>1, <3>2, <3>3 DEF UnderReview, Candidate
  <2>9. Promoted'
    <3> SUFFICES ASSUME NEW d \in Callers, call'[d].at = "unlink", noted[call'[d].name] # Missing
                 PROVE  \E s \in Scopes : files'[<<s, call'[d].name>>] = noted[call'[d].name]
      BY <2>1 DEF Promoted
    <3>1. CASE d = c
      <4>1. call[c].tool = "promote" /\ call'[d].name = n
        BY <1>3, <1>5, <3>1
      <4>2. files[f] = Torn /\ call[c].fact = noted[n] /\ Candidate(n) = noted[n]
        BY <1>1, <1>2, <3>1, <4>1 DEF UnderReview
      <4>3. noted[n] \in Facts
        BY <1>2, <3>1, <4>1 DEF TypeOK
      <4>4. call[c].scope \in Scopes
        BY <1>2, <4>2, <4>3 DEF Candidate, Folders, ConstantsOK
      <4> QED
        BY <1>2, <1>6, <4>1, <4>2, <4>4 DEF ConstantsOK
    <3>2. CASE d # c
      <4>1. call'[d] = call[d] /\ call[d].name \in Names
        BY <1>5, <3>2, CallKinds DEF Unlinking
      <4> QED
        BY <2>6, <4>1 DEF Promoted, Folders
    <3> QED
      BY <3>1, <3>2
  <2>10. NotedIsKept'
    BY <2>1, <2>6 DEF NotedIsKept
  <2> QED
    BY <2>2, <2>3, <2>4, <2>5, <2>7, <2>8, <2>9, <2>10
<1> QED
  BY <1>8, <1>9

(* The candidate goes; its fact is in live memory.                         *)
LEMMA UnlinkStep ==
  ASSUME ConstantsOK, IInv, NEW c \in Callers, UnlinkCandidate(c)
  PROVE  IInv'
<1> DEFINE n == call[c].name
           f == <<CANDIDATES_SCOPE, n>>
<1> USE DEF IInv
<1>1. call[c] \in Unlinking /\ call[c].at = "unlink" /\ n \in Names /\ f \in Folders \X Names
  BY CallKinds DEF UnlinkCandidate, Unlinking, Folders
<1>2. noted' = noted /\ call' = [call EXCEPT ![c] = Idle]
  BY DEF UnlinkCandidate, Go
<1>3. call'[c].at = "idle" /\ \A d \in Callers : d # c => call'[d] = call[d]
  BY <1>2 DEF TypeOK, Idle
<1>4. files'[f] = Missing /\ (\A g \in Folders \X Names : g # f => files'[g] = files[g])
      /\ files' \in [Folders \X Names -> Facts \cup {Missing, Torn}]
  BY <1>1 DEF UnlinkCandidate, TypeOK
<1>5. TypeOK'
  BY <1>2, <1>4 DEF TypeOK
<1>6. KindsOK' /\ OnePromoter' /\ OneFlusher'
  BY <1>3 DEF KindsOK, Filling, OnePromoter, Promoting, OneFlusher, File
<1>7. Hollow'
  BY <1>3, <1>4, CallKinds DEF Hollow, Filling, Writing, File
<1>8. Queued'
  <2> SUFFICES ASSUME NEW m \in Names, noted[m] # Missing
               PROVE  files'[<<CANDIDATES_SCOPE, m>>] \in {noted[m], Missing}
    BY <1>2 DEF Queued, Candidate
  <2> QED
    BY <1>4 DEF Queued, Candidate, Folders
<1>9. UnderReview'
  <2> SUFFICES ASSUME NEW d \in Callers, Filling(d)', call'[d].tool = "promote",
                      noted[call'[d].name] # Missing
               PROVE  /\ call'[d].fact = noted[call'[d].name]
                      /\ files'[<<CANDIDATES_SCOPE, call'[d].name>>] = noted[call'[d].name]
                      /\ call'[d].at = "flush" => files'[File(d)'] = Torn
    BY <1>2 DEF UnderReview, Candidate
  <2>1. d # c /\ call'[d] = call[d] /\ Filling(d) /\ File(d)' = File(d)
    BY <1>3 DEF Filling, File
  <2>2. call[d].name \in Names /\ File(d) \in Folders \X Names
    BY <2>1, CallKinds DEF Writing, File
  <2>3. call[d].name # n
    BY <1>1, <2>1, <2>2 DEF OnePromoter, Promoting, Filling
  <2> QED
    BY <1>4, <2>1, <2>2, <2>3 DEF UnderReview, Candidate, Folders, File
<1>10. Promoted'
  <2> SUFFICES ASSUME NEW d \in Callers, call'[d].at = "unlink", noted[call'[d].name] # Missing
               PROVE  \E s \in Scopes : files'[<<s, call'[d].name>>] = noted[call'[d].name]
    BY <1>2 DEF Promoted
  <2>1. d # c /\ call'[d] = call[d] /\ call[d].name \in Names
    BY <1>3, CallKinds DEF Unlinking
  <2>2. PICK s \in Scopes : files[<<s, call[d].name>>] = noted[call[d].name]
    BY <2>1 DEF Promoted
  <2> QED
    BY <1>4, <2>1, <2>2 DEF Folders, ConstantsOK
<1>11. NotedIsKept'
  <2> SUFFICES ASSUME NEW m \in Names, noted[m] # Missing
               PROVE  \E s \in Folders : files'[<<s, m>>] = noted[m]
    BY <1>2 DEF NotedIsKept
  <2>1. CASE m = n
    <3>1. PICK s \in Scopes : files[<<s, n>>] = noted[n]
      BY <1>1, <2>1 DEF Promoted
    <3> QED
      BY <1>1, <1>4, <2>1, <3>1 DEF Folders, ConstantsOK
  <2>2. CASE m # n
    <3>1. PICK s \in Folders : files[<<s, m>>] = noted[m]
      BY DEF NotedIsKept
    <3> QED
      BY <1>4, <2>2, <3>1
  <2> QED
    BY <2>1, <2>2
<1> QED
  BY <1>5, <1>6, <1>7, <1>8, <1>9, <1>10, <1>11

(* Whoever deletes a memory takes its fact out of review.                  *)
LEMMA DeleteStep ==
  ASSUME ConstantsOK, IInv, NEW scope \in Folders, NEW n \in Names, MemoryDelete(scope, n)
  PROVE  IInv'
<1> DEFINE f == <<scope, n>>
<1> USE DEF IInv
<1>1. call' = call
  BY DEF MemoryDelete
<1>2. files'[f] = Missing /\ (\A g \in Folders \X Names : g # f => files'[g] = files[g])
      /\ files' \in [Folders \X Names -> Facts \cup {Missing, Torn}]
  BY DEF MemoryDelete, TypeOK
<1>3. noted'[n] = Missing /\ (\A m \in Names : m # n => noted'[m] = noted[m])
      /\ noted' \in [Names -> Facts \cup {Missing}]
  BY DEF MemoryDelete, TypeOK
<1>4. TypeOK' /\ KindsOK' /\ OnePromoter' /\ OneFlusher'
  BY <1>1, <1>2, <1>3 DEF TypeOK, KindsOK, Filling, OnePromoter, Promoting, OneFlusher, File
<1>5. Hollow'
  <2> SUFFICES ASSUME NEW d \in Callers, call[d].at = "flush"
               PROVE  files'[File(d)] \in {Torn, Missing}
    BY <1>1 DEF Hollow, File
  <2>1. File(d) \in Folders \X Names
    BY CallKinds DEF Filling, Writing, File
  <2> QED
    BY <1>2, <2>1 DEF Hollow
(* The files of what is still noted are as they were.                      *)
<1>6. \A m \in Names : noted'[m] # Missing =>
        noted'[m] = noted[m] /\ \A s \in Folders : files'[<<s, m>>] = files[<<s, m>>]
  BY <1>2, <1>3
<1>7. Queued' /\ NotedIsKept'
  BY <1>6 DEF Queued, Candidate, NotedIsKept, Folders
<1>8. UnderReview'
  <2> SUFFICES ASSUME NEW d \in Callers, Filling(d), call[d].tool = "promote",
                      noted'[call[d].name] # Missing
               PROVE  /\ call[d].fact = noted'[call[d].name]
                      /\ files'[<<CANDIDATES_SCOPE, call[d].name>>] = noted'[call[d].name]
                      /\ call[d].at = "flush" => files'[File(d)] = Torn
    BY <1>1 DEF UnderReview, Candidate, Filling, File
  <2>1. call[d].name \in Names /\ call[d].scope \in Folders /\ CANDIDATES_SCOPE \in Folders
    BY CallKinds DEF Writing, Folders
  <2> QED
    BY <1>6, <2>1 DEF UnderReview, Candidate, File
<1>9. Promoted'
  <2> SUFFICES ASSUME NEW d \in Callers, call[d].at = "unlink", noted'[call[d].name] # Missing
               PROVE  \E s \in Scopes : files'[<<s, call[d].name>>] = noted'[call[d].name]
    BY <1>1 DEF Promoted
  <2>1. call[d].name \in Names
    BY CallKinds DEF Unlinking
  <2> QED
    BY <1>6, <2>1 DEF Promoted, Folders
<1> QED
  BY <1>4, <1>5, <1>7, <1>8, <1>9

LEMMA RestartStep ==
  ASSUME IInv, Restart \/ UNCHANGED vars
  PROVE  IInv'
<1> USE DEF IInv
<1>1. UNCHANGED <<files, noted>>
  BY DEF Restart, vars
<1>2. CASE Restart
  <2>1. \A c \in Callers : call'[c] = Idle /\ call'[c].at = "idle"
    BY <1>2 DEF Restart, Idle
  <2>2. TypeOK'
    BY <1>1, <1>2 DEF Restart, TypeOK
  <2> QED
    BY <1>1, <2>1, <2>2 DEF KindsOK, Filling, OnePromoter, Promoting, OneFlusher, Hollow, Queued,
                            Candidate, UnderReview, Promoted, NotedIsKept
<1>3. CASE UNCHANGED vars
  BY <1>3 DEF vars, TypeOK, KindsOK, Filling, Kind, OnePromoter, Promoting, OneFlusher, File,
              Hollow, Queued, Candidate, UnderReview, Promoted, NotedIsKept
<1> QED
  BY <1>2, <1>3

-----------------------------------------------------------------------------
LEMMA NextStep ==
  ASSUME ConstantsOK, IInv, [Next]_vars
  PROVE  IInv'
<1>1. ASSUME NEW c \in Callers, Truncate(c) \/ Flush(c) \/ UnlinkCandidate(c)
      PROVE  IInv'
  BY <1>1, TruncateStep, FlushStep, UnlinkStep
<1>2. ASSUME NEW c \in Callers, NEW n \in Names, NEW fact \in Facts,
             MemoryNote(c, n, fact) \/ Learn(c, n, fact)
               \/ \E scope \in Folders : MemoryWrite(c, scope, n, fact)
      PROVE  IInv'
  BY <1>2, WriteStep DEF MemoryNote, Learn
<1>3. ASSUME NEW c \in Callers, NEW n \in Names, NEW scope \in Folders, MemoryPromote(c, n, scope)
      PROVE  IInv'
  BY <1>3, PromoteStep
<1>4. ASSUME NEW n \in Names, MemoryReject(n) \/ \E scope \in Folders : MemoryDelete(scope, n)
      PROVE  IInv'
  BY <1>4, DeleteStep DEF MemoryReject, Folders
<1>5. CASE Restart \/ UNCHANGED vars
  BY <1>5, RestartStep
<1> QED
  BY <1>1, <1>2, <1>3, <1>4, <1>5 DEF Next

(* A fact staged for review is not lost by a promotion into live memory,   *)
(* a crash or another call that overlaps (memory.py memory_promote,        *)
(* learn.py): it is in the queue or in live memory until a memory of its   *)
(* name is deleted or rewritten, or it is promoted into the queue.         *)
THEOREM NoFactLost == ConstantsOK => (Spec => [](TypeOK /\ NotedIsKept))
<1> SUFFICES ASSUME ConstantsOK PROVE Spec => [](TypeOK /\ NotedIsKept)
  OBVIOUS
<1>1. Init => IInv
  BY InitInv
<1>2. IInv /\ [Next]_vars => IInv'
  BY NextStep
<1>3. IInv => TypeOK /\ NotedIsKept
  BY DEF IInv
<1> QED
  BY <1>1, <1>2, <1>3, PTL DEF Spec
=============================================================================
