--------------------------- MODULE NetGuard_proofs ---------------------------
(***************************************************************************)
(* Proofs about NetGuard, for every finite set of threads, every set of    *)
(* hosts and addresses.                                                    *)
(*                                                                         *)
(* The reference counts are the whole argument: guarded[k] is the number   *)
(* of threads counted for k, so a thread in a guarded call keeps Active    *)
(* true, and Active fixes what the two function globals hold whenever the  *)
(* lock is free.  The four patching steps are the only windows where they  *)
(* disagree, and no thread is in a guarded call during any of them.        *)
(***************************************************************************)
EXTENDS NetGuard, FiniteSetTheorems, TLAPS

Patching == {"save", "install", "restore", "clear"}
Counting == {"save", "install", "body"}
Holders(k) == {t \in Threads : host[t] = k /\ pc[t] \in Counting}

LockInv == \A t \in Threads : pc[t] \in Patching <=> lock = t

CountInv == \A k \in Hosts : guarded[k] = Cardinality(Holders(k))

PatchInv ==
  /\ lock = NoThread =>
       IF Active THEN getaddrinfo = "filtered" /\ orig = "original"
                 ELSE getaddrinfo = "original" /\ orig = "none"
  /\ \A t \in Threads :
       /\ pc[t] = "save" => getaddrinfo = "original" /\ orig = "none"
       /\ pc[t] = "install" => orig = "original"
       /\ pc[t] = "restore" => orig = "original"
       /\ pc[t] = "clear" => getaddrinfo = "original"
       /\ pc[t] \in {"restore", "clear"} => ~ Active

(* Nobody is in a guarded call while another thread patches.               *)
BodyInv ==
  \A s, t \in Threads : pc[s] = "body" => pc[t] \notin Patching

LookInv ==
  \A t \in Threads :
    /\ look[t] # "none" => pc[t] \in {"check", "body"}
    /\ pc[t] = "body" /\ look[t] # "none" => fn[t] = "filtered"
    /\ pc[t] = "body" /\ look[t] = "answered" => res[t] \subseteq Permitted

IInv == TypeOK /\ LockInv /\ CountInv /\ PatchInv /\ BodyInv /\ LookInv

-----------------------------------------------------------------------------
(* Types.  Restore rebinds getaddrinfo to orig, which is a function there  *)
(* only because of PatchInv.                                               *)

LEMMA TypeInit == Init => TypeOK
BY DEF Init, TypeOK, Control, Progress

LEMMA TypeStep ==
  ASSUME TypeOK, PatchInv, [Next]_vars
  PROVE  TypeOK'
<1> USE DEF TypeOK, Control, Progress, Goto, Looking, globals, lookup
<1>1. CASE UNCHANGED vars
  BY <1>1 DEF vars
<1>2. ASSUME NEW t \in Threads, Fetch(t) PROVE TypeOK'
  BY <1>2 DEF Fetch
<1>3. ASSUME NEW t \in Threads, Resolve(t) PROVE TypeOK'
  BY <1>3 DEF Resolve
<1>4. ASSUME NEW t \in Threads, CallNone(t) PROVE TypeOK'
  BY <1>4 DEF CallNone
<1>5. ASSUME NEW t \in Threads, Screen(t) PROVE TypeOK'
  <2>1. Screened(t) \in SUBSET Addr
    BY DEF Screened
  <2> QED
    BY <1>5, <2>1 DEF Screen
<1>6. ASSUME NEW t \in Threads, Check(t) \/ Return(t) PROVE TypeOK'
  BY <1>6 DEF Check, Return
<1>7. ASSUME NEW t \in Threads, Verdict(t) \/ Proceed(t) PROVE TypeOK'
  BY <1>7 DEF Verdict, Proceed
<1>8. ASSUME NEW t \in Threads, Enter(t) PROVE TypeOK'
  BY <1>8 DEF Enter
<1>9. ASSUME NEW t \in Threads, Leave(t) PROVE TypeOK'
  <2>1. Released(host[t]) \in [Hosts -> Nat]
    BY DEF Released
  <2> QED
    BY <1>9, <2>1 DEF Leave
<1>10. ASSUME NEW t \in Threads, HoldingLock(t) PROVE TypeOK'
  BY <1>10 DEF HoldingLock, Save, Install, Restore, Clear, PatchInv
<1> QED
  BY <1>1, <1>2, <1>3, <1>4, <1>5, <1>6, <1>7, <1>8, <1>9, <1>10 DEF Next

-----------------------------------------------------------------------------
(* Counting.                                                               *)

LEMMA HoldersFinite == \A k : IsFiniteSet(Holders(k))
<1> TAKE k
<1>1. Holders(k) \subseteq Threads
  BY DEF Holders
<1> QED
  BY <1>1, ThreadsFinite, FS_Subset

(* A guard is active exactly when some thread is counted.                  *)
Held == \E t \in Threads : pc[t] \in Counting

LEMMA ActiveIffHeld == TypeOK /\ CountInv => (Active <=> Held)
<1> SUFFICES ASSUME TypeOK, CountInv PROVE Active <=> Held
  OBVIOUS
<1>1. \A k \in Hosts : guarded[k] > 0 <=> Holders(k) # {}
  BY HoldersFinite, FS_EmptySet, FS_CardinalityType DEF CountInv, TypeOK
<1>2. \A t \in Threads : pc[t] \in Counting => t \in Holders(host[t]) /\ host[t] \in Hosts
  BY DEF Holders, TypeOK
<1>3. \A k \in Hosts : \A t \in Holders(k) : t \in Threads /\ pc[t] \in Counting
  BY DEF Holders
<1> QED
  BY <1>1, <1>2, <1>3 DEF Active, Held

(* A step that counts no thread in or out leaves the counts right.         *)
LEMMA CountKept ==
  ASSUME TypeOK, CountInv, guarded' = guarded, host' = host,
         \A t \in Threads : pc'[t] \in Counting <=> pc[t] \in Counting
  PROVE  CountInv'
<1>1. \A k \in Hosts : Holders(k)' = Holders(k)
  BY DEF Holders
<1> QED
  BY <1>1 DEF CountInv

LEMMA CountEnter ==
  ASSUME TypeOK, CountInv, NEW t \in Threads, Enter(t)
  PROVE  CountInv'
<1>1. PICK k \in Hosts : /\ host' = [host EXCEPT ![t] = k]
                         /\ guarded' = [guarded EXCEPT ![k] = @ + 1]
  BY DEF Enter
<1>2. pc[t] \notin Counting /\ pc' \in [Threads -> Control] /\ pc'[t] \in Counting
      /\ \A s \in Threads \ {t} : pc'[s] = pc[s]
  BY DEF Enter, Goto, TypeOK, Counting, Control
<1>3. Holders(k)' = Holders(k) \cup {t} /\ t \notin Holders(k)
  BY <1>1, <1>2 DEF Holders, TypeOK
<1>4. Cardinality(Holders(k)') = Cardinality(Holders(k)) + 1
  BY <1>3, HoldersFinite, FS_AddElement
<1>5. \A j \in Hosts \ {k} : Holders(j)' = Holders(j)
  BY <1>1, <1>2 DEF Holders, TypeOK
<1> QED
  BY <1>1, <1>4, <1>5 DEF CountInv, TypeOK

LEMMA CountLeave ==
  ASSUME TypeOK, CountInv, NEW t \in Threads, Leave(t)
  PROVE  CountInv'
<1> DEFINE k == host[t]
<1>1. k \in Hosts /\ host' = host /\ guarded' = Released(k)
  BY DEF Leave, TypeOK
<1>2. pc[t] = "body" /\ pc'[t] \notin Counting /\ \A s \in Threads \ {t} : pc'[s] = pc[s]
  BY DEF Leave, Goto, TypeOK, Counting
<1>3. Holders(k)' = Holders(k) \ {t} /\ t \in Holders(k)
  BY <1>1, <1>2 DEF Holders, Counting
<1>4. Cardinality(Holders(k)') = Cardinality(Holders(k)) - 1
  BY <1>3, HoldersFinite, FS_RemoveElement
<1>5. Cardinality(Holders(k)) \in Nat /\ Cardinality(Holders(k)) > 0
  BY <1>3, HoldersFinite, FS_EmptySet, FS_CardinalityType
<1>6. guarded'[k] = guarded[k] - 1 /\ \A j \in Hosts \ {k} : guarded'[j] = guarded[j]
  BY <1>1, <1>5 DEF Released, CountInv, TypeOK
<1>7. \A j \in Hosts \ {k} : Holders(j)' = Holders(j)
  BY <1>1, <1>2 DEF Holders
<1> QED
  BY <1>1, <1>4, <1>6, <1>7 DEF CountInv

-----------------------------------------------------------------------------
(* The inductive invariant, action by action.                              *)

LEMMA IInvInit == Init => IInv
<1> SUFFICES ASSUME Init PROVE IInv
  OBVIOUS
<1>1. TypeOK
  BY TypeInit
<1>2. CountInv
  <2>1. \A k \in Hosts : Holders(k) = {} /\ guarded[k] = 0
    BY DEF Init, Holders, Counting
  <2> QED
    BY <2>1, FS_EmptySet DEF CountInv
<1>3. ~ Active
  BY DEF Init, Active
<1>4. LockInv /\ PatchInv /\ BodyInv /\ LookInv
  BY <1>3, NoThreadIsNone DEF Init, LockInv, PatchInv, BodyInv, LookInv, Patching
<1> QED
  BY <1>1, <1>2, <1>4 DEF IInv

(* A step of a lookup disturbs neither the globals nor the control state.  *)
LEMMA QuietStep ==
  ASSUME IInv, globals' = globals, pc' = pc, host' = host
  PROVE  LockInv' /\ CountInv' /\ PatchInv' /\ BodyInv'
<1> USE DEF globals
<1>1. CountInv'
  BY CountKept DEF IInv
<1>2. Active' = Active
  BY DEF Active
<1> QED
  BY <1>1, <1>2 DEF IInv, LockInv, PatchInv, BodyInv

(* A thread in a guarded call finds the filter installed.                  *)
LEMMA BodyPatched ==
  ASSUME IInv, NEW t \in Threads, pc[t] = "body"
  PROVE  Active /\ lock = NoThread /\ getaddrinfo = "filtered" /\ orig = "original"
<1>1. Active
  BY ActiveIffHeld DEF IInv, Held, Counting
<1>2. lock = NoThread
  BY DEF IInv, LockInv, BodyInv, TypeOK
<1> QED
  BY <1>1, <1>2 DEF IInv, PatchInv

LEMMA LookupStep ==
  ASSUME IInv, NEW t \in Threads,
         Fetch(t) \/ Resolve(t) \/ CallNone(t) \/ Screen(t) \/ Proceed(t)
  PROVE  LockInv' /\ CountInv' /\ PatchInv' /\ BodyInv' /\ LookInv'
<1> USE DEF Looking, TypeOK
<1>1. globals' = globals /\ pc' = pc /\ host' = host
  BY DEF Fetch, Resolve, CallNone, Screen, Proceed
<1>2. LookInv'
  <2>1. CASE Fetch(t)
    BY <2>1, BodyPatched DEF Fetch, LookInv, IInv
  <2>2. CASE Resolve(t)
    BY <2>2 DEF Resolve, LookInv, IInv
  <2>3. CASE CallNone(t)
    BY <2>3 DEF CallNone, CallsNone, LookInv, IInv
  <2>4. CASE Screen(t)
    <3>1. pc[t] = "body" => Screened(t) \subseteq Permitted
      BY BodyPatched DEF Screened
    <3> QED
      BY <2>4, <3>1 DEF Screen, LookInv, IInv
  <2>5. CASE Proceed(t)
    BY <2>5 DEF Proceed, LookInv, IInv
  <2> QED
    BY <2>1, <2>2, <2>3, <2>4, <2>5
<1> QED
  BY <1>1, <1>2, QuietStep

(* Starting, refusing, clearing and ending a dispatcher call: the thread   *)
(* is outside guard() before and after.                                    *)
LEMMA CallStep ==
  ASSUME IInv, NEW t \in Threads, Check(t) \/ Verdict(t) \/ Return(t)
  PROVE  LockInv' /\ CountInv' /\ PatchInv' /\ BodyInv' /\ LookInv'
<1> USE DEF Goto, Looking, TypeOK, globals, lookup
<1>1. globals' = globals /\ host' = host
  BY DEF Check, Verdict, Return
<1>2. /\ pc[t] \in {"idle", "check", "cleared"} /\ pc'[t] \in {"idle", "check", "cleared"}
      /\ \A s \in Threads \ {t} : pc'[s] = pc[s] /\ look'[s] = look[s]
                                 /\ fn'[s] = fn[s] /\ res'[s] = res[s]
      /\ look'[t] = "none"
  BY DEF IInv, Check, Verdict, Return, LookInv, Progress
<1>3. CountInv'
  BY <1>1, <1>2, CountKept DEF IInv, globals, Counting
<1>4. Active' = Active
  BY <1>1 DEF Active
<1>5. LockInv' /\ PatchInv' /\ BodyInv'
  BY <1>1, <1>2, <1>4 DEF IInv, LockInv, PatchInv, BodyInv, Patching
<1>6. LookInv'
  BY <1>2 DEF IInv, LookInv
<1> QED
  BY <1>3, <1>5, <1>6

LEMMA EnterStep ==
  ASSUME IInv, TypeOK', NEW t \in Threads, Enter(t)
  PROVE  LockInv' /\ CountInv' /\ PatchInv' /\ BodyInv' /\ LookInv'
<1> USE DEF Goto, TypeOK, lookup
<1>1. CountInv'
  BY CountEnter DEF IInv
<1>2. /\ pc[t] = "cleared" /\ lock = NoThread /\ look[t] = "none"
      /\ \A s \in Threads \ {t} : pc'[s] = pc[s]
      /\ \A s \in Threads : pc[s] \notin Patching
      /\ getaddrinfo' = getaddrinfo /\ orig' = orig
      /\ look' = look /\ fn' = fn /\ res' = res
  BY NoThreadIsNone DEF Enter, IInv, LockInv, LookInv
<1>3. CASE orig = "none"
  <2>1. /\ lock' = t /\ pc'[t] = "save"
    BY <1>3 DEF Enter, IInv
  <2>2. ~ Active /\ getaddrinfo = "original"
    BY <1>2, <1>3 DEF IInv, PatchInv
  <2>3. \A s \in Threads : pc[s] # "body"
    BY <2>2, BodyPatched
  <2> QED
    BY <1>1, <1>2, <1>3, <2>1, <2>2, <2>3, NoThreadIsNone
       DEF IInv, LockInv, PatchInv, BodyInv, LookInv, Patching
<1>4. CASE orig # "none"
  <2>1. lock' = NoThread /\ pc'[t] = "body"
    BY <1>2, <1>4 DEF Enter, IInv
  <2>2. getaddrinfo = "filtered" /\ orig = "original"
    BY <1>2, <1>4 DEF IInv, PatchInv
  <2>3. Active'
    <3>1. (Active <=> Held)'
      BY <1>1, ActiveIffHeld, PTL
    <3>2. Held'
      BY <2>1 DEF Held, Counting
    <3> QED
      BY <3>1, <3>2
  <2> QED
    BY <1>1, <1>2, <2>1, <2>2, <2>3, NoThreadIsNone
       DEF IInv, LockInv, PatchInv, BodyInv, LookInv, Patching
<1> QED
  BY <1>3, <1>4

LEMMA LeaveStep ==
  ASSUME IInv, TypeOK', NEW t \in Threads, Leave(t)
  PROVE  LockInv' /\ CountInv' /\ PatchInv' /\ BodyInv' /\ LookInv'
<1> USE DEF Goto, TypeOK, lookup
<1>1. CountInv'
  BY CountLeave DEF IInv
<1>2. /\ pc[t] = "body" /\ lock = NoThread /\ look[t] = "none"
      /\ \A s \in Threads \ {t} : pc'[s] = pc[s]
      /\ \A s \in Threads : pc[s] \notin Patching
      /\ getaddrinfo' = getaddrinfo /\ orig' = orig
      /\ look' = look /\ fn' = fn /\ res' = res
  BY NoThreadIsNone DEF Leave, IInv, LockInv
<1>3. getaddrinfo = "filtered" /\ orig = "original"
  BY <1>2, BodyPatched
<1>4. CASE Active'
  <2>1. lock' = NoThread /\ pc'[t] = "cleared"
    BY <1>2, <1>4 DEF Leave, IInv
  <2> QED
    BY <1>1, <1>2, <1>3, <1>4, <2>1, NoThreadIsNone
       DEF IInv, LockInv, PatchInv, BodyInv, LookInv, Patching
<1>5. CASE ~ Active'
  <2>1. lock' = t /\ pc'[t] = "restore"
    BY <1>3, <1>5 DEF Leave, IInv
  <2>2. \A s \in Threads : pc'[s] # "body"
    <3>1. (Active <=> Held)'
      BY <1>1, ActiveIffHeld, PTL
    <3> QED
      BY <1>5, <3>1 DEF Held, Counting
  <2> QED
    BY <1>1, <1>2, <1>3, <1>5, <2>1, <2>2, NoThreadIsNone
       DEF IInv, LockInv, PatchInv, BodyInv, LookInv, Patching
<1> QED
  BY <1>4, <1>5

(* The patching steps: only the lock holder takes them.                    *)
LEMMA HolderStep ==
  ASSUME IInv, TypeOK', NEW t \in Threads, HoldingLock(t)
  PROVE  LockInv' /\ CountInv' /\ PatchInv' /\ BodyInv' /\ LookInv'
<1> USE DEF Goto, TypeOK, lookup
<1>1. /\ guarded' = guarded /\ host' = host
      /\ look' = look /\ fn' = fn /\ res' = res
      /\ \A s \in Threads \ {t} : pc'[s] = pc[s]
      /\ pc[t] \in Patching /\ (pc'[t] \in Counting <=> pc[t] \in Counting)
  BY DEF HoldingLock, Save, Install, Restore, Clear, Patching, Counting, IInv
<1>2. CountInv'
  BY <1>1, CountKept DEF IInv
<1>3. Active' = Active
  BY <1>1 DEF Active
<1>4. lock = t /\ look[t] = "none" /\ \A s \in Threads : pc[s] # "body"
  BY <1>1 DEF IInv, LockInv, LookInv, BodyInv, Patching
<1>5. \A s \in Threads \ {t} : pc[s] \notin Patching /\ pc'[s] \notin Patching
  BY <1>1, <1>4 DEF IInv, LockInv
<1>6. CASE Save(t)
  BY <1>1, <1>2, <1>3, <1>4, <1>5, <1>6, NoThreadIsNone
     DEF Save, IInv, LockInv, PatchInv, BodyInv, LookInv, Patching
<1>7. CASE Install(t)
  <2>1. Active
    BY <1>7, ActiveIffHeld DEF Install, IInv, Held, Counting
  <2> QED
    BY <1>1, <1>2, <1>3, <1>4, <1>5, <1>7, <2>1, NoThreadIsNone
       DEF Install, IInv, LockInv, PatchInv, BodyInv, LookInv, Patching
<1>8. CASE Restore(t)
  BY <1>1, <1>2, <1>3, <1>4, <1>5, <1>8, NoThreadIsNone
     DEF Restore, IInv, LockInv, PatchInv, BodyInv, LookInv, Patching
<1>9. CASE Clear(t)
  BY <1>1, <1>2, <1>3, <1>4, <1>5, <1>9, NoThreadIsNone
     DEF Clear, IInv, LockInv, PatchInv, BodyInv, LookInv, Patching
<1> QED
  BY <1>6, <1>7, <1>8, <1>9 DEF HoldingLock

LEMMA IInvStep == IInv /\ [Next]_vars => IInv'
<1> SUFFICES ASSUME IInv, [Next]_vars PROVE IInv'
  OBVIOUS
<1>1. TypeOK'
  BY TypeStep DEF IInv
<1>2. CASE UNCHANGED vars
  BY <1>1, <1>2, QuietStep DEF IInv, LookInv, vars, globals
<1>3. ASSUME NEW t \in Threads,
             Fetch(t) \/ Resolve(t) \/ CallNone(t) \/ Screen(t) \/ Proceed(t)
      PROVE  IInv'
  BY <1>1, <1>3, LookupStep DEF IInv
<1>4. ASSUME NEW t \in Threads, Check(t) \/ Verdict(t) \/ Return(t) PROVE IInv'
  BY <1>1, <1>4, CallStep DEF IInv
<1>5. ASSUME NEW t \in Threads, Enter(t) PROVE IInv'
  BY <1>1, <1>5, EnterStep DEF IInv
<1>6. ASSUME NEW t \in Threads, Leave(t) PROVE IInv'
  BY <1>1, <1>6, LeaveStep DEF IInv
<1>7. ASSUME NEW t \in Threads, HoldingLock(t) PROVE IInv'
  BY <1>1, <1>7, HolderStep DEF IInv
<1> QED
  BY <1>2, <1>3, <1>4, <1>5, <1>6, <1>7 DEF Next

LEMMA Inductive == Spec => []IInv
BY IInvInit, IInvStep, PTL DEF Spec

-----------------------------------------------------------------------------
(* Every global, program counter, lookup and answer of the guard keeps its *)
(* type: netguard.py:131-133 hold a lock, a dict of positive counts and a  *)
(* function or None at all times.                                          *)
THEOREM TypeCorrect == Spec => []TypeOK
<1>1. IInv => TypeOK
  BY DEF IInv
<1> QED
  BY <1>1, Inductive, PTL

(* The egress policy holds at connect time for any number of concurrent    *)
(* guarded and unguarded lookups (netguard.py:136-155).                    *)
THEOREM GuardFilters == Spec => []GuardedAnswersPermitted
<1>1. IInv => GuardedAnswersPermitted
  BY DEF IInv, LookInv, GuardedAnswersPermitted
<1> QED
  BY <1>1, Inductive, PTL

(* No entry or exit of another thread takes the filter or its saved        *)
(* function away from a guarded call (netguard.py:166-182).                *)
THEOREM GuardHolds == Spec => []GuardedNeverBroken
<1>1. IInv => GuardedNeverBroken
  BY BodyPatched DEF GuardedNeverBroken
<1> QED
  BY <1>1, Inductive, PTL

(* After the last guarded call exits, the process has its own resolver     *)
(* back (netguard.py:180-182).                                             *)
THEOREM GuardRestores == Spec => []RestoredWhenUnguarded
<1>1. IInv => RestoredWhenUnguarded
  <2> SUFFICES ASSUME IInv, lock = NoThread, \A t \in Threads : pc[t] # "body"
               PROVE  getaddrinfo = "original" /\ orig = "none" /\ ~ Active
    BY DEF RestoredWhenUnguarded
  <2>1. \A t \in Threads : pc[t] \notin Patching
    BY NoThreadIsNone DEF IInv, LockInv
  <2>2. ~ Active
    BY <2>1, ActiveIffHeld DEF IInv, Held, Counting, Patching
  <2> QED
    BY <2>2 DEF IInv, PatchInv
<1> QED
  BY <1>1, Inductive, PTL
=============================================================================
