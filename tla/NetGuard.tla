------------------------------ MODULE NetGuard ------------------------------
(***************************************************************************)
(* app/netguard.py: the preflight check_host, and guard(host), the context *)
(* manager that replaces socket.getaddrinfo process-wide while a network   *)
(* call runs.  Tools run in several threads, so the module-global state    *)
(* (_guarded, _orig_getaddrinfo, socket.getaddrinfo) is shared; only       *)
(* _guard_lock protects it, and a lookup reads two of the three globals    *)
(* WITHOUT the lock.  Each of those reads is a step of its own here.       *)
(*                                                                         *)
(* A thread runs one dispatcher call after another: check_host, then, if   *)
(* cleared, any number of guarded network calls (scan_document makes       *)
(* several).  The resolver is the environment: it may answer the same name *)
(* differently each time.                                                  *)
(***************************************************************************)
EXTENDS Naturals, FiniteSets

CONSTANTS
  Threads,     \* worker threads of the server
  Hosts,       \* guard keys: normalised host names
  Addr,        \* addresses a lookup can return
  Permitted,   \* addresses egress may reach: public, or allow-listed
  NoThread     \* nobody holds the lock

ASSUME ThreadsFinite == IsFiniteSet(Threads)
ASSUME NoThreadIsNone == NoThread \notin Threads
ASSUME PermittedAddr == Permitted \subseteq Addr

VARIABLES
  getaddrinfo,   \* what the attribute socket.getaddrinfo is bound to
  orig,          \* _orig_getaddrinfo
  guarded,       \* _guarded: reference count per key (0: the key is absent)
  lock,          \* holder of _guard_lock
  pc,            \* where each thread is in its dispatcher call
  host,          \* the key of the thread's current or last guard
  look,          \* progress of the thread's lookup
  fn,            \* the function object that lookup fetched
  res            \* the addresses that lookup has in hand

globals == <<getaddrinfo, orig, guarded, lock>>
lookup == <<look, fn, res>>
vars == <<getaddrinfo, orig, guarded, lock, pc, host, look, fn, res>>

Control == {"idle", "check", "cleared", "save", "install", "body", "restore", "clear"}
Progress == {"none", "call", "screen", "answered", "failed"}

TypeOK ==
  /\ getaddrinfo \in {"original", "filtered"}
  /\ orig \in {"none", "original", "filtered"}
  /\ guarded \in [Hosts -> Nat]
  /\ lock \in Threads \cup {NoThread}
  /\ pc \in [Threads -> Control]
  /\ host \in [Threads -> Hosts]
  /\ look \in [Threads -> Progress]
  /\ fn \in [Threads -> {"original", "filtered"}]
  /\ res \in [Threads -> SUBSET Addr]

Init ==
  /\ getaddrinfo = "original"
  /\ orig = "none"
  /\ guarded = [k \in Hosts |-> 0]
  /\ lock = NoThread
  /\ pc = [t \in Threads |-> "idle"]
  /\ host \in [Threads -> Hosts]
  /\ look = [t \in Threads |-> "none"]
  /\ fn = [t \in Threads |-> "original"]
  /\ res = [t \in Threads |-> {}]

Goto(t, l) == pc' = [pc EXCEPT ![t] = l]
Looking(t, l) == look' = [look EXCEPT ![t] = l]

-----------------------------------------------------------------------------
(* One lookup: socket.getaddrinfo(name), by check_host or by the client    *)
(* library inside a guarded call.                                          *)

(* The attribute is loaded: from here on the thread runs that function,    *)
(* whatever the attribute is rebound to.                                   *)
Fetch(t) ==
  /\ pc[t] \in {"check", "body"}
  /\ look[t] = "none"
  /\ fn' = [fn EXCEPT ![t] = getaddrinfo]
  /\ Looking(t, "call")
  /\ UNCHANGED <<globals, pc, host, res>>

(* The resolver answers, or raises gaierror.  The filtered function first  *)
(* loads _orig_getaddrinfo, which may be None by now: calling None raises  *)
(* TypeError, which check_host reports as "cannot resolve".                *)
CallsNone(t) == look[t] = "call" /\ fn[t] = "filtered" /\ orig = "none"

Resolve(t) ==
  /\ look[t] = "call"
  /\ ~ CallsNone(t)
  /\ \E answer \in SUBSET Addr :
       /\ res' = [res EXCEPT ![t] = answer]
       /\ Looking(t, IF answer = {} THEN "failed"
                     ELSE IF fn[t] = "filtered" THEN "screen" ELSE "answered")
  /\ UNCHANGED <<globals, pc, host, fn>>

CallNone(t) ==
  /\ CallsNone(t)
  /\ Looking(t, "failed")
  /\ UNCHANGED <<globals, pc, host, fn, res>>

(* Under the lock: is any guard active?  If so only permitted addresses    *)
(* are kept, and none left is an error.                                    *)
Active == \E k \in Hosts : guarded[k] > 0

AnyPermitted(t) == IF res[t] \cap Permitted # {} THEN res[t] ELSE {}

Screened(t) == IF Active THEN res[t] \cap Permitted ELSE res[t]

Screen(t) ==
  /\ look[t] = "screen"
  /\ lock = NoThread
  /\ res' = [res EXCEPT ![t] = Screened(t)]
  /\ Looking(t, IF Screened(t) = {} THEN "failed" ELSE "answered")
  /\ UNCHANGED <<globals, pc, host, fn>>

-----------------------------------------------------------------------------
(* The dispatcher call.                                                    *)

Check(t) ==
  /\ pc[t] = "idle"
  /\ Goto(t, "check")
  /\ UNCHANGED <<globals, host, lookup>>

(* check_host refuses unless EVERY address found is permitted.             *)
Verdict(t) ==
  /\ pc[t] = "check"
  /\ look[t] \in {"answered", "failed"}
  /\ Goto(t, IF look[t] = "answered" /\ res[t] \subseteq Permitted THEN "cleared" ELSE "idle")
  /\ Looking(t, "none")
  /\ res' = [res EXCEPT ![t] = {}]
  /\ UNCHANGED <<globals, host, fn>>

(* The guarded call connects to an address it got, or sees the lookup fail *)
(* and lets the library go on; either way it may look up again.            *)
Proceed(t) ==
  /\ pc[t] = "body"
  /\ look[t] \in {"answered", "failed"}
  /\ Looking(t, "none")
  /\ res' = [res EXCEPT ![t] = {}]
  /\ UNCHANGED <<globals, pc, host, fn>>

Return(t) ==
  /\ pc[t] = "cleared"
  /\ Goto(t, "idle")
  /\ UNCHANGED <<globals, host, lookup>>

-----------------------------------------------------------------------------
(* guard(host): entry.  The lock is held from Enter to the end of the      *)
(* patching, if any is needed.                                             *)

Enter(t) ==
  /\ pc[t] = "cleared"
  /\ lock = NoThread
  /\ \E k \in Hosts :
       /\ host' = [host EXCEPT ![t] = k]
       /\ guarded' = [guarded EXCEPT ![k] = @ + 1]
  /\ IF orig = "none"
     THEN lock' = t /\ Goto(t, "save")
     ELSE lock' = lock /\ Goto(t, "body")
  /\ UNCHANGED <<getaddrinfo, orig, lookup>>

Save(t) ==
  /\ pc[t] = "save"
  /\ orig' = getaddrinfo
  /\ Goto(t, "install")
  /\ UNCHANGED <<getaddrinfo, guarded, lock, host, lookup>>

Install(t) ==
  /\ pc[t] = "install"
  /\ getaddrinfo' = "filtered"
  /\ lock' = NoThread
  /\ Goto(t, "body")
  /\ UNCHANGED <<orig, guarded, host, lookup>>

ReleasedWhole(k) == [guarded EXCEPT ![k] = 0]
ReleasedTwice(k) == [guarded EXCEPT ![k] = @ - 2]

(* The finally clause, reached by return and by exception alike.  The key  *)
(* is popped at n <= 0; only the last guard of all restores the function.  *)
Released(k) ==
  LET n == guarded[k] - 1
  IN  [guarded EXCEPT ![k] = IF n <= 0 THEN 0 ELSE n]

Leave(t) ==
  /\ pc[t] = "body"
  /\ look[t] = "none"
  /\ lock = NoThread
  /\ guarded' = Released(host[t])
  /\ IF ~ Active' /\ orig # "none"
     THEN lock' = t /\ Goto(t, "restore")
     ELSE lock' = lock /\ Goto(t, "cleared")
  /\ UNCHANGED <<getaddrinfo, orig, host, lookup>>

RestoreNothing(t) ==
  /\ pc[t] = "restore"
  /\ Goto(t, "clear")
  /\ UNCHANGED <<globals, host, lookup>>

Restore(t) ==
  /\ pc[t] = "restore"
  /\ getaddrinfo' = orig
  /\ Goto(t, "clear")
  /\ UNCHANGED <<orig, guarded, lock, host, lookup>>

Clear(t) ==
  /\ pc[t] = "clear"
  /\ orig' = "none"
  /\ lock' = NoThread
  /\ Goto(t, "cleared")
  /\ UNCHANGED <<getaddrinfo, guarded, host, lookup>>

-----------------------------------------------------------------------------
HoldingLock(t) == Save(t) \/ Install(t) \/ Restore(t) \/ Clear(t)

Next == \E t \in Threads :
  \/ Fetch(t) \/ Resolve(t) \/ CallNone(t) \/ Screen(t)
  \/ Check(t) \/ Verdict(t) \/ Proceed(t) \/ Return(t)
  \/ Enter(t) \/ Leave(t) \/ HoldingLock(t)

Spec == Init /\ [][Next]_vars

-----------------------------------------------------------------------------
(* What the guard promises.                                                *)

(* netguard.py:160 "Enforce the egress IP policy at CONNECT time": what a  *)
(* lookup made inside a guarded call returns to the client library holds   *)
(* permitted addresses only, whatever other threads enter, leave or look   *)
(* up meanwhile and whatever the resolver answers.                         *)
GuardedAnswersPermitted ==
  \A t \in Threads :
    pc[t] = "body" /\ look[t] = "answered" => res[t] \subseteq Permitted

(* netguard.py:128 "concurrent/nested guarded calls coexist": inside a     *)
(* guarded call the filter stays installed over the resolver's own         *)
(* function, so another thread's entry or exit never breaks this thread's  *)
(* lookup nor makes the filter call itself.                                *)
GuardedNeverBroken ==
  \A t \in Threads : pc[t] = "body" => getaddrinfo = "filtered" /\ orig = "original"

(* netguard.py:129 "getaddrinfo is restored only once the last one exits", *)
(* and then it is restored: with the lock free and nobody in a guarded     *)
(* call the process is back to the resolver's own function.                *)
RestoredWhenUnguarded ==
  lock = NoThread /\ (\A t \in Threads : pc[t] # "body") =>
    getaddrinfo = "original" /\ orig = "none" /\ ~ Active

(* netguard.py:128 "Refcounted + thread-safe": no lookup, guarded or not,  *)
(* ever finds None where the saved function should be.  The code does not  *)
(* keep this for the unguarded lookups of check_host.                      *)
LookupNeverBroken == \A t \in Threads : ~ CallsNone(t)
=============================================================================
