----------------------------- MODULE TaskBoard -----------------------------
(***************************************************************************)
(* What the coordination layer offers its agents, as one atomic object: a  *)
(* task board, an inbox and a registry, each tool call one step.  Only two *)
(* things are weaker than a caller would like: a handoff's notice travels  *)
(* for a while before it is in the inbox, and an interruption of the       *)
(* server may lose notices under way and the whole content of a file.      *)
(***************************************************************************)
CONSTANTS
  Agents, Nobody,   \* agent names; "": no owner, not assigned
  Everyone,         \* "all", a recipient
  Tasks, Msgs,      \* identifiers
  Statuses,         \* what task_update may set
  Caps, NoCaps,     \* capability texts of an agent; "": not given
  NoRow             \* no entry under that identifier

VARIABLES
  board, inbox, registry,
  transit,   \* handoff notices under way
  outage     \* flips at every interruption

state == <<board, inbox, registry, transit, outage>>

Emptied(rows) == [x \in DOMAIN rows |-> NoRow]
Unread(to, about) == [to |-> to, about |-> about, read |-> FALSE]
Travelling(m) == \E n \in transit : n.id = m
Unused(m) == inbox[m] = NoRow /\ ~ Travelling(m)

-----------------------------------------------------------------------------
(* The board.                                                              *)
AddTask(k, a) ==
  /\ board[k] = NoRow
  /\ board' = [board EXCEPT ![k] = [status |-> "open", owner |-> Nobody, assigned |-> a]]
  /\ UNCHANGED <<inbox, registry, transit, outage>>

Present(k) == board[k] # NoRow

Claim(k, a) ==
  /\ Present(k) /\ board[k].status # "done"
  /\ board' = [board EXCEPT ![k].status = "claimed", ![k].owner = a]
  /\ UNCHANGED <<inbox, registry, transit, outage>>

HandOff(k, a, m) ==
  /\ Present(k) /\ Unused(m)
  /\ board' = [board EXCEPT ![k] = [status |-> "claimed", owner |-> a, assigned |-> a]]
  /\ transit' = transit \cup {[id |-> m, msg |-> Unread(a, k)]}
  /\ UNCHANGED <<inbox, registry, outage>>

Release(k) ==
  /\ Present(k)
  /\ board' = [board EXCEPT ![k].status = "open", ![k].owner = Nobody]
  /\ UNCHANGED <<inbox, registry, transit, outage>>

Update(k, s) ==
  /\ Present(k)
  /\ board' = [board EXCEPT ![k].status = s]
  /\ UNCHANGED <<inbox, registry, transit, outage>>

DeleteTask(k) ==
  /\ board' = [board EXCEPT ![k] = NoRow]
  /\ UNCHANGED <<inbox, registry, transit, outage>>

-----------------------------------------------------------------------------
(* The inbox.                                                              *)
Post(m, to) ==
  /\ Unused(m)
  /\ inbox' = [inbox EXCEPT ![m] = Unread(to, NoRow)]
  /\ UNCHANGED <<board, registry, transit, outage>>

Deliver(n) ==
  /\ inbox' = [inbox EXCEPT ![n.id] = n.msg]
  /\ transit' = transit \ {n}
  /\ UNCHANGED <<board, registry, outage>>

Ack(m) ==
  /\ inbox[m] # NoRow
  /\ inbox' = [inbox EXCEPT ![m].read = TRUE]
  /\ UNCHANGED <<board, registry, transit, outage>>

DeleteMessage(m) ==
  /\ inbox' = [inbox EXCEPT ![m] = NoRow]
  /\ UNCHANGED <<board, registry, transit, outage>>

Purge ==
  /\ inbox' = [m \in Msgs |-> IF inbox[m] # NoRow /\ inbox[m].read THEN NoRow ELSE inbox[m]]
  /\ UNCHANGED <<board, registry, transit, outage>>

-----------------------------------------------------------------------------
(* The registry, and the interruptions.                                    *)
Register(a, caps) ==
  /\ registry' = [registry EXCEPT ![a] = IF caps = NoCaps /\ @ # NoRow THEN @ ELSE caps]
  /\ UNCHANGED <<board, inbox, transit, outage>>

Remove(a) ==
  /\ registry' = [registry EXCEPT ![a] = NoRow]
  /\ UNCHANGED <<board, inbox, transit, outage>>

Interrupted ==
  /\ board' \in {board, Emptied(board)}
  /\ inbox' \in {inbox, Emptied(inbox)}
  /\ registry' \in {registry, Emptied(registry)}
  /\ transit' \in SUBSET transit
  /\ outage' = ~ outage

Init ==
  /\ board = [k \in Tasks |-> NoRow]
  /\ inbox = [m \in Msgs |-> NoRow]
  /\ registry = [a \in Agents |-> NoRow]
  /\ transit = {}
  /\ outage = FALSE

Next ==
  \/ \E k \in Tasks :
       \/ \E a \in Agents \cup {Nobody} : AddTask(k, a)
       \/ \E a \in Agents : Claim(k, a) \/ \E m \in Msgs : HandOff(k, a, m)
       \/ \E s \in Statuses : Update(k, s)
       \/ Release(k) \/ DeleteTask(k)
  \/ \E m \in Msgs :
       \/ \E to \in Agents \cup {Everyone} : Post(m, to)
       \/ Ack(m) \/ DeleteMessage(m)
  \/ \E n \in transit : Deliver(n)
  \/ Purge
  \/ \E a \in Agents : Remove(a) \/ \E caps \in Caps \cup {NoCaps} : Register(a, caps)
  \/ Interrupted

Spec == Init /\ [][Next]_state
=============================================================================
