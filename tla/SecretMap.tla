------------------------------ MODULE SecretMap ------------------------------
(***************************************************************************)
(* What the vault promises its users: a map from storage keys to secrets   *)
(* in which one step stores or deletes one secret and leaves every other   *)
(* secret alone.  secret_set and secret_delete of app/secrets_store.py are *)
(* meant to be these steps, crash or no crash.                             *)
(***************************************************************************)
CONSTANTS
  Names,    \* storage keys: "name" or "users/<owner>/name"
  Values,   \* secret values
  None      \* no secret under that name

VARIABLE store

Map == [Names -> Values \cup {None}]
Empty == [n \in Names |-> None]

Init == store \in Map

SetSecret(n, v) == store' = [store EXCEPT ![n] = v]
DeleteSecret(n) == store' = [store EXCEPT ![n] = None]

Next == \E n \in Names : DeleteSecret(n) \/ \E v \in Values : SetSecret(n, v)

Spec == Init /\ [][Next]_store
=============================================================================
