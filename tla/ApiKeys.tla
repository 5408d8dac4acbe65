------------------------------ MODULE ApiKeys ------------------------------
(***************************************************************************)
(* The API keys in auth.json (src/runtime/auth.rs, logout.rs): read whole, *)
(* changed and written back whole, by processes that take no lock.  A      *)
(* sign-in reads the file after its dialog, a sign-out before its two.     *)
(***************************************************************************)
EXTENDS Naturals, FiniteSets

CONSTANTS
  Terminal,
  KeyProvider,     \* providers with an API key
  NoProvider,
  MaxKeyChanges    \* bound: sign-ins and sign-outs

VARIABLES
  keys,       \* auth.json: the providers with a key
  dialog,     \* where each chat loop is
  map,        \* the keys it has read
  chosen,     \* the provider it is about
  overlaps,   \* history: keys were saved since it read them
  changes     \* sign-ins and sign-outs begun

kvars == <<keys, dialog, map, chosen, overlaps, changes>>

ApiKeysInit ==
  /\ keys \in SUBSET KeyProvider
  /\ dialog = [p \in Terminal |-> "none"] /\ map = [p \in Terminal |-> {}]
  /\ chosen = [p \in Terminal |-> NoProvider]
  /\ overlaps = [p \in Terminal |-> FALSE] /\ changes = 0

Moves(p, from, next) == dialog[p] = from /\ dialog' = [dialog EXCEPT ![p] = next]

Begins(p, next) ==
  /\ Moves(p, "none", next)
  /\ changes < MaxKeyChanges /\ changes' = changes + 1

\* keys(): the file may change behind what was read.
ReadKeys(p, and) == /\ map' = [map EXCEPT ![p] = keys \cup and]
                    /\ overlaps' = [overlaps EXCEPT ![p] = FALSE]

\* save(): the whole map, renamed into place.
SaveKeys(p) ==
  /\ Moves(p, "saving", "none")
  /\ keys' = map[p]
  /\ overlaps' = [q \in Terminal |-> q # p /\ (overlaps[q] \/ dialog[q] # "none")]
  /\ map' = [map EXCEPT ![p] = {}] /\ chosen' = [chosen EXCEPT ![p] = NoProvider]
  /\ UNCHANGED changes

\* auth::sign_in(): the key is typed, or the dialog is left.
EnterKey(p) ==
  /\ Begins(p, "entered")
  /\ \E q \in KeyProvider : chosen' = [chosen EXCEPT ![p] = q]
  /\ UNCHANGED <<keys, map, overlaps>>

\* Mutant: a file that cannot be read counts as empty.
ReadForKey_Unread(p) ==
  /\ Moves(p, "entered", "saving")
  /\ map' = [map EXCEPT ![p] = {chosen[p]}] /\ overlaps' = [overlaps EXCEPT ![p] = FALSE]
  /\ UNCHANGED <<keys, chosen, changes>>

ReadForKey(p) ==
  /\ Moves(p, "entered", "saving")
  /\ ReadKeys(p, {chosen[p]})
  /\ UNCHANGED <<keys, chosen, changes>>

\* logout::sign_out(): the keys are listed, one is chosen and confirmed.
ListKeys(p) ==
  /\ Begins(p, "listed") /\ keys # {}
  /\ ReadKeys(p, {})
  /\ UNCHANGED <<keys, chosen>>

ChooseKey(p) ==
  /\ Moves(p, "listed", "removing")
  /\ \E q \in map[p] : chosen' = [chosen EXCEPT ![p] = q]
  /\ UNCHANGED <<keys, map, overlaps, changes>>

\* before_remove(): the process's own runtime is closed, and the map changed.
Strike(p) ==
  /\ Moves(p, "removing", "saving")
  /\ map' = [map EXCEPT ![p] = @ \ {chosen[p]}]
  /\ UNCHANGED <<keys, chosen, overlaps, changes>>

LeaveDialog(p) ==
  /\ dialog[p] \in {"listed", "entered"} /\ dialog' = [dialog EXCEPT ![p] = "none"]
  /\ map' = [map EXCEPT ![p] = {}] /\ chosen' = [chosen EXCEPT ![p] = NoProvider]
  /\ overlaps' = [overlaps EXCEPT ![p] = FALSE]
  /\ UNCHANGED <<keys, changes>>

ApiKeysNext ==
  \E p \in Terminal :
    \/ EnterKey(p) \/ ReadForKey(p) \/ SaveKeys(p)
    \/ ListKeys(p) \/ ChooseKey(p) \/ Strike(p) \/ LeaveDialog(p)

-----------------------------------------------------------------------------
(* Properties.                                                             *)

\* Saving changes the key of one provider, the chosen one, and keeps all others,
\* unless another process saved its keys since this one read them.
KeysAsChosen ==
  \A p \in Terminal : dialog[p] = "saving" /\ dialog'[p] = "none" =>
    \/ overlaps[p]
    \/ (keys \ keys') \cup (keys' \ keys) \subseteq {chosen[p]}
=============================================================================
