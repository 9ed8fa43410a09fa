----------------------------- MODULE CoinLedger -----------------------------
(***************************************************************************)
(* What a ledger of coins promises, with no tree behind it: a set of       *)
(* unspent coins that blocks change, and copies of it saved under block    *)
(* numbers.  mmr/MegaMMR.hpp is shown to implement it (module MegaMMR).    *)
(***************************************************************************)
EXTENDS Integers

CONSTANTS
  Coins,       \* coin ids
  Numbers,     \* block numbers
  Window       \* how far below the current number saved copies are kept

VARIABLES
  input,       \* the last operation and its arguments
  unspent,     \* the coins that exist and are not spent
  saved        \* saved[n] = the unspent coins when n was saved

vars == <<input, unspent, saved>>

Init == input = <<"reset">> /\ unspent = {} /\ saved = <<>>

\* A block takes the coins it spends and puts the coins it creates.
Apply(spends, creates) ==
  /\ input' = <<"block", spends, creates>>
  /\ unspent' = (unspent \ spends) \cup creates
  /\ UNCHANGED saved

Save(n) ==
  /\ input' = <<"save", n>>
  /\ saved' = [k \in DOMAIN saved \cup {n} |-> IF k = n THEN unspent ELSE saved[k]]
  /\ UNCHANGED unspent

Restore(n) ==
  /\ input' = <<"restore", n>>
  /\ n \in DOMAIN saved
  /\ unspent' = saved[n]
  /\ UNCHANGED saved

Forget(n) ==
  /\ input' = <<"forget", n>>
  /\ saved' = [k \in {k \in DOMAIN saved : k >= n - Window} |-> saved[k]]
  /\ UNCHANGED unspent

\* The set is handed to another node; the saved copies are not.
HandOver == input' = <<"sync">> /\ saved' = <<>> /\ UNCHANGED unspent

Reset == input' = <<"reset">> /\ unspent' = {} /\ saved' = <<>>

Next ==
  \/ \E spends, creates \in SUBSET Coins : Apply(spends, creates)
  \/ \E n \in Numbers : Save(n) \/ Restore(n) \/ Forget(n)
  \/ HandOver
  \/ Reset

Spec == Init /\ [][Next]_vars
=============================================================================
