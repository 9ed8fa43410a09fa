---------------------------- MODULE LegacyChain ----------------------------
(***************************************************************************)
(* chain/ChainProcessor.hpp with its block store, ChainState and UTxOSet.  *)
(* The mining thread and the peer thread call it and it has no lock, so a  *)
(* call goes on in steps: each reads or writes one member.                 *)
(***************************************************************************)
EXTENDS Integers

CONSTANTS
  NoBlock,     \* the 32 zero bytes a ChainState starts with
  Threads      \* the threads that call

\* A block is told apart by its number, its parent and who made it: 0 for the
\* peer, k for the k-th one mined here, -1 for the tip of a cascade, of which
\* only the header is known.
Block(n, parent, by) == [number |-> n, parent |-> parent, by |-> by]

VARIABLES
  legacy,      \* m_store, m_state, m_utxo and m_cascadeRoot
  call         \* per thread: what is left of its call and the block it is on

chainVars == <<legacy, call>>

NoCall == [step |-> "none", block |-> NoBlock, root |-> -1]

ChainInit ==
  /\ legacy = [store |-> {}, height |-> 0, tip |-> NoBlock,
               utxo |-> {}, cascadeRoot |-> -1]
  /\ call = [t \in Threads |-> NoCall]

\* Each block of the peer creates a coin, its number, and spends its parent's.
Creates(b) == IF b.by = 0 THEN {b.number} ELSE {}
Spends(b) == IF b.by = 0 THEN {b.number - 1} ELSE {}
-----------------------------------------------------------------------------
Returned(t) == call[t].step = "none"

Goto(t, step) == call' = [call EXCEPT ![t].step = step]

\* processBlock(b) and applyCascade, whose tip and root alone are looked at.
CallProcessBlock(t, b) ==
  /\ Returned(t)
  /\ call' = [call EXCEPT ![t] = [step |-> "add", block |-> b, root |-> -1]]

CallApplyCascade(t, tip, root) ==
  /\ Returned(t)
  /\ call' = [call EXCEPT ![t] = [step |-> "ahead", block |-> tip, root |-> root]]

\* A known id returns false at once.
AddToStore(t) ==
  /\ call[t].step = "add"
  /\ IF call[t].block \in legacy.store
       THEN call' = [call EXCEPT ![t] = NoCall] /\ UNCHANGED legacy
       ELSE /\ legacy' = [legacy EXCEPT !.store = @ \cup {call[t].block}]
            /\ Goto(t, "compare")

CompareHeight(t) ==
  /\ call[t].step = "compare"
  /\ Goto(t, IF call[t].block.number >= legacy.height THEN "tip" ELSE "coins")
  /\ UNCHANGED legacy

\* Only a cascade ahead of the height is applied.
AddCascadeTip(t) ==
  /\ call[t].step = "ahead"
  /\ IF legacy.height < call[t].block.number
       THEN /\ legacy' = [legacy EXCEPT !.store = @ \cup {call[t].block}]
            /\ Goto(t, "tip")
       ELSE call' = [call EXCEPT ![t] = NoCall] /\ UNCHANGED legacy

SetTip(t) ==
  /\ call[t].step = "tip"
  /\ legacy' = [legacy EXCEPT !.tip = call[t].block]
  /\ Goto(t, "height")

SetHeight(t) ==
  /\ call[t].step = "height"
  /\ legacy' = [legacy EXCEPT !.height = call[t].block.number]
  /\ Goto(t, IF call[t].root >= 0 THEN "root" ELSE "coins")

SetCascadeRoot(t) ==
  /\ call[t].step = "root"
  /\ legacy' = [legacy EXCEPT !.cascadeRoot = call[t].root]
  /\ call' = [call EXCEPT ![t] = NoCall]

ApplyCoins(t) ==
  /\ call[t].step = "coins"
  /\ LET b == call[t].block IN
       legacy' = [legacy EXCEPT !.utxo = (@ \ Spends(b)) \cup Creates(b)]
  /\ call' = [call EXCEPT ![t] = NoCall]

ChainStep(t) ==
  \/ AddToStore(t) \/ CompareHeight(t) \/ AddCascadeTip(t)
  \/ SetTip(t) \/ SetHeight(t) \/ SetCascadeRoot(t) \/ ApplyCoins(t)
=============================================================================
