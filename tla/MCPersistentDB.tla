--------------------------- MODULE MCPersistentDB ---------------------------
(* A genesis and two branches: both first blocks carry the transaction that  *)
(* creates x, a2 spends x for y, b2 creates y without spending.              *)
EXTENDS PersistentDB, TLC

CONSTANTS g, a1, a2, b1, b2, x, y

MCTxPoWs == {g, a1, a2, b1, b2}
MCParent == g :> NoBlock @@ a1 :> g @@ a2 :> a1 @@ b1 :> g @@ b2 :> b1
MCNumber == g :> 0 @@ a1 :> 1 @@ a2 :> 2 @@ b1 :> 1 @@ b2 :> 2
MCSuperLevel == [b \in MCTxPoWs |-> IF b \in {a1, b2} THEN 1 ELSE 0]
MCDifficultyWeight == [b \in MCTxPoWs |-> IF b = a1 THEN 2 ELSE 1]
MCInputs == [b \in MCTxPoWs |-> IF b = a2 THEN {x} ELSE {}]
MCOutputs == g :> <<>> @@ a1 :> <<x>> @@ a2 :> <<y>> @@ b1 :> <<x>> @@ b2 :> <<y>>
MCBlockTime == MCNumber

\* On this instance numbers count and coins are spent above their creation.
ASSUME InstanceIsDue == NumbersFollow /\ CoinsFlowDown /\ CoinsAreNew
=============================================================================
