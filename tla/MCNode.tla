------------------------------- MODULE MCNode -------------------------------
(* A genesis with two branches of two blocks that create the same coin, so  *)
(* that a reorganisation and a trim happen with a keepDepth of one; two      *)
(* transactions that spend that coin; and a mined block whose parent is the  *)
(* zero id, as the miner of main.cpp builds its first one.                   *)
EXTENDS Node, TLC

CONSTANTS g, a1, a2, b1, b2, z, t1, t2, x, y

MCTxPoWs == {g, a1, a2, b1, b2, z, t1, t2}
MCParent == g :> NoBlock @@ a1 :> g @@ a2 :> a1 @@ b1 :> g @@ b2 :> b1
            @@ z :> NoBlock @@ t1 :> g @@ t2 :> g
MCNumber == g :> 0 @@ a1 :> 1 @@ a2 :> 2 @@ b1 :> 1 @@ b2 :> 2
            @@ z :> 1 @@ t1 :> 0 @@ t2 :> 0
MCSuperLevel == [b \in MCTxPoWs |-> IF b = a1 THEN 1 ELSE 0]
MCDifficultyWeight == [b \in MCTxPoWs |-> IF b = a1 THEN 2 ELSE 1]
MCInputs == [b \in MCTxPoWs |-> IF b \in {a2, t1, t2} THEN {x} ELSE {}]
MCOutputs == [b \in MCTxPoWs |->
                IF b \in {a1, b1} THEN <<x>> ELSE IF b = b2 THEN <<y>> ELSE <<>>]
MCTxnList == [b \in MCTxPoWs |-> IF b = a1 THEN {t1} ELSE {}]
MCBatches == {<<b>> : b \in {a1, b1, b2, z, t1, t2}} \cup {<<a1, a2>>}

\* On this instance the headers number the blocks as the miner does.
ASSUME InstanceNumbers == NumbersFollow
=============================================================================
