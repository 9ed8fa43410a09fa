----------------------------- MODULE MCIndexes -----------------------------
(* The MegaMMR, the cascade, the retarget and the older chain processor      *)
(* share no state: a behaviour uses one of them.                             *)
(* MegaMMR: two coins and a leaf bound of three, so that a coin can be       *)
(* created, spent, created again and rolled back; two block numbers and a    *)
(* window of zero, so that pruning deletes one checkpoint and keeps another. *)
(* Cascade: every sequence of up to six blocks of super levels 0 to 2 and of *)
(* two difficulties, with three levels so that the top one fills up.         *)
(* Retarget: a look-back of two blocks and a median of three, so that a      *)
(* chain of eight is retargeted, with gaps of once and three times the       *)
(* target time and one that goes back in time.                               *)
(* Older chain: two blocks, and on them branches of two and of one, whose    *)
(* first blocks spend the same coin; a pool of two, and a reorganisation as  *)
(* deep as the longer.                                                       *)
EXTENDS CoinProofs, Cascade, DifficultyAdjust, OlderChain, TLC

CONSTANTS x, y, g, k, a1, a2, b1

MCBlocks == (0 .. 2) \X {1, 2}
MCSuperLevel == [b \in MCBlocks |-> b[1]]
MCDifficultyWeight == [b \in MCBlocks |-> b[2]]
MCGaps == {-1, 2, 6}

MCTxPoWs  == {g, k, a1, a2, b1}
MCParent  == g :> ZeroID @@ k :> g @@ a1 :> k @@ a2 :> a1 @@ b1 :> k
MCNumber  == g :> 0 @@ k :> 1 @@ a1 :> 2 @@ a2 :> 3 @@ b1 :> 2
MCInputs  == g :> {} @@ k :> {} @@ a1 :> {1} @@ a2 :> {2} @@ b1 :> {1}
MCOutputs == g :> <<1>> @@ k :> <<5>> @@ a1 :> <<2>> @@ a2 :> <<3>> @@ b1 :> <<4>>

IndexInit == Init /\ CascadeInit /\ DifficultyInit /\ OlderChainInit

MMRUnused == input = <<"reset">> /\ mmr = EmptyMMR
OlderChainUnused == blocks = {} /\ pending = <<>>

IndexNext ==
  \/ /\ chain = <<>> /\ summaries = <<>> /\ OlderChainUnused
     /\ Next /\ UNCHANGED <<cascadeVars, summaries, olderChainVars>>
  \/ /\ MMRUnused /\ summaries = <<>> /\ OlderChainUnused
     /\ CascadeNext /\ UNCHANGED <<vars, summaries, olderChainVars>>
  \/ /\ MMRUnused /\ chain = <<>> /\ OlderChainUnused
     /\ DifficultyNext /\ UNCHANGED <<vars, cascadeVars, olderChainVars>>
  \/ /\ MMRUnused /\ chain = <<>> /\ summaries = <<>>
     /\ OlderChainNext /\ UNCHANGED <<vars, cascadeVars, summaries>>

IndexSpec == IndexInit /\ [][IndexNext]_<<vars, cascadeVars, summaries, olderChainVars>>
=============================================================================
