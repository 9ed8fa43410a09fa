---------------------------- MODULE CoinProofs ----------------------------
(***************************************************************************)
(* The proofs of coins in the MegaMMR (src/mmr/MegaMMR.hpp): the rows      *)
(* above the leaves of module MegaMMR, the root they lead to and the proof *)
(* that a coin is one of the leaves.                                       *)
(***************************************************************************)
EXTENDS MegaMMR, MMRProof

\* coinToMMRData: the hash of the id, the address and the amount of a coin.
CoinToMMRData(c) == Hash(<<c>>)

\* addLeaf for every leaf.  The spent flag is in no hash.
NodesOf(leaves) ==
  LET nodes[n \in 0 .. Len(leaves)] ==
        IF n = 0 THEN NoNodes
        ELSE PutLeaf(nodes[n - 1], n - 1, CoinToMMRData(leaves[n]))
  IN  nodes[Len(leaves)]

\* getCoinProof for the coins of the index; entries count from 0.
\* Mutant: entries count back from the newest leaf.
CoinProofsFromNewest(m) ==
  LET nodes == NodesOf(m.leaves)
  IN  [c \in Tracked(m, Coins) |-> GetProof(nodes, Len(m.leaves) - m.idx[c])]
GetCoinProof(m) ==
  LET nodes == NodesOf(m.leaves)
  IN  [c \in Tracked(m, Coins) |-> GetProof(nodes, m.idx[c] - 1)]

\* verifyCoinProof and verifyRoot.
VerifyCoinProof(root, c, proof) == CalculateProof(proof, CoinToMMRData(c)) = root

-----------------------------------------------------------------------------
\* The proof of a coin shows what stands at its leaf: it verifies for a coin
\* exactly if the MMR still has the other leaves it had when the proof was made,
\* no more, and that coin in this place.  Whatever was spent, a proof taken at
\* a checkpoint fails after the next output and holds again after the rollback.
CoinsAreProved ==
  LET root == GetRoot(NodesOf(mmr.leaves))
  IN  \A m \in {mmr} \cup Range(checkpoints) :
        LET proofs == GetCoinProof(m)
        IN  \A c \in DOMAIN proofs, d \in Coins :
              VerifyCoinProof(root, d, proofs[c])
                <=> [m.leaves EXCEPT ![m.idx[c]] = d] = mmr.leaves
=============================================================================
