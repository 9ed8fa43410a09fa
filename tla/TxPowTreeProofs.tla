-------------------------- MODULE TxPowTreeProofs --------------------------
(***************************************************************************)
(* Proofs about the block tree, for every set of blocks, every parent      *)
(* relation without a cycle and every keepDepth.                           *)
(***************************************************************************)
EXTENDS TxPowTree, NatSetInduction, TLAPS

USE NoBlockAssumption, ParentAssumption, KeepDepthsAssumption

-----------------------------------------------------------------------------
(* Adding a block.                                                         *)

LEMMA EmptyTreeIsTree == EmptyTree \in Trees /\ IsTree(EmptyTree)
BY DEF EmptyTree, Trees, IsTree, Anchored, RootDetached, Linked, Heaviest

LEMMA AddIsTree ==
  ASSUME NEW t \in Trees, IsTree(t), NEW b \in Blocks
  PROVE  AddTxPoW(t, b) \in Trees /\ IsTree(AddTxPoW(t, b))
<1>1. CASE Known(t, b) \/ IsOrphan(t, b)
  BY <1>1 DEF AddTxPoW
<1>2. CASE ~ (Known(t, b) \/ IsOrphan(t, b)) /\ t.root = NoBlock
  <2>1. AddTxPoW(t, b) = PlantRoot(t, b)
    BY <1>2 DEF AddTxPoW
  <2>2. t.nodes = {}
    BY <1>2 DEF IsTree, Anchored, Trees
  <2>3. PlantRoot(t, b) \in Trees
    BY DEF PlantRoot, Trees
  <2>4. IsTree(PlantRoot(t, b))
    BY <2>2 DEF PlantRoot, Trees, IsTree, Anchored, RootDetached, Linked, Heaviest
  <2> QED BY <2>1, <2>3, <2>4
<1>3. CASE ~ (Known(t, b) \/ IsOrphan(t, b)) /\ t.root # NoBlock
  <2>1. AddTxPoW(t, b) = Attach(t, b)
    BY <1>3 DEF AddTxPoW
  <2>2. b \notin t.nodes /\ Parent[b] \in t.nodes /\ t.nodes # {}
    BY <1>3 DEF IsOrphan, Known
  <2>3. t.root \in t.nodes /\ t.tip \in t.nodes
    BY <2>2, <1>3 DEF IsTree, Anchored
  <2> DEFINE u == Attach(t, b)
             w == t.weight[Parent[b]] + 1
  <2>4. /\ u.nodes = t.nodes \cup {b} /\ u.root = t.root
        /\ u.tip = HeavierTip(t, b, w)
        /\ u.parent = [t.parent EXCEPT ![b] = Parent[b]]
        /\ u.weight = [t.weight EXCEPT ![b] = w]
        /\ u.depth = [t.depth EXCEPT ![b] = t.depth[Parent[b]] + 1]
    BY DEF Attach, Trees
  <2>5. w \in Nat /\ t.depth[Parent[b]] + 1 \in Nat /\ Parent[b] \in Blocks
    BY <2>2 DEF Trees
  <2>6. u \in Trees
    BY <2>5, <2>3 DEF Attach, Trees, HeavierTip
  <2> HIDE DEF u, w
  <2>7. Anchored(u)
    BY <2>3, <2>4 DEF Anchored, HeavierTip
  <2>8. RootDetached(u)
    BY <2>2, <2>3, <2>4 DEF RootDetached, IsTree, Trees
  <2>9. Linked(u)
    BY <2>2, <2>3, <2>4 DEF Linked, IsTree, Trees, w
  <2>10. Heaviest(u)
    BY <2>2, <2>3, <2>4, <2>5 DEF Heaviest, IsTree, Trees, HeavierTip
  <2> QED BY <2>1, <2>6, <2>7, <2>8, <2>9, <2>10 DEF IsTree, u
<1> QED BY <1>1, <1>2, <1>3

-----------------------------------------------------------------------------
(* Trimming.                                                               *)

LEMMA AboveInTree ==
  ASSUME NEW t \in Trees, IsTree(t), NEW n \in t.nodes
  PROVE  Above(t, n) \in t.nodes
BY DEF Above, IsTree, RootDetached, Linked, Trees

\* The loop of trimTree always stops at a node.
LEMMA WalkExists ==
  ASSUME NEW t \in Trees, IsTree(t), t.tip # NoBlock, NEW k \in Nat
  PROVE  \E r \in t.nodes : StepsUp(t, k, r)
<1> DEFINE S == {j \in Nat : \E r \in t.nodes : StepsUp(t, j, r)}
<1>1. 0 \in S
  <2>1. t.tip \in t.nodes
    BY DEF IsTree, Anchored
  <2> DEFINE walk == [i \in 0 .. 0 |-> t.tip]
  <2>2. walk \in [0 .. 0 -> t.nodes] /\ walk[0] = t.tip
    BY <2>1
  <2> HIDE DEF walk
  <2>3. StepsUp(t, 0, t.tip)
    <3>1. 1 .. 0 = {}
      OBVIOUS
    <3> QED BY <2>2, <3>1 DEF StepsUp
  <2> QED BY <2>1, <2>3
<1>2. ASSUME NEW j \in S PROVE j + 1 \in S
  <2>1. PICK r \in t.nodes : StepsUp(t, j, r)
    OBVIOUS
  <2>2. PICK walk \in [0 .. j -> t.nodes] :
          /\ walk[0] = t.tip
          /\ \A i \in 1 .. j : walk[i] = Above(t, walk[i - 1])
          /\ walk[j] = r
    BY <2>1 DEF StepsUp
  <2> DEFINE longer == [i \in 0 .. (j + 1) |->
                          IF i = j + 1 THEN Above(t, r) ELSE walk[i]]
  <2>3. j \in Nat /\ Above(t, r) \in t.nodes
    BY AboveInTree
  <2>4. longer \in [0 .. (j + 1) -> t.nodes]
    BY <2>3
  <2>5. longer[0] = t.tip /\ longer[j + 1] = Above(t, r)
    BY <2>2, <2>3
  <2>6. ASSUME NEW i \in 1 .. (j + 1) PROVE longer[i] = Above(t, longer[i - 1])
    <3>1. CASE i = j + 1
      BY <3>1, <2>2, <2>3
    <3>2. CASE i # j + 1
      <4>1. i \in 1 .. j /\ i \in 0 .. (j + 1) /\ i - 1 \in 0 .. (j + 1) /\ i - 1 # j + 1
        BY <3>2, <2>3
      <4> QED BY <4>1, <3>2, <2>2
    <3> QED BY <3>1, <3>2
  <2>7. StepsUp(t, j + 1, Above(t, r))
    BY <2>4, <2>5, <2>6 DEF StepsUp
  <2> QED BY <2>3, <2>7
<1> HIDE DEF S
<1>3. S = Nat
  <2>1. S \in SUBSET Nat
    BY DEF S
  <2> QED BY <1>1, <1>2, <2>1, SetInduction
<1> QED BY <1>3 DEF S

LEMMA SubtreeFacts ==
  ASSUME NEW t, NEW r \in t.nodes
  PROVE  /\ Subtree(t, r) \subseteq t.nodes
         /\ r \in Subtree(t, r)
         /\ ClosedUnderChildren(t, Subtree(t, r))
         /\ \A S \in SUBSET t.nodes :
              r \in S /\ ClosedUnderChildren(t, S) => Subtree(t, r) \subseteq S
<1>1. Subtree(t, r) \subseteq t.nodes /\ r \in Subtree(t, r)
  BY DEF Subtree
<1>2. ASSUME NEW S \in SUBSET t.nodes, r \in S, ClosedUnderChildren(t, S)
      PROVE  Subtree(t, r) \subseteq S
  BY <1>2 DEF Subtree
<1>3. ASSUME NEW m \in t.nodes, t.parent[m] \in Subtree(t, r)
      PROVE  m \in Subtree(t, r)
  <2> SUFFICES ASSUME NEW S \in SUBSET t.nodes, r \in S, ClosedUnderChildren(t, S)
               PROVE  m \in S
    BY DEF Subtree
  <2>1. t.parent[m] \in S
    BY <1>2, <1>3
  <2> QED BY <2>1 DEF ClosedUnderChildren
<1> QED BY <1>1, <1>2, <1>3 DEF ClosedUnderChildren

\* The tip is below every node the loop passes.
LEMMA TipBelowWalk ==
  ASSUME NEW t \in Trees, IsTree(t), NEW k \in Nat, NEW r \in t.nodes,
         StepsUp(t, k, r)
  PROVE  t.tip \in Subtree(t, r)
<1> DEFINE K == Subtree(t, r)
<1>1. PICK walk \in [0 .. k -> t.nodes] :
        /\ walk[0] = t.tip
        /\ \A i \in 1 .. k : walk[i] = Above(t, walk[i - 1])
        /\ walk[k] = r
  BY DEF StepsUp
<1>2. r \in K /\ ClosedUnderChildren(t, K)
  BY SubtreeFacts
<1> HIDE DEF K
<1> DEFINE S == {j \in Nat : j <= k => walk[k - j] \in K}
<1>3. 0 \in S
  BY <1>1, <1>2
<1>4. ASSUME NEW j \in S PROVE j + 1 \in S
  <2>1. j \in Nat
    OBVIOUS
  <2>2. CASE j + 1 <= k
    <3>1. k - j \in 1 .. k /\ k - (j + 1) = (k - j) - 1 /\ (k - j) - 1 \in 0 .. k
      BY <2>1, <2>2
    <3>2. walk[k - j] = Above(t, walk[(k - j) - 1]) /\ walk[(k - j) - 1] \in t.nodes
      BY <3>1, <1>1
    <3>3. walk[k - j] \in K
      BY <2>1, <2>2
    <3>4. walk[(k - j) - 1] \in K
      BY <3>2, <3>3, <1>2 DEF Above, ClosedUnderChildren
    <3> QED BY <3>1, <3>4, <2>1
  <2> QED BY <2>1, <2>2
<1> HIDE DEF S
<1>5. S = Nat
  <2>1. S \in SUBSET Nat
    BY DEF S
  <2> QED BY <1>3, <1>4, <2>1, SetInduction
<1>6. k \in S /\ k - k = 0 /\ k <= k
  BY <1>5
<1>7. walk[k - k] \in K
  BY <1>6 DEF S
<1> QED BY <1>6, <1>7, <1>1 DEF K

\* A cut keeps whole branches: the parent of every kept node but the new root
\* is kept, and no kept node was above the new root.
LEMMA SubtreeParents ==
  ASSUME NEW t \in Trees, IsTree(t), NEW r \in t.nodes,
         NEW n \in Subtree(t, r)
  PROVE  /\ n # r => /\ n # t.root
                     /\ t.parent[n] = Parent[n]
                     /\ Parent[n] \in Subtree(t, r)
         /\ t.depth[n] >= t.depth[r]
<1> DEFINE K == Subtree(t, r)
           S == {m \in K : m # r => t.parent[m] \in K}
           D == {m \in t.nodes : t.depth[m] >= t.depth[r]}
<1>1. K \subseteq t.nodes /\ r \in K /\ ClosedUnderChildren(t, K)
  BY SubtreeFacts
<1>2. \A X \in SUBSET t.nodes : r \in X /\ ClosedUnderChildren(t, X) => K \subseteq X
  BY SubtreeFacts
<1> HIDE DEF K
<1>3. K \subseteq S
  <2>1. ClosedUnderChildren(t, S)
    BY <1>1 DEF ClosedUnderChildren
  <2> QED BY <1>1, <1>2, <2>1
<1>4. K \subseteq D
  <2>1. ASSUME NEW m \in t.nodes, t.parent[m] \in D PROVE m \in D
    <3>1. m # t.root
      BY <2>1 DEF IsTree, RootDetached, Trees
    <3>2. t.depth[m] = t.depth[t.parent[m]] + 1
      BY <3>1 DEF IsTree, Linked
    <3> QED BY <3>2, <2>1 DEF Trees
  <2>2. ClosedUnderChildren(t, D) /\ D \in SUBSET t.nodes /\ r \in D
    BY <2>1 DEF ClosedUnderChildren, Trees
  <2> QED BY <1>2, <2>2
<1>5. n # r => t.parent[n] \in K
  BY <1>3 DEF K
<1>6. n \in t.nodes
  BY <1>1 DEF K
<1>7. n # r => n # t.root
  <2>1. n # r => t.parent[n] # NoBlock
    BY <1>1, <1>5 DEF Trees
  <2> QED BY <1>6, <2>1 DEF IsTree, RootDetached, Trees
<1>8. n # r => t.parent[n] = Parent[n]
  BY <1>6, <1>7 DEF IsTree, Linked
<1> QED BY <1>4, <1>5, <1>6, <1>7, <1>8 DEF K

LEMMA CutIsTree ==
  ASSUME NEW t \in Trees, IsTree(t), NEW r \in t.nodes, t.tip \in Subtree(t, r)
  PROVE  CutAt(t, r) \in Trees /\ IsTree(CutAt(t, r))
<1> DEFINE K == Subtree(t, r)
           u == CutAt(t, r)
<1>1. K \subseteq t.nodes /\ r \in K
  BY SubtreeFacts
<1>2. \A n \in K : /\ n # r => /\ n # t.root
                               /\ t.parent[n] = Parent[n]
                               /\ Parent[n] \in K
                   /\ t.depth[n] >= t.depth[r]
  BY SubtreeParents
<1>3. /\ u.nodes = K /\ u.root = r /\ u.tip = t.tip
      /\ u.parent = [b \in Blocks |-> IF b \in K \ {r} THEN t.parent[b] ELSE NoBlock]
      /\ u.weight = [b \in Blocks |-> IF b \in K THEN t.weight[b] ELSE 0]
      /\ u.depth = [b \in Blocks |-> IF b \in K THEN t.depth[b] - t.depth[r] ELSE 0]
  BY DEF CutAt
<1>4. u \in Trees
  <2>1. K \in SUBSET Blocks /\ r \in Blocks /\ t.tip \in Blocks \cup {NoBlock}
    BY <1>1 DEF Trees
  <2>2. u.parent \in [Blocks -> Blocks \cup {NoBlock}]
    BY <1>3 DEF Trees
  <2>3. u.weight \in [Blocks -> Nat]
    BY <1>3 DEF Trees
  <2>4. \A b \in K : t.depth[b] - t.depth[r] \in Nat
    BY <1>1, <1>2 DEF Trees
  <2>5. u.depth \in [Blocks -> Nat]
    BY <1>3, <2>4
  <2> QED BY <2>1, <2>2, <2>3, <2>5 DEF CutAt, Trees
<1> HIDE DEF u
<1>5. Anchored(u)
  BY <1>1, <1>3 DEF Anchored
<1>6. RootDetached(u)
  BY <1>1, <1>3 DEF RootDetached, Trees
<1> HIDE DEF K
<1>7. Linked(u)
  <2> SUFFICES ASSUME NEW n \in K, n # r
               PROVE  /\ u.parent[n] = Parent[n]
                      /\ Parent[n] \in K
                      /\ u.weight[n] = u.weight[Parent[n]] + 1
                      /\ u.depth[n] = u.depth[Parent[n]] + 1
    BY <1>3 DEF Linked
  <2>1. /\ n # t.root /\ t.parent[n] = Parent[n] /\ Parent[n] \in K
        /\ n \in t.nodes /\ n \in Blocks /\ Parent[n] \in Blocks /\ r \in Blocks
    BY <1>1, <1>2 DEF Trees
  <2>2. t.weight[n] = t.weight[Parent[n]] + 1 /\ t.depth[n] = t.depth[Parent[n]] + 1
    BY <2>1 DEF IsTree, Linked
  <2>3. t.depth[n] \in Nat /\ t.depth[Parent[n]] \in Nat /\ t.depth[r] \in Nat
    BY <2>1 DEF Trees
  <2> QED BY <1>3, <2>1, <2>2, <2>3
<1>8. Heaviest(u)
  <2>1. t.tip \in K /\ K \subseteq Blocks
    BY <1>1 DEF K, Trees
  <2> QED BY <1>1, <1>3, <2>1 DEF Heaviest, IsTree
<1> QED BY <1>4, <1>5, <1>6, <1>7, <1>8 DEF IsTree, u

LEMMA TrimIsTree ==
  ASSUME NEW t \in Trees, IsTree(t), NEW k \in Nat
  PROVE  /\ TrimTree(t, k) \in Trees
         /\ IsTree(TrimTree(t, k))
         /\ TrimTree(t, k).tip = t.tip
         /\ TrimTree(t, k).nodes \subseteq t.nodes
<1>1. CASE t.tip = NoBlock \/ NewRoot(t, k) = t.root
  BY <1>1 DEF TrimTree
<1>2. CASE ~ (t.tip = NoBlock \/ NewRoot(t, k) = t.root)
  <2> DEFINE r == NewRoot(t, k)
  <2>1. r \in t.nodes /\ StepsUp(t, k, r)
    BY <1>2, WalkExists DEF NewRoot
  <2> HIDE DEF r
  <2>2. t.tip \in Subtree(t, r)
    BY <2>1, TipBelowWalk
  <2>3. CutAt(t, r) \in Trees /\ IsTree(CutAt(t, r))
    BY <2>1, <2>2, CutIsTree
  <2>4. CutAt(t, r).tip = t.tip /\ CutAt(t, r).nodes = Subtree(t, r)
    BY DEF CutAt
  <2>5. Subtree(t, r) \subseteq t.nodes
    BY <2>1, SubtreeFacts
  <2>6. TrimTree(t, k) = CutAt(t, r)
    BY <1>2 DEF TrimTree, r
  <2> QED BY <2>3, <2>4, <2>5, <2>6
<1> QED BY <1>1, <1>2
-----------------------------------------------------------------------------
(* The theorems.                                                           *)

\* The tree stays a tree: typed, connected without dangling pointers, and its
\* tip is a heaviest node, whatever is added, trimmed and cleared.
TreeInv == TreeTypeOK /\ IsTree(tree)

LEMMA TreeInvInit == TreeInit => TreeInv
BY EmptyTreeIsTree DEF TreeInit, TreeInv, TreeTypeOK

LEMMA TreeInvNext == TreeInv /\ [TreeNext]_treeVars => TreeInv'
<1> SUFFICES ASSUME TreeInv, [TreeNext]_treeVars PROVE TreeInv'
  OBVIOUS
<1> USE DEF TreeInv, TreeTypeOK
<1>1. ASSUME NEW b \in Blocks, AddBlock(b) PROVE TreeInv'
  BY <1>1, AddIsTree DEF AddBlock
<1>2. ASSUME NEW k \in KeepDepths, Trim(k) PROVE TreeInv'
  <2>1. k \in Nat
    OBVIOUS
  <2>2. tree' \in Trees /\ IsTree(tree')
    BY <1>2, <2>1, TrimIsTree DEF Trim
  <2>3. tree.nodes \subseteq Blocks
    BY DEF Trees
  <2> QED BY <1>2, <2>2, <2>3 DEF Trim
<1>3. CASE Clear
  BY <1>3, EmptyTreeIsTree DEF Clear
<1>4. CASE UNCHANGED treeVars
  BY <1>4 DEF treeVars
<1> QED BY <1>1, <1>2, <1>3, <1>4 DEF TreeNext

\* Type correctness of every reachable state.
THEOREM TypeCorrect == TreeSpec => []TreeTypeOK
<1>1. TreeInv => TreeTypeOK
  BY DEF TreeInv
<1> QED BY <1>1, TreeInvInit, TreeInvNext, PTL DEF TreeSpec

\* No parent pointer ever dangles and every node hangs under its header's
\* parent: addTxPoW, trimTree and clear keep the tree connected.
THEOREM AlwaysConnected == TreeSpec => []TreeConnected
<1>1. TreeInv => TreeConnected
  BY DEF TreeInv, IsTree, TreeConnected
<1> QED BY <1>1, TreeInvInit, TreeInvNext, PTL DEF TreeSpec

\* The tip of every reachable tree is one of its heaviest nodes.
THEOREM TipAlwaysHeaviest == TreeSpec => []TipHeaviest
<1>1. TreeInv => TipHeaviest
  BY DEF TreeInv, IsTree, TipHeaviest
<1> QED BY <1>1, TreeInvInit, TreeInvNext, PTL DEF TreeSpec

\* The tip changes only for a strictly heavier node, until the tree is
\* cleared: a fork of equal weight never displaces the branch seen first.
THEOREM TipMonotone == TreeSpec => TipOnlyGainsWeight
<1> DEFINE Gain == tree.tip \in Blocks /\ tree'.tip \notin {NoBlock, tree.tip}
                     => tree'.weight[tree'.tip] > tree.weight[tree.tip]
<1>1. TreeInv /\ [TreeNext]_treeVars => [Gain]_treeVars
  <2> SUFFICES ASSUME TreeInv, TreeNext PROVE Gain
    OBVIOUS
  <2> USE DEF TreeInv, TreeTypeOK
  <2>1. ASSUME NEW b \in Blocks, AddBlock(b) PROVE Gain
    <3>1. CASE tree' = tree \/ tree.root = NoBlock
      BY <3>1 DEF IsTree, Anchored, Trees
    <3>2. CASE tree' # tree /\ tree.root # NoBlock
      <4>1. tree' = Attach(tree, b)
        BY <2>1, <3>2 DEF AddBlock, AddTxPoW
      <4> DEFINE w == tree.weight[Parent[b]] + 1
      <4>2. tree'.tip = HeavierTip(tree, b, w)
            /\ tree'.weight = [tree.weight EXCEPT ![b] = w]
        BY <4>1 DEF Attach, Trees
      <4> QED BY <4>2 DEF HeavierTip, Trees
    <3> QED BY <3>1, <3>2
  <2>2. ASSUME NEW k \in KeepDepths, Trim(k) PROVE Gain
    BY <2>2, TrimIsTree DEF Trim
  <2>3. CASE Clear
    BY <2>3 DEF Clear, EmptyTree
  <2> QED BY <2>1, <2>2, <2>3 DEF TreeNext
<1> QED BY <1>1, TreeInvInit, TreeInvNext, PTL DEF TreeSpec, TipOnlyGainsWeight

-----------------------------------------------------------------------------
(* What is trimmed stays out.                                              *)

\* Apart from the root no node's parent is missing, so the parent of the root
\* is: otherwise the nodes would be a set without a minimal block.
LEMMA RootParentOutside ==
  ASSUME NEW t \in Trees, IsTree(t), t.nodes # {}
  PROVE  Parent[t.root] \notin t.nodes
<1>1. t.nodes \in SUBSET Blocks
  BY DEF Trees
<1>2. PICK b \in t.nodes : Parent[b] \notin t.nodes
  BY <1>1, HashAssumption
<1>3. b = t.root
  BY <1>2 DEF IsTree, Linked
<1> QED BY <1>2, <1>3

\* The strengthening: history and tree together are one connected family with
\* a single oldest block, and no trimmed block has its parent in the tree.
Family == tree.nodes \cup trimmed
FamilyConnected ==
  \A b, c \in Family : Parent[b] \notin Family /\ Parent[c] \notin Family => b = c
ParentsGone == \A b \in trimmed : Parent[b] \notin tree.nodes
TrimInv == /\ TreeInv
           /\ TrimmedForGood
           /\ FamilyConnected
           /\ ParentsGone
           /\ tree.nodes = {} => trimmed = {}

LEMMA TrimInvInit == TreeInit => TrimInv
<1>1. TreeInit => tree.nodes = {} /\ trimmed = {}
  BY DEF TreeInit, EmptyTree
<1> QED BY <1>1, TreeInvInit DEF TrimInv, TrimmedForGood, FamilyConnected, Family, ParentsGone

LEMMA TrimInvAdd ==
  ASSUME TrimInv, NEW b \in Blocks, AddBlock(b), TreeInv'
  PROVE  TrimInv'
<1>1. CASE Known(tree, b) \/ IsOrphan(tree, b)
  <2>1. UNCHANGED treeVars
    BY <1>1 DEF AddBlock, AddTxPoW, treeVars
  <2> QED BY <2>1 DEF TrimInv, TrimmedForGood, FamilyConnected, Family, ParentsGone, treeVars
<1>2. CASE ~ (Known(tree, b) \/ IsOrphan(tree, b)) /\ tree.root = NoBlock
  <2>1. tree.nodes = {} /\ trimmed = {}
    BY <1>2 DEF TrimInv, TreeInv, TreeTypeOK, IsTree, Anchored, Trees
  <2>2. tree'.nodes = {b} /\ trimmed' = {}
    BY <1>2, <2>1 DEF AddBlock, AddTxPoW, PlantRoot, TrimInv, TreeInv, TreeTypeOK, Trees
  <2> QED BY <2>2 DEF TrimInv, TrimmedForGood, FamilyConnected, Family, ParentsGone
<1>3. CASE ~ (Known(tree, b) \/ IsOrphan(tree, b)) /\ tree.root # NoBlock
  <2>1. tree' = Attach(tree, b) /\ trimmed' = trimmed
    BY <1>3 DEF AddBlock, AddTxPoW
  <2>2. tree'.nodes = tree.nodes \cup {b}
    BY <2>1 DEF Attach, TrimInv, TreeInv, TreeTypeOK, Trees
  <2>3. b \notin tree.nodes /\ Parent[b] \in tree.nodes
    BY <1>3 DEF Known, IsOrphan
  <2>4. b \notin trimmed
    BY <2>3 DEF TrimInv, ParentsGone
  <2>5. Family' = Family \cup {b} /\ b \notin Family /\ Parent[b] \in Family
    BY <2>1, <2>2, <2>3, <2>4 DEF Family
  <2>6. Family' \in SUBSET Blocks /\ Family' # {}
    BY <2>5 DEF Family, TrimInv, TreeInv, TreeTypeOK, Trees
  <2>7. PICK o \in Family' : Parent[o] \notin Family'
    BY <2>6, HashAssumption
  <2>8. o \in Family /\ Parent[o] \notin Family
    BY <2>5, <2>7
  \* The new block is nobody's missing parent.
  <2>9. ASSUME NEW c \in Family PROVE Parent[c] # b
    <3>1. CASE Parent[c] \notin Family
      <4>1. c = o
        BY <3>1, <2>8 DEF TrimInv, FamilyConnected
      <4> QED BY <4>1, <2>7, <2>5
    <3>2. CASE Parent[c] \in Family
      BY <3>2, <2>5
    <3> QED BY <3>1, <3>2
  <2>10. FamilyConnected'
    <3> SUFFICES ASSUME NEW c \in Family', NEW d \in Family',
                        Parent[c] \notin Family', Parent[d] \notin Family'
                 PROVE  c = d
      BY DEF FamilyConnected
    <3>1. c # b /\ d # b
      BY <2>5
    <3> QED BY <3>1, <2>5 DEF TrimInv, FamilyConnected
  <2>11. TrimmedForGood'
    BY <2>1, <2>2, <2>4 DEF TrimInv, TrimmedForGood
  <2>12. ParentsGone'
    <3> SUFFICES ASSUME NEW c \in trimmed PROVE Parent[c] \notin tree.nodes \cup {b}
      BY <2>1, <2>2 DEF ParentsGone
    <3>1. c \in Family
      BY DEF Family
    <3> QED BY <3>1, <2>9 DEF TrimInv, ParentsGone
  <2> QED BY <2>2, <2>10, <2>11, <2>12 DEF TrimInv
<1> QED BY <1>1, <1>2, <1>3

LEMMA TrimInvTrim ==
  ASSUME TrimInv, NEW k \in KeepDepths, Trim(k), TreeInv'
  PROVE  TrimInv'
<1>1. /\ k \in Nat /\ tree \in Trees /\ IsTree(tree)
      /\ tree' \in Trees /\ IsTree(tree')
  BY DEF TrimInv, TreeInv, TreeTypeOK
<1>2. tree' = TrimTree(tree, k) /\ trimmed' = trimmed \cup (tree.nodes \ tree'.nodes)
  BY DEF Trim
<1>3. tree'.nodes \subseteq tree.nodes /\ tree'.tip = tree.tip
  BY <1>1, <1>2, TrimIsTree
<1>4. Family' = Family
  BY <1>2, <1>3 DEF Family
<1>5. ASSUME NEW b \in tree.nodes \ tree'.nodes PROVE Parent[b] \notin tree'.nodes
  <2>1. tree.nodes # {} /\ tree.tip # NoBlock
    BY <1>1 DEF IsTree, Anchored, Trees
  <2>2. CASE b = tree.root
    BY <2>1, <2>2, <1>1, <1>3, RootParentOutside
  <2>3. CASE b # tree.root
    <3> DEFINE r == NewRoot(tree, k)
    <3>1. tree' = CutAt(tree, r)
      BY <1>2, <1>5 DEF TrimTree
    <3>2. r \in tree.nodes
      BY <2>1, <1>1, WalkExists DEF NewRoot
    <3> HIDE DEF r
    <3>3. tree'.nodes = Subtree(tree, r)
      BY <3>1 DEF CutAt
    <3>4. ClosedUnderChildren(tree, Subtree(tree, r))
      BY <3>2, SubtreeFacts
    <3>5. tree.parent[b] = Parent[b]
      BY <2>3, <1>1 DEF IsTree, Linked
    <3> QED BY <3>3, <3>4, <3>5 DEF ClosedUnderChildren
  <2> QED BY <2>2, <2>3
<1>6. ParentsGone'
  BY <1>2, <1>3, <1>5 DEF ParentsGone, TrimInv
<1>7. FamilyConnected'
  BY <1>4 DEF FamilyConnected, TrimInv
<1>8. TrimmedForGood'
  BY <1>2, <1>3 DEF TrimmedForGood, TrimInv
<1>9. tree'.nodes = {} => trimmed' = {}
  <2>1. tree'.nodes = {} => tree.nodes = {}
    BY <1>1, <1>3 DEF IsTree, Anchored, Trees
  <2> QED BY <2>1, <1>2 DEF TrimInv
<1> QED BY <1>6, <1>7, <1>8, <1>9 DEF TrimInv

\* A deleted block never comes back before the tree is cleared, although
\* addTxPoW keeps no record of what was deleted: its parent is always missing.
THEOREM TrimmedStaysOut == TreeSpec => []TrimmedForGood
<1>1. TrimInv /\ [TreeNext]_treeVars => TrimInv'
  <2> SUFFICES ASSUME TrimInv, [TreeNext]_treeVars PROVE TrimInv'
    OBVIOUS
  <2>1. TreeInv'
    BY TreeInvNext DEF TrimInv
  <2>2. ASSUME NEW b \in Blocks, AddBlock(b) PROVE TrimInv'
    BY <2>1, <2>2, TrimInvAdd
  <2>3. ASSUME NEW k \in KeepDepths, Trim(k) PROVE TrimInv'
    BY <2>1, <2>3, TrimInvTrim
  <2>4. CASE Clear
    <3>1. tree'.nodes = {} /\ trimmed' = {}
      BY <2>4 DEF Clear, EmptyTree
    <3> QED BY <3>1, <2>1 DEF TrimInv, TrimmedForGood, FamilyConnected, Family, ParentsGone
  <2>5. CASE UNCHANGED treeVars
    BY <2>5 DEF treeVars, TrimInv, TreeInv, TreeTypeOK, TrimmedForGood, FamilyConnected, Family, ParentsGone
  <2> QED BY <2>2, <2>3, <2>4, <2>5 DEF TreeNext
<1>2. TrimInv => TrimmedForGood
  BY DEF TrimInv
<1> QED BY <1>1, <1>2, TrimInvInit, PTL DEF TreeSpec

-----------------------------------------------------------------------------
(* The canonical chain.  canonicalChain is a recursive function on the     *)
(* nodes; what it returns is the one path to the tip, and the walk of      *)
(* trimTree goes back along it.                                           *)

LEMMA OneIsSeq ==
  ASSUME NEW S, NEW e \in S
  PROVE  <<e>> \in Seq(S) /\ Len(<<e>>) = 1 /\ <<e>>[1] = e /\ <<e>> # <<>>
OBVIOUS

\* A sequence is one over any set that holds its elements.
LEMMA Narrowed ==
  ASSUME NEW T, NEW U, NEW s \in Seq(T), Len(s) # 0, \A i \in 1 .. Len(s) : s[i] \in U
  PROVE  s \in Seq(U) /\ s # <<>>
<1>1. s \in Seq(U)
  OBVIOUS
<1>2. s # <<>>
  <2>1. Len(<<>>) = 0
    OBVIOUS
  <2> QED BY <2>1
<1> QED BY <1>1, <1>2

LEMMA TailOf ==
  ASSUME NEW S, NEW c \in Seq(S), NEW m \in 1 .. Len(c)
  PROVE  /\ SubSeq(c, m, Len(c)) \in Seq(S)
         /\ Len(SubSeq(c, m, Len(c))) = Len(c) - m + 1
         /\ \A i \in 1 .. Len(c) - m + 1 : SubSeq(c, m, Len(c))[i] = c[m + i - 1]
OBVIOUS

\* c leads along parent pointers from a node without a parent to n.
IsPath(t, n, c) ==
  /\ c \in Seq(t.nodes) /\ c # <<>>
  /\ t.parent[c[1]] = NoBlock
  /\ \A i \in 2 .. Len(c) : t.parent[c[i]] = c[i - 1]
  /\ c[Len(c)] = n

\* The function that canonicalChain is defined by.
ArePaths(t, f) ==
  f = [n \in t.nodes |->
         IF t.parent[n] = NoBlock THEN <<n>> ELSE Append(f[t.parent[n]], n)]

LEMMA ParentInTree ==
  ASSUME NEW t \in Trees, IsTree(t), NEW n \in t.nodes, t.parent[n] # NoBlock
  PROVE  t.parent[n] \in t.nodes /\ t.weight[n] = t.weight[t.parent[n]] + 1
BY DEF IsTree, RootDetached, Linked, Trees

\* It exists: the weights count the levels of the recursion.
LEMMA PathsExist ==
  ASSUME NEW t \in Trees, IsTree(t), t.tip # NoBlock
  PROVE  \E f \in [t.nodes -> Seq(t.nodes)] : ArePaths(t, f)
<1> DEFINE X == [t.nodes -> Seq(t.nodes)]
           N == t.weight[t.tip] + 1
           Longer(g) == [n \in t.nodes |-> IF t.parent[n] = NoBlock THEN <<n>>
                                           ELSE Append(g[t.parent[n]], n)]
           F == [k \in 1 .. N |-> [g \in X |-> Longer(g)]]
           x0 == [n \in t.nodes |-> <<>>]
<1>1. t.tip \in t.nodes /\ \A n \in t.nodes : t.weight[n] \in Nat /\ t.weight[n] <= t.weight[t.tip]
  BY DEF IsTree, Anchored, Heaviest, Trees
<1>2. N \in Nat
  BY <1>1
<1>3. \A g \in X : Longer(g) \in X
  <2> SUFFICES ASSUME NEW g \in X, NEW n \in t.nodes
               PROVE  Longer(g)[n] \in Seq(t.nodes)
    OBVIOUS
  <2> DEFINE up == g[t.parent[n]]
  <2>0. Longer(g)[n] = IF t.parent[n] = NoBlock THEN <<n>> ELSE Append(up, n)
    OBVIOUS
  <2> HIDE DEF Longer
  <2>1. CASE t.parent[n] = NoBlock
    <3>1. <<n>> \in Seq(t.nodes)
      BY OneIsSeq
    <3> QED BY <2>0, <2>1, <3>1
  <2>2. CASE t.parent[n] # NoBlock
    <3>1. up \in Seq(t.nodes)
      BY <2>2, ParentInTree
    <3> HIDE DEF up
    <3>2. Append(up, n) \in Seq(t.nodes)
      BY <3>1
    <3> QED BY <2>0, <2>2, <3>2
  <2> QED BY <2>1, <2>2
<1>4. x0 \in X
  OBVIOUS
<1> HIDE DEF N
<1>5. F \in [1 .. N -> [X -> X]]
  BY <1>3
<1>6. \A k \in 1 .. N, g \in X : F[k][g] = Longer(g)
  OBVIOUS
<1> HIDE DEF X, F, x0, Longer
<1>7. Recursion(N, X, x0, F)
  BY <1>2, <1>4, <1>5, RecursionExists
<1>8. PICK h : /\ h \in [0 .. N -> X]
               /\ \A k \in 1 .. N : h[k] = F[k][h[k - 1]]
  BY <1>7 DEF Recursion, Recursive
<1>9. \A k \in 1 .. N : h[k] = Longer(h[k - 1])
  <2> TAKE k \in 1 .. N
  <2>1. k - 1 \in 0 .. N
    BY <1>2
  <2> QED BY <2>1, <1>6, <1>8
<1> DEFINE f == [n \in t.nodes |-> h[t.weight[n] + 1][n]]
<1>10. ASSUME NEW n \in t.nodes
       PROVE  /\ f[n] = IF t.parent[n] = NoBlock THEN <<n>> ELSE Append(f[t.parent[n]], n)
              /\ f[n] \in Seq(t.nodes)
  <2>1. t.weight[n] + 1 \in 1 .. N /\ t.weight[n] + 1 \in 0 .. N /\ (t.weight[n] + 1) - 1 = t.weight[n]
    BY <1>1, <1>2 DEF N
  <2>2. h[t.weight[n] + 1] = Longer(h[t.weight[n]])
    BY <2>1, <1>9
  <2>3. f[n] = IF t.parent[n] = NoBlock THEN <<n>> ELSE Append(h[t.weight[n]][t.parent[n]], n)
    BY <2>2 DEF Longer
  <2>4. t.parent[n] # NoBlock => f[t.parent[n]] = h[t.weight[n]][t.parent[n]]
    BY ParentInTree
  <2>5. h[t.weight[n] + 1] \in X
    BY <2>1, <1>8
  <2> QED BY <2>3, <2>4, <2>5 DEF X
<1>11. f \in [t.nodes -> Seq(t.nodes)]
  BY <1>10
<1>12. ArePaths(t, f)
  BY <1>10 DEF ArePaths
<1> QED BY <1>11, <1>12

\* What it computes are paths.
LEMMA PathsArePaths ==
  ASSUME NEW t \in Trees, IsTree(t), NEW f, ArePaths(t, f),
         NEW n \in t.nodes
  PROVE  IsPath(t, n, f[n])
<1> DEFINE S == {w \in Nat : \A m \in t.nodes : t.weight[m] <= w => IsPath(t, m, f[m])}
<1>1. \A m \in t.nodes : t.parent[m] = NoBlock => IsPath(t, m, f[m])
  <2> SUFFICES ASSUME NEW m \in t.nodes, t.parent[m] = NoBlock PROVE IsPath(t, m, f[m])
    OBVIOUS
  <2>1. f[m] = <<m>>
    BY DEF ArePaths
  <2> DEFINE c == <<m>>
  <2>2. c \in Seq(t.nodes) /\ Len(c) = 1 /\ c[1] = m /\ c # <<>>
    BY OneIsSeq
  <2>3. 2 .. 1 = {}
    OBVIOUS
  <2> HIDE DEF c
  <2>4. IsPath(t, m, c)
    BY <2>2, <2>3 DEF IsPath
  <2> QED BY <2>1, <2>4 DEF c
<1>2. \A m \in t.nodes :
        t.parent[m] # NoBlock /\ IsPath(t, t.parent[m], f[t.parent[m]]) => IsPath(t, m, f[m])
  <2> SUFFICES ASSUME NEW m \in t.nodes, t.parent[m] # NoBlock,
                      IsPath(t, t.parent[m], f[t.parent[m]])
               PROVE  IsPath(t, m, f[m])
    OBVIOUS
  <2> DEFINE c == f[t.parent[m]]
  <2>1. f[m] = Append(c, m)
    BY DEF ArePaths
  <2>2. /\ c \in Seq(t.nodes) /\ c # <<>> /\ t.parent[c[1]] = NoBlock
        /\ \A i \in 2 .. Len(c) : t.parent[c[i]] = c[i - 1]
        /\ c[Len(c)] = t.parent[m]
    BY DEF IsPath
  <2> HIDE DEF c
  <2> DEFINE L == Len(c)
  <2>3. L \in Nat /\ L # 0
    BY <2>2
  <2> DEFINE d == Append(c, m)
  <2>4. /\ d \in Seq(t.nodes) /\ Len(d) = L + 1 /\ d[L + 1] = m
        /\ \A i \in 1 .. L : d[i] = c[i]
    BY <2>2
  <2> HIDE DEF d
  <2>5. d # <<>> /\ d[1] = c[1]
    BY <2>3, <2>4
  <2>6. ASSUME NEW i \in 2 .. Len(d) PROVE t.parent[d[i]] = d[i - 1]
    <3>1. CASE i = L + 1
      <4>1. i - 1 = L /\ L \in 1 .. L
        BY <3>1, <2>3
      <4> QED BY <4>1, <3>1, <2>2, <2>4
    <3>2. CASE i # L + 1
      <4>1. i \in 2 .. L /\ i \in 1 .. L /\ i - 1 \in 1 .. L
        BY <3>2, <2>3, <2>4
      <4> QED BY <4>1, <2>2, <2>4
    <3> QED BY <3>1, <3>2
  <2> QED BY <2>1, <2>2, <2>4, <2>5, <2>6 DEF IsPath, d
<1>3. 0 \in S
  <2> SUFFICES ASSUME NEW m \in t.nodes, t.weight[m] <= 0 PROVE t.parent[m] = NoBlock
    BY <1>1
  <2>1. t.weight[m] \in Nat /\ (t.parent[m] # NoBlock => t.weight[t.parent[m]] \in Nat)
    BY DEF Trees
  <2> QED BY <2>1, ParentInTree
<1>4. ASSUME NEW w \in S PROVE w + 1 \in S
  <2> SUFFICES ASSUME NEW m \in t.nodes, t.weight[m] <= w + 1, t.parent[m] # NoBlock
               PROVE  IsPath(t, t.parent[m], f[t.parent[m]])
    BY <1>1, <1>2
  <2>1. t.parent[m] \in t.nodes /\ t.weight[m] = t.weight[t.parent[m]] + 1
    BY ParentInTree
  <2>2. t.weight[t.parent[m]] \in Nat /\ w \in Nat
    BY <2>1 DEF Trees
  <2>3. t.weight[t.parent[m]] <= w
    BY <2>1, <2>2
  <2> QED BY <2>1, <2>3
<1> HIDE DEF S
<1>5. S = Nat
  <2>1. S \in SUBSET Nat
    BY DEF S
  <2> QED BY <1>3, <1>4, <2>1, SetInduction
<1>6. t.weight[n] \in S
  BY <1>5 DEF Trees
<1>7. t.weight[n] <= t.weight[n]
  BY DEF Trees
<1> QED BY <1>6, <1>7 DEF S

LEMMA ChainIsPath ==
  ASSUME NEW t \in Trees, IsTree(t), t.tip # NoBlock
  PROVE  IsPath(t, t.tip, CanonicalChain(t))
<1> DEFINE path == CHOOSE f :
             f = [n \in t.nodes |->
                    IF t.parent[n] = NoBlock THEN <<n>> ELSE Append(f[t.parent[n]], n)]
<1>1. PICK g \in [t.nodes -> Seq(t.nodes)] : ArePaths(t, g)
  BY PathsExist
<1>2. ArePaths(t, path)
  BY <1>1, Zenon DEF ArePaths
<1>3. CanonicalChain(t) = path[t.tip]
  BY DEF CanonicalChain
<1> HIDE DEF path
<1>4. t.tip \in t.nodes
  BY DEF IsTree, Anchored
<1>5. IsPath(t, t.tip, path[t.tip])
  BY <1>2, <1>4, PathsArePaths
<1> QED BY <1>3, <1>5

\* Only one path leads to a node: read from its end, a path is determined by the
\* parent pointers.
LEMMA PathsAgree ==
  ASSUME NEW t, NEW n, NEW c, NEW d, IsPath(t, n, c), IsPath(t, n, d),
         NEW j \in Nat, j < Len(c), j < Len(d)
  PROVE  c[Len(c) - j] = d[Len(d) - j]
<1> DEFINE C == Len(c)
           D == Len(d)
           S == {i \in Nat : i < C /\ i < D => c[C - i] = d[D - i]}
<1>1. /\ C \in Nat /\ D \in Nat
      /\ \A i \in 2 .. C : t.parent[c[i]] = c[i - 1]
      /\ \A i \in 2 .. D : t.parent[d[i]] = d[i - 1]
      /\ c[C] = n /\ d[D] = n
  BY DEF IsPath
<1> HIDE DEF C, D
<1>2. 0 \in S
  BY <1>1
<1>3. ASSUME NEW i \in S PROVE i + 1 \in S
  <2> SUFFICES ASSUME i + 1 < C, i + 1 < D PROVE c[C - (i + 1)] = d[D - (i + 1)]
    OBVIOUS
  <2>1. /\ i \in Nat /\ C - i \in 2 .. C /\ D - i \in 2 .. D
        /\ (C - i) - 1 = C - (i + 1) /\ (D - i) - 1 = D - (i + 1)
    BY <1>1
  <2>2. c[C - i] = d[D - i]
    BY <1>1, <2>1
  <2> QED BY <1>1, <2>1, <2>2
<1> HIDE DEF S
<1>4. S = Nat
  <2>1. S \in SUBSET Nat
    BY DEF S
  <2> QED BY <1>2, <1>3, <2>1, SetInduction
<1> QED BY <1>4 DEF S, C, D

LEMMA PathNotShorter ==
  ASSUME NEW t \in Trees, NEW n, NEW c, NEW d, IsPath(t, n, c), IsPath(t, n, d)
  PROVE  Len(d) <= Len(c)
<1> DEFINE C == Len(c)
           D == Len(d)
<1>1. /\ C \in Nat /\ D \in Nat /\ C # 0 /\ d \in Seq(t.nodes)
      /\ t.parent[c[1]] = NoBlock
      /\ \A i \in 2 .. D : t.parent[d[i]] = d[i - 1]
  BY DEF IsPath
<1>2. \A i \in 1 .. D : d[i] \in t.nodes
  BY <1>1
<1> HIDE DEF C, D
<1> SUFFICES ASSUME C < D PROVE FALSE
  BY <1>1 DEF C, D
<1>3. C - 1 \in Nat /\ C - 1 < C /\ C - 1 < D /\ C - (C - 1) = 1 /\ D - (C - 1) \in 2 .. D
  BY <1>1
<1>4. c[1] = d[D - (C - 1)]
  <2>1. c[C - (C - 1)] = d[D - (C - 1)]
    BY <1>3, PathsAgree DEF C, D
  <2> QED BY <1>3, <2>1
<1> DEFINE i == D - (C - 1)
<1>5. i \in 2 .. D /\ i - 1 \in 1 .. D
  BY <1>1, <1>3
<1> HIDE DEF i
<1>6. d[i - 1] = NoBlock
  BY <1>1, <1>4, <1>5 DEF i
<1>7. d[i - 1] \in t.nodes /\ t.nodes \subseteq Blocks
  BY <1>2, <1>5 DEF Trees
<1> QED BY <1>6, <1>7

LEMMA PathIsUnique ==
  ASSUME NEW t \in Trees, NEW n, NEW c, NEW d, IsPath(t, n, c), IsPath(t, n, d)
  PROVE  c = d
<1> DEFINE L == Len(c)
<1>1. c \in Seq(t.nodes) /\ d \in Seq(t.nodes) /\ L \in Nat /\ Len(d) \in Nat
  BY DEF IsPath
<1>2. Len(d) = L
  BY <1>1, PathNotShorter
<1>3. ASSUME NEW i \in 1 .. L PROVE c[i] = d[i]
  <2>1. L - i \in Nat /\ L - i < L /\ L - (L - i) = i
    BY <1>1
  <2>2. c[L - (L - i)] = d[L - (L - i)]
    BY <1>2, <2>1, PathsAgree
  <2> QED BY <2>1, <2>2
<1> QED BY <1>1, <1>2, <1>3

\* The walk of trimTree goes back along the canonical chain; what the cut leaves
\* of the chain is a path of the new tree.
LEMMA WalkFollowsChain ==
  ASSUME NEW t \in Trees, IsTree(t), NEW c, IsPath(t, t.tip, c),
         NEW k \in Nat, NEW r \in t.nodes, StepsUp(t, k, r), r # t.root
  PROVE  k < Len(c) /\ c[Len(c) - k] = r
<1> DEFINE L == Len(c)
<1>1. /\ L \in Nat /\ L # 0
      /\ c \in Seq(t.nodes) /\ t.parent[c[1]] = NoBlock
      /\ \A i \in 2 .. L : t.parent[c[i]] = c[i - 1]
      /\ c[L] = t.tip
  BY DEF IsPath
<1>2. \A i \in 1 .. L : c[i] \in t.nodes /\ c[i] # NoBlock
  BY <1>1 DEF Trees
<1> HIDE DEF L
<1>3. c[1] = t.root
  <2>1. 1 \in 1 .. L
    BY <1>1
  <2> QED BY <1>1, <1>2, <2>1 DEF IsTree, Linked, Trees
<1>4. PICK walk \in [0 .. k -> t.nodes] :
        /\ walk[0] = t.tip
        /\ \A i \in 1 .. k : walk[i] = Above(t, walk[i - 1])
        /\ walk[k] = r
  BY DEF StepsUp
<1>5. \A i \in 2 .. L : Above(t, c[i]) = c[i - 1]
  <2> TAKE i \in 2 .. L
  <2>1. i - 1 \in 1 .. L
    BY <1>1
  <2> QED BY <2>1, <1>1, <1>2 DEF Above
<1>6. Above(t, t.root) = t.root
  BY <1>1, <1>3 DEF Above
<1> DEFINE S == {i \in Nat : i <= k /\ i < L => walk[i] = c[L - i]}
           R == {i \in Nat : i <= k /\ L <= i + 1 => walk[i] = t.root}
<1>7. S = Nat
  <2>1. 0 \in S
    BY <1>1, <1>4
  <2>2. ASSUME NEW i \in S PROVE i + 1 \in S
    <3> SUFFICES ASSUME i + 1 <= k, i + 1 < L PROVE walk[i + 1] = c[L - (i + 1)]
      OBVIOUS
    <3>1. /\ i \in Nat /\ i + 1 \in 1 .. k /\ (i + 1) - 1 = i
          /\ L - i \in 2 .. L /\ (L - i) - 1 = L - (i + 1)
      BY <1>1
    <3>2. walk[i] = c[L - i]
      BY <1>1, <3>1
    <3>3. walk[i + 1] = Above(t, walk[i])
      BY <1>4, <3>1
    <3>4. Above(t, c[L - i]) = c[(L - i) - 1]
      BY <1>5, <3>1
    <3> QED BY <3>1, <3>2, <3>3, <3>4
  <2>3. S \in SUBSET Nat
    OBVIOUS
  <2> HIDE DEF S
  <2> QED BY <2>1, <2>2, <2>3, SetInduction
<1>8. R = Nat
  <2>1. ASSUME NEW i \in Nat, i <= k, L = i + 1 PROVE walk[i] = t.root
    <3>1. i < L /\ L - i = 1 /\ i \in S
      BY <1>7, <2>1
    <3> QED BY <1>3, <2>1, <3>1
  <2>2. 0 \in R
    <3>1. L <= 0 + 1 => L = 0 + 1
      BY <1>1
    <3>2. 0 \in Nat /\ 0 <= k
      OBVIOUS
    <3> QED BY <2>1, <3>1, <3>2
  <2>3. ASSUME NEW i \in R PROVE i + 1 \in R
    <3>1. i \in Nat /\ i + 1 \in Nat
      OBVIOUS
    <3> SUFFICES ASSUME i + 1 <= k, L <= (i + 1) + 1, L # (i + 1) + 1 PROVE walk[i + 1] = t.root
      BY <2>1, <3>1
    <3>2. L <= i + 1 /\ i <= k /\ i + 1 \in 1 .. k /\ (i + 1) - 1 = i
      BY <1>1, <3>1
    <3>3. walk[i] = t.root
      BY <3>1, <3>2
    <3>4. walk[i + 1] = Above(t, walk[i])
      BY <1>4, <3>2
    <3> QED BY <1>6, <3>3, <3>4
  <2>4. R \in SUBSET Nat
    OBVIOUS
  <2> HIDE DEF R
  <2> QED BY <2>2, <2>3, <2>4, SetInduction
<1>9. k < L
  <2> SUFFICES ASSUME L <= k PROVE FALSE
    BY <1>1
  <2>1. k <= k /\ L <= k + 1 /\ k \in R
    <3> HIDE DEF R, S
    <3> QED BY <1>1, <1>8
  <2> HIDE DEF S
  <2>2. walk[k] = t.root
    BY <2>1
  <2> QED BY <1>4, <2>2
<1>10. k \in S /\ k <= k
  BY <1>7
<1> QED BY <1>4, <1>9, <1>10 DEF L

LEMMA CutKeepsPath ==
  ASSUME NEW t \in Trees, IsTree(t), NEW c, IsPath(t, t.tip, c), NEW k \in Nat,
         NEW r \in t.nodes, k < Len(c), c[Len(c) - k] = r
  PROVE  IsPath(CutAt(t, r), t.tip, SubSeq(c, Len(c) - k, Len(c)))
<1> DEFINE L == Len(c)
           m == L - k
           K == Subtree(t, r)
           u == CutAt(t, r)
           d == SubSeq(c, m, L)
<1>1. /\ L \in Nat /\ L # 0
      /\ c \in Seq(t.nodes) /\ t.parent[c[1]] = NoBlock
      /\ \A i \in 2 .. L : t.parent[c[i]] = c[i - 1]
      /\ c[L] = t.tip
  BY DEF IsPath
<1>2. \A i \in 1 .. L : c[i] \in t.nodes /\ c[i] # NoBlock
  BY <1>1 DEF Trees
<1> HIDE DEF L
<1>3. k < L /\ m \in 1 .. L /\ L - m = k /\ c[m] = r
  BY <1>1 DEF L
<1>4. /\ d \in Seq(t.nodes) /\ Len(d) = k + 1
      /\ \A i \in 1 .. k + 1 : d[i] = c[m + i - 1]
  <2>1. m \in 1 .. Len(c) /\ L - m + 1 = k + 1
    BY <1>1, <1>3 DEF L
  <2>2. d = SubSeq(c, m, Len(c))
    BY DEF L
  <2> HIDE DEF m, d
  <2>3. /\ d \in Seq(t.nodes) /\ Len(d) = Len(c) - m + 1
        /\ \A i \in 1 .. Len(c) - m + 1 : d[i] = c[m + i - 1]
    <3>1. c \in Seq(t.nodes)
      BY <1>1
    <3>2. /\ SubSeq(c, m, Len(c)) \in Seq(t.nodes)
          /\ Len(SubSeq(c, m, Len(c))) = Len(c) - m + 1
      BY <3>1, <2>1, TailOf
    <3>3. \A i \in 1 .. Len(c) - m + 1 : SubSeq(c, m, Len(c))[i] = c[m + i - 1]
      BY <3>1, <2>1, TailOf
    <3> QED BY <2>2, <3>2, <3>3
  <2>4. Len(c) - m + 1 = k + 1
    BY <2>1 DEF L
  <2> QED BY <2>3, <2>4
<1> HIDE DEF m, d, K, u
<1>5. r \in K /\ ClosedUnderChildren(t, K)
  BY SubtreeFacts DEF K
<1>6. t.weight \in [t.nodes -> Nat] \/ \A n \in t.nodes : t.weight[n] \in Nat
  BY DEF Trees
<1> DEFINE S == {j \in Nat : j <= k => c[m + j] \in K /\ t.weight[c[m + j]] = t.weight[r] + j}
<1>7. S = Nat
  <2>1. 0 \in S
    <3>1. m + 0 = m /\ t.weight[r] \in Nat
      BY <1>3, <1>6
    <3> QED BY <1>3, <1>5, <3>1
  <2>2. ASSUME NEW j \in S PROVE j + 1 \in S
    <3> SUFFICES ASSUME j + 1 <= k
                 PROVE  /\ c[m + (j + 1)] \in K
                        /\ t.weight[c[m + (j + 1)]] = t.weight[r] + (j + 1)
      OBVIOUS
    <3>1. /\ j \in Nat /\ m + (j + 1) \in 2 .. L /\ m + (j + 1) \in 1 .. L
          /\ (m + (j + 1)) - 1 = m + j /\ m + j \in 1 .. L
      BY <1>1, <1>3
    <3>2. t.parent[c[m + (j + 1)]] = c[m + j] /\ c[m + (j + 1)] \in t.nodes /\ c[m + j] # NoBlock
      BY <1>1, <1>2, <3>1
    <3>3. c[m + j] \in K /\ t.weight[c[m + j]] = t.weight[r] + j
      BY <3>1
    <3>4. c[m + (j + 1)] \in K
      BY <1>5, <3>2, <3>3 DEF ClosedUnderChildren
    <3>5. t.weight[c[m + (j + 1)]] = t.weight[c[m + j]] + 1
      BY <3>2, ParentInTree
    <3>6. t.weight[r] \in Nat
      BY <1>6
    <3>7. (t.weight[r] + j) + 1 = t.weight[r] + (j + 1)
      <4>1. \A x, y \in Nat : (x + y) + 1 = x + (y + 1)
        OBVIOUS
      <4> QED BY <3>1, <3>6, <4>1, Zenon
    <3> QED BY <3>3, <3>4, <3>5, <3>7, Zenon
  <2>3. S \in SUBSET Nat
    OBVIOUS
  <2> HIDE DEF S
  <2> QED BY <2>1, <2>2, <2>3, SetInduction
<1>8. ASSUME NEW i \in 1 .. k + 1
      PROVE  d[i] \in K /\ d[i] \in t.nodes /\ (i # 1 => d[i] # r)
  <2>1. i - 1 \in Nat /\ i - 1 <= k /\ m + (i - 1) = m + i - 1 /\ m + (i - 1) \in 1 .. L
    BY <1>1, <1>3
  <2>2. i - 1 \in S
    BY <1>7, <2>1
  <2>3. d[i] = c[m + (i - 1)]
    BY <1>4, <2>1
  <2>4. d[i] \in K /\ t.weight[d[i]] = t.weight[r] + (i - 1) /\ d[i] \in t.nodes
    BY <1>2, <2>1, <2>2, <2>3
  <2> HIDE DEF S
  <2>5. t.weight[r] \in Nat
    BY <1>6
  <2> QED BY <2>4, <2>5
<1>9. /\ u.nodes = K
      /\ \A n \in Blocks : u.parent[n] = IF n \in K \ {r} THEN t.parent[n] ELSE NoBlock
  BY DEF u, CutAt, K
<1>10. t.nodes \subseteq Blocks
  BY DEF Trees
<1>11. d \in Seq(K) /\ d # <<>>
  <2>1. \A i \in 1 .. Len(d) : d[i] \in K
    BY <1>4, <1>8
  <2>2. Len(d) # 0 /\ d \in Seq(t.nodes)
    BY <1>4
  <2> HIDE DEF S
  <2> QED BY <2>1, <2>2, Narrowed
<1>12. u.parent[d[1]] = NoBlock
  <2>1. 1 \in 1 .. k + 1 /\ m + 1 - 1 = m
    BY <1>3
  <2>2. d[1] = r
    BY <1>3, <1>4, <2>1
  <2> QED BY <1>9, <1>10, <2>2
<1>13. ASSUME NEW i \in 2 .. Len(d) PROVE u.parent[d[i]] = d[i - 1]
  <2>1. /\ i \in 1 .. k + 1 /\ i # 1 /\ i - 1 \in 1 .. k + 1
        /\ m + i - 1 \in 2 .. L /\ m + (i - 1) - 1 = (m + i - 1) - 1
    BY <1>1, <1>3, <1>4
  <2>2. d[i] = c[m + i - 1] /\ d[i - 1] = c[(m + i - 1) - 1]
    BY <1>4, <2>1
  <2>3. t.parent[d[i]] = d[i - 1]
    BY <1>1, <2>1, <2>2
  <2>4. d[i] \in K \ {r} /\ d[i] \in Blocks
    BY <1>8, <1>10, <2>1
  <2> QED BY <1>9, <2>3, <2>4
<1>14. d[Len(d)] = t.tip
  <2>1. k + 1 \in 1 .. k + 1 /\ m + (k + 1) - 1 = L
    BY <1>1, <1>3
  <2>2. Len(d) = k + 1 /\ d[k + 1] = c[m + (k + 1) - 1]
    BY <1>4, <2>1
  <2>3. c[L] = t.tip
    BY <1>1
  <2> HIDE DEF d
  <2> QED BY <2>1, <2>2, <2>3, Zenon
<1> QED BY <1>9, <1>11, <1>12, <1>13, <1>14 DEF IsPath, u, d, m, L

\* A trim that deletes anything leaves the last keepDepth + 1 blocks of the
\* canonical chain.
LEMMA TrimCutsChain ==
  ASSUME NEW t \in Trees, IsTree(t), t.tip # NoBlock, NEW k \in Nat,
         TrimTree(t, k) # t
  PROVE  LET c == CanonicalChain(t)
         IN  k < Len(c) /\ CanonicalChain(TrimTree(t, k)) = SubSeq(c, Len(c) - k, Len(c))
<1> DEFINE r == NewRoot(t, k)
           c == CanonicalChain(t)
           u == CutAt(t, r)
<1>1. r # t.root /\ TrimTree(t, k) = u
  BY DEF TrimTree
<1>2. r \in t.nodes /\ StepsUp(t, k, r)
  BY WalkExists DEF NewRoot
<1>3. IsPath(t, t.tip, c)
  BY ChainIsPath
<1> HIDE DEF r, c
<1>4. k < Len(c) /\ c[Len(c) - k] = r
  BY <1>1, <1>2, <1>3, WalkFollowsChain
<1>5. IsPath(u, t.tip, SubSeq(c, Len(c) - k, Len(c)))
  BY <1>2, <1>3, <1>4, CutKeepsPath
<1>6. u \in Trees /\ IsTree(u) /\ u.tip = t.tip
  BY <1>1, TrimIsTree
<1> HIDE DEF u
<1>7. IsPath(u, t.tip, CanonicalChain(u))
  BY <1>6, ChainIsPath
<1>8. CanonicalChain(u) = SubSeq(c, Len(c) - k, Len(c))
  BY <1>5, <1>6, <1>7, PathIsUnique
<1> QED BY <1>1, <1>4, <1>8 DEF c

\* A trim that deletes anything leaves exactly keepDepth blocks below the tip
\* on the canonical chain, and keeps every block of that window.
THEOREM WindowIsKept == TreeSpec => TrimKeepsWindow
<1> DEFINE Window == tree'.tip # NoBlock /\ ~ (tree.nodes \subseteq tree'.nodes)
                       => CutsAtWindow(CanonicalChain(tree))
<1>1. TreeInv /\ [TreeNext]_treeVars => [Window]_treeVars
  <2> SUFFICES ASSUME TreeInv, TreeNext, tree'.tip # NoBlock, ~ (tree.nodes \subseteq tree'.nodes)
               PROVE  CutsAtWindow(CanonicalChain(tree))
    OBVIOUS
  <2> USE DEF TreeInv, TreeTypeOK
  <2>1. ASSUME NEW b \in Blocks, AddBlock(b) PROVE FALSE
    <3>1. tree' = AddTxPoW(tree, b)
      BY <2>1 DEF AddBlock
    <3>2. tree.root = NoBlock => tree.nodes = {}
      BY DEF IsTree, Anchored, Trees
    <3>3. tree.nodes \subseteq tree'.nodes
      BY <3>1, <3>2 DEF AddTxPoW, PlantRoot, Attach, Trees
    <3> QED BY <3>3
  <2>2. ASSUME NEW k \in KeepDepths, Trim(k) PROVE CutsAtWindow(CanonicalChain(tree))
    <3>1. k \in Nat /\ tree' = TrimTree(tree, k) /\ tree' # tree
      BY <2>2 DEF Trim
    <3>2. tree.tip # NoBlock
      BY <3>1 DEF TrimTree
    <3> QED BY <3>1, <3>2, TrimCutsChain DEF CutsAtWindow
  <2>3. ~ Clear
    BY DEF Clear, EmptyTree
  <2> QED BY <2>1, <2>2, <2>3 DEF TreeNext
<1> QED BY <1>1, TreeInvInit, TreeInvNext, PTL DEF TreeSpec, TrimKeepsWindow
=============================================================================
