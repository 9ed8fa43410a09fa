----------------------------- MODULE NodeProofs -----------------------------
(***************************************************************************)
(* Proofs about the node of module Node, for every set of TxPoWs.  The     *)
(* lemmas about the block tree and the coin MMR come from the proofs of    *)
(* those components, instantiated with the fields of the database.         *)
(***************************************************************************)
EXTENDS Node, FiniteSetTheorems, NatSetInduction, TLAPS

IsMMR(m) == m = [leaves |-> m.leaves, spent |-> m.spent, idx |-> m.idx]

LEMMA MMRWithSpent ==
  ASSUME NEW m, IsMMR(m), NEW s
  PROVE  [m EXCEPT !.spent = s] = [leaves |-> m.leaves, spent |-> s, idx |-> m.idx]
<1>1. ASSUME NEW l, NEW o, NEW x, NEW n, n = [leaves |-> l, spent |-> o, idx |-> x]
      PROVE  [n EXCEPT !.spent = s] = [leaves |-> l, spent |-> s, idx |-> x]
  BY <1>1
<1> QED BY <1>1 DEF IsMMR

USE HeaderAssumption, BodyAssumption, HashAssumption

TreeProofs == INSTANCE TxPowTreeProofs
  WITH Blocks <- TxPoWs, KeepDepths <- {}, tree <- db.txPowTree,
       trimmed <- db.blockStore \ db.txPowTree.nodes
MegaProofs == INSTANCE IndexProofs
  WITH Coins <- Coins \cup TxPoWs, Numbers <- Int, Window <- CheckpointDepth,
       MaxLeaves <- 0, mmr <- db.megaMMR, checkpoints <- db.checkpoints,
       input <- <<>>,
       Blocks <- TxPoWs, MaxLength <- 0, cascade <- db.cascade, chain <- <<>>

-----------------------------------------------------------------------------
(* The tree of the database is the tree of module TxPowTree.               *)

LEMMA SameTrees ==
  TreeProofs!Trees = Tree!Trees /\ TreeProofs!EmptyTree = Tree!EmptyTree
BY DEF TreeProofs!Trees, Tree!Trees, TreeProofs!EmptyTree, Tree!EmptyTree

LEMMA SameIsTree == ASSUME NEW t PROVE TreeProofs!IsTree(t) <=> Tree!IsTree(t)
BY Zenon DEF TreeProofs!IsTree, Tree!IsTree, TreeProofs!Anchored, Tree!Anchored,
     TreeProofs!RootDetached, Tree!RootDetached, TreeProofs!Linked, Tree!Linked,
     TreeProofs!Heaviest, Tree!Heaviest

LEMMA SameAdd == ASSUME NEW t, NEW b PROVE TreeProofs!AddTxPoW(t, b) = Tree!AddTxPoW(t, b)
BY Zenon DEF TreeProofs!AddTxPoW, Tree!AddTxPoW, TreeProofs!Known, Tree!Known,
     TreeProofs!IsOrphan, Tree!IsOrphan, TreeProofs!PlantRoot, Tree!PlantRoot,
     TreeProofs!Attach, Tree!Attach, TreeProofs!HeavierTip, Tree!HeavierTip

LEMMA SameTrim == ASSUME NEW t, NEW k PROVE TreeProofs!TrimTree(t, k) = Tree!TrimTree(t, k)
BY Zenon DEF TreeProofs!TrimTree, Tree!TrimTree, TreeProofs!NewRoot, Tree!NewRoot,
     TreeProofs!StepsUp, Tree!StepsUp, TreeProofs!Above, Tree!Above,
     TreeProofs!CutAt, Tree!CutAt, TreeProofs!Subtree, Tree!Subtree,
     TreeProofs!ClosedUnderChildren, Tree!ClosedUnderChildren

LEMMA SameChain ==
  ASSUME NEW t PROVE TreeProofs!CanonicalChain(t) = Tree!CanonicalChain(t)
BY Zenon DEF TreeProofs!CanonicalChain, Tree!CanonicalChain

IsATree(t) == t \in Tree!Trees /\ Tree!IsTree(t)

\* The empty tree is one.
LEMMA EmptyIsATree == IsATree(Tree!EmptyTree)
<1>1. TreeProofs!EmptyTree \in TreeProofs!Trees /\ TreeProofs!IsTree(TreeProofs!EmptyTree)
  BY TreeProofs!EmptyTreeIsTree
<1> QED BY <1>1, SameTrees, SameIsTree DEF IsATree

\* Adding a block that is not an orphan: it hangs under its parent, one unit
\* heavier; the tip moves to it only if it is heavier than the tip was.
TreeAdded(t, b, u) ==
  /\ IsATree(u)
  /\ u.nodes = t.nodes \cup {b} /\ u.root # NoBlock /\ u.tip \in u.nodes
  /\ u.tip = b \/ u.tip = t.tip
  /\ \A n \in t.nodes : u.weight[n] = t.weight[n]
  /\ IF t.root = NoBlock
     THEN t.nodes = {} /\ u.weight[b] = 1 /\ u.tip = b
     ELSE /\ Parent[b] \in t.nodes /\ t.tip \in t.nodes
          /\ u.weight[b] = t.weight[Parent[b]] + 1
          /\ u.tip = b => u.weight[b] > t.weight[t.tip]

LEMMA AddToTree ==
  ASSUME NEW t, IsATree(t), NEW b \in TxPoWs, b \notin t.nodes, Tree!AddReturns(t, b),
         NEW u, u = Tree!AddTxPoW(t, b)
  PROVE  TreeAdded(t, b, u)
<1>1. IsATree(u)
  <2>1. /\ TreeProofs!AddTxPoW(t, b) \in TreeProofs!Trees
        /\ TreeProofs!IsTree(TreeProofs!AddTxPoW(t, b))
    <3>1. t \in TreeProofs!Trees /\ TreeProofs!IsTree(t)
      BY SameTrees, SameIsTree DEF IsATree
    <3> QED BY <3>1, TreeProofs!AddIsTree
  <2> QED BY <2>1, SameTrees, SameIsTree, SameAdd DEF IsATree
<1>2. t \in Tree!Trees /\ Tree!IsTree(t)
  BY DEF IsATree
<1>3. ~ Tree!IsOrphan(t, b) /\ ~ Tree!Known(t, b)
  BY DEF Tree!AddReturns, Tree!Known
<1>4. CASE t.root = NoBlock
  <2>1. u = Tree!PlantRoot(t, b)
    BY <1>3, <1>4 DEF Tree!AddTxPoW
  <2>2. t.nodes = {}
    BY <1>2, <1>4 DEF Tree!IsTree, Tree!Anchored, Tree!Trees
  <2>3. u.nodes = {b} /\ u.root = b /\ u.tip = b /\ u.weight[b] = 1
    BY <1>2, <2>1 DEF Tree!PlantRoot, Tree!Trees
  <2> QED BY <1>1, <1>4, <2>2, <2>3 DEF TreeAdded
<1>5. CASE t.root # NoBlock
  <2>1. u = Tree!Attach(t, b) /\ Parent[b] \in t.nodes
    BY <1>3, <1>5 DEF Tree!AddTxPoW, Tree!IsOrphan, Tree!Known
  <2>2. t.root \in t.nodes /\ t.tip \in t.nodes /\ t.nodes \subseteq TxPoWs
    BY <1>2, <1>5 DEF Tree!IsTree, Tree!Anchored, Tree!Trees
  <2> DEFINE w == t.weight[Parent[b]] + 1
  <2>3. /\ u.nodes = t.nodes \cup {b} /\ u.root = t.root
        /\ u.tip = Tree!HeavierTip(t, b, w)
        /\ u.weight = [t.weight EXCEPT ![b] = w]
    BY <1>2, <2>1 DEF Tree!Attach, Tree!Trees
  <2>4. t.weight \in [TxPoWs -> Nat]
    BY <1>2 DEF Tree!Trees
  <2> HIDE DEF w
  <2>5. u.tip = IF w > t.weight[t.tip] THEN b ELSE t.tip
    BY <2>3 DEF Tree!HeavierTip
  <2>6. u.weight[b] = w /\ \A n \in t.nodes : u.weight[n] = t.weight[n]
    BY <2>2, <2>3, <2>4
  <2> QED BY <1>1, <1>5, <2>1, <2>2, <2>3, <2>5, <2>6 DEF w, TreeAdded
<1> QED BY <1>4, <1>5

\* A trim keeps the tip and the weights of the nodes that stay.
LEMMA TrimOfTree ==
  ASSUME NEW t, IsATree(t), NEW k \in Nat, NEW u, u = Tree!TrimTree(t, k)
  PROVE  /\ IsATree(u) /\ u.tip = t.tip /\ u.nodes \subseteq t.nodes
         /\ \A n \in u.nodes : u.weight[n] = t.weight[n]
<1>1. /\ TreeProofs!TrimTree(t, k) \in TreeProofs!Trees
      /\ TreeProofs!IsTree(TreeProofs!TrimTree(t, k))
      /\ TreeProofs!TrimTree(t, k).tip = t.tip
      /\ TreeProofs!TrimTree(t, k).nodes \subseteq t.nodes
  <2>1. t \in TreeProofs!Trees /\ TreeProofs!IsTree(t)
    BY SameTrees, SameIsTree DEF IsATree
  <2> QED BY <2>1, TreeProofs!TrimIsTree
<1>2. IsATree(u) /\ u.tip = t.tip /\ u.nodes \subseteq t.nodes
  BY <1>1, SameTrees, SameIsTree, SameTrim DEF IsATree
<1>3. \A n \in u.nodes : u.weight[n] = t.weight[n]
  <2>1. CASE u = t
    BY <2>1
  <2>2. CASE u # t
    <3>1. PICK r : u = Tree!CutAt(t, r)
      BY <2>2 DEF Tree!TrimTree
    <3>2. u.nodes \subseteq TxPoWs
      BY <1>2 DEF IsATree, Tree!Trees
    <3>3. \A n \in TxPoWs : u.weight[n] = IF n \in u.nodes THEN t.weight[n] ELSE 0
      BY <3>1 DEF Tree!CutAt
    <3> QED BY <3>2, <3>3
  <2> QED BY <2>1, <2>2
<1> QED BY <1>2, <1>3

-----------------------------------------------------------------------------
(* The coin MMRs of the database.                                          *)

\* Both ways to apply a block append its outputs to the leaves.
LEMMA BlockAppendsOutputs ==
  ASSUME NEW m, IsMMR(m), NEW b \in TxPoWs
  PROVE  /\ IsMMR(ApplyBlockToMMR(m, b))
         /\ ApplyBlockToMMR(m, b).leaves = m.leaves \o Outputs[b]
         /\ IsMMR(Mega!ProcessBlock(m, Inputs[b], Outputs[b]))
         /\ Mega!ProcessBlock(m, Inputs[b], Outputs[b]).leaves = m.leaves \o Outputs[b]
<1>1. ASSUME NEW n, IsMMR(n), NEW cs
      PROVE  IsMMR(Mega!SpendCoins(n, cs)) /\ Mega!SpendCoins(n, cs).leaves = n.leaves
  <2> DEFINE sp == n.spent \cup {n.idx[c] : c \in Mega!Tracked(n, cs)}
  <2>1. Mega!SpendCoins(n, cs) = [n EXCEPT !.spent = sp]
    BY DEF Mega!SpendCoins
  <2> HIDE DEF sp
  <2>2. [n EXCEPT !.spent = sp] = [leaves |-> n.leaves, spent |-> sp, idx |-> n.idx]
    BY <1>1, MMRWithSpent
  <2> QED BY <2>1, <2>2 DEF IsMMR
<1>2. ASSUME NEW n, NEW cs
      PROVE  IsMMR(Mega!AddCoins(n, cs)) /\ Mega!AddCoins(n, cs).leaves = n.leaves \o cs
  <2> DEFINE ix == [c \in Coins \cup TxPoWs |->
                      IF \E i \in DOMAIN cs : cs[i] = c
                      THEN Len(n.leaves) + Mega!LastAt(cs, c) ELSE n.idx[c]]
  <2>1. Mega!AddCoins(n, cs) = [leaves |-> n.leaves \o cs, spent |-> n.spent, idx |-> ix]
    BY DEF Mega!AddCoins
  <2> HIDE DEF ix
  <2> QED BY <2>1 DEF IsMMR
<1> DEFINE a == Mega!AddCoins(m, Outputs[b])
           s == Mega!SpendCoins(m, Inputs[b])
<1>3. IsMMR(a) /\ a.leaves = m.leaves \o Outputs[b]
  BY <1>2
<1>4. IsMMR(s) /\ s.leaves = m.leaves
  BY <1>1
<1>5. ApplyBlockToMMR(m, b) = Mega!SpendCoins(a, Inputs[b])
  BY DEF ApplyBlockToMMR
<1>6. Mega!ProcessBlock(m, Inputs[b], Outputs[b]) = Mega!AddCoins(s, Outputs[b])
  BY DEF Mega!ProcessBlock
<1> HIDE DEF a, s
<1>7. IsMMR(Mega!SpendCoins(a, Inputs[b])) /\ Mega!SpendCoins(a, Inputs[b]).leaves = a.leaves
  BY <1>1, <1>3
<1>8. /\ IsMMR(Mega!AddCoins(s, Outputs[b]))
      /\ Mega!AddCoins(s, Outputs[b]).leaves = s.leaves \o Outputs[b]
  BY <1>2
<1> QED BY <1>3, <1>4, <1>5, <1>6, <1>7, <1>8

\* An MMR made of blocks only has coins for leaves.
CoinMMRs == {m \in MegaProofs!MMRs : MegaProofs!Good(m) /\ m.leaves \in Seq(Coins)}

LEMMA SameMega ==
  ASSUME NEW m, NEW cs
  PROVE  /\ Mega!AddCoins(m, cs) = MegaProofs!AddCoins(m, cs)
         /\ Mega!SpendCoins(m, cs) = MegaProofs!SpendCoins(m, cs)
BY Zenon DEF Mega!AddCoins, MegaProofs!AddCoins, Mega!LastAt, MegaProofs!LastAt,
     Mega!SpendCoins, MegaProofs!SpendCoins, Mega!Tracked, MegaProofs!Tracked

LEMMA MegaAssumptions ==
  /\ Int \subseteq Int /\ CheckpointDepth \in Nat /\ 0 \in Nat
  /\ SuperLevel \in [TxPoWs -> Nat]
  /\ DifficultyWeight \in [TxPoWs -> Nat \ {0}]
  /\ LevelsMax \in Nat \ {0} /\ LevelNodes \in Nat \ {0}
BY BoundsAssumption

LEMMA EmptyIsCoinMMR ==
  Mega!EmptyMMR \in CoinMMRs /\ IsMMR(Mega!EmptyMMR) /\ Mega!EmptyMMR.leaves = <<>>
<1>1. MegaProofs!Good(MegaProofs!EmptyMMR)
  BY MegaProofs!EmptyIsGood, MegaAssumptions
<1>2. MegaProofs!EmptyMMR = Mega!EmptyMMR
  BY DEF MegaProofs!EmptyMMR, Mega!EmptyMMR
<1>3. Mega!EmptyMMR.leaves = <<>> /\ IsMMR(Mega!EmptyMMR)
  BY DEF Mega!EmptyMMR, IsMMR
<1>4. MegaProofs!EmptyMMR \in MegaProofs!MMRs
  BY <1>1 DEF MegaProofs!Good
<1>5. Mega!EmptyMMR \in MegaProofs!MMRs /\ MegaProofs!Good(Mega!EmptyMMR)
  BY <1>1, <1>2, <1>4
<1>6. <<>> \in Seq(Coins)
  OBVIOUS
<1> QED BY <1>3, <1>5, <1>6 DEF CoinMMRs

\* applyBlockToMMR keeps an MMR of coins one.
LEMMA BlockKeepsCoinMMR ==
  ASSUME NEW m \in CoinMMRs, NEW b \in TxPoWs
  PROVE  ApplyBlockToMMR(m, b) \in CoinMMRs
<1> DEFINE a == MegaProofs!AddCoins(m, Outputs[b])
           s == MegaProofs!SpendCoins(a, Inputs[b])
<1>1. /\ Outputs[b] \in Seq(Coins) /\ Outputs[b] \in Seq(Coins \cup TxPoWs)
      /\ Inputs[b] \in SUBSET (Coins \cup TxPoWs)
  OBVIOUS
<1>2. MegaProofs!Good(m) /\ m.leaves \in Seq(Coins) /\ IsMMR(m)
  BY DEF CoinMMRs, MegaProofs!MMRs, IsMMR
<1>3. MegaProofs!Good(a)
  BY <1>1, <1>2, MegaProofs!AddCoinsIsRight, MegaAssumptions
<1> HIDE DEF a
<1>4. MegaProofs!Good(s)
  BY <1>1, <1>3, MegaProofs!SpendCoinsIsRight, MegaAssumptions
<1> HIDE DEF s
<1>5. ApplyBlockToMMR(m, b) = s
  BY SameMega DEF ApplyBlockToMMR, a, s
<1>6. s.leaves \in Seq(Coins)
  <2>1. s.leaves = m.leaves \o Outputs[b]
    BY <1>2, <1>5, BlockAppendsOutputs
  <2> QED BY <1>1, <1>2, <2>1
<1>7. s \in MegaProofs!MMRs
  BY <1>4 DEF MegaProofs!Good
<1> QED BY <1>4, <1>5, <1>6, <1>7 DEF CoinMMRs

-----------------------------------------------------------------------------
(* The operations on the database, field by field.                         *)

DBFields == {"txPowTree", "blockStore", "chainState", "mmrSet", "megaMMR",
             "checkpoints", "cascade", "mempool"}

\* A database whose parts are what the lemmas above are about.
IsDB(d) ==
  /\ DOMAIN d = DBFields
  /\ IsATree(d.txPowTree) /\ IsMMR(d.megaMMR) /\ IsMMR(d.mmrSet)
  /\ d.megaMMR.leaves \in Seq(Coins \cup TxPoWs)
  /\ d.mmrSet.leaves \in Seq(Coins \cup TxPoWs)

\* The database a process starts with.
LEMMA EmptyIsDB ==
  /\ IsDB(EmptyDB) /\ EmptyDB.blockStore = {} /\ EmptyDB.megaMMR.leaves = <<>>
  /\ EmptyDB.mmrSet.leaves = <<>> /\ EmptyDB.txPowTree.nodes = {}
  /\ EmptyDB.txPowTree.root = NoBlock
<1>1. /\ DOMAIN EmptyDB = DBFields /\ EmptyDB.blockStore = {}
      /\ EmptyDB.txPowTree = Tree!EmptyTree
      /\ EmptyDB.megaMMR = Mega!EmptyMMR /\ EmptyDB.mmrSet = Mega!EmptyMMR
  BY DEF EmptyDB, DBFields
<1>2. Tree!EmptyTree.nodes = {} /\ Tree!EmptyTree.root = NoBlock
  BY DEF Tree!EmptyTree
<1>3. <<>> \in Seq(Coins \cup TxPoWs)
  OBVIOUS
<1> QED BY <1>1, <1>2, <1>3, EmptyIsATree, EmptyIsCoinMMR DEF IsDB

\* What addBlock makes of a database d when it takes the block b.
BlockAdded(d, b, e) ==
  /\ IsDB(e)
  /\ Tree!AddReturns(d.txPowTree, b)
  /\ e.txPowTree = Tree!AddTxPoW(d.txPowTree, b)
  /\ e.blockStore = d.blockStore \cup {b}
  /\ e.megaMMR.leaves = d.megaMMR.leaves \o Outputs[b]
  /\ e.mmrSet.leaves = d.mmrSet.leaves \o Outputs[b]

\* addBlock does what BlockAdded says.
LEMMA AddBlockFields ==
  ASSUME NEW d, IsDB(d), NEW b \in TxPoWs, AddBlockReturns(d, b), b \notin d.txPowTree.nodes,
         NEW e, e = AddBlock(d, b)
  PROVE  BlockAdded(d, b, e)
<1>1. /\ DOMAIN e = DBFields
      /\ e.txPowTree = Tree!AddTxPoW(d.txPowTree, b)
      /\ e.blockStore = d.blockStore \cup {b}
      /\ e.megaMMR = Mega!ProcessBlock(d.megaMMR, Inputs[b], Outputs[b])
      /\ e.mmrSet = ApplyBlockToMMR(d.mmrSet, b)
  BY DEF IsDB, DBFields, AddBlock, Apply, SetTip
<1>2. Tree!AddReturns(d.txPowTree, b)
  BY DEF AddBlockReturns
<1>3. /\ IsMMR(e.mmrSet) /\ e.mmrSet.leaves = d.mmrSet.leaves \o Outputs[b]
      /\ IsMMR(e.megaMMR) /\ e.megaMMR.leaves = d.megaMMR.leaves \o Outputs[b]
  <2> DEFINE m == d.mmrSet
             g == d.megaMMR
  <2>1. IsMMR(m) /\ IsMMR(g)
    BY DEF IsDB
  <2> HIDE DEF m, g
  <2>2. /\ IsMMR(ApplyBlockToMMR(m, b))
        /\ ApplyBlockToMMR(m, b).leaves = m.leaves \o Outputs[b]
    BY <2>1, BlockAppendsOutputs
  <2>3. /\ IsMMR(Mega!ProcessBlock(g, Inputs[b], Outputs[b]))
        /\ Mega!ProcessBlock(g, Inputs[b], Outputs[b]).leaves = g.leaves \o Outputs[b]
    BY <2>1, BlockAppendsOutputs
  <2> QED BY <1>1, <2>2, <2>3 DEF m, g
<1>4. Outputs[b] \in Seq(Coins \cup TxPoWs)
  OBVIOUS
<1>5. IsATree(e.txPowTree)
  BY <1>1, <1>2, AddToTree DEF IsDB, TreeAdded
<1>6. /\ d.mmrSet.leaves \o Outputs[b] \in Seq(Coins \cup TxPoWs)
      /\ d.megaMMR.leaves \o Outputs[b] \in Seq(Coins \cup TxPoWs)
  BY <1>4 DEF IsDB
<1> QED BY <1>1, <1>2, <1>3, <1>5, <1>6 DEF IsDB, BlockAdded

\* A rebuilt MMR has coins for leaves.
Rebuilt(d, e) ==
  /\ IsDB(e) /\ e.mmrSet.leaves \in Seq(Coins)
  /\ e.txPowTree = d.txPowTree /\ e.blockStore = d.blockStore
  /\ e.megaMMR = d.megaMMR

\* rebuildMMR starts from an empty MMR and applies the canonical chain to it.
LEMMA RebuildFields ==
  ASSUME NEW d, IsDB(d), d.txPowTree.tip # NoBlock, NEW e, e = RebuildMMR(d)
  PROVE  Rebuilt(d, e)
<1> DEFINE chain == Tree!CanonicalChain(d.txPowTree)
           N == Len(chain)
           upTo == CHOOSE f : f = [i \in 0 .. N |->
                     IF i = 0 THEN Mega!EmptyMMR ELSE ApplyBlockToMMR(f[i - 1], chain[i])]
           F == [k \in 1 .. N |-> [m \in CoinMMRs |-> ApplyBlockToMMR(m, chain[k])]]
<1>1. chain \in Seq(TxPoWs) /\ N \in Nat
  <2>1. TreeProofs!IsPath(d.txPowTree, d.txPowTree.tip, TreeProofs!CanonicalChain(d.txPowTree))
    <3>1. d.txPowTree \in TreeProofs!Trees /\ TreeProofs!IsTree(d.txPowTree)
      BY SameTrees, SameIsTree DEF IsDB, IsATree
    <3> QED BY <3>1, TreeProofs!ChainIsPath
  <2>2. chain \in Seq(d.txPowTree.nodes)
    BY <2>1, SameChain DEF TreeProofs!IsPath
  <2>3. d.txPowTree.nodes \subseteq TxPoWs
    BY DEF IsDB, IsATree, Tree!Trees
  <2> HIDE DEF chain
  <2> QED BY <2>2, <2>3
<1>2. e = [d EXCEPT !.mmrSet = upTo[N]]
  BY DEF RebuildMMR
<1> HIDE DEF chain, N
<1>3. \A k \in 1 .. N : chain[k] \in TxPoWs
  BY <1>1 DEF N
<1>4. F \in [1 .. N -> [CoinMMRs -> CoinMMRs]]
  BY <1>3, BlockKeepsCoinMMR
<1>5. \A k \in 1 .. N, m \in CoinMMRs : F[k][m] = ApplyBlockToMMR(m, chain[k])
  OBVIOUS
<1> HIDE DEF F
<1>6. PICK g : Recursive(g, N, CoinMMRs, Mega!EmptyMMR, F)
  BY <1>1, <1>4, EmptyIsCoinMMR, RecursionExists DEF Recursion
<1>7. g = [i \in 0 .. N |->
             IF i = 0 THEN Mega!EmptyMMR ELSE ApplyBlockToMMR(g[i - 1], chain[i])]
  <2>1. /\ g \in [0 .. N -> CoinMMRs] /\ g[0] = Mega!EmptyMMR
        /\ \A k \in 1 .. N : g[k] = F[k][g[k - 1]]
    BY <1>6 DEF Recursive
  <2>2. ASSUME NEW i \in 0 .. N
        PROVE  g[i] = IF i = 0 THEN Mega!EmptyMMR ELSE ApplyBlockToMMR(g[i - 1], chain[i])
    <3>1. CASE i = 0
      BY <2>1, <3>1
    <3>2. CASE i # 0
      <4>1. i \in 1 .. N /\ i - 1 \in 0 .. N
        BY <1>1, <3>2
      <4>2. g[i - 1] \in CoinMMRs /\ g[i] = F[i][g[i - 1]]
        BY <2>1, <4>1
      <4> QED BY <1>5, <3>2, <4>1, <4>2
    <3> QED BY <3>1, <3>2
  <2> QED BY <2>1, <2>2
<1>8. upTo = [i \in 0 .. N |->
                IF i = 0 THEN Mega!EmptyMMR ELSE ApplyBlockToMMR(upTo[i - 1], chain[i])]
  BY <1>7, Zenon
<1> HIDE DEF upTo
<1> DEFINE S == {i \in 0 .. N : upTo[i] \in CoinMMRs}
<1>9. 0 .. N \subseteq S
  <2>1. 0 \in S
    BY <1>1, <1>8, EmptyIsCoinMMR
  <2>2. ASSUME NEW k \in 1 .. N, k - 1 \in S PROVE k \in S
    <3>1. k \in 0 .. N /\ k # 0 /\ upTo[k - 1] \in CoinMMRs
      BY <1>1, <2>2
    <3>2. upTo[k] = ApplyBlockToMMR(upTo[k - 1], chain[k])
      BY <1>8, <3>1
    <3> QED BY <1>3, <3>1, <3>2, BlockKeepsCoinMMR
  <2> HIDE DEF S
  <2> QED BY <1>1, <2>1, <2>2, BoundedInduction
<1>10. upTo[N] \in CoinMMRs
  BY <1>1, <1>9
<1>11. /\ IsMMR(upTo[N]) /\ upTo[N].leaves \in Seq(Coins)
       /\ upTo[N].leaves \in Seq(Coins \cup TxPoWs)
  <2>1. \A m \in MegaProofs!MMRs : IsMMR(m)
    BY DEF MegaProofs!MMRs, IsMMR
  <2>2. upTo[N] \in MegaProofs!MMRs /\ upTo[N].leaves \in Seq(Coins)
    BY <1>10 DEF CoinMMRs
  <2>3. Seq(Coins) \subseteq Seq(Coins \cup TxPoWs)
    OBVIOUS
  <2> QED BY <2>1, <2>2, <2>3
<1>12. /\ DOMAIN e = DBFields /\ e.mmrSet = upTo[N]
       /\ e.txPowTree = d.txPowTree /\ e.blockStore = d.blockStore
       /\ e.megaMMR = d.megaMMR
  BY <1>2 DEF IsDB, DBFields
<1> QED BY <1>11, <1>12 DEF IsDB, Rebuilt

-----------------------------------------------------------------------------
(* A block is accepted: what AddBlock, and the whole of ProcessBlock, do.  *)

\* The tree u comes from t by adding b, and perhaps a trim: b hangs under its
\* parent; the tip moves to b only if b is heavier, and is not left behind.
TreeGrown(t, b, u) ==
  /\ u.nodes \subseteq t.nodes \cup {b}
  /\ u.tip \in u.nodes /\ u.root # NoBlock
  /\ u.tip = b \/ u.tip = t.tip
  /\ \A n \in u.nodes \cap t.nodes : u.weight[n] = t.weight[n]
  /\ t.root = NoBlock => t.nodes = {} /\ u.tip = b /\ u.weight[b] = 1
  /\ t.root # NoBlock =>
       /\ Parent[b] \in t.nodes /\ t.tip \in t.nodes
       /\ b \in u.nodes => u.weight[b] = t.weight[Parent[b]] + 1
       /\ u.tip = b => t.weight[Parent[b]] + 1 > t.weight[t.tip]
       /\ t.weight[Parent[b]] + 1 <= u.weight[u.tip]

Grown(d, b, e) ==
  /\ IsDB(e)
  /\ e.blockStore = d.blockStore \cup {b}
  /\ e.megaMMR.leaves = d.megaMMR.leaves \o Outputs[b]
  /\ TreeGrown(d.txPowTree, b, e.txPowTree)

\* addTxPoW makes a tree grow,
LEMMA AddedTreeIsGrown ==
  ASSUME NEW t, IsATree(t), NEW b \in TxPoWs, b \notin t.nodes, Tree!AddReturns(t, b),
         NEW u, u = Tree!AddTxPoW(t, b)
  PROVE  TreeGrown(t, b, u)
<1>1. /\ IsATree(u)
      /\ u.nodes = t.nodes \cup {b} /\ u.root # NoBlock /\ u.tip \in u.nodes
      /\ u.tip = b \/ u.tip = t.tip
      /\ \A n \in t.nodes : u.weight[n] = t.weight[n]
      /\ t.root = NoBlock => t.nodes = {} /\ u.weight[b] = 1 /\ u.tip = b
      /\ t.root # NoBlock => /\ Parent[b] \in t.nodes /\ t.tip \in t.nodes
                             /\ u.weight[b] = t.weight[Parent[b]] + 1
                             /\ u.tip = b => u.weight[b] > t.weight[t.tip]
  BY AddToTree DEF TreeAdded
<1>2. u.weight[b] <= u.weight[u.tip]
  BY <1>1 DEF IsATree, Tree!IsTree, Tree!Heaviest
<1> QED BY <1>1, <1>2 DEF TreeGrown

\* and trimming it after that leaves it grown.
LEMMA TrimmedTreeIsGrown ==
  ASSUME NEW t, NEW b, NEW u, TreeGrown(t, b, u), IsATree(u), b \notin t.nodes,
         NEW k \in Nat, NEW v, v = Tree!TrimTree(u, k)
  PROVE  IsATree(v) /\ v.tip = u.tip /\ TreeGrown(t, b, v)
<1>1. /\ IsATree(v) /\ v.tip = u.tip /\ v.nodes \subseteq u.nodes
      /\ \A n \in v.nodes : v.weight[n] = u.weight[n]
  BY TrimOfTree
<1>2. u.tip \in u.nodes /\ u.nodes \subseteq TxPoWs
  BY DEF TreeGrown, IsATree, Tree!Trees
<1>3. v.tip \in v.nodes /\ v.root # NoBlock
  <2>1. v.tip \in TxPoWs /\ v.tip # NoBlock
    BY <1>1, <1>2
  <2>2. Tree!Anchored(v) /\ v.nodes \subseteq TxPoWs
    BY <1>1 DEF IsATree, Tree!IsTree, Tree!Trees
  <2> QED BY <2>1, <2>2 DEF Tree!Anchored
<1> QED BY <1>1, <1>3 DEF TreeGrown

LEMMA AddBlockGrows ==
  ASSUME NEW d, IsDB(d), NEW b \in TxPoWs, AddBlockReturns(d, b), b \notin d.txPowTree.nodes
  PROVE  Grown(d, b, AddBlock(d, b))
<1>1. IsATree(d.txPowTree)
  BY DEF IsDB
<1> DEFINE e == AddBlock(d, b)
<1> HIDE DEF e
<1>0. e = AddBlock(d, b)
  BY DEF e
<1>2. BlockAdded(d, b, e)
  BY <1>0, AddBlockFields
<1>3. TreeGrown(d.txPowTree, b, e.txPowTree)
  BY <1>1, <1>2, AddedTreeIsGrown DEF BlockAdded
<1> QED BY <1>0, <1>2, <1>3 DEF Grown, BlockAdded

\* updateMMRIfTip: the three things it does to the leaves.
Updated(d, b, e) ==
  /\ IsDB(e)
  /\ e.txPowTree = d.txPowTree /\ e.blockStore = d.blockStore
  /\ e.megaMMR = d.megaMMR
  /\ \/ e.mmrSet.leaves = d.mmrSet.leaves
     \/ /\ d.txPowTree.tip = b /\ Extends(b)
        /\ e.mmrSet.leaves = Append(d.mmrSet.leaves, b)
     \/ e.mmrSet.leaves \in Seq(Coins)

\* updateMMRIfTip does what Updated says.
LEMMA UpdateFields ==
  ASSUME NEW d, IsDB(d), NEW b \in TxPoWs, NEW e, e = UpdateMMRIfTip(d, b)
  PROVE  Updated(d, b, e)
<1>1. CASE d.txPowTree.tip # b
  BY <1>1 DEF UpdateMMRIfTip, Updated
<1>2. CASE d.txPowTree.tip = b /\ Extends(b)
  <2> DEFINE m == Mega!AddLeaf(d.mmrSet, b)
  <2>1. e = [d EXCEPT !.mmrSet = m]
    BY <1>2 DEF UpdateMMRIfTip
  <2>2. /\ IsMMR(m) /\ m.leaves = Append(d.mmrSet.leaves, b)
    <3>1. /\ IsMMR(d.mmrSet) /\ m = [d.mmrSet EXCEPT !.leaves = Append(@, b)]
      BY DEF IsDB, Mega!AddLeaf
    <3> DEFINE l == d.mmrSet.leaves
               o == d.mmrSet.spent
               x == d.mmrSet.idx
    <3>2. d.mmrSet = [leaves |-> l, spent |-> o, idx |-> x]
      BY <3>1 DEF IsMMR
    <3> HIDE DEF l, o, x, m
    <3>3. m = [[leaves |-> l, spent |-> o, idx |-> x] EXCEPT !.leaves = Append(@, b)]
      BY <3>1, <3>2
    <3>4. m = [leaves |-> Append(l, b), spent |-> o, idx |-> x]
      BY <3>3
    <3> QED BY <3>4 DEF IsMMR, l
  <2> HIDE DEF m
  <2>3. /\ DOMAIN e = DBFields /\ e.mmrSet = m
        /\ e.txPowTree = d.txPowTree /\ e.blockStore = d.blockStore
        /\ e.megaMMR = d.megaMMR
    BY <2>1 DEF IsDB, DBFields
  <2>4. Append(d.mmrSet.leaves, b) \in Seq(Coins \cup TxPoWs)
    BY DEF IsDB
  <2> QED BY <1>2, <2>2, <2>3, <2>4 DEF IsDB, Updated
<1>3. CASE d.txPowTree.tip = b /\ ~ Extends(b)
  <2>1. e = RebuildMMR(d) /\ d.txPowTree.tip # NoBlock
    BY <1>3 DEF UpdateMMRIfTip
  <2> QED BY <2>1, RebuildFields DEF Rebuilt, Updated
<1> QED BY <1>1, <1>2, <1>3

\* What processBlock makes of db: a after AddBlock, e at the end.
Processed(x, a, e) ==
  /\ Grown(db, x, e) /\ e.txPowTree.tip = a.txPowTree.tip
  /\ \/ e.mmrSet.leaves = db.mmrSet.leaves \o Outputs[x]
     \/ /\ e.txPowTree.tip = x /\ Extends(x)
        /\ e.mmrSet.leaves = Append(db.mmrSet.leaves \o Outputs[x], x)
     \/ e.mmrSet.leaves \in Seq(Coins)

\* processBlock does what Processed says.
LEMMA ProcessGrows ==
  ASSUME IsDB(db), NEW x \in TxPoWs, AddBlockReturns(db, x), x \notin db.txPowTree.nodes,
         NEW a, a = AddBlock(db, x),
         NEW e, e = TrimTree(RemoveMined(UpdateMMRIfTip(a, x), x))
  PROVE  Processed(x, a, e)
<1>1. Grown(db, x, a)
  BY AddBlockGrows
<1>2. a.mmrSet.leaves = db.mmrSet.leaves \o Outputs[x]
  <2>1. BlockAdded(db, x, a)
    BY AddBlockFields
  <2> QED BY <2>1 DEF BlockAdded
<1> DEFINE f == UpdateMMRIfTip(a, x)
           g == RemoveMined(f, x)
<1>0. f = UpdateMMRIfTip(a, x)
  OBVIOUS
<1> HIDE DEF f
<1>3. IsDB(a)
  BY <1>1 DEF Grown
<1>u. Updated(a, x, f)
  BY <1>0, <1>3, UpdateFields
<1>4. /\ IsDB(f)
      /\ f.txPowTree = a.txPowTree /\ f.blockStore = a.blockStore
      /\ f.megaMMR = a.megaMMR
      /\ \/ f.mmrSet.leaves = a.mmrSet.leaves
         \/ /\ a.txPowTree.tip = x /\ Extends(x)
            /\ f.mmrSet.leaves = Append(a.mmrSet.leaves, x)
         \/ f.mmrSet.leaves \in Seq(Coins)
  BY <1>u DEF Updated
<1>5. /\ DOMAIN g = DBFields /\ g.txPowTree = f.txPowTree /\ g.blockStore = f.blockStore
      /\ g.megaMMR = f.megaMMR /\ g.mmrSet = f.mmrSet
  BY <1>4 DEF RemoveMined, IsDB, DBFields
<1>6. e = TrimTree(g)
  BY <1>0
<1> HIDE DEF g
<1>7. /\ DOMAIN e = DBFields /\ e.txPowTree = Tree!TrimTree(g.txPowTree, KeepDepth)
      /\ e.blockStore = g.blockStore /\ e.megaMMR = g.megaMMR /\ e.mmrSet = g.mmrSet
  BY <1>5, <1>6 DEF TrimTree, DBFields
<1>8. KeepDepth \in Nat
  BY ProcessorAssumption
<1>9. /\ IsATree(e.txPowTree) /\ e.txPowTree.tip = a.txPowTree.tip
      /\ TreeGrown(db.txPowTree, x, e.txPowTree)
  <2> DEFINE t == db.txPowTree
             u == a.txPowTree
             v == e.txPowTree
  <2>1. IsATree(u) /\ TreeGrown(t, x, u) /\ x \notin t.nodes
    BY <1>1 DEF Grown, IsDB
  <2>2. v = Tree!TrimTree(u, KeepDepth)
    BY <1>4, <1>5, <1>7
  <2> HIDE DEF t, u, v
  <2>3. IsATree(v) /\ v.tip = u.tip /\ TreeGrown(t, x, v)
    BY <1>8, <2>1, <2>2, TrimmedTreeIsGrown
  <2> QED BY <2>3 DEF t, u, v
<1>10. IsDB(e)
  BY <1>4, <1>5, <1>7, <1>9 DEF IsDB
<1>11. Grown(db, x, e)
  BY <1>1, <1>4, <1>5, <1>7, <1>9, <1>10 DEF Grown
<1> QED BY <1>2, <1>4, <1>5, <1>7, <1>9, <1>11 DEF Processed
-----------------------------------------------------------------------------
(* The outputs of a set of blocks.                                         *)

\* One block more has its own outputs more.
LEMMA OutputsAreAdded ==
  ASSUME NEW S \in SUBSET TxPoWs, IsFiniteSet(OutputsOf(S)), NEW b \in TxPoWs \ S
  PROVE  /\ IsFiniteSet(OutputsOf(S \cup {b}))
         /\ Cardinality(OutputsOf(S \cup {b})) = Cardinality(OutputsOf(S)) + Len(Outputs[b])
<1> DEFINE O == OutputsOf(S)
           n == Len(Outputs[b])
           P == {b} \X (1 .. n)
<1>1. n \in Nat /\ DOMAIN Outputs[b] = 1 .. n
  OBVIOUS
<1>2. OutputsOf(S \cup {b}) = O \cup P
  BY <1>1 DEF OutputsOf
<1>3. O \cap P = {}
  BY DEF OutputsOf
<1> HIDE DEF O, n
<1>4. IsFiniteSet(1 .. n) /\ Cardinality(1 .. n) = n
  BY <1>1, FS_Interval
<1>5. IsFiniteSet({b}) /\ Cardinality({b}) = 1
  BY FS_Singleton
<1>6. IsFiniteSet(P) /\ Cardinality(P) = 1 * n
  <2>1. /\ IsFiniteSet({b} \X (1 .. n))
        /\ Cardinality({b} \X (1 .. n)) = Cardinality({b}) * Cardinality(1 .. n)
    BY <1>4, <1>5, FS_Product
  <2> QED BY <1>4, <1>5, <2>1, Zenon
<1> HIDE DEF P
<1>7. IsFiniteSet(O) /\ Cardinality(O) \in Nat
  BY FS_CardinalityType DEF O
<1>8. Cardinality(P) = n
  BY <1>1, <1>6
<1>9. /\ IsFiniteSet(O \cup P)
      /\ Cardinality(O \cup P) = Cardinality(O) + Cardinality(P) - Cardinality(O \cap P)
  BY <1>6, <1>7, FS_Union
<1>10. Cardinality(O \cap P) = 0
  BY <1>3, FS_EmptySet
<1>11. Cardinality(O \cup P) = Cardinality(O) + n
  BY <1>1, <1>7, <1>8, <1>9, <1>10
<1> QED BY <1>2, <1>9, <1>11 DEF O, n

-----------------------------------------------------------------------------
(* The invariant.                                                          *)

StoreInv ==
  /\ IsDB(db)
  /\ db.blockStore \in SUBSET TxPoWs /\ IsFiniteSet(db.blockStore)
  /\ db.txPowTree.nodes \subseteq db.blockStore

QueueInv == queue \in Seq(Seq(TxPoWs) \ {<<>>})

DiskInv ==
  /\ sql \in SUBSET TxPoWs /\ IsFiniteSet(sql)
  /\ failed \in SUBSET TxPoWs /\ IsFiniteSet(failed)
  /\ bound \in TxPoWs \cup {NoBlock}
  /\ failed = {} => bound = NoBlock
  /\ toReplay \subseteq sql

\* Until the node runs, what it holds in memory comes from the disk.
PhaseInv ==
  /\ phase \in {"down", "replaying", "running"}
  /\ phase = "down" => db = EmptyDB /\ toReplay = {}
  /\ phase # "running" => /\ bound = NoBlock /\ lastTip = NoBlock
                          /\ db.blockStore \subseteq sql
                          /\ toReplay \cap db.blockStore = {}

\* m_lastTipID may be behind the tip of the tree, and is lighter then.
TipInv ==
  lastTip # NoBlock =>
    /\ lastTip \in db.blockStore /\ db.txPowTree.root # NoBlock
    /\ lastTip \in db.txPowTree.nodes /\ lastTip # db.txPowTree.tip =>
         db.txPowTree.weight[lastTip] < db.txPowTree.weight[db.txPowTree.tip]

AppliedInv == IsFiniteSet(OutputsOf(db.blockStore)) /\ AppliedOnce

\* The blocks that the disk misses, the one a failed write has left bound
\* counted in every case, were each lost to a write that failed.
Missing == (db.blockStore \ sql) \ {bound}
Pending == IF bound = NoBlock THEN 0 ELSE 1
LossInv ==
  phase = "running" => Cardinality(Missing) + Pending <= Cardinality(failed \cap db.blockStore)

NodeInv ==
  StoreInv /\ QueueInv /\ DiskInv /\ PhaseInv /\ TipInv /\ AppliedInv /\ LossInv

LEMMA NodeInitial == Init => NodeInv
<1> SUFFICES ASSUME Init PROVE NodeInv
  OBVIOUS
<1> USE DEF Init
<1>1. IsFiniteSet({}) /\ Cardinality({}) = 0
  BY FS_EmptySet
<1>2. StoreInv
  BY <1>1, EmptyIsDB DEF StoreInv
<1>3. QueueInv /\ DiskInv
  BY <1>1 DEF QueueInv, DiskInv
<1>4. PhaseInv
  BY EmptyIsDB DEF PhaseInv
<1>5. TipInv /\ LossInv
  BY DEF TipInv, LossInv
<1>6. AppliedInv
  <2>1. OutputsOf({}) = {} /\ Len(<<>>) = 0
    BY DEF OutputsOf
  <2> QED BY <1>1, <2>1, EmptyIsDB DEF AppliedInv, AppliedOnce
<1> QED BY <1>2, <1>3, <1>4, <1>5, <1>6 DEF NodeInv

\* The queue while the worker takes its messages.
LEMMA QueueMoves ==
  ASSUME QueueInv, queue # <<>>
  PROVE  /\ Current \in TxPoWs
         /\ Finished \in Seq(Seq(TxPoWs) \ {<<>>})
         /\ Tail(queue) \in Seq(Seq(TxPoWs) \ {<<>>})
<1> DEFINE M == Seq(TxPoWs) \ {<<>>}
           h == Head(queue)
<1>1. h \in Seq(TxPoWs) /\ h # <<>> /\ Tail(queue) \in Seq(M)
  BY DEF QueueInv
<1>2. Head(h) \in TxPoWs /\ Len(h) \in Nat /\ Tail(h) \in Seq(TxPoWs)
  BY <1>1
<1>3. Len(h) # 1 => Tail(h) # <<>>
  <2>1. Len(h) # 0
    BY <1>1
  <2>2. Len(Tail(h)) = Len(h) - 1
    BY <1>1
  <2>3. Len(h) # 1 => Len(Tail(h)) # 0
    <3> HIDE DEF h
    <3> QED BY <1>2, <2>2
  <2> QED BY <2>3
<1>4. Len(h) # 1 => <<Tail(h)>> \in Seq(M)
  BY <1>2, <1>3
<1> HIDE DEF M, h
<1>5. Len(h) # 1 => <<Tail(h)>> \o Tail(queue) \in Seq(M)
  BY <1>1, <1>4
<1> QED BY <1>1, <1>2, <1>5 DEF Current, Finished, M, h

-----------------------------------------------------------------------------
(* Steps that leave the blocks as they are, and steps that add one.        *)

\* Nothing of the database changes but the pool.
Quiet ==
  /\ IsDB(db')
  /\ db'.txPowTree = db.txPowTree /\ db'.blockStore = db.blockStore
  /\ db'.megaMMR = db.megaMMR /\ db'.mmrSet = db.mmrSet

LEMMA UnchangedIsQuiet == ASSUME IsDB(db), UNCHANGED db PROVE Quiet
BY DEF Quiet

LEMMA TxnIsQuiet == ASSUME IsDB(db), NEW x, ProcessTxn(x) PROVE Quiet
<1>1. db' = [db EXCEPT !.mempool = Pool!AddTo(@, x)]
  BY DEF ProcessTxn
<1>2. /\ DOMAIN db' = DBFields /\ db'.txPowTree = db.txPowTree
      /\ db'.blockStore = db.blockStore /\ db'.megaMMR = db.megaMMR
      /\ db'.mmrSet = db.mmrSet
  BY <1>1 DEF IsDB, DBFields
<1> QED BY <1>2 DEF IsDB, Quiet

\* A step that leaves the blocks alone keeps what is said of them.
LEMMA QuietKeeps ==
  ASSUME StoreInv, TipInv, AppliedInv, Quiet, lastTip' = lastTip
  PROVE  StoreInv' /\ TipInv' /\ AppliedInv'
<1>1. StoreInv'
  BY DEF StoreInv, Quiet
<1>2. TipInv'
  BY DEF TipInv, Quiet
<1>3. AppliedInv'
  BY DEF AppliedInv, AppliedOnce, OutputsOf, Quiet
<1> QED BY <1>1, <1>2, <1>3

\* A new block brings its outputs to the leaves of the global MMR.
LEMMA GrownKeeps ==
  ASSUME StoreInv, AppliedInv, NEW x \in TxPoWs \ db.blockStore, Grown(db, x, db')
  PROVE  StoreInv' /\ AppliedInv'
<1>1. /\ IsDB(db') /\ db'.blockStore = db.blockStore \cup {x}
      /\ db'.megaMMR.leaves = db.megaMMR.leaves \o Outputs[x]
      /\ db'.txPowTree.nodes \subseteq db.txPowTree.nodes \cup {x}
  BY DEF Grown, TreeGrown
<1>2. StoreInv'
  <2> DEFINE S == db.blockStore
  <2>0. IsFiniteSet(S)
    BY DEF StoreInv
  <2> HIDE DEF S
  <2>1. IsFiniteSet(S \cup {x})
    BY <2>0, FS_AddElement
  <2> USE DEF S
  <2> QED BY <1>1, <2>1 DEF StoreInv
<1>3. AppliedInv'
  <2> DEFINE S == db.blockStore
             l == db.megaMMR.leaves
  <2>1. S \in SUBSET TxPoWs /\ x \in TxPoWs \ S /\ IsFiniteSet(OutputsOf(S))
        /\ Len(l) = Cardinality(OutputsOf(S))
    BY DEF StoreInv, AppliedInv, AppliedOnce
  <2>2. l \in Seq(Coins \cup TxPoWs)
    BY DEF StoreInv, IsDB
  <2> HIDE DEF S, l
  <2>3. /\ IsFiniteSet(OutputsOf(S \cup {x}))
        /\ Cardinality(OutputsOf(S \cup {x})) = Cardinality(OutputsOf(S)) + Len(Outputs[x])
    BY <2>1, OutputsAreAdded
  <2>4. Len(l \o Outputs[x]) = Len(l) + Len(Outputs[x])
    <3>1. Outputs[x] \in Seq(Coins \cup TxPoWs)
      BY <2>1
    <3> QED BY <2>2, <3>1
  <2>5. db'.blockStore = S \cup {x} /\ db'.megaMMR.leaves = l \o Outputs[x]
    BY <1>1 DEF S, l
  <2>6. OutputsOf(db.blockStore)' = OutputsOf(S \cup {x})
    BY <2>5 DEF OutputsOf
  <2> QED BY <2>1, <2>3, <2>4, <2>5, <2>6 DEF AppliedInv, AppliedOnce
<1> QED BY <1>2, <1>3

\* m_lastTipID moves to a block only when it has become the tip.
TipMoves(x) ==
  \/ lastTip' = lastTip
  \/ lastTip' = x /\ db'.txPowTree.tip = x

\* A tip that m_lastTipID misses is heavier than the last tip.
LEMMA GrownKeepsTip ==
  ASSUME StoreInv, TipInv, NEW x \in TxPoWs \ db.blockStore, Grown(db, x, db'),
         TipMoves(x)
  PROVE  TipInv'
<1> DEFINE t == db.txPowTree
           u == db'.txPowTree
<1>1. /\ TreeGrown(t, x, u) /\ IsATree(t) /\ IsATree(u)
      /\ db'.blockStore = db.blockStore \cup {x} /\ t.nodes \subseteq db.blockStore
  BY DEF Grown, StoreInv, IsDB
<1>2. /\ t.weight \in [TxPoWs -> Nat] /\ u.weight \in [TxPoWs -> Nat]
      /\ t.nodes \subseteq TxPoWs /\ u.nodes \subseteq TxPoWs
  BY <1>1 DEF IsATree, Tree!Trees
<1>3. CASE lastTip' = x /\ u.tip = x
  <2>1. u.root # NoBlock
    BY <1>1 DEF TreeGrown
  <2> QED BY <1>1, <1>3, <2>1 DEF TipInv
<1>4. CASE lastTip' = lastTip
  <2> SUFFICES ASSUME lastTip # NoBlock
               PROVE  /\ lastTip \in db.blockStore \cup {x} /\ u.root # NoBlock
                      /\ lastTip \in u.nodes /\ lastTip # u.tip =>
                           u.weight[lastTip] < u.weight[u.tip]
    BY <1>1, <1>4 DEF TipInv
  <2>1. /\ lastTip \in db.blockStore /\ t.root # NoBlock
        /\ lastTip \in t.nodes /\ lastTip # t.tip => t.weight[lastTip] < t.weight[t.tip]
    BY DEF TipInv
  <2> HIDE DEF t, u
  <2>2. u.root # NoBlock /\ u.tip \in u.nodes /\ t.tip \in t.nodes
    BY <1>1, <2>1 DEF TreeGrown
  <2>3. ASSUME lastTip \in u.nodes, lastTip # u.tip PROVE u.weight[lastTip] < u.weight[u.tip]
    <3>1. lastTip \in t.nodes /\ u.weight[lastTip] = t.weight[lastTip]
      BY <1>1, <2>1, <2>3 DEF TreeGrown
    <3> DEFINE old == t.weight[lastTip]
               new == t.weight[t.tip]
    <3>0. old \in Nat /\ new \in Nat
      BY <1>2, <2>2, <3>1
    <3>2. old <= new
      <4>1. lastTip # t.tip => old < new
        BY <2>1, <3>1
      <4> HIDE DEF old, new
      <4>2. lastTip = t.tip => old = new
        BY DEF old, new
      <4> QED BY <3>0, <4>1, <4>2
    <3>3. CASE u.tip = x
      <4>1. u.weight[x] > t.weight[t.tip]
        BY <1>1, <2>1, <2>2, <3>3 DEF TreeGrown
      <4>2. u.weight[x] \in Nat
        BY <1>2
      <4>3. u.weight[lastTip] = old
        BY <3>1
      <4> HIDE DEF old, new
      <4>4. u.weight[x] > new
        BY <4>1 DEF new
      <4> QED BY <3>0, <3>2, <3>3, <4>2, <4>3, <4>4
    <3>4. CASE u.tip = t.tip
      <4>1. u.weight[u.tip] = t.weight[t.tip]
        BY <1>1, <2>2, <3>4 DEF TreeGrown
      <4> QED BY <2>1, <2>3, <3>1, <3>4, <4>1
    <3> QED BY <1>1, <3>3, <3>4 DEF TreeGrown
  <2> QED BY <2>1, <2>2, <2>3
<1> QED BY <1>3, <1>4 DEF TipMoves

-----------------------------------------------------------------------------
(* What the disk misses.                                                   *)

\* The row that a put writes is, of the blocks in memory, one that the disk
\* missed, and the block that is put takes its place if a failed write is in
\* the way.
LEMMA LossesPut ==
  ASSUME NEW S \in SUBSET TxPoWs, IsFiniteSet(S), NEW Q \in SUBSET TxPoWs,
         NEW p \in TxPoWs \cup {NoBlock}, NEW x \in TxPoWs \ S,
         NEW F \in SUBSET TxPoWs, IsFiniteSet(F),
         Cardinality((S \ Q) \ {p}) + (IF p = NoBlock THEN 0 ELSE 1) <= Cardinality(F \cap S),
         NEW r, r = IF p = NoBlock THEN x ELSE p
  PROVE  /\ Cardinality(((S \cup {x}) \ (Q \cup {r})) \ {NoBlock}) + 0
              <= Cardinality(F \cap (S \cup {x}))
         /\ Cardinality(((S \cup {x}) \ Q) \ {r}) + 1
              <= Cardinality((F \cup {x}) \cap (S \cup {x}))
<1> DEFINE A == (S \ Q) \ {p}
           B == F \cap S
           C == ((S \cup {x}) \ (Q \cup {r})) \ {NoBlock}
           D == ((S \cup {x}) \ Q) \ {r}
<1>0. NoBlock \notin TxPoWs
  OBVIOUS
<1>1. /\ IsFiniteSet(A) /\ Cardinality(A) \in Nat
      /\ IsFiniteSet(B) /\ Cardinality(B) \in Nat
  <2>1. IsFiniteSet(A) /\ IsFiniteSet(B)
    BY FS_Subset
  <2> HIDE DEF A, B
  <2> QED BY <2>1, FS_CardinalityType
<1>2. /\ IsFiniteSet(A \cup {x})
      /\ Cardinality(A \cup {x}) = Cardinality(A) + 1
  <2>1. x \notin A
    OBVIOUS
  <2> HIDE DEF A
  <2> QED BY <1>1, <2>1, FS_AddElement
<1>3. IF p = NoBlock THEN C \subseteq A /\ D \subseteq A
                     ELSE C \subseteq A \cup {x} /\ D \subseteq A \cup {x}
  BY <1>0
<1>4. /\ F \cap (S \cup {x}) = B \/ F \cap (S \cup {x}) = B \cup {x}
      /\ (F \cup {x}) \cap (S \cup {x}) = B \cup {x} /\ x \notin B
  OBVIOUS
<1> HIDE DEF A, B, C, D
<1>5. Cardinality(B \cup {x}) = Cardinality(B) + 1
  BY <1>1, <1>4, FS_AddElement
<1>6. ASSUME NEW X, NEW Y, IsFiniteSet(Y), X \subseteq Y
      PROVE  IsFiniteSet(X) /\ Cardinality(X) \in Nat /\ Cardinality(X) <= Cardinality(Y)
  <2>1. IsFiniteSet(X) /\ Cardinality(X) <= Cardinality(Y)
    BY <1>6, FS_Subset
  <2> QED BY <2>1, FS_CardinalityType
<1>7. IF p = NoBlock
      THEN Cardinality(C) <= Cardinality(A) /\ Cardinality(D) <= Cardinality(A)
      ELSE Cardinality(C) <= Cardinality(A) + 1 /\ Cardinality(D) <= Cardinality(A) + 1
  BY <1>1, <1>2, <1>3, <1>6
<1>8. Cardinality(A) + (IF p = NoBlock THEN 0 ELSE 1) <= Cardinality(B)
  BY DEF A, B
<1>9. Cardinality(C) \in Nat /\ Cardinality(D) \in Nat
  BY <1>1, <1>2, <1>3, <1>6
<1>10. /\ Cardinality(C) + 0 <= Cardinality(B)
       /\ Cardinality(D) + 1 <= Cardinality(B) + 1
  BY <1>1, <1>7, <1>8, <1>9
<1>11. Cardinality(C) + 0 <= Cardinality(F \cap (S \cup {x}))
  <2>1. Cardinality(C) + 0 <= Cardinality(B) + 1
    BY <1>1, <1>9, <1>10
  <2>2. CASE F \cap (S \cup {x}) = B
    BY <1>10, <2>2
  <2>3. CASE F \cap (S \cup {x}) = B \cup {x}
    BY <1>5, <2>1, <2>3
  <2> QED BY <1>4, <2>2, <2>3
<1>12. Cardinality(D) + 1 <= Cardinality((F \cup {x}) \cap (S \cup {x}))
  BY <1>4, <1>5, <1>10
<1> QED BY <1>11, <1>12 DEF C, D

\* When the disk has every block in memory, nothing is lost.
LEMMA NothingLost ==
  ASSUME StoreInv, DiskInv, db.blockStore \subseteq sql, bound = NoBlock
  PROVE  LossInv
<1>1. Missing = {} /\ Pending = 0 /\ Cardinality({}) = 0
  BY FS_EmptySet DEF Missing, Pending
<1>2. Cardinality(failed \cap db.blockStore) \in Nat
  <2>1. IsFiniteSet(failed)
    BY DEF DiskInv
  <2>2. IsFiniteSet(failed \cap db.blockStore)
    BY <2>1, FS_Intersection
  <2> QED BY <2>2, FS_CardinalityType
<1> QED BY <1>1, <1>2 DEF LossInv

\* put keeps the disk's types, failed or not.
LEMMA PutKeepsDisk ==
  ASSUME DiskInv, NEW x \in TxPoWs, UNCHANGED toReplay, Put(x) \/ PutThrows(x)
  PROVE  DiskInv'
<1>1. RowOf(x) \in TxPoWs
  BY DEF RowOf, DiskInv
<1> DEFINE r == RowOf(x)
<1>2. IsFiniteSet(sql) /\ IsFiniteSet(failed)
  BY DEF DiskInv
<1>3. IsFiniteSet(sql \cup {r}) /\ IsFiniteSet(failed \cup {x})
  BY <1>2, FS_AddElement
<1> HIDE DEF r
<1>4. CASE Put(x)
  BY <1>1, <1>3, <1>4 DEF Put, DiskInv, r
<1>5. CASE PutThrows(x)
  BY <1>1, <1>3, <1>5 DEF PutThrows, DiskInv, r
<1> QED BY <1>4, <1>5

\* put loses a block from the disk only when it fails.
LEMMA PutKeepsLosses ==
  ASSUME StoreInv, DiskInv, LossInv, phase = "running", NEW x \in TxPoWs \ db.blockStore,
         db'.blockStore = db.blockStore \cup {x}, Put(x) \/ PutThrows(x)
  PROVE  LossInv'
<1> DEFINE S == db.blockStore
           F == failed
           p == bound
           Q == sql
<1>1. /\ S \in SUBSET TxPoWs /\ IsFiniteSet(S) /\ Q \in SUBSET TxPoWs
      /\ p \in TxPoWs \cup {NoBlock} /\ x \in TxPoWs \ S
      /\ F \in SUBSET TxPoWs /\ IsFiniteSet(F)
      /\ Cardinality((S \ Q) \ {p}) + (IF p = NoBlock THEN 0 ELSE 1) <= Cardinality(F \cap S)
  BY DEF StoreInv, DiskInv, LossInv, Missing, Pending
<1> DEFINE r == IF p = NoBlock THEN x ELSE p
<1>2. RowOf(x) = r /\ r \in TxPoWs
  BY <1>1 DEF RowOf
<1>3. r = IF p = NoBlock THEN x ELSE p
  OBVIOUS
<1>4. db'.blockStore = S \cup {x}
  OBVIOUS
<1>5. /\ Put(x) => sql' = Q \cup {RowOf(x)} /\ bound' = NoBlock /\ failed' = F
      /\ PutThrows(x) => sql' = Q /\ bound' = RowOf(x) /\ failed' = F \cup {x}
  BY DEF Put, PutThrows
<1>6. RowOf(x) # NoBlock
  BY <1>2
<1> HIDE DEF S, F, p, Q, r
<1>7. /\ Cardinality(((S \cup {x}) \ (Q \cup {r})) \ {NoBlock}) + 0
           <= Cardinality(F \cap (S \cup {x}))
      /\ Cardinality(((S \cup {x}) \ Q) \ {r}) + 1
           <= Cardinality((F \cup {x}) \cap (S \cup {x}))
  BY <1>1, <1>3, LossesPut
<1>8. CASE Put(x)
  <2>1. /\ Missing' = ((S \cup {x}) \ (Q \cup {r})) \ {NoBlock} /\ Pending' = 0
        /\ (failed \cap db.blockStore)' = F \cap (S \cup {x})
    BY <1>2, <1>4, <1>5, <1>8 DEF Missing, Pending
  <2> QED BY <1>7, <2>1 DEF LossInv
<1>9. CASE PutThrows(x)
  <2>1. /\ Missing' = ((S \cup {x}) \ Q) \ {r} /\ Pending' = 1
        /\ (failed \cap db.blockStore)' = (F \cup {x}) \cap (S \cup {x})
    BY <1>2, <1>4, <1>5, <1>6, <1>9 DEF Missing, Pending
  <2> QED BY <1>7, <2>1 DEF LossInv
<1> QED BY <1>8, <1>9

-----------------------------------------------------------------------------
(* Every step of the node keeps the invariant.                             *)

\* A block the tree refuses changes nothing; one it takes is new to the tree.
LEMMA AddGrowsOrNothing ==
  ASSUME StoreInv, NEW x \in TxPoWs \ db.blockStore
  PROVE  \/ AddBlock(db, x) = db
         \/ AddBlockReturns(db, x) /\ Grown(db, x, AddBlock(db, x))
<1>1. CASE ~ AddBlockReturns(db, x)
  BY <1>1 DEF AddBlock
<1>2. CASE AddBlockReturns(db, x)
  <2>1. x \notin db.txPowTree.nodes /\ IsDB(db)
    BY DEF StoreInv
  <2> QED BY <1>2, <2>1, AddBlockGrows
<1> QED BY <1>1, <1>2

\* The genesis block goes into an empty database.
LEMMA GenesisGrows ==
  ASSUME NodeInv, CreateGenesis
  PROVE  /\ Genesis \in TxPoWs \ db.blockStore /\ Grown(db, Genesis, db')
         /\ db.txPowTree.root = NoBlock /\ db.blockStore = {}
<1>1. db = EmptyDB
  BY DEF NodeInv, PhaseInv, CreateGenesis
<1>2. /\ db.blockStore = {} /\ db.txPowTree.nodes = {} /\ db.txPowTree.root = NoBlock
  BY <1>1, EmptyIsDB
<1>3. Genesis \in TxPoWs \ db.blockStore
  BY <1>2, GenesisAssumption
<1>4. AddBlockReturns(db, Genesis)
  BY <1>2 DEF AddBlockReturns, Tree!AddReturns, Tree!IsOrphan
<1>5. IsDB(db) /\ Genesis \notin db.txPowTree.nodes
  BY <1>2 DEF NodeInv, StoreInv
<1>6. Grown(db, Genesis, AddBlock(db, Genesis))
  BY <1>3, <1>4, <1>5, AddBlockGrows
<1> QED BY <1>2, <1>3, <1>6 DEF CreateGenesis

LEMMA GenesisKeeps == ASSUME NodeInv, CreateGenesis PROVE NodeInv'
<1>1. Genesis \in TxPoWs \ db.blockStore /\ Grown(db, Genesis, db') /\ db.blockStore = {}
  BY GenesisGrows
<1>2. StoreInv /\ DiskInv /\ TipInv /\ AppliedInv /\ PhaseInv /\ QueueInv
  BY DEF NodeInv
<1>3. /\ phase = "down" /\ phase' = "running" /\ Put(Genesis) /\ UNCHANGED toReplay
      /\ lastTip' = lastTip /\ queue' = queue
  BY DEF CreateGenesis
<1>4. StoreInv' /\ AppliedInv'
  BY <1>1, <1>2, GrownKeeps
<1>5. TipInv'
  <2>1. TipMoves(Genesis)
    BY <1>3 DEF TipMoves
  <2> QED BY <1>1, <1>2, <2>1, GrownKeepsTip
<1>6. DiskInv'
  BY <1>1, <1>2, <1>3, PutKeepsDisk
<1>7. /\ db'.blockStore = {Genesis} /\ sql' = sql \cup {RowOf(Genesis)} /\ bound' = NoBlock
      /\ RowOf(Genesis) = Genesis
  BY <1>1, <1>2, <1>3 DEF Grown, Put, RowOf, PhaseInv
<1>8. LossInv'
  <2>1. db'.blockStore \subseteq sql' /\ bound' = NoBlock
    BY <1>7
  <2>2. (StoreInv /\ DiskInv /\ db.blockStore \subseteq sql /\ bound = NoBlock)'
    BY <1>4, <1>6, <2>1
  <2> QED BY <2>2, NothingLost, PTL
<1>9. PhaseInv'
  BY <1>3 DEF PhaseInv
<1>10. QueueInv'
  BY <1>2, <1>3 DEF QueueInv
<1> QED BY <1>4, <1>5, <1>6, <1>8, <1>9, <1>10 DEF NodeInv

LEMMA LoadKeeps == ASSUME NodeInv, LoadRows PROVE NodeInv'
<1>1. StoreInv /\ DiskInv /\ TipInv /\ AppliedInv /\ PhaseInv /\ QueueInv
  BY DEF NodeInv
<1>2. /\ phase = "down" /\ phase' = "replaying" /\ toReplay' \subseteq sql
      /\ UNCHANGED <<db, queue, lastTip, sql, bound, failed>>
  BY DEF LoadRows, disk
<1>3. StoreInv' /\ TipInv' /\ AppliedInv'
  BY <1>1, <1>2, UnchangedIsQuiet, QuietKeeps DEF StoreInv
<1>4. DiskInv' /\ QueueInv'
  BY <1>1, <1>2 DEF DiskInv, QueueInv
<1>5. PhaseInv'
  <2>1. db.blockStore = {} /\ bound = NoBlock /\ lastTip = NoBlock
    BY <1>1, <1>2, EmptyIsDB DEF PhaseInv
  <2> QED BY <1>2, <2>1 DEF PhaseInv
<1>6. LossInv'
  BY <1>2 DEF LossInv
<1> QED BY <1>3, <1>4, <1>5, <1>6 DEF NodeInv

LEMMA ReplayKeeps == ASSUME NodeInv, NEW b \in TxPoWs, ReplayRow(b) PROVE NodeInv'
<1>1. StoreInv /\ DiskInv /\ TipInv /\ AppliedInv /\ PhaseInv /\ QueueInv
  BY DEF NodeInv
<1>2. /\ phase = "replaying" /\ b \in toReplay /\ toReplay' = toReplay \ {b}
      /\ db' = AddBlock(db, b)
      /\ UNCHANGED <<queue, lastTip, phase, sql, bound, failed>>
  BY DEF ReplayRow, disk
<1>3. b \in TxPoWs \ db.blockStore /\ b \in sql
  BY <1>1, <1>2 DEF PhaseInv, DiskInv
<1>4. /\ StoreInv' /\ TipInv' /\ AppliedInv'
      /\ db'.blockStore = db.blockStore \/ db'.blockStore = db.blockStore \cup {b}
  <2>1. CASE db' = db
    BY <1>1, <1>2, <2>1, UnchangedIsQuiet, QuietKeeps DEF StoreInv
  <2>2. CASE Grown(db, b, db')
    <3>1. StoreInv' /\ AppliedInv'
      BY <1>1, <1>3, <2>2, GrownKeeps
    <3>2. TipInv'
      <4>1. TipMoves(b)
        BY <1>2 DEF TipMoves
      <4> QED BY <1>1, <1>3, <2>2, <4>1, GrownKeepsTip
    <3> QED BY <2>2, <3>1, <3>2 DEF Grown
  <2> QED BY <1>1, <1>2, <1>3, <2>1, <2>2, AddGrowsOrNothing
<1>5. DiskInv' /\ QueueInv'
  BY <1>1, <1>2 DEF DiskInv, QueueInv
<1>6. PhaseInv'
  BY <1>1, <1>2, <1>3, <1>4 DEF PhaseInv
<1>7. LossInv'
  BY <1>2 DEF LossInv
<1> QED BY <1>4, <1>5, <1>6, <1>7 DEF NodeInv

LEMMA ReplayDoneKeeps == ASSUME NodeInv, ReplayDone PROVE NodeInv'
<1>1. StoreInv /\ DiskInv /\ TipInv /\ AppliedInv /\ PhaseInv /\ QueueInv
  BY DEF NodeInv
<1>2. /\ phase = "replaying" /\ phase' = "running"
      /\ UNCHANGED <<db, queue, lastTip, toReplay, sql, bound, failed>>
  BY DEF ReplayDone, disk
<1>3. StoreInv' /\ TipInv' /\ AppliedInv'
  BY <1>1, <1>2, UnchangedIsQuiet, QuietKeeps DEF StoreInv
<1>4. DiskInv' /\ QueueInv'
  BY <1>1, <1>2 DEF DiskInv, QueueInv
<1>5. PhaseInv'
  BY <1>2 DEF PhaseInv
<1>6. LossInv'
  <2>1. db.blockStore \subseteq sql /\ bound = NoBlock
    BY <1>1, <1>2 DEF PhaseInv
  <2>2. (StoreInv /\ DiskInv /\ db.blockStore \subseteq sql /\ bound = NoBlock)'
    BY <1>2, <1>3, <1>4, <2>1
  <2> QED BY <2>2, NothingLost, PTL
<1> QED BY <1>3, <1>4, <1>5, <1>6 DEF NodeInv

LEMMA ReceiveKeeps == ASSUME NodeInv, NEW batch \in Batches, Receive(batch) PROVE NodeInv'
<1>1. StoreInv /\ DiskInv /\ TipInv /\ AppliedInv /\ PhaseInv /\ QueueInv /\ LossInv
  BY DEF NodeInv
<1>2. /\ phase = "running" /\ queue' = Append(queue, batch)
      /\ UNCHANGED <<db, lastTip, phase, toReplay, sql, bound, failed>>
  BY DEF Receive, Submit, disk
<1>3. StoreInv' /\ TipInv' /\ AppliedInv'
  BY <1>1, <1>2, UnchangedIsQuiet, QuietKeeps DEF StoreInv
<1>4. DiskInv' /\ PhaseInv'
  BY <1>1, <1>2 DEF DiskInv, PhaseInv
<1>5. QueueInv'
  <2>1. batch \in Seq(TxPoWs) \ {<<>>}
    BY ProcessorAssumption
  <2> QED BY <1>1, <1>2, <2>1 DEF QueueInv
<1>6. LossInv'
  BY <1>1, <1>2 DEF LossInv, Missing, Pending
<1> QED BY <1>3, <1>4, <1>5, <1>6 DEF NodeInv

LEMMA CrashKeeps == ASSUME NodeInv, Crash PROVE NodeInv'
<1>1. DiskInv
  BY DEF NodeInv
<1>2. /\ db' = EmptyDB /\ queue' = <<>> /\ lastTip' = NoBlock /\ phase' = "down"
      /\ toReplay' = {} /\ bound' = NoBlock /\ sql' = sql /\ failed' = failed
  BY DEF Crash
<1>3. /\ IsDB(db') /\ db'.blockStore = {} /\ db'.megaMMR.leaves = <<>>
      /\ db'.txPowTree.nodes = {}
  BY <1>2, EmptyIsDB
<1>4. IsFiniteSet({}) /\ Cardinality({}) = 0
  BY FS_EmptySet
<1>5. StoreInv' /\ TipInv'
  BY <1>2, <1>3, <1>4 DEF StoreInv, TipInv
<1>6. AppliedInv'
  <2>1. OutputsOf(db.blockStore)' = {} /\ Len(<<>>) = 0
    BY <1>3 DEF OutputsOf
  <2> QED BY <1>3, <1>4, <2>1 DEF AppliedInv, AppliedOnce
<1>7. DiskInv' /\ QueueInv' /\ LossInv'
  BY <1>1, <1>2 DEF DiskInv, QueueInv, LossInv
<1>8. PhaseInv'
  BY <1>2, <1>3 DEF PhaseInv
<1> QED BY <1>5, <1>6, <1>7, <1>8 DEF NodeInv

\* The steps of the worker that add no block.
QuietProcess(x) ==
  /\ ProcessDuplicate(x) \/ ProcessInvalid(x) \/ ProcessTxn(x) \/ ProcessOrphan(x)
  /\ UNCHANGED disk

\* The steps that add one.
BlockProcess(x) ==
  \/ ProcessBlock(x) /\ Put(x)
  \/ ProcessBlockThrows(x) /\ PutThrows(x)

LEMMA ProcessSplit ==
  Process <=> /\ phase = "running" /\ queue # <<>>
              /\ QuietProcess(Current) \/ BlockProcess(Current)
              /\ UNCHANGED <<phase, toReplay>>
BY Zenon DEF Process, QuietProcess, BlockProcess

LEMMA QuietProcessIsQuiet ==
  ASSUME IsDB(db), NEW x, QuietProcess(x)
  PROVE  Quiet /\ lastTip' = lastTip /\ queue' = Finished /\ UNCHANGED disk
<1>1. CASE ProcessTxn(x)
  BY <1>1, TxnIsQuiet DEF ProcessTxn, Answer, QuietProcess
<1>2. CASE ProcessDuplicate(x) \/ ProcessInvalid(x) \/ ProcessOrphan(x)
  <2>1. UNCHANGED db /\ lastTip' = lastTip /\ queue' = Finished
    BY <1>2 DEF ProcessDuplicate, ProcessInvalid, ProcessOrphan, Answer
  <2> QED BY <2>1, UnchangedIsQuiet DEF QuietProcess
<1> QED BY <1>1, <1>2 DEF QuietProcess

\* What processBlock does to the leaves of the per-block MMR.
LeavesMove(x) ==
  \/ db'.mmrSet.leaves = db.mmrSet.leaves \o Outputs[x]
  \/ /\ db'.txPowTree.tip = x /\ Extends(x)
     /\ db'.mmrSet.leaves = Append(db.mmrSet.leaves \o Outputs[x], x)
  \/ db'.mmrSet.leaves \in Seq(Coins)

\* A block is processed only when it is new, and it makes the database grow.
LEMMA BlockProcessGrows ==
  ASSUME StoreInv, NEW x \in TxPoWs, BlockProcess(x)
  PROVE  /\ x \notin db.blockStore /\ IsBlock(x)
         /\ Grown(db, x, db') /\ TipMoves(x) /\ LeavesMove(x)
         /\ queue' = Finished \/ queue' = Tail(queue)
<1>1. CanAdd(x)
  BY DEF BlockProcess, ProcessBlock, ProcessBlockThrows
<1>2. x \notin db.blockStore /\ IsBlock(x) /\ AddBlockReturns(db, x)
  BY <1>1 DEF CanAdd, Duplicate
<1>3. IsDB(db) /\ x \notin db.txPowTree.nodes
  BY <1>2 DEF StoreInv
<1> DEFINE a == AddBlock(db, x)
<1>4. CASE ProcessBlock(x)
  <2> DEFINE e == TrimTree(RemoveMined(UpdateMMRIfTip(a, x), x))
  <2>1. /\ db' = e /\ lastTip' = IF a.txPowTree.tip = x THEN x ELSE lastTip
        /\ queue' = Finished
    BY <1>4 DEF ProcessBlock, Answer
  <2>2. a = AddBlock(db, x) /\ e = TrimTree(RemoveMined(UpdateMMRIfTip(a, x), x))
    OBVIOUS
  <2> HIDE DEF a, e
  <2>3. Processed(x, a, e)
    BY <1>2, <1>3, <2>2, ProcessGrows
  <2> QED BY <1>2, <2>1, <2>3 DEF Processed, TipMoves, LeavesMove
<1>5. CASE ProcessBlockThrows(x)
  <2>1. db' = a /\ lastTip' = lastTip /\ queue' = Tail(queue)
    BY <1>5 DEF ProcessBlockThrows
  <2>2. a = AddBlock(db, x)
    OBVIOUS
  <2> HIDE DEF a
  <2>3. Grown(db, x, a) /\ BlockAdded(db, x, a)
    BY <1>2, <1>3, <2>2, AddBlockGrows, AddBlockFields
  <2> QED BY <1>2, <2>1, <2>3 DEF BlockAdded, TipMoves, LeavesMove
<1> QED BY <1>4, <1>5 DEF BlockProcess

LEMMA ProcessKeeps == ASSUME NodeInv, Process PROVE NodeInv'
<1>1. StoreInv /\ DiskInv /\ TipInv /\ AppliedInv /\ PhaseInv /\ QueueInv /\ LossInv
  BY DEF NodeInv
<1>2. /\ phase = "running" /\ queue # <<>> /\ UNCHANGED <<phase, toReplay>>
      /\ QuietProcess(Current) \/ BlockProcess(Current)
  BY ProcessSplit
<1> DEFINE x == Current
<1>3. x \in TxPoWs /\ Finished \in Seq(Seq(TxPoWs) \ {<<>>})
      /\ Tail(queue) \in Seq(Seq(TxPoWs) \ {<<>>})
  BY <1>1, <1>2, QueueMoves
<1> HIDE DEF x
<1>4. PhaseInv'
  BY <1>2 DEF PhaseInv
<1>5. CASE QuietProcess(x)
  <2>1. Quiet /\ lastTip' = lastTip /\ queue' = Finished /\ UNCHANGED disk
    BY <1>1, <1>5, QuietProcessIsQuiet DEF StoreInv
  <2>2. StoreInv' /\ TipInv' /\ AppliedInv'
    BY <1>1, <2>1, QuietKeeps
  <2>3. DiskInv' /\ QueueInv' /\ LossInv'
    BY <1>1, <1>2, <1>3, <2>1
       DEF DiskInv, QueueInv, LossInv, Missing, Pending, disk, Quiet
  <2> QED BY <1>4, <2>2, <2>3 DEF NodeInv
<1>6. CASE BlockProcess(x)
  <2>1. /\ x \notin db.blockStore /\ Grown(db, x, db') /\ TipMoves(x)
        /\ queue' = Finished \/ queue' = Tail(queue)
    BY <1>1, <1>3, <1>6, BlockProcessGrows
  <2>2. StoreInv' /\ AppliedInv' /\ TipInv'
    BY <1>1, <1>3, <2>1, GrownKeeps, GrownKeepsTip
  <2>3. Put(x) \/ PutThrows(x)
    BY <1>6 DEF BlockProcess
  <2>4. DiskInv'
    BY <1>1, <1>2, <1>3, <2>3, PutKeepsDisk
  <2>5. LossInv'
    <3>1. db'.blockStore = db.blockStore \cup {x}
      BY <2>1 DEF Grown
    <3> QED BY <1>1, <1>2, <1>3, <2>1, <2>3, <3>1, PutKeepsLosses
  <2>6. QueueInv'
    BY <1>3, <2>1 DEF QueueInv
  <2> QED BY <1>4, <2>2, <2>4, <2>5, <2>6 DEF NodeInv
<1> QED BY <1>2, <1>5, <1>6 DEF x

LEMMA NodeStep == NodeInv /\ [Next]_vars => NodeInv'
<1> SUFFICES ASSUME NodeInv, [Next]_vars PROVE NodeInv'
  OBVIOUS
<1>1. CASE UNCHANGED vars
  <2>1. UNCHANGED <<db, queue, lastTip, phase, toReplay, sql, bound, failed>>
    BY <1>1 DEF vars, disk
  <2> QED BY <2>1
       DEF NodeInv, StoreInv, QueueInv, DiskInv, PhaseInv, TipInv, AppliedInv, AppliedOnce,
           LossInv, Missing, Pending
<1>2. CASE Boot
  BY <1>2, GenesisKeeps, LoadKeeps, ReplayKeeps, ReplayDoneKeeps DEF Boot
<1>3. CASE \E batch \in Batches : Receive(batch)
  BY <1>3, ReceiveKeeps
<1>4. CASE Process
  BY <1>4, ProcessKeeps
<1>5. CASE Crash
  BY <1>5, CrashKeeps
<1> QED BY <1>1, <1>2, <1>3, <1>4, <1>5 DEF Next

-----------------------------------------------------------------------------
(* The theorems that hold for every chain.                                 *)

\* The invariant above: the parts of the database belong together, memory and
\* disk differ by counted losses only (TxPoWProcessor, bootstrapGenesis, put).
THEOREM NodeInvariant == Spec => []NodeInv
BY NodeInitial, NodeStep, PTL DEF Spec

\* The global MMR has one leaf for each coin that a stored block creates,
\* whatever was sent twice, trimmed, lost with a crash or replayed after it.
THEOREM BlocksAreAppliedOnce == Spec => []AppliedOnce
<1>1. NodeInv => AppliedOnce
  BY DEF NodeInv, AppliedInv
<1> QED BY <1>1, NodeInvariant, PTL

\* The step property of LinearMeansExtension, for one step.
LinearStep ==
  \A b \in TxPoWs :
    LET old == db.mmrSet.leaves
        new == db'.mmrSet.leaves
    IN  Len(new) > Len(old) /\ new[Len(new)] = b => Parent[b] = db.txPowTree.tip

\* No new leaf, no linear update.
LEMMA NoNewLeaf ==
  ASSUME IsDB(db), db'.mmrSet.leaves = db.mmrSet.leaves \/ db'.mmrSet.leaves = <<>>
  PROVE  LinearStep
<1> DEFINE l == db.mmrSet.leaves
           m == db'.mmrSet.leaves
<1>1. l \in Seq(Coins \cup TxPoWs)
  BY DEF IsDB
<1>2. m = l \/ m = <<>>
  OBVIOUS
<1> HIDE DEF l, m
<1>3. ~ (Len(m) > Len(l))
  <2>1. Len(l) \in Nat /\ Len(<<>>) = 0
    BY <1>1
  <2> QED BY <1>2, <2>1
<1> QED BY <1>3 DEF LinearStep, l, m

NewLeaves(m, l, c) == m = l \o c \/ m = c
Longer(m, l) == Len(m) > Len(l)
EndsWith(m, b) == m[Len(m)] = b

\* The last of some new leaves that are coins is no block.
LEMMA CoinLeaves ==
  ASSUME NEW l \in Seq(Coins \cup TxPoWs), NEW c \in Seq(Coins), NEW b \in TxPoWs,
         NEW m, NewLeaves(m, l, c), Longer(m, l)
  PROVE  ~ EndsWith(m, b)
<1>1. Len(l) \in Nat /\ Len(c) \in Nat /\ Len(l \o c) = Len(l) + Len(c)
  OBVIOUS
<1>2. Len(c) \in 1 .. Len(c)
  <2>1. Len(c) > 0
    BY <1>1 DEF NewLeaves, Longer
  <2> QED BY <1>1, <2>1
<1>3. m[Len(m)] = c[Len(c)]
  <2>1. CASE m = c
    BY <2>1
  <2>2. CASE m = l \o c
    <3>1. (l \o c)[Len(l) + Len(c)] = c[Len(c)]
      BY <1>1, <1>2
    <3> QED BY <1>1, <2>2, <3>1
  <2> QED BY <2>1, <2>2 DEF NewLeaves
<1>4. c[Len(c)] \in Coins
  BY <1>2
<1> QED BY <1>3, <1>4 DEF EndsWith

\* A new block whose id becomes a leaf extends the tip.
LEMMA BlockStepIsLinear ==
  ASSUME StoreInv, TipInv, NEW x \in TxPoWs \ db.blockStore, Grown(db, x, db'), LeavesMove(x)
  PROVE  LinearStep
<1> DEFINE t == db.txPowTree
           u == db'.txPowTree
           l == db.mmrSet.leaves
           m == db'.mmrSet.leaves
<1>1. /\ l \in Seq(Coins \cup TxPoWs) /\ TreeGrown(t, x, u)
      /\ Outputs[x] \in Seq(Coins) /\ t.weight \in [TxPoWs -> Nat]
      /\ t.nodes \subseteq TxPoWs /\ t.nodes \subseteq db.blockStore
  BY DEF StoreInv, IsDB, Grown, IsATree, Tree!Trees
<1>2. SUFFICES ASSUME NEW b \in TxPoWs, Len(m) > Len(l), m[Len(m)] = b
               PROVE  Parent[b] = t.tip
  BY DEF LinearStep
<1>3. \/ m = l \o Outputs[x]
      \/ u.tip = x /\ Extends(x) /\ m = Append(l \o Outputs[x], x)
      \/ m \in Seq(Coins)
  BY DEF LeavesMove
<1> HIDE DEF t, u, l, m
<1>4. m # l \o Outputs[x] /\ m \notin Seq(Coins)
  <2>1. ASSUME NEW c \in Seq(Coins), NewLeaves(m, l, c) PROVE FALSE
    <3>1. Longer(m, l) /\ EndsWith(m, b)
      BY <1>2 DEF Longer, EndsWith
    <3>2. l \in Seq(Coins \cup TxPoWs)
      BY <1>1
    <3> QED BY <1>2, <2>1, <3>1, <3>2, CoinLeaves
  <2> QED BY <1>1, <2>1 DEF NewLeaves
<1>5. u.tip = x /\ Extends(x) /\ m = Append(l \o Outputs[x], x)
  BY <1>3, <1>4
<1>6. b = x
  <2>1. l \o Outputs[x] \in Seq(Coins \cup TxPoWs)
    BY <1>1
  <2> QED BY <1>2, <1>5, <2>1
<1>7. lastTip # NoBlock /\ Parent[x] = lastTip
  BY <1>5 DEF Extends
<1>8. /\ t.root # NoBlock
      /\ lastTip \in t.nodes /\ lastTip # t.tip => t.weight[lastTip] < t.weight[t.tip]
  BY <1>7 DEF TipInv, t
<1>9. /\ lastTip \in t.nodes /\ t.tip \in t.nodes
      /\ t.weight[lastTip] + 1 > t.weight[t.tip]
  BY <1>5, <1>7, <1>8, <1>1 DEF TreeGrown
<1>10. lastTip = t.tip
  <2> SUFFICES ASSUME lastTip # t.tip PROVE FALSE
    OBVIOUS
  <2>1. t.weight[lastTip] < t.weight[t.tip]
    BY <1>8, <1>9, <2>1
  <2>2. t.weight[lastTip] \in Nat /\ t.weight[t.tip] \in Nat
    BY <1>1, <1>9
  <2> QED BY <1>9, <2>1, <2>2
<1> QED BY <1>6, <1>7, <1>10

LEMMA NodeStepIsLinear == NodeInv /\ [Next]_vars => LinearStep
<1> SUFFICES ASSUME NodeInv, [Next]_vars PROVE LinearStep
  OBVIOUS
<1>0. StoreInv /\ TipInv /\ IsDB(db) /\ QueueInv
  BY DEF NodeInv, StoreInv
<1>1. CASE UNCHANGED db
  BY <1>0, <1>1, NoNewLeaf
<1>2. CASE CreateGenesis
  <2>1. /\ Genesis \in TxPoWs \ db.blockStore /\ Grown(db, Genesis, db')
        /\ db.txPowTree.root = NoBlock
    BY <1>2, GenesisGrows
  <2>2. AddBlockReturns(db, Genesis)
    BY <2>1 DEF AddBlockReturns, Tree!AddReturns, Tree!IsOrphan
  <2>3. db' = AddBlock(db, Genesis) /\ Genesis \notin db.txPowTree.nodes
    BY <1>0, <1>2, <2>1 DEF CreateGenesis, StoreInv
  <2>4. BlockAdded(db, Genesis, db')
    BY <1>0, <2>1, <2>2, <2>3, AddBlockFields
  <2> QED BY <1>0, <2>1, <2>4, BlockStepIsLinear DEF BlockAdded, LeavesMove
<1>3. ASSUME NEW b \in TxPoWs, ReplayRow(b) PROVE LinearStep
  <2>1. db' = AddBlock(db, b) /\ b \notin db.blockStore
    BY <1>3 DEF ReplayRow, NodeInv, PhaseInv
  <2>2. CASE db' = db
    BY <1>1, <2>2
  <2>3. CASE AddBlockReturns(db, b) /\ Grown(db, b, db')
    <3>1. b \notin db.txPowTree.nodes
      BY <1>0, <2>1 DEF StoreInv
    <3>2. BlockAdded(db, b, db')
      BY <1>0, <2>1, <2>3, <3>1, AddBlockFields
    <3> QED BY <1>0, <2>1, <2>3, <3>2, BlockStepIsLinear DEF BlockAdded, LeavesMove
  <2> QED BY <1>0, <2>1, <2>2, <2>3, AddGrowsOrNothing
<1>4. CASE Process
  <2>1. queue # <<>> /\ (QuietProcess(Current) \/ BlockProcess(Current))
    BY <1>4, ProcessSplit
  <2> DEFINE x == Current
  <2>2. x \in TxPoWs
    BY <1>0, <2>1, QueueMoves
  <2> HIDE DEF x
  <2>3. CASE QuietProcess(x)
    BY <1>0, <2>3, QuietProcessIsQuiet, NoNewLeaf DEF Quiet
  <2>4. CASE BlockProcess(x)
    BY <1>0, <2>2, <2>4, BlockProcessGrows, BlockStepIsLinear
  <2> QED BY <2>1, <2>3, <2>4 DEF x
<1>5. CASE Crash
  BY <1>0, <1>5, EmptyIsDB, NoNewLeaf DEF Crash
<1>6. CASE LoadRows \/ ReplayDone \/ (\E batch \in Batches : Receive(batch)) \/ UNCHANGED vars
  BY <1>1, <1>6 DEF LoadRows, ReplayDone, Receive, Submit, vars
<1> QED BY <1>2, <1>3, <1>4, <1>5, <1>6 DEF Next, Boot

\* updateMMRIfTip appends a block id only for a block on top of the old tip:
\* a last tip that is behind the tip of the tree is lighter than it, and a
\* block on it does not become the tip.
THEOREM LinearUpdatesExtend == Spec => LinearMeansExtension
<1>1. NodeInv /\ [Next]_vars => [LinearStep]_vars
  BY NodeStepIsLinear
<1>2. [][LinearStep]_vars => LinearMeansExtension
  BY PTL DEF LinearStep, LinearMeansExtension
<1> QED BY <1>1, <1>2, NodeInvariant, PTL DEF Spec

\* Each write that failed keeps at most one accepted block off the disk, though
\* a failed write changes which row the next one writes (BlockStore::put).
THEOREM LossesAreCounted == Spec => [](phase = "running" => LossesCounted)
<1>1. NodeInv /\ phase = "running" => LossesCounted
  <2> SUFFICES ASSUME NodeInv, phase = "running" PROVE LossesCounted
    OBVIOUS
  <2> DEFINE L == db.blockStore \ sql
             M == Missing
             F == failed
             FS == failed \cap db.blockStore
  <2>1. IsFiniteSet(L) /\ IsFiniteSet(F)
    <3>1. IsFiniteSet(db.blockStore) /\ IsFiniteSet(F)
      BY DEF NodeInv, StoreInv, DiskInv
    <3> QED BY <3>1, FS_Difference
  <2>2. Cardinality(M) + Pending <= Cardinality(FS)
    BY DEF NodeInv, LossInv
  <2>3. FS \subseteq F /\ M = L \ {bound} /\ L \subseteq TxPoWs
    BY DEF Missing, NodeInv, StoreInv
  <2> HIDE DEF L, M, F, FS
  <2>4. Cardinality(FS) \in Nat /\ Cardinality(FS) <= Cardinality(F) /\ Cardinality(F) \in Nat
    <3>1. IsFiniteSet(FS) /\ Cardinality(FS) <= Cardinality(F)
      BY <2>1, <2>3, FS_Subset
    <3> QED BY <2>1, <3>1, FS_CardinalityType
  <2>5. /\ IsFiniteSet(M) /\ Cardinality(L) \in Nat
        /\ Cardinality(M) = IF bound \in L THEN Cardinality(L) - 1 ELSE Cardinality(L)
    BY <2>1, <2>3, FS_RemoveElement, FS_CardinalityType
  <2>6. bound \in L => Pending = 1
    BY <2>3 DEF Pending
  <2>7. Pending \in {0, 1}
    BY DEF Pending
  <2>8. Cardinality(L) <= Cardinality(F)
    BY <2>2, <2>4, <2>5, <2>6, <2>7
  <2> QED BY <2>8 DEF LossesCounted, L, F
<1> QED BY <1>1, NodeInvariant, PTL

-----------------------------------------------------------------------------
(* The chain on disk and in memory while no write has failed, for blocks   *)
(* whose numbers follow their parents'.                                    *)

OnChain(b) ==
  /\ 0 <= Number[b] /\ Number[b] < Cardinality(sql)
  /\ b # Genesis => Parent[b] \in sql /\ Number[b] = Number[Parent[b]] + 1

\* The disk holds a tree of blocks that starts at the genesis block.
DiskChain == (sql # {} => Genesis \in sql) /\ \A b \in sql : OnChain(b)

\* Memory holds what the disk holds, as far as it has been read back.
MemoryIsDisk ==
  /\ phase = "running" => sql # {} /\ sql = db.blockStore
  /\ phase = "replaying" =>
       /\ sql # {} /\ sql = toReplay \cup db.blockStore
       /\ db.txPowTree.nodes = db.blockStore
       /\ db.blockStore # {} => Genesis \in db.blockStore

\* Weights count the blocks of a chain, and no block is above the tip.
TreeCounts ==
  /\ \A n \in db.txPowTree.nodes : db.txPowTree.weight[n] = Number[n] + 1
  /\ \A b \in db.blockStore :
       db.txPowTree.root # NoBlock /\ Number[b] <= Number[db.txPowTree.tip]

ChainInv == failed = {} => DiskChain /\ MemoryIsDisk /\ TreeCounts

\* A block one number above its parent keeps weights and numbers in step.
LEMMA TreeCountsGrow ==
  ASSUME StoreInv, TreeCounts, NEW x \in TxPoWs \ db.blockStore, Grown(db, x, db'),
         Number[x] = IF db.txPowTree.root = NoBlock THEN 0 ELSE Number[Parent[x]] + 1
  PROVE  TreeCounts'
<1> DEFINE t == db.txPowTree
           u == db'.txPowTree
           S == db.blockStore
<1>1. /\ TreeGrown(t, x, u) /\ db'.blockStore = S \cup {x}
      /\ t.nodes \subseteq S /\ S \subseteq TxPoWs /\ u.nodes \subseteq TxPoWs
      /\ \A n \in t.nodes : t.weight[n] = Number[n] + 1
      /\ \A b \in S : t.root # NoBlock /\ Number[b] <= Number[t.tip]
  BY DEF Grown, StoreInv, TreeCounts, IsDB, IsATree, Tree!Trees
<1>2. SUFFICES /\ \A n \in u.nodes : u.weight[n] = Number[n] + 1
               /\ \A b \in S \cup {x} : u.root # NoBlock /\ Number[b] <= Number[u.tip]
  BY <1>1 DEF TreeCounts
<1>3. Number[x] = IF t.root = NoBlock THEN 0 ELSE Number[Parent[x]] + 1
  OBVIOUS
<1> HIDE DEF t, u, S
<1>4. /\ u.tip \in u.nodes /\ u.root # NoBlock /\ u.nodes \subseteq t.nodes \cup {x}
      /\ u.tip = x \/ u.tip = t.tip
      /\ \A n \in u.nodes \cap t.nodes : u.weight[n] = t.weight[n]
  BY <1>1 DEF TreeGrown
<1>5. \A b \in TxPoWs : Number[b] \in Int
  OBVIOUS
<1>6. CASE t.root = NoBlock
  <2>1. S = {} /\ t.nodes = {} /\ u.tip = x /\ u.weight[x] = 1
    BY <1>1, <1>6 DEF TreeGrown
  <2> QED BY <1>3, <1>4, <1>5, <1>6, <2>1
<1>7. CASE t.root # NoBlock
  <2>1. /\ Parent[x] \in t.nodes /\ t.tip \in t.nodes
        /\ x \in u.nodes => u.weight[x] = t.weight[Parent[x]] + 1
        /\ u.tip = x => t.weight[Parent[x]] + 1 > t.weight[t.tip]
        /\ t.weight[Parent[x]] + 1 <= u.weight[u.tip]
    BY <1>1, <1>7 DEF TreeGrown
  <2>2. t.weight[Parent[x]] = Number[x] /\ t.weight[t.tip] = Number[t.tip] + 1
    BY <1>1, <1>3, <1>5, <1>7, <2>1
  <2>3. \A n \in u.nodes : u.weight[n] = Number[n] + 1
    <3> SUFFICES ASSUME NEW n \in u.nodes PROVE u.weight[n] = Number[n] + 1
      OBVIOUS
    <3>1. CASE n = x
      BY <2>1, <2>2, <3>1
    <3>2. CASE n \in t.nodes
      BY <1>1, <1>4, <3>2
    <3> QED BY <1>4, <3>1, <3>2
  <2>4. Number[x] <= Number[u.tip]
    <3>1. u.weight[u.tip] = Number[u.tip] + 1 /\ Number[u.tip] \in Int
      BY <1>1, <1>4, <1>5, <2>3
    <3> QED BY <1>5, <2>1, <2>2, <3>1
  <2>5. Number[t.tip] <= Number[u.tip]
    <3>1. Number[t.tip] \in Int
      BY <1>1, <1>5, <2>1
    <3>2. CASE u.tip = x
      BY <1>5, <2>1, <2>2, <3>1, <3>2
    <3>3. CASE u.tip = t.tip
      BY <3>1, <3>3
    <3> QED BY <1>4, <3>2, <3>3
  <2>6. ASSUME NEW b \in S PROVE Number[b] <= Number[u.tip]
    <3>1. /\ Number[b] <= Number[t.tip] /\ Number[b] \in Int /\ Number[t.tip] \in Int
          /\ Number[u.tip] \in Int
      BY <1>1, <1>4, <1>5, <2>1
    <3> QED BY <2>5, <3>1
  <2> QED BY <1>4, <2>3, <2>4, <2>6
<1> QED BY <1>6, <1>7

LEMMA ChainInitial == Init => ChainInv
<1> SUFFICES ASSUME Init PROVE ChainInv
  OBVIOUS
<1>1. db.blockStore = {} /\ db.txPowTree.nodes = {}
  BY EmptyIsDB DEF Init
<1> QED BY <1>1 DEF Init, ChainInv, DiskChain, MemoryIsDisk, TreeCounts

LEMMA GenesisKeepsChain ==
  ASSUME NodeInv, ChainInv, CreateGenesis PROVE ChainInv'
<1> SUFFICES ASSUME failed' = {} PROVE (DiskChain /\ MemoryIsDisk /\ TreeCounts)'
  BY DEF ChainInv
<1>1. /\ Genesis \in TxPoWs \ db.blockStore /\ Grown(db, Genesis, db')
      /\ db.txPowTree.root = NoBlock /\ db.blockStore = {}
  BY GenesisGrows
<1>2. /\ sql = {} /\ phase' = "running" /\ failed' = failed /\ sql' = sql \cup {RowOf(Genesis)}
      /\ RowOf(Genesis) = Genesis
  BY DEF CreateGenesis, Put, RowOf, NodeInv, PhaseInv
<1>3. sql' = {Genesis} /\ db'.blockStore = {Genesis} /\ Cardinality({Genesis}) = 1
  BY <1>1, <1>2, FS_Singleton DEF Grown
<1>4. DiskChain'
  BY <1>3, GenesisAssumption DEF DiskChain, OnChain
<1>5. MemoryIsDisk'
  BY <1>2, <1>3 DEF MemoryIsDisk
<1>6. TreeCounts'
  <2>1. StoreInv /\ TreeCounts
    BY <1>2 DEF NodeInv, ChainInv
  <2> QED BY <1>1, <2>1, GenesisAssumption, TreeCountsGrow
<1> QED BY <1>4, <1>5, <1>6

LEMMA LoadKeepsChain == ASSUME NodeInv, ChainInv, LoadRows PROVE ChainInv'
<1> SUFFICES ASSUME failed' = {} PROVE (DiskChain /\ MemoryIsDisk /\ TreeCounts)'
  BY DEF ChainInv
<1>1. /\ UNCHANGED <<db, sql, failed>> /\ phase' = "replaying" /\ phase = "down" /\ sql # {}
      /\ toReplay' = {b \in sql : 0 <= Number[b] /\ Number[b] <= Cardinality(sql)}
  BY DEF LoadRows, disk
<1>2. DiskChain /\ TreeCounts
  BY <1>1 DEF ChainInv
<1>3. DiskChain' /\ TreeCounts'
  BY <1>1, <1>2 DEF DiskChain, OnChain, TreeCounts
<1>4. toReplay' = sql
  <2>1. Cardinality(sql) \in Nat
    BY FS_CardinalityType DEF NodeInv, DiskInv
  <2>2. ASSUME NEW b \in sql PROVE 0 <= Number[b] /\ Number[b] <= Cardinality(sql)
    <3>1. b \in TxPoWs
      BY DEF NodeInv, DiskInv
    <3> QED BY <1>2, <2>1, <3>1 DEF DiskChain, OnChain
  <2> QED BY <1>1, <2>2
<1>5. db.blockStore = {} /\ db.txPowTree.nodes = {}
  BY <1>1, EmptyIsDB DEF NodeInv, PhaseInv
<1>6. MemoryIsDisk'
  BY <1>1, <1>4, <1>5 DEF MemoryIsDisk
<1> QED BY <1>3, <1>6

\* Rows come back in the order of their numbers, so that a block's parent is in
\* the tree before it, and only the genesis block can become the root.
LEMMA ReplayKeepsChain ==
  ASSUME NodeInv, ChainInv, NEW b \in TxPoWs, ReplayRow(b) PROVE ChainInv'
<1> SUFFICES ASSUME failed' = {} PROVE (DiskChain /\ MemoryIsDisk /\ TreeCounts)'
  BY DEF ChainInv
<1> DEFINE t == db.txPowTree
           S == db.blockStore
<1>1. /\ UNCHANGED <<sql, failed, phase>> /\ phase = "replaying"
      /\ b \in toReplay /\ (\A c \in toReplay : Number[b] <= Number[c])
      /\ db' = AddBlock(db, b) /\ toReplay' = toReplay \ {b}
  BY DEF ReplayRow, disk
<1>2. DiskChain /\ TreeCounts /\ MemoryIsDisk
  BY <1>1 DEF ChainInv
<1>3. /\ sql # {} /\ sql = toReplay \cup S /\ t.nodes = S
      /\ S # {} => Genesis \in S
  BY <1>1, <1>2 DEF MemoryIsDisk
<1>4. /\ StoreInv /\ b \in TxPoWs \ S /\ b \in sql /\ sql \subseteq TxPoWs
      /\ toReplay \cap S = {}
  BY <1>1, <1>3 DEF NodeInv, PhaseInv, DiskInv
<1>5. \A c \in TxPoWs : Number[c] \in Int
  OBVIOUS
<1>6. b # Genesis => Parent[b] \in S /\ Number[b] = Number[Parent[b]] + 1
  <2> SUFFICES ASSUME b # Genesis PROVE Parent[b] \in S /\ Number[b] = Number[Parent[b]] + 1
    OBVIOUS
  <2>1. Parent[b] \in sql /\ Number[b] = Number[Parent[b]] + 1
    BY <1>2, <1>4 DEF DiskChain, OnChain
  <2>2. ~ (Number[b] <= Number[Parent[b]])
    BY <1>4, <1>5, <2>1
  <2> QED BY <1>1, <1>3, <2>1, <2>2
<1>7. t.root = NoBlock <=> S = {}
  <2>1. IsATree(t)
    BY <1>4 DEF StoreInv, IsDB
  <2>2. t.root # NoBlock => t.root \in t.nodes
    BY <2>1 DEF IsATree, Tree!IsTree, Tree!Anchored, Tree!Trees
  <2>3. S # {} => t.root # NoBlock
    BY <1>2 DEF TreeCounts
  <2> HIDE DEF t, S
  <2> QED BY <1>3, <2>2, <2>3
<1>8. b = Genesis <=> S = {}
  <2>1. S = {} => b = Genesis
    BY <1>6
  <2>2. S # {} => b # Genesis
    BY <1>3, <1>4
  <2> QED BY <2>1, <2>2
<1>9. Number[b] = IF t.root = NoBlock THEN 0 ELSE Number[Parent[b]] + 1
  BY <1>6, <1>7, <1>8, GenesisAssumption
<1>10. AddBlockReturns(db, b)
  BY <1>3, <1>6, <1>7, <1>8 DEF AddBlockReturns, Tree!AddReturns, Tree!IsOrphan
<1>11. IsDB(db) /\ b \notin db.txPowTree.nodes
  BY <1>3, <1>4 DEF StoreInv
<1>12. Grown(db, b, db') /\ BlockAdded(db, b, db')
  BY <1>1, <1>4, <1>10, <1>11, AddBlockGrows, AddBlockFields
<1>13. TreeCounts'
  BY <1>2, <1>4, <1>9, <1>12, TreeCountsGrow
<1>14. DiskChain'
  BY <1>1, <1>2 DEF DiskChain, OnChain
<1>15. db'.blockStore = S \cup {b} /\ db'.txPowTree.nodes = S \cup {b}
  <2>1. /\ db'.blockStore = S \cup {b} /\ db'.txPowTree = Tree!AddTxPoW(t, b)
        /\ IsATree(t) /\ Tree!AddReturns(t, b) /\ b \notin t.nodes
    BY <1>3, <1>4, <1>12 DEF BlockAdded, StoreInv, IsDB
  <2> DEFINE u == db'.txPowTree
  <2> HIDE DEF u, t
  <2>2. TreeAdded(t, b, u)
    BY <1>4, <2>1, AddToTree DEF u
  <2> QED BY <1>3, <2>1, <2>2 DEF TreeAdded, u
<1>16. MemoryIsDisk'
  <2>1. sql' = toReplay' \cup (S \cup {b})
    BY <1>1, <1>3
  <2>2. Genesis \in S \cup {b}
    BY <1>3, <1>8
  <2> QED BY <1>1, <1>3, <1>15, <2>1, <2>2 DEF MemoryIsDisk
<1> QED BY <1>13, <1>14, <1>16

\* A new block's parent is in the tree, so in memory, so on disk.
LEMMA ProcessKeepsChain ==
  ASSUME NodeInv, ChainInv, NumbersFollow, phase = "running", phase' = phase,
         NEW x \in TxPoWs, BlockProcess(x)
  PROVE  ChainInv'
<1> SUFFICES ASSUME failed' = {} PROVE (DiskChain /\ MemoryIsDisk /\ TreeCounts)'
  BY DEF ChainInv
<1> DEFINE t == db.txPowTree
           S == db.blockStore
<1>1. /\ Put(x) /\ failed = {}
  BY DEF BlockProcess, Put, PutThrows
<1>2. StoreInv /\ bound = NoBlock /\ IsFiniteSet(sql)
  BY <1>1 DEF NodeInv, DiskInv
<1>3. sql' = sql \cup {x}
  BY <1>1, <1>2 DEF Put, RowOf
<1>4. DiskChain /\ TreeCounts /\ sql # {} /\ sql = S
  BY <1>1 DEF ChainInv, MemoryIsDisk
<1>5. x \in TxPoWs \ S /\ IsBlock(x) /\ Grown(db, x, db')
  BY <1>2, BlockProcessGrows
<1>6. t.root # NoBlock
  BY <1>4 DEF TreeCounts
<1>7. Parent[x] \in S
  BY <1>2, <1>5, <1>6 DEF StoreInv, Grown, TreeGrown
<1>8. Parent[x] \in sql /\ Parent[x] \in TxPoWs /\ Number[x] = Number[Parent[x]] + 1
  <2>1. Parent[x] \in TxPoWs
    BY <1>2, <1>7 DEF StoreInv
  <2> QED BY <1>4, <1>5, <1>7, <2>1 DEF NumbersFollow
<1>9. TreeCounts'
  BY <1>2, <1>4, <1>5, <1>6, <1>8, TreeCountsGrow
<1>10. Cardinality(sql') = Cardinality(sql) + 1 /\ Cardinality(sql) \in Nat
  BY <1>2, <1>3, <1>4, <1>5, FS_AddElement, FS_CardinalityType
<1>11. \A c \in TxPoWs : Number[c] \in Int
  OBVIOUS
<1>12. ASSUME NEW c \in sql \cup {x} PROVE OnChain(c)'
  <2>1. CASE c \in sql
    <3>1. c \in TxPoWs /\ OnChain(c)
      BY <1>2, <1>4, <2>1 DEF StoreInv, DiskChain
    <3> QED BY <1>3, <1>10, <1>11, <3>1 DEF OnChain
  <2>2. CASE c = x
    <3>1. 0 <= Number[Parent[x]] /\ Number[Parent[x]] < Cardinality(sql)
      BY <1>4, <1>8 DEF DiskChain, OnChain
    <3> QED BY <1>3, <1>8, <1>10, <1>11, <2>2, <3>1 DEF OnChain
  <2> QED BY <2>1, <2>2
<1>13. DiskChain'
  BY <1>3, <1>4, <1>12 DEF DiskChain
<1>14. MemoryIsDisk'
  BY <1>3, <1>4, <1>5 DEF MemoryIsDisk, Grown
<1> QED BY <1>9, <1>13, <1>14

LEMMA ChainStep ==
  ASSUME NumbersFollow, NodeInv, ChainInv, [Next]_vars PROVE ChainInv'
<1>1. CASE UNCHANGED <<db, sql, failed, phase, toReplay>>
  BY <1>1 DEF ChainInv, DiskChain, OnChain, MemoryIsDisk, TreeCounts
<1>2. CASE UNCHANGED vars \/ \E batch \in Batches : Receive(batch)
  BY <1>1, <1>2 DEF vars, disk, Receive, Submit
<1>3. CASE ReplayDone
  <2>1. /\ UNCHANGED <<db, sql, failed>> /\ phase = "replaying" /\ phase' = "running"
        /\ toReplay = {}
    BY <1>3 DEF ReplayDone, disk
  <2> QED BY <2>1 DEF ChainInv, DiskChain, OnChain, MemoryIsDisk, TreeCounts
<1>4. CASE Crash
  <2>1. /\ db' = EmptyDB /\ phase' = "down" /\ sql' = sql /\ failed' = failed
    BY <1>4 DEF Crash
  <2>2. db'.blockStore = {} /\ db'.txPowTree.nodes = {}
    BY <2>1, EmptyIsDB
  <2> QED BY <2>1, <2>2 DEF ChainInv, DiskChain, OnChain, MemoryIsDisk, TreeCounts
<1>5. CASE Process
  <2>1. /\ phase = "running" /\ queue # <<>> /\ UNCHANGED <<phase, toReplay>>
        /\ QuietProcess(Current) \/ BlockProcess(Current)
    BY <1>5, ProcessSplit
  <2>2. CASE BlockProcess(Current)
    <3>1. Current \in TxPoWs
      BY <2>1, QueueMoves DEF NodeInv
    <3> QED BY <2>1, <2>2, <3>1, ProcessKeepsChain
  <2>3. CASE QuietProcess(Current)
    <3>1. Quiet /\ UNCHANGED disk
      BY <2>3, QuietProcessIsQuiet DEF NodeInv, StoreInv
    <3> QED BY <2>1, <3>1
         DEF Quiet, disk, ChainInv, DiskChain, OnChain, MemoryIsDisk, TreeCounts
  <2> QED BY <2>1, <2>2, <2>3
<1> QED BY <1>2, <1>3, <1>4, <1>5, GenesisKeepsChain, LoadKeepsChain, ReplayKeepsChain
        DEF Next, Boot

\* While no write has failed the chain on disk starts at the genesis block, is
\* the one in memory, and the tip is its highest block.
THEOREM ChainInvariant == ASSUME NumbersFollow PROVE Spec => []ChainInv
<1>1. NodeInv /\ ChainInv /\ [Next]_vars => ChainInv'
  BY ChainStep
<1> QED BY <1>1, ChainInitial, NodeInvariant, PTL DEF Spec

\* While the node runs, memory and disk hold the same blocks as long as no write
\* fails, and differ by at most one block for each write that does.
THEOREM DiskAndMemoryAgree == ASSUME NumbersFollow PROVE Spec => []DiskMatchesMemory
<1>1. ChainInv /\ (phase = "running" => LossesCounted) => DiskMatchesMemory
  BY DEF ChainInv, MemoryIsDisk, DiskMatchesMemory, SameBlocks
<1> QED BY <1>1, ChainInvariant, LossesAreCounted, PTL

-----------------------------------------------------------------------------
(* Generations.                                                            *)

\* The way from b to a block without a parent, n blocks long.
WayUp(q, b, n) ==
  /\ q \in [1 .. n -> TxPoWs] /\ q[1] = b /\ Parent[q[n]] = NoBlock
  /\ \A i \in 1 .. n - 1 : Parent[q[i]] = q[i + 1]
Ways(b) == {n \in Nat \ {0} : \E q : WayUp(q, b, n)}

\* A block without a parent is a way of one block; any other block is one
\* block further than its parent.
LEMMA WaysOfRoot ==
  ASSUME NEW b \in TxPoWs, Parent[b] = NoBlock PROVE Ways(b) = {1}
<1>1. 1 \in Ways(b)
  <2> DEFINE q == [i \in 1 .. 1 |-> b]
  <2>1. WayUp(q, b, 1)
    BY DEF WayUp
  <2> QED BY <2>1 DEF Ways
<1>2. ASSUME NEW n \in Ways(b) PROVE n = 1
  <2>1. PICK q : WayUp(q, b, n)
    BY <1>2 DEF Ways
  <2>2. n \in Nat /\ n >= 1
    BY <1>2 DEF Ways
  <2> SUFFICES ASSUME n # 1 PROVE FALSE
    OBVIOUS
  <2>3. 1 \in 1 .. n - 1 /\ 1 + 1 \in 1 .. n
    BY <2>2
  <2>4. Parent[q[1]] = q[1 + 1] /\ q[1] = b /\ q[1 + 1] \in TxPoWs
    BY <2>1, <2>3 DEF WayUp
  <2> QED BY <2>4
<1> QED BY <1>1, <1>2

LEMMA WaysOfChild ==
  ASSUME NEW b \in TxPoWs, Parent[b] # NoBlock
  PROVE  Ways(b) = {n + 1 : n \in Ways(Parent[b])}
<1> DEFINE p == Parent[b]
<1>0. p \in TxPoWs
  OBVIOUS
<1>1. ASSUME NEW n \in Ways(p) PROVE n + 1 \in Ways(b)
  <2>1. PICK q : WayUp(q, p, n)
    BY <1>1 DEF Ways
  <2>2. n \in Nat /\ n >= 1
    BY <1>1 DEF Ways
  <2> DEFINE r == [i \in 1 .. n + 1 |-> IF i = 1 THEN b ELSE q[i - 1]]
  <2>3. \A i \in 1 .. n + 1 : i # 1 => i - 1 \in 1 .. n /\ r[i] = q[i - 1]
    BY <2>2
  <2>4. r[1] = b /\ r[n + 1] = q[n]
    BY <2>2
  <2>5. r \in [1 .. n + 1 -> TxPoWs]
    BY <2>1, <2>3 DEF WayUp
  <2>6. ASSUME NEW i \in 1 .. n PROVE Parent[r[i]] = r[i + 1]
    <3>1. r[i + 1] = q[i]
      BY <2>2
    <3>2. CASE i = 1
      BY <2>1, <2>4, <3>1, <3>2 DEF WayUp
    <3>3. CASE i # 1
      <4>1. i - 1 \in 1 .. n - 1 /\ (i - 1) + 1 = i /\ r[i] = q[i - 1]
        BY <2>2, <3>3
      <4>2. Parent[q[i - 1]] = q[(i - 1) + 1]
        BY <2>1, <4>1 DEF WayUp
      <4> QED BY <3>1, <4>1, <4>2
    <3> QED BY <3>2, <3>3
  <2> HIDE DEF r
  <2>7. WayUp(r, b, n + 1)
    <3>1. (n + 1) - 1 = n /\ Parent[q[n]] = NoBlock
      BY <2>1, <2>2 DEF WayUp
    <3> QED BY <2>4, <2>5, <2>6, <3>1 DEF WayUp
  <2> QED BY <2>2, <2>7 DEF Ways
<1>2. ASSUME NEW m \in Ways(b) PROVE \E n \in Ways(p) : m = n + 1
  <2>1. PICK q : WayUp(q, b, m)
    BY <1>2 DEF Ways
  <2>2. m \in Nat /\ m >= 1
    BY <1>2 DEF Ways
  <2>3. m # 1
    BY <2>1 DEF WayUp
  <2> DEFINE n == m - 1
             r == [i \in 1 .. n |-> q[i + 1]]
  <2>4. n \in Nat /\ n >= 1 /\ m = n + 1
    BY <2>2, <2>3
  <2> HIDE DEF n
  <2>5. \A i \in 1 .. n : i + 1 \in 1 .. m /\ r[i] = q[i + 1]
    BY <2>4
  <2>6. r \in [1 .. n -> TxPoWs] /\ Parent[r[n]] = NoBlock
    BY <2>1, <2>4, <2>5 DEF WayUp
  <2>7. r[1] = p
    <3>1. 1 \in 1 .. m - 1 /\ r[1] = q[1 + 1]
      BY <2>4, <2>5
    <3> QED BY <2>1, <3>1 DEF WayUp
  <2>8. ASSUME NEW i \in 1 .. n - 1 PROVE Parent[r[i]] = r[i + 1]
    <3>1. i \in 1 .. n /\ i + 1 \in 1 .. n /\ i + 1 \in 1 .. m - 1
      BY <2>4
    <3>2. Parent[q[i + 1]] = q[(i + 1) + 1]
      BY <2>1, <3>1 DEF WayUp
    <3> QED BY <2>5, <3>1, <3>2
  <2> HIDE DEF r
  <2>9. WayUp(r, p, n)
    BY <2>6, <2>7, <2>8 DEF WayUp
  <2> QED BY <2>4, <2>9 DEF Ways
<1> HIDE DEF p
<1>3. Ways(b) = {n + 1 : n \in Ways(p)}
  BY <1>1, <1>2
<1> QED BY <1>3 DEF p

\* Ids are hashes, so every block has exactly one way up.
LEMMA OneWay == ASSUME NEW b \in TxPoWs PROVE \E n \in Nat : Ways(b) = {n}
<1> DEFINE Bad == {c \in TxPoWs : ~ \E n \in Nat : Ways(c) = {n}}
<1> SUFFICES ASSUME Bad # {} PROVE FALSE
  OBVIOUS
<1>1. PICK c \in Bad : Parent[c] \notin Bad
  <2>1. Bad \in SUBSET TxPoWs
    OBVIOUS
  <2> HIDE DEF Bad
  <2> QED BY <2>1
<1>2. CASE Parent[c] = NoBlock
  BY <1>2, WaysOfRoot
<1>3. CASE Parent[c] # NoBlock
  <2>1. c \in TxPoWs /\ Parent[c] \in TxPoWs
    BY <1>3
  <2>2. PICK n \in Nat : Ways(Parent[c]) = {n}
    BY <1>1, <2>1
  <2>3. Ways(c) = {k + 1 : k \in Ways(Parent[c])}
    BY <1>3, <2>1, WaysOfChild
  <2>4. Ways(c) = {n + 1}
    BY <2>2, <2>3
  <2> QED BY <2>4
<1> QED BY <1>2, <1>3

\* The recursive function Generation exists.
LEMMA GenerationIs ==
  Generation = [b \in TxPoWs |->
                  IF Parent[b] = NoBlock THEN 1 ELSE Generation[Parent[b]] + 1]
<1> DEFINE way(b) == CHOOSE n \in Nat : Ways(b) = {n}
           g == [b \in TxPoWs |-> way(b)]
<1>1. ASSUME NEW b \in TxPoWs PROVE way(b) \in Nat /\ Ways(b) = {way(b)}
  BY OneWay
<1> HIDE DEF way
<1>2. ASSUME NEW b \in TxPoWs
      PROVE  g[b] = IF Parent[b] = NoBlock THEN 1 ELSE g[Parent[b]] + 1
  <2>1. g[b] = way(b)
    OBVIOUS
  <2>2. CASE Parent[b] = NoBlock
    <3>1. Ways(b) = {1} /\ Ways(b) = {way(b)}
      BY <1>1, <2>2, WaysOfRoot, Zenon
    <3> QED BY <2>1, <2>2, <3>1
  <2>3. CASE Parent[b] # NoBlock
    <3> DEFINE p == Parent[b]
    <3>1. p \in TxPoWs /\ g[p] = way(p)
      BY <2>3
    <3>2. Ways(b) = {n + 1 : n \in Ways(p)}
      BY <2>3, WaysOfChild
    <3> HIDE DEF p
    <3>3. {way(b)} = {way(p) + 1}
      <4>1. Ways(p) = {way(p)} /\ Ways(b) = {way(b)}
        BY <1>1, <3>1
      <4>2. {n + 1 : n \in {way(p)}} = {way(p) + 1}
        OBVIOUS
      <4> QED BY <3>2, <4>1, <4>2, Zenon
    <3>4. g[b] = g[p] + 1
      BY <2>1, <3>1, <3>3
    <3> QED BY <2>3, <3>4 DEF p
  <2> QED BY <2>2, <2>3
<1>3. g = [b \in TxPoWs |-> IF Parent[b] = NoBlock THEN 1 ELSE g[Parent[b]] + 1]
  BY <1>2
<1> HIDE DEF g
<1> QED BY <1>3, ZenonT(60) DEF Generation

\* On a chain from the genesis block a block's generation is one more than its
\* number.
LEMMA GenerationOnDisk ==
  ASSUME DiskChain, sql \subseteq TxPoWs, NEW b \in sql
  PROVE  Generation[b] = Number[b] + 1
<1> DEFINE Bad == {c \in sql : Generation[c] # Number[c] + 1}
<1> SUFFICES ASSUME Bad # {} PROVE FALSE
  OBVIOUS
<1>1. PICK c \in Bad : Parent[c] \notin Bad
  <2>1. Bad \in SUBSET TxPoWs
    OBVIOUS
  <2> HIDE DEF Bad
  <2> QED BY <2>1
<1>2. /\ c \in sql /\ c \in TxPoWs /\ Generation[c] # Number[c] + 1
      /\ Parent[c] \in sql => Generation[Parent[c]] = Number[Parent[c]] + 1
  BY <1>1
<1>3. Generation[c] = IF Parent[c] = NoBlock THEN 1 ELSE Generation[Parent[c]] + 1
  BY <1>2, GenerationIs
<1> HIDE DEF Bad
<1>4. CASE c = Genesis
  BY <1>2, <1>3, <1>4, GenesisAssumption
<1>5. CASE c # Genesis
  <2>1. Parent[c] \in sql /\ Number[c] = Number[Parent[c]] + 1
    BY <1>2, <1>5 DEF DiskChain, OnChain
  <2>2. Parent[c] # NoBlock
    BY <2>1
  <2> QED BY <1>2, <1>3, <2>1, <2>2
<1> QED BY <1>4, <1>5

\* Unless a write failed, the tip is on a chain as long as any chain on disk,
\* across restarts, replays and trims.
THEOREM LongestChainIsKept == ASSUME NumbersFollow PROVE Spec => []LongestChainSurvives
<1>1. NodeInv /\ ChainInv => LongestChainSurvives
  <2> SUFFICES ASSUME NodeInv, ChainInv, phase = "running", failed = {}, NEW b \in sql
               PROVE  Generation[b] <= Generation[db.txPowTree.tip]
    BY DEF LongestChainSurvives
  <2> DEFINE t == db.txPowTree
  <2>1. DiskChain /\ TreeCounts /\ sql = db.blockStore /\ sql \subseteq TxPoWs
    BY DEF ChainInv, MemoryIsDisk, NodeInv, DiskInv
  <2>2. t.root # NoBlock /\ Number[b] <= Number[t.tip]
    BY <2>1 DEF TreeCounts
  <2>3. t.tip \in sql
    BY <2>1, <2>2 DEF NodeInv, StoreInv, IsDB, IsATree, Tree!IsTree, Tree!Anchored, Tree!Trees
  <2> HIDE DEF t
  <2>4. Generation[b] = Number[b] + 1 /\ Generation[t.tip] = Number[t.tip] + 1
    BY <2>1, <2>3, GenerationOnDisk
  <2>5. Number[b] \in Int /\ Number[t.tip] \in Int
    BY <2>1, <2>3
  <2>6. Generation[b] <= Generation[t.tip]
    BY <2>2, <2>4, <2>5
  <2> QED BY <2>6 DEF t
<1> QED BY <1>1, NodeInvariant, ChainInvariant, PTL
=============================================================================
