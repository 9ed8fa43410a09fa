----------------------------- MODULE TxPowTree -----------------------------
(***************************************************************************)
(* The block tree of chain/TxPowTree.hpp and chain/TxPoWTreeNode.hpp.      *)
(*                                                                         *)
(* The tree is one record, so that a caller which runs several operations  *)
(* inside one handler (TxPoWProcessor::processBlock adds a block and then  *)
(* trims) can compose them: every operation is an operator from a tree to  *)
(* a tree.  A node is named by the id of its block; its fields m_parent,   *)
(* m_chainWeight and m_depth are functions, reset where the node is        *)
(* deleted.  m_children is the inverse of parent and is not kept twice.    *)
(***************************************************************************)
EXTENDS Integers, FiniteSets, Sequences

CONSTANTS
  Blocks,      \* the TxPoW ids a node may ever see
  NoBlock,     \* nullptr, and the all-zero id, which no block has
  Parent,      \* Parent[b] = superParents[0] of the header of b
  KeepDepths   \* the keepDepth arguments trimTree is called with

ASSUME NoBlockAssumption == NoBlock \notin Blocks
ASSUME ParentAssumption == Parent \in [Blocks -> Blocks \cup {NoBlock}]
\* An id is the hash of a header that contains the parent's id, so the parent
\* relation is well founded.
ASSUME HashAssumption ==
  \A S \in SUBSET Blocks : S # {} => \E b \in S : Parent[b] \notin S
ASSUME KeepDepthsAssumption == KeepDepths \subseteq Nat

VARIABLES
  tree,        \* the TxPowTree object
  trimmed      \* history: the blocks trimTree has deleted since the last clear

treeVars == <<tree, trimmed>>

Trees == [nodes  : SUBSET Blocks,
          root   : Blocks \cup {NoBlock},
          tip    : Blocks \cup {NoBlock},
          parent : [Blocks -> Blocks \cup {NoBlock}],
          weight : [Blocks -> Nat],
          depth  : [Blocks -> Nat]]

EmptyTree == [nodes  |-> {},
              root   |-> NoBlock,
              tip    |-> NoBlock,
              parent |-> [b \in Blocks |-> NoBlock],
              weight |-> [b \in Blocks |-> 0],
              depth  |-> [b \in Blocks |-> 0]]
-----------------------------------------------------------------------------
(* Adding a block.                                                         *)

Known(t, b) == b \in t.nodes

\* The parent is looked up only once the tree has a root.
IsOrphan(t, b) == ~ Known(t, b) /\ t.root # NoBlock /\ Parent[b] \notin t.nodes

\* The first block becomes root and tip, whatever its parent is.
PlantRoot(t, b) ==
  [t EXCEPT !.nodes = {b}, !.root = b, !.tip = b,
            !.parent[b] = NoBlock, !.weight[b] = 1, !.depth[b] = 0]

\* Mutants: the tip never moves; it also moves to a node of equal weight.
HeavierTipNever(t, b, w) == t.tip
HeavierTipOrEqual(t, b, w) == IF w >= t.weight[t.tip] THEN b ELSE t.tip

\* updateTip: the tip moves only to a strictly heavier node.
HeavierTip(t, b, w) == IF w > t.weight[t.tip] THEN b ELSE t.tip

Attach(t, b) ==
  LET p == Parent[b]
      w == t.weight[p] + 1
  IN  [t EXCEPT !.nodes     = @ \cup {b},
                !.parent[b] = p,
                !.depth[b]  = t.depth[p] + 1,
                !.weight[b] = w,
                !.tip       = HeavierTip(t, b, w)]

\* The tree after addTxPoW(b), and the value the call returns.
AddTxPoW(t, b) ==
  IF Known(t, b) \/ IsOrphan(t, b) THEN t
  ELSE IF t.root = NoBlock THEN PlantRoot(t, b)
  ELSE Attach(t, b)

AddReturns(t, b) == ~ IsOrphan(t, b)
-----------------------------------------------------------------------------
(* Trimming.                                                               *)

\* A step of the loop that looks for the new root: it stays at a node
\* without a parent.
Above(t, n) == IF t.parent[n] = NoBlock THEN n ELSE t.parent[n]

\* r is the node the loop reaches from the tip in k steps.
StepsUp(t, k, r) ==
  \E walk \in [0 .. k -> t.nodes] :
    /\ walk[0] = t.tip
    /\ \A i \in 1 .. k : walk[i] = Above(t, walk[i - 1])
    /\ walk[k] = r

\* Mutant: the loop stops one step short.
NewRootShort(t, k) == CHOOSE r \in t.nodes : StepsUp(t, k - 1, r)

NewRoot(t, k) == CHOOSE r \in t.nodes : StepsUp(t, k, r)

\* What the breadth-first search from r visits: the least set that contains r
\* and, with a node, its children.
ClosedUnderChildren(t, S) == \A m \in t.nodes : t.parent[m] \in S => m \in S

\* Mutant: forks nobody has built on are deleted with the rest.
SubtreeWithoutLeaves(t, r) ==
  {n \in t.nodes :
     /\ n = t.tip \/ \E m \in t.nodes : t.parent[m] = n
     /\ \A S \in SUBSET t.nodes : r \in S /\ ClosedUnderChildren(t, S) => n \in S}

Subtree(t, r) ==
  {n \in t.nodes :
     \A S \in SUBSET t.nodes : r \in S /\ ClosedUnderChildren(t, S) => n \in S}

\* Mutant: the new root keeps its parent pointer.
CutAtDangling(t, r) ==
  LET keep == Subtree(t, r) IN
    [t EXCEPT !.nodes  = keep, !.root = r,
              !.parent = [b \in Blocks |-> IF b \in keep THEN @[b] ELSE NoBlock],
              !.weight = [b \in Blocks |-> IF b \in keep THEN @[b] ELSE 0],
              !.depth  = [b \in Blocks |-> IF b \in keep THEN @[b] - t.depth[r] ELSE 0]]

\* Nodes outside the subtree of r are deleted, r is detached, and depths are
\* numbered again from r, which keeps their differences.
CutAt(t, r) ==
  LET keep == Subtree(t, r) IN
    [nodes  |-> keep,
     root   |-> r,
     tip    |-> t.tip,
     parent |-> [b \in Blocks |-> IF b \in keep \ {r} THEN t.parent[b] ELSE NoBlock],
     weight |-> [b \in Blocks |-> IF b \in keep THEN t.weight[b] ELSE 0],
     depth  |-> [b \in Blocks |-> IF b \in keep THEN t.depth[b] - t.depth[r] ELSE 0]]

TrimTree(t, k) ==
  IF t.tip = NoBlock \/ NewRoot(t, k) = t.root THEN t ELSE CutAt(t, NewRoot(t, k))
-----------------------------------------------------------------------------
(* canonicalChain(): from the root to the tip.                             *)

CanonicalChain(t) ==
  LET path[n \in t.nodes] ==
        IF t.parent[n] = NoBlock THEN <<n>> ELSE Append(path[t.parent[n]], n)
  IN  IF t.tip = NoBlock THEN <<>> ELSE path[t.tip]
-----------------------------------------------------------------------------
TreeInit == tree = EmptyTree /\ trimmed = {}

AddBlock(b) ==
  /\ tree' = AddTxPoW(tree, b)
  /\ UNCHANGED trimmed

Trim(k) ==
  /\ tree' = TrimTree(tree, k)
  /\ trimmed' = trimmed \cup (tree.nodes \ tree'.nodes)

Clear ==
  /\ tree' = EmptyTree
  /\ trimmed' = {}

TreeNext ==
  \/ \E b \in Blocks : AddBlock(b)
  \/ \E k \in KeepDepths : Trim(k)
  \/ Clear

TreeSpec == TreeInit /\ [][TreeNext]_treeVars
-----------------------------------------------------------------------------
(* Properties.                                                             *)

\* Every field of the tree and the history have their types.
TreeTypeOK == tree \in Trees /\ trimmed \in SUBSET Blocks

\* What IsTree says of a tree value: root and tip are nodes; the root has no
\* parent; every other node hangs, one unit heavier and one level deeper,
\* under the block its header names; no node outweighs the tip.  In the C++ an
\* m_parent outside m_nodes is a dangling pointer.
Anchored(t) ==
  IF t.nodes = {} THEN t.root = NoBlock /\ t.tip = NoBlock
                  ELSE t.root \in t.nodes /\ t.tip \in t.nodes
RootDetached(t) ==
  t.root # NoBlock => t.parent[t.root] = NoBlock /\ t.depth[t.root] = 0
Linked(t) ==
  \A n \in t.nodes \ {t.root} :
    /\ t.parent[n] = Parent[n]
    /\ Parent[n] \in t.nodes
    /\ t.weight[n] = t.weight[Parent[n]] + 1
    /\ t.depth[n] = t.depth[Parent[n]] + 1
Heaviest(t) == \A n \in t.nodes : t.weight[n] <= t.weight[t.tip]
IsTree(t) == Anchored(t) /\ RootDetached(t) /\ Linked(t) /\ Heaviest(t)

\* The tree stays connected through its parent pointers after any series of
\* additions, trims and clears: no pointer ever leads to a deleted node.
TreeConnected == Anchored(tree) /\ RootDetached(tree) /\ Linked(tree)

\* The tip is a heaviest node, also after trimTree has removed branches.
TipHeaviest == Heaviest(tree)

\* A block trimTree has deleted can never be added again: its parent is gone
\* for good too.  Otherwise a late message could bring back a dead branch.
TrimmedForGood == trimmed \cap tree.nodes = {}

\* Until it is cleared the tree leaves its tip only for a strictly heavier
\* node: with equal weights the branch seen first stays (updateTip), and
\* trimming never moves the tip.
TipOnlyGainsWeight ==
  [][tree.tip \in Blocks /\ tree'.tip \notin {NoBlock, tree.tip}
       => tree'.weight[tree'.tip] > tree.weight[tree.tip]]_treeVars

\* A trim that deletes anything leaves exactly keepDepth blocks below the tip
\* on the canonical chain, and keeps every block of that window.
CutsAtWindow(chain) ==
  \E k \in KeepDepths :
    k < Len(chain) /\ CanonicalChain(tree') = SubSeq(chain, Len(chain) - k, Len(chain))
TrimKeepsWindow ==
  [][tree'.tip # NoBlock /\ ~ (tree.nodes \subseteq tree'.nodes)
       => CutsAtWindow(CanonicalChain(tree))]_treeVars
=============================================================================
