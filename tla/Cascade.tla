------------------------------ MODULE Cascade ------------------------------
(***************************************************************************)
(* The cascade of chain/cascade/Cascade.hpp: the list, from the tip to the *)
(* root, of the blocks that still carry weight once old ones are dropped.  *)
(* A block at cascade level l stands for 2^l blocks and must be of super   *)
(* level l at least.  Weights are integers: the code adds doubles, all of  *)
(* them powers of two.                                                     *)
(***************************************************************************)
EXTENDS Integers, Sequences

CONSTANTS
  Blocks,            \* blocks, told apart by what the cascade looks at
  SuperLevel,        \* SuperLevel[b] = getSuperLevel() of b
  DifficultyWeight,  \* difficultyToWeight of the blockDifficulty of b
  LevelsMax,         \* CASCADE_LEVELS_MAX
  LevelNodes,        \* CASCADE_LEVEL_NODES
  MaxLength          \* bound on the number of blocks added

ASSUME SuperLevelAssumption == SuperLevel \in [Blocks -> Nat]
ASSUME DifficultyWeightAssumption == DifficultyWeight \in [Blocks -> Nat \ {0}]
ASSUME LevelsAssumption == LevelsMax \in Nat \ {0} /\ LevelNodes \in Nat \ {0}

VARIABLES
  cascade,     \* m_nodes, the tip first
  chain        \* history: every block added, the newest first

cascadeVars == <<cascade, chain>>

\* addToTip: the new node is at level 0, the others keep theirs.
AddToTip(ns, b) == <<[block |-> b, level |-> 0]>> \o ns

\* The level of the walk moves up once LevelNodes nodes were kept at it; the
\* count starts at one for the tip and at zero on every later level.
KeepNode(walk, n) ==
  LET tot  == walk.tot + 1
      full == tot >= LevelNodes /\ walk.level < LevelsMax - 1
  IN  [kept  |-> Append(walk.kept, [n EXCEPT !.level = walk.level]),
       level |-> IF full THEN walk.level + 1 ELSE walk.level,
       tot   |-> IF full THEN 0 ELSE tot]

\* Mutants: only a node of the very level is kept; dropped nodes move the walk
\* up too.
VisitNodeExact(walk, n) ==
  IF SuperLevel[n.block] = walk.level THEN KeepNode(walk, n) ELSE walk
VisitNodeByDistance(walk, n) ==
  IF SuperLevel[n.block] >= walk.level THEN KeepNode(walk, n)
  ELSE [KeepNode(walk, n) EXCEPT !.kept = walk.kept]

\* A node below the level of the walk is dropped.
VisitNode(walk, n) ==
  IF SuperLevel[n.block] >= walk.level THEN KeepNode(walk, n) ELSE walk

\* The walk of cascadeChain over a list that is not empty: what it is after each
\* node.  The tip stays at level 0, then the walk visits the others.
KeepTip(n) == [kept |-> <<[n EXCEPT !.level = 0]>>, level |-> 0, tot |-> 1]
Walk(ns) ==
  LET walk[i \in 0 .. Len(ns) - 1] ==
        IF i = 0 THEN KeepTip(ns[1]) ELSE VisitNode(walk[i - 1], ns[i + 1])
  IN  walk

CascadeChain(ns) == IF ns = <<>> THEN ns ELSE Walk(ns)[Len(ns) - 1].kept

\* rebuildCascade of MinimaDB.hpp, for the blocks of a chain, newest first.
RebuildCascade(bs) ==
  CascadeChain([i \in DOMAIN bs |-> [block |-> bs[i], level |-> 0]])

\* weight() of a node, twice as much a level up, and m_totalWeight.
LevelWeight[l \in 0 .. LevelsMax - 1] == IF l = 0 THEN 1 ELSE 2 * LevelWeight[l - 1]
NodeWeight(n) == DifficultyWeight[n.block] * LevelWeight[n.level]
TotalWeight(ns) ==
  LET total[i \in 0 .. Len(ns)] ==
        IF i = 0 THEN 0 ELSE total[i - 1] + NodeWeight(ns[i])
  IN  total[Len(ns)]

-----------------------------------------------------------------------------
CascadeInit == cascade = <<>> /\ chain = <<>>

\* What MinimaDB::addBlock does with the cascade.
AddBlock(b) ==
  /\ Len(chain) < MaxLength
  /\ cascade' = CascadeChain(AddToTip(cascade, b))
  /\ chain' = <<b>> \o chain

CascadeNext == \E b \in Blocks : AddBlock(b)

CascadeSpec == CascadeInit /\ [][CascadeNext]_cascadeVars
-----------------------------------------------------------------------------
(* Properties.                                                             *)

\* A node that has pruned after every block holds the same cascade as one that
\* restarts and rebuilds it from the whole chain at once: nothing pruned
\* early would have been kept later.
PruningOrderIsIrrelevant == cascade = RebuildCascade(chain)

\* The blocks of a new cascade are those of the old one without its d-th (all of
\* them when d is beyond its end), below the new block.
LostAt(d, old, new) ==
  /\ Len(new) = IF d <= Len(old) THEN Len(old) ELSE Len(old) + 1
  /\ \A k \in 2 .. Len(new) :
       new[k].block = IF k <= d THEN old[k - 1].block ELSE old[k].block

\* The nodes get no harder towards the root.
NoEasier(ns) ==
  \A i, j \in DOMAIN ns :
    i <= j => DifficultyWeight[ns[i].block] >= DifficultyWeight[ns[j].block]

\* What a block can cost the chain.  It may move every node to another level,
\* yet at most one is dropped, and the weight falls by no more than that node's,
\* less the new block's own.  While difficulty does not fall from one block to
\* the next the weight does not fall at all: the test "totalWeight increases as
\* chain grows" uses blocks of one difficulty.
WeightStep ==
  \E b \in Blocks :
    /\ chain' = <<b>> \o chain
    /\ NoEasier(AddToTip(cascade, b)) => TotalWeight(cascade') >= TotalWeight(cascade)
    /\ \E d \in 1 .. Len(cascade) + 1 :
         /\ LostAt(d, cascade, cascade')
         /\ TotalWeight(cascade') + (IF d <= Len(cascade) THEN NodeWeight(cascade[d]) ELSE 0)
              >= TotalWeight(cascade) + DifficultyWeight[b]
WeightLostIsBounded == [][WeightStep]_cascadeVars
=============================================================================
