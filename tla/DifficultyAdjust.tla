-------------------------- MODULE DifficultyAdjust --------------------------
(***************************************************************************)
(* The retarget of chain/DifficultyAdjust.hpp.  A difficulty is a row of   *)
(* bytes, the most significant first; sums and quotients of rows are those *)
(* of the numbers they stand for, cut to the width the code gives them.    *)
(* The ratio, a double in the code, is an exact fraction here.             *)
(***************************************************************************)
EXTENDS Integers, Sequences, FiniteSets

CONSTANTS
  Base,         \* values of a byte
  Width,        \* bytes of a difficulty
  FirstBlocks,  \* 8: below this block number the difficulty is the easiest
  SpeedCalc,    \* BLOCKS_SPEED_CALC
  MedianCalc,   \* MEDIAN_BLOCK_CALC
  TargetTime,   \* milliseconds for a block at BLOCK_SPEED
  MaxBound,     \* MAX_SPEED_BOUND; MIN_SPEED_BOUND is its inverse
  Gaps,         \* times that may pass between a block and its parent
  MaxChain      \* bound on the length of the chain

ASSUME DifficultyAssumption ==
  /\ Base \in Nat \ {0, 1} /\ Width \in Nat \ {0}
  /\ SpeedCalc \in 1 .. Base /\ MedianCalc \in Nat \ {0, 1, 2}
  /\ TargetTime \in Nat \ {0} /\ MaxBound \in Nat \ {0} /\ Gaps \subseteq Int

VARIABLE summaries  \* BlockSummary of the chain, the newest first

Rows == [1 .. Width -> 0 .. Base - 1]
Easiest == [i \in 1 .. Width |-> Base - 1]

\* The number a row stands for, and the last bytes of the row of a number.
ValueOf(bytes) ==
  LET first[i \in 0 .. Len(bytes)] ==
        IF i = 0 THEN 0 ELSE first[i - 1] * Base + bytes[i]
  IN  first[Len(bytes)]

BytesOf(v, width) ==
  LET rest[i \in 0 .. width] == IF i = 0 THEN v ELSE rest[i - 1] \div Base
  IN  [i \in 1 .. width |-> rest[width - i] % Base]
-----------------------------------------------------------------------------
\* The indices of the window that starts at s, as far as the chain goes.
MedianWindow(chain, s) == {i \in DOMAIN chain : s <= i /\ i < s + MedianCalc}

Earlier(chain, i, j) ==
  \/ chain[i].time < chain[j].time
  \/ chain[i].time = chain[j].time /\ i < j

\* Mutant: the first block of the window is taken.
MedianIndexFirst(chain, s) == s

\* getMedianTimeBlockIndex: the middle of the window by (time, index).
MedianIndex(chain, s) ==
  LET w == MedianWindow(chain, s)
  IN  CHOOSE i \in w :
        Cardinality({j \in w : Earlier(chain, j, i)}) = Cardinality(w) \div 2

\* How many of count blocks from s on the chain has, and the sum of their difficulties.
Taken(chain, s, count) == IF s + count <= Len(chain) THEN count ELSE Len(chain) + 1 - s
SumOf(chain, s, n) ==
  LET sum[k \in 0 .. n] ==
        IF k = 0 THEN 0 ELSE sum[k - 1] + ValueOf(chain[s + k - 1].difficulty)
  IN  sum[n]

\* getAverageDifficulty: count blocks from s on, as far as the chain goes.  The
\* sum has one byte more than a difficulty.
AverageDifficulty(chain, s, count) ==
  LET n     == Taken(chain, s, count)
      total == BytesOf(SumOf(chain, s, n), Width + 1)
  IN  IF n <= 0 THEN Easiest ELSE BytesOf(ValueOf(total) \div n, Width)

\* mulRational: from the least significant byte up.  What is left of a byte
\* after the division goes, times Base, to the next more significant one; what
\* exceeds a byte is dropped.  due[i] is the value of v at byte i, over den.
MulRational(bytes, num, den) ==
  LET due[i \in 1 .. Width] ==
        bytes[i] * num + IF i = Width THEN 0 ELSE (due[i + 1] % den) * Base
  IN  [i \in 1 .. Width |-> (due[i] \div den) % Base]

\* The ratio timeDiff / (TargetTime * blockDiff), clamped.
Ratio(timeDiff, blockDiff) ==
  LET target == TargetTime * blockDiff
  IN  IF timeDiff >= MaxBound * target THEN [num |-> MaxBound, den |-> 1]
      ELSE IF MaxBound * timeDiff <= target THEN [num |-> 1, den |-> MaxBound]
      ELSE [num |-> timeDiff, den |-> target]

Enough(chain) ==
  /\ chain # <<>> /\ chain[1].number >= FirstBlocks
  /\ Len(chain) >= SpeedCalc + 2 * MedianCalc

\* DifficultyAdjust::calculate.  The blocks averaged are those below the later
\* median block of the look-back, endIdx on.
Calculate(chain) ==
  LET first     == MedianIndex(chain, 1)
      last      == MedianIndex(chain, 1 + SpeedCalc)
      blockDiff == chain[first].number - chain[last].number
      timeDiff  == chain[first].time - chain[last].time
      ratio     == Ratio(timeDiff, blockDiff)
  IN  IF ~ Enough(chain) THEN Easiest
      ELSE IF blockDiff = 0 \/ timeDiff <= 0 THEN chain[1].difficulty
      ELSE MulRational(AverageDifficulty(chain, last, blockDiff), ratio.num, ratio.den)
-----------------------------------------------------------------------------
DifficultyInit == summaries = <<>>

\* A block some time after, or before, its parent, with the difficulty due.
ExtendChain(gap) ==
  /\ Len(summaries) < MaxChain
  /\ summaries' =
       <<[number     |-> Len(summaries),
          time       |-> gap + IF summaries = <<>> THEN 0 ELSE summaries[1].time,
          difficulty |-> Calculate(summaries)]>> \o summaries

DifficultyNext == \E gap \in Gaps : ExtendChain(gap)

DifficultySpec == DifficultyInit /\ [][DifficultyNext]_summaries
-----------------------------------------------------------------------------
(* Properties.                                                             *)

Starts == {1, 1 + SpeedCalc}
Times == {summaries[i].time : i \in DOMAIN summaries}
Altered(i, t) == [summaries EXCEPT ![i].time = t]

\* No single clock decides: with the time of one block of a window changed to
\* anything, the median time still lies among those of the others.
OneClockIsOutvoted ==
  \A s \in Starts : \A i \in MedianWindow(summaries, s), t \in Times \cup {-1, 1000} :
    LET others == {summaries[j].time : j \in MedianWindow(summaries, s) \ {i}}
        median == Altered(i, t)[MedianIndex(Altered(i, t), s)].time
    IN  \E lo, hi \in others : lo <= median /\ median <= hi

\* Over as many blocks as a byte has values the sum does not overflow.
AverageIsMean ==
  \A s \in DOMAIN summaries, count \in 1 .. Base :
    LET n == Taken(summaries, s, count)
    IN  ValueOf(AverageDifficulty(summaries, s, count)) = SumOf(summaries, s, n) \div n

\* Where every byte is multiplied without remainder or overflow the product is
\* exact; so it is for a chain exactly on target.
ProductIsExact ==
  \A i \in DOMAIN summaries : \A num \in 1 .. MaxBound, den \in 1 .. MaxBound :
    LET bytes == summaries[i].difficulty
    IN  (\A k \in 1 .. Width : (bytes[k] * num) % den = 0 /\ bytes[k] * num < den * Base)
          => ValueOf(MulRational(bytes, num, den)) * den = ValueOf(bytes) * num

\* The retarget is the one due: its speed rests on no single clock, its average
\* is the mean, its product is exact where it can be, and a chain whose blocks
\* come in the target time keeps the difficulty it has.
RetargetIsDue ==
  Enough(summaries) =>
    /\ OneClockIsOutvoted /\ AverageIsMean /\ ProductIsExact
    /\ (\A i \in 1 .. Len(summaries) - 1 :
          /\ summaries[i].time = summaries[i + 1].time + TargetTime
          /\ summaries[i].difficulty = summaries[i + 1].difficulty)
       => Calculate(summaries) = summaries[1].difficulty

\* The header of the source says: the new difficulty is the average times the
\* ratio, at most all ones, and higher is easier.  So where blocks of one
\* difficulty took at least their target time the next is no harder.
SlowIsNotHarder ==
  /\ Enough(summaries)
  /\ \A i \in 1 .. Len(summaries) - 1 :
       /\ summaries[i].time >= summaries[i + 1].time + TargetTime
       /\ summaries[i].difficulty = summaries[i + 1].difficulty
  => ValueOf(Calculate(summaries)) >= ValueOf(summaries[1].difficulty)
=============================================================================
