------------------------------ MODULE MMRProof ------------------------------
(***************************************************************************)
(* Nodes and proofs of the Merkle mountain range: src/mmr/MMRSet.cpp,      *)
(* MMRData.cpp and MMRProof.cpp.  The nodes are a function from            *)
(* <<row, entry>>, entries counted from zero, to byte strings.  Combine    *)
(* hashes only the data of the children: value and spent flag of a node    *)
(* are in no hash.                                                         *)
(***************************************************************************)
EXTENDS Integers, Sequences, SequencesExt, FiniteSets, Functions

Hash(bytes) == <<-1>> \o bytes \o <<-2>>
Combine(left, right) == Hash(left \o right)

NoNodes == [n \in {} |-> <<>>]
Sibling(entry) == IF entry % 2 = 0 THEN entry + 1 ELSE entry - 1
Parent(node)   == <<node[1] + 1, node[2] \div 2>>

\* The entries of a leaf and of the nodes above it, by rows.
Ascent(entry) ==
    LET above[row \in Nat] == IF row = 0 THEN entry ELSE above[row - 1] \div 2
    IN  above

\* The siblings that exist, one above the other, on the way up from a leaf.
Climb(nodes, entry) ==
    LET other(row) == <<row, Sibling(Ascent(entry)[row])>>
        peak == CHOOSE row \in {0} \cup {n[1] + 1 : n \in DOMAIN nodes} :
                    /\ other(row) \notin DOMAIN nodes
                    /\ \A r \in 0 .. row - 1 : other(r) \in DOMAIN nodes
    IN  [i \in 1 .. peak |-> other(i - 1)]

\* The data of a leaf and of the nodes above it, joined with the siblings'.
Joined(entry, leaf, siblings) ==
    LET data[row \in 0 .. Len(siblings)] ==
            IF row = 0 THEN leaf
            ELSE IF Ascent(entry)[row - 1] % 2 = 0 THEN Combine(data[row - 1], siblings[row])
            ELSE Combine(siblings[row], data[row - 1])
    IN  data

DataOf(nodes, path) == [i \in DOMAIN path |-> nodes[path[i]]]

\* addLeaf and updateLeaf: propagate computes the parents again as long as the
\* sibling exists.
PutLeaf(nodes, entry, data) ==
    LET path == Climb(nodes, entry)
        new  == Joined(entry, data, DataOf(nodes, path))
        line == {<<row, Ascent(entry)[row]>> : row \in 0 .. Len(path)}
    IN  [n \in DOMAIN nodes \cup line |-> IF n \in line THEN new[n[1]] ELSE nodes[n]]

\* The peaks, the highest row first and the later entry first within a row.
Precedes(m, n) == m[1] > n[1] \/ (m[1] = n[1] /\ m[2] > n[2])
Peaks(nodes) ==
    LET peaks == {n \in DOMAIN nodes : Parent(n) \notin DOMAIN nodes}
    IN  CHOOSE s \in Bijection(1 .. Cardinality(peaks), peaks) :
            \A i, j \in DOMAIN s : i < j => Precedes(s[i], s[j])

Bag(hashes) ==
    LET bag[i \in 1 .. Len(hashes)] ==
            IF i = 1 THEN hashes[1] ELSE Combine(bag[i - 1], hashes[i])
    IN  bag[Len(hashes)]
GetRoot(nodes) == IF DOMAIN nodes = {} THEN <<>> ELSE Bag(DataOf(nodes, Peaks(nodes)))

\* getProof: the siblings up to the peak above the leaf, the peaks before it and after it.
GetProof(nodes, entry) ==
    LET path  == Climb(nodes, entry)
        peaks == Peaks(nodes)
        at    == CHOOSE i \in DOMAIN peaks : peaks[i] = <<Len(path), Ascent(entry)[Len(path)]>>
    IN  [entry |-> entry,
         proof |-> DataOf(nodes, path),
         left  |-> DataOf(nodes, SubSeq(peaks, 1, at - 1)),
         right |-> DataOf(nodes, SubSeq(peaks, at + 1, Len(peaks)))]

\* calculateProof: the local peak, bagged with the others.
LocalPeak(p, leaf) == Joined(p.entry, leaf, p.proof)[Len(p.proof)]
CalculateProof(p, leaf) == Bag(p.left \o <<LocalPeak(p, leaf)>> \o p.right)

-----------------------------------------------------------------------------
(* serialise and deserialise, a number of the stream being one byte.       *)

Chunks(seqs) == <<Len(seqs)>> \o FoldLeft(LAMBDA acc, b : acc \o <<Len(b)>> \o b, <<>>, seqs)
SerialiseProof(p) == <<p.entry>> \o Chunks(p.proof) \o Chunks(p.left) \o Chunks(p.right)

ReadChunks(n, s) ==
    LET read[i \in 0 .. n] ==
            IF i = 0 THEN [chunks |-> <<>>, rest |-> s]
            ELSE LET r == read[i - 1].rest
                 IN  [chunks |-> Append(read[i - 1].chunks, SubSeq(r, 2, r[1] + 1)),
                      rest   |-> SubSeq(r, r[1] + 2, Len(r))]
    IN  read[n]
DeserialiseProof(s) ==
    LET siblings == ReadChunks(s[2], SubSeq(s, 3, Len(s)))
        left     == ReadChunks(siblings.rest[1], Tail(siblings.rest))
        right    == ReadChunks(left.rest[1], Tail(left.rest))
    IN  [entry |-> s[1], proof |-> siblings.chunks, left |-> left.chunks, right |-> right.chunks]

\* PROOF(data, proof, root) of the KISS VM.
ProofHolds(data, bytes, root) == CalculateProof(DeserialiseProof(bytes), data) = root
=============================================================================
