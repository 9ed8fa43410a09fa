---------------------------- MODULE OneTimeKeys ----------------------------
(***************************************************************************)
(* Winternitz one-time signatures (src/crypto/Winternitz.hpp) and the tree *)
(* of one-time keys (src/crypto/TreeKey.hpp).  A message is the number its *)
(* HashBits bits write; a seed is a number.                                *)
(***************************************************************************)
EXTENDS MMRProof

CONSTANTS HashBits,       \* 256 in the code
          LogW,           \* 3
          ChecksumBlocks, \* 4
          Depth           \* of a tree, 12

W         == 2^LogW
KeyBlocks == (HashBits + LogW - 1) \div LogW
SigBlocks == KeyBlocks + ChecksumBlocks

ASSUME KeysAssumption ==
    /\ {HashBits, LogW, ChecksumBlocks, Depth} \subseteq Nat \ {0}
    /\ KeyBlocks * (W - 1) < W^ChecksumBlocks

\* The value after d hashes in the chain of private element i: one number per <<seed, i, d>>.
PrivateElement(seed, i) == (seed * SigBlocks + i) * 2 * W
ChainHash(value, n) == value + n

\* messageDigits: the bits left when they do not fill a digit are dropped, and
\* the missing digit is 0 (85 digits of 256 bits, the last bit dropped).
MessageDigits(message) ==
    [i \in 1..KeyBlocks |-> IF i * LogW <= HashBits THEN (message \div 2^(HashBits - i * LogW)) % W
                            ELSE 0]
Checksum(digits) == FoldLeft(+, 0, [i \in DOMAIN digits |-> W - 1 - digits[i]])
AppendChecksum(digits) ==
    digits \o [i \in 1..ChecksumBlocks |-> (Checksum(digits) \div W^(ChecksumBlocks - i)) % W]
SignedDigits(message) == AppendChecksum(MessageDigits(message))

GeneratePublicKey(seed) == [i \in 1..SigBlocks |-> ChainHash(PrivateElement(seed, i), W - 1)]
ChainsAt(seed, digits)  == [i \in 1..SigBlocks |-> ChainHash(PrivateElement(seed, i), digits[i])]
SignWOTS(seed, message) == ChainsAt(seed, SignedDigits(message))
ChainEnds(signature, digits) ==
    [i \in 1..SigBlocks |-> ChainHash(signature[i], W - 1 - digits[i])]
Recover(message, signature) == ChainEnds(signature, SignedDigits(message))
VerifyWOTS(publicKey, message, signature) == Recover(message, signature) = publicKey

-----------------------------------------------------------------------------
(* TreeKey: a heap of hashes, node 1 the root and the leaves last.         *)

Leaves == 2^Depth
DeriveLeafSeed(master, leaf) == 100 * master + leaf
BuildMerkleTree(master) ==
    LET node[i \in 1..2 * Leaves - 1] ==
            IF i >= Leaves THEN Hash(GeneratePublicKey(DeriveLeafSeed(master, i - Leaves)))
            ELSE Combine(node[2 * i], node[2 * i + 1])
    IN  node

BuildAuthPath(tree, leaf) ==
    [level \in 1..Depth |-> tree[Sibling((Leaves + leaf) \div 2^(level - 1))]]

SignTree(master, leaf, message) ==
    [leafIndex |-> leaf,
     publicKey |-> GeneratePublicKey(DeriveLeafSeed(master, leaf)),
     signature |-> SignWOTS(DeriveLeafSeed(master, leaf), message),
     path      |-> BuildAuthPath(BuildMerkleTree(master), leaf)]

Ascend(proof) ==
    LocalPeak([entry |-> proof.leafIndex, proof |-> proof.path], Hash(proof.publicKey))
VerifyTree(root, message, proof) ==
    VerifyWOTS(proof.publicKey, message, proof.signature) /\ Ascend(proof) = root

-----------------------------------------------------------------------------
(* The one-time keys of the older copy (minima-core-cpp: src/crypto/       *)
(* WOTS.hpp, src/crypto/TreeKey.hpp).  A public key is one hash, a         *)
(* signature does not carry it, and a tree key can be saved and read back. *)

CONSTANTS DigitBits,      \* 4 bits, a nibble
          OlderBlocks,    \* digits of a message, 64 of 256 bits
          OlderChecksum,  \* WOTS_CSUM_DIGITS
          OlderDepth,     \* TREEKEY_DEPTH, 8
          OlderSeed,      \* of the one key
          OlderMessages   \* what may be signed

WOTS_W       == 2^DigitBits
TotalDigits  == OlderBlocks + OlderChecksum
OlderLeaves  == 2^OlderDepth

ASSUME OlderKeysAssumption ==
    /\ {DigitBits, OlderBlocks, OlderChecksum, OlderDepth} \subseteq Nat \ {0}
    /\ OlderBlocks * (WOTS_W - 1) < WOTS_W^OlderChecksum
    /\ OlderMessages \subseteq 0..WOTS_W^OlderBlocks - 1

VARIABLES olderKey,    \* a TreeKey
          olderSaved,  \* its last serialised form
          olderSigned, \* history: <<message, signature>>
          lost         \* history: signatures were made after the form read back

olderKeyVars == <<olderKey, olderSaved, olderSigned, lost>>

\* digits: a message of other than 32 bytes throws; what is signed here are ids.
\* The checksum is written in as many digits as there are, the highest first.
OlderMessageDigits(message) ==
    [i \in 1..OlderBlocks |-> (message \div WOTS_W^(OlderBlocks - i)) % WOTS_W]
OlderDigits(message) ==
    LET digits == OlderMessageDigits(message)
        sum    == FoldLeft(LAMBDA acc, d : acc + WOTS_W - 1 - d, 0, digits)
    IN  digits \o [i \in 1..OlderChecksum |-> (sum \div WOTS_W^(OlderChecksum - i)) % WOTS_W]

\* expand_seed: a chain for every digit; hash_chain: a value a number of hashes on.
ExpandSeed(seed) == [i \in 1..TotalDigits |-> (seed * TotalDigits + i) * 2 * WOTS_W]
HashChain(value, steps) == value + steps

\* WOTS::generateKeyPair.
GenerateKeyPair(seed) ==
    [privateKey |-> ExpandSeed(seed),
     publicKey  |-> Hash([i \in 1..TotalDigits |-> HashChain(ExpandSeed(seed)[i], WOTS_W - 1)])]
SignOlder(privateKey, message) ==
    [i \in 1..TotalDigits |-> HashChain(privateKey[i], OlderDigits(message)[i])]
\* The public key a signature of the message leads to.
Candidate(message, signature) ==
    Hash([i \in 1..TotalDigits |-> HashChain(signature[i], WOTS_W - 1 - OlderDigits(message)[i])])

-----------------------------------------------------------------------------
(* The tree key, [seed, keyUse, tree]: node 1 of the tree is the public    *)
(* key, the leaves come last.                                              *)

LeafSeed(seed, i) == 100 * seed + i
MerkleParent(left, right) == Hash(left \o right)

Generate(seed) ==
    LET node[i \in 1..2 * OlderLeaves - 1] ==
            IF i >= OlderLeaves THEN GenerateKeyPair(LeafSeed(seed, i - OlderLeaves)).publicKey
            ELSE MerkleParent(node[2 * i], node[2 * i + 1])
    IN  [seed |-> seed, keyUse |-> 0, tree |-> node]

IsExhausted(key) == key.keyUse >= OlderLeaves

SignAt(key, message, leaf) ==
    [leaf |-> leaf,
     wots |-> SignOlder(GenerateKeyPair(LeafSeed(key.seed, leaf)).privateKey, message),
     path |-> [level \in 1..OlderDepth |->
                  key.tree[Sibling((OlderLeaves + leaf) \div 2^(level - 1))]]]

\* verify: the leaf key the signature leads to, and from it the root.
RootFrom(message, signature) ==
    LET Up(node, level) ==
            IF (signature.leaf \div 2^(level - 1)) % 2 = 0
            THEN MerkleParent(node, signature.path[level])
            ELSE MerkleParent(signature.path[level], node)
    IN  FoldLeft(Up, Candidate(message, signature.wots), [level \in 1..OlderDepth |-> level])
VerifySignature(root, message, signature) ==
    signature.leaf < OlderLeaves /\ RootFrom(message, signature) = root

\* Saved are the seed and the number of leaves used; the tree is made again.
SerialiseKey(key)    == <<key.seed, key.keyUse>>
DeserialiseKey(data) == [Generate(data[1]) EXCEPT !.keyUse = data[2]]

-----------------------------------------------------------------------------
OlderKeysInit ==
    /\ olderKey = Generate(OlderSeed)
    /\ olderSaved = SerialiseKey(olderKey)
    /\ olderSigned = {} /\ lost = FALSE

\* TreeKey::sign throws once every leaf is used.
OlderSign(message) ==
    /\ ~IsExhausted(olderKey)
    /\ olderKey' = [olderKey EXCEPT !.keyUse = @ + 1]
    /\ olderSigned' = olderSigned \cup {<<message, SignAt(olderKey, message, olderKey.keyUse)>>}
    /\ UNCHANGED <<olderSaved, lost>>

OlderSave ==
    /\ olderSaved' = SerialiseKey(olderKey)
    /\ UNCHANGED <<olderKey, olderSigned, lost>>

OlderRestart ==
    /\ olderKey' = DeserialiseKey(olderSaved)
    /\ lost' = (lost \/ olderKey'.keyUse < olderKey.keyUse)
    /\ UNCHANGED <<olderSaved, olderSigned>>

OlderKeysNext == (\E message \in OlderMessages : OlderSign(message)) \/ OlderSave \/ OlderRestart

\* Whoever holds the signatures of a leaf has the chains of no other message
\* at it, unless the key was read back from before a signature; and also after
\* it was read back each signature verifies under the root for its own message
\* and for no other.
OlderReached(leaf, message) ==
    \A i \in 1..TotalDigits :
        \E e \in olderSigned : e[2].leaf = leaf /\ OlderDigits(e[1])[i] <= OlderDigits(message)[i]
OlderKeysBind ==
    \A m \in 0..WOTS_W^OlderBlocks - 1 :
        /\ \A e \in olderSigned :
              ~lost /\ OlderReached(e[2].leaf, m)
                  => \E same \in olderSigned : same[1] = m /\ same[2].leaf = e[2].leaf
        /\ \A e \in olderSigned : VerifySignature(olderKey.tree[1], m, e[2]) <=> m = e[1]
=============================================================================
