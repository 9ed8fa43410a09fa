----------------------------- MODULE SeedPhrase -----------------------------
(***************************************************************************)
(* The words a seed is written down in: src/crypto/BIP39.hpp.  A word is   *)
(* its place in the list, entropy a list of bytes.  A phrase is text:      *)
(* words, tidy if exactly one space stands between them.                   *)
(***************************************************************************)
EXTENDS Integers, Sequences, SequencesExt

CONSTANTS
    ByteBits,    \* 8
    WordBits,    \* 11
    Sizes,       \* <<bytes, words>>: <<16, 12>> and <<32, 24>>
    NoWord,      \* a word the list does not have
    NoPhrase,    \* no phrase, or one that makes a function throw
    Entropies,   \* what the phrases are made of
    Sources      \* what generateMnemonic is given

ASSUME SeedPhraseAssumption ==
    /\ {ByteBits, WordBits} \subseteq Nat \ {0}
    /\ \A size \in Sizes : /\ (size[1] + 1) * ByteBits >= size[2] * WordBits
                           /\ size[2] * WordBits >= size[1] * ByteBits
                           /\ (size[1] + 1) * ByteBits < (size[2] + 1) * WordBits

VARIABLES
    secret,   \* the entropy the phrase stands for
    written,  \* the phrase made from it
    entered   \* the phrase typed in later

phraseVars == <<secret, written, entered>>
-----------------------------------------------------------------------------
Bits(n, width) == [i \in 1..width |-> (n \div 2^(width - i)) % 2]
Stream(numbers, width) == FlattenSeq([i \in DOMAIN numbers |-> Bits(numbers[i], width)])
Value(bits)    == FoldLeft(LAMBDA acc, b : 2 * acc + b, 0, bits)
Chunked(bits, width) ==
    [i \in 1..(Len(bits) \div width) |-> Value(SubSeq(bits, (i - 1) * width + 1, i * width))]

\* The first byte of the hash of the entropy, an arbitrary function of it.
CheckByte(entropy) == FoldLeft(LAMBDA acc, byte : 3 * acc + byte + 1, 0, entropy) % 2^ByteBits

Text(words) == [words |-> words, tidy |-> TRUE]

\* Bits that do not fill a word are dropped: half the check byte of 16 bytes.
EntropyToMnemonic(entropy) ==
    Text(Chunked(Stream(Append(entropy, CheckByte(entropy)), ByteBits), WordBits))

SizeOf(n) == {size \in Sizes : size[2] = n}
AllKnown(text) == NoWord \notin ToSet(text.words)

\* The check bits are cut off and not looked at.
MnemonicToEntropy(text) ==
    IF SizeOf(Len(text.words)) = {} \/ ~AllKnown(text) THEN NoPhrase
    ELSE LET size == CHOOSE s \in SizeOf(Len(text.words)) : TRUE
         IN  SubSeq(Chunked(Stream(text.words, WordBits), ByteBits), 1, size[1])

\* The hashes start from the text itself, whatever it is.
MnemonicToSeed(text) == <<"hashed", text>>

\* Mutant: the words are known, the checksum is taken on trust.
ValidateWords(text) == MnemonicToEntropy(text) # NoPhrase /\ text.tidy
ValidateMnemonic(text) ==
    /\ MnemonicToEntropy(text) # NoPhrase
    /\ EntropyToMnemonic(MnemonicToEntropy(text)) = text

\* A source that is too short is refused, of a longer one the start is taken.
Shortest == CHOOSE n \in {size[1] : size \in Sizes} : \A size \in Sizes : n <= size[1]
GenerateMnemonic(source) ==
    /\ Len(source) >= Shortest
    /\ secret' = SubSeq(source, 1, Shortest)
    /\ written' = EntropyToMnemonic(SubSeq(source, 1, Shortest))

-----------------------------------------------------------------------------
PhraseInit == secret = <<>> /\ written = NoPhrase /\ entered = NoPhrase

WritePhrase ==
    /\ written = NoPhrase /\ entered' = NoPhrase
    /\ \/ \E entropy \in Entropies :
             secret' = entropy /\ written' = EntropyToMnemonic(entropy)
       \/ \E source \in Sources : GenerateMnemonic(source)

\* The phrase as it was, with another word in one place, with two words
\* changed about, without its last word, or with a space too many.
Slips(words) ==
    {words} \cup {Front(words)}
    \cup {[words EXCEPT ![i] = w] : i \in DOMAIN words, w \in (0..2^WordBits - 1) \cup {NoWord}}
    \cup {[words EXCEPT ![i] = words[i + 1], ![i + 1] = words[i]] : i \in 1..Len(words) - 1}
EnterPhrase ==
    /\ written # NoPhrase
    /\ entered' \in [words : Slips(written.words), tidy : BOOLEAN]
    /\ UNCHANGED <<secret, written>>

PhraseNext == WritePhrase \/ EnterPhrase

\* A phrase reads back as the entropy it was made of.  Of all that can be
\* typed in its place and read as the same entropy it alone is valid, and every
\* other text that is valid stands for other entropy: a valid phrase has the
\* seed of the one that was written exactly if it has its entropy.
PhraseRestores ==
    /\ written # NoPhrase => ValidateMnemonic(written) /\ MnemonicToEntropy(written) = secret
    /\ entered # NoPhrase /\ ValidateMnemonic(entered) =>
          (MnemonicToEntropy(entered) = secret <=> MnemonicToSeed(entered) = MnemonicToSeed(written))
=============================================================================
