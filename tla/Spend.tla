------------------------------- MODULE Spend -------------------------------
(***************************************************************************)
(* A TxPoW from the wallet to the validator: keys are made (src/wallet/    *)
(* Wallet.hpp) and used once, the signature is put in the witness, mining  *)
(* changes the header, the TxPoW is validated where it was built, or sent  *)
(* and validated as it was read.  The peers also exchange their greetings, *)
(* pulses, blocks and chains in the same wire format.                      *)
(***************************************************************************)
EXTENDS TxPoWValidator

CONSTANTS Templates, \* the TxPoWs before they are signed and mined
          Parcels,   \* the other messages, <<kind, object>>
          Randoms,   \* the values resetPRNG may draw
          Master,    \* the seed of the tree key
          None,
          \* Bounds.
          MaxKeys, MaxNonce, MaxSignatures

VARIABLES wallet,   \* the keys in the order they were made, [seed, used]
          keyUsed,  \* the next leaf of the tree key
          txpow,    \* the TxPoW being built
          made,     \* history: every signature made, [key, digits]
          proofs,   \* history: what the tree key signed, [message, proof]
          sent,     \* history: the <<kind, object>> just sent
          received, \* the object read from its frame
          verdict   \* the last TxPoW validated, [txpow, valid]

vars == <<wallet, keyUsed, txpow, made, proofs, sent, received, verdict>>

-----------------------------------------------------------------------------
(* The first block: src/objects/Genesis.hpp, with the defaults of TxHeader,*)
(* Magic and TxBody.  The body is random and in no hash, so that every node *)
(* has the same first id.                                                  *)

EmptyTransaction == [inputs |-> <<>>, outputs |-> <<>>, stateVars |-> <<>>, linkHash |-> <<>>]
EmptyWitness     == [signatures |-> <<>>, coinProofs |-> <<>>, scripts |-> <<>>]
ZeroHash == <<0>>
Easiest  == <<255>>
MinWork  == <<0, 255>>

Supply == [unscaled |-> <<59, 154, 202, 0>>, scale |-> 0]

\* A coin of a thousand million that any script returning TRUE opens.
MakeGenesisCoin ==
    [coinID |-> ZeroHash, address |-> Hash(WriteData(TrueScript)), amount |-> Supply,
     tokenID |-> NoToken, storeState |-> FALSE, mmrEntry |-> Zero, spent |-> FALSE,
     blockCreated |-> Zero, stateVars |-> <<>>, token |-> FALSE]

\* One leaf, the hash of the whole coin.
MakeGenesisMMR(coin) == PutLeaf(NoNodes, 0, Hash(Write("coin", coin)))

DefaultMagic ==
    [currentMaxTxPoWSize |-> Whole(64 * 1024), currentMaxKISSVMOps |-> Whole(1024),
     currentMaxTxnPerBlock |-> Whole(256), currentMinTxPoWWork |-> MinWork,
     desiredMaxTxPoWSize |-> Whole(64 * 1024), desiredMaxKISSVMOps |-> Whole(1024),
     desiredMaxTxnPerBlock |-> Whole(256), desiredMinTxPoWWork |-> MinWork]
ResetPRNG == <<1>>

\* The coin is in no output: only the root tells of it.
MakeGenesisTxPoW ==
    [header |-> [nonce |-> Zero, chainID |-> <<0>>, timeMilli |-> Zero, blockNumber |-> Zero,
                 blockDifficulty |-> Easiest, superParents |-> [level \in 1..Levels |-> ZeroHash],
                 mmrRoot |-> GetRoot(MakeGenesisMMR(MakeGenesisCoin)), mmrTotal |-> Zero,
                 magic |-> DefaultMagic, customHash |-> ZeroHash, bodyHash |-> ZeroHash],
     body   |-> [prng |-> ResetPRNG, txnDifficulty |-> Easiest, txn |-> EmptyTransaction,
                 witness |-> EmptyWitness, burnTxn |-> EmptyTransaction,
                 burnWitness |-> EmptyWitness, txnList |-> <<>>]]

-----------------------------------------------------------------------------
Init ==
    /\ wallet = <<>> /\ keyUsed = 0
    /\ txpow \in Templates \cup {MakeGenesisTxPoW}
    /\ made = {} /\ proofs = {}
    /\ sent = None /\ received = None /\ verdict = None

-----------------------------------------------------------------------------
(* The keys.                                                               *)

\* The last message and the last verdict are forgotten.
Quiet == sent' = None /\ received' = None /\ verdict' = None
Noted(key, message) == made' = made \cup {[key |-> key, digits |-> SignedDigits(message)]}

CreateNewKey ==
    /\ Len(wallet) < MaxKeys /\ keyUsed = 0
    /\ wallet' = Append(wallet, [seed |-> Len(wallet) + 1, used |-> FALSE])
    /\ Quiet
    /\ UNCHANGED <<keyUsed, txpow, made, proofs>>

NoProof == [blocktime |-> 0, entry |-> 0, data |-> [data |-> <<>>, value |-> Zero, spent |-> FALSE],
            proof |-> <<>>, leftPeaks |-> <<>>, rightPeaks |-> <<>>]
AddSignature(t, seed, message) ==
    [t EXCEPT !.body.witness.signatures =
        Append(@, << [publicKey |-> GeneratePublicKey(seed), signature |-> SignWOTS(seed, message),
                      proof |-> NoProof] >>)]

\* Wallet::sign, its result added to the witness; a used key is refused.
\* Mutant: the key is not marked.
WalletSignAgain(k, message) ==
    /\ ~wallet[k].used
    /\ UNCHANGED wallet
    /\ Noted(GeneratePublicKey(wallet[k].seed), message)
    /\ txpow' = AddSignature(txpow, wallet[k].seed, message)
WalletSign(k, message) ==
    /\ ~wallet[k].used
    /\ wallet' = [wallet EXCEPT ![k].used = TRUE]
    /\ Noted(GeneratePublicKey(wallet[k].seed), message)
    /\ txpow' = AddSignature(txpow, wallet[k].seed, message)

SignTxPoW ==
    /\ Len(txpow.body.witness.signatures) < MaxSignatures
    /\ \E message \in {Message(ComputeID(txpow))}, k \in DOMAIN wallet : WalletSign(k, message)
    /\ Quiet
    /\ UNCHANGED <<keyUsed, proofs>>

\* TreeKey::sign; it throws once every leaf has been used.  Bound: the tree
\* key shares nothing with the wallet, a behaviour uses one of the two.
SignWithTree ==
    /\ keyUsed < Leaves /\ wallet = <<>>
    /\ keyUsed' = keyUsed + 1
    /\ \E message \in {Message(ComputeID(txpow))} :
          /\ Noted(GeneratePublicKey(DeriveLeafSeed(Master, keyUsed)), message)
          /\ proofs' = proofs \cup {[message |-> message, proof |-> SignTree(Master, keyUsed, message)]}
    /\ Quiet
    /\ UNCHANGED <<wallet, txpow>>

-----------------------------------------------------------------------------
(* The TxPoW.                                                              *)

Mine ==
    /\ ToInt(txpow.header.nonce.unscaled) < MaxNonce
    /\ \E random \in Randoms :
          txpow' = [txpow EXCEPT !.header.nonce = Add(@, Whole(1)), !.body.prng = random]
    /\ Quiet
    /\ UNCHANGED <<wallet, keyUsed, made, proofs>>

\* The outputs are named after the id the TxPoW has now.
NameOutputs ==
    /\ txpow' = [txpow EXCEPT !.body.txn.outputs =
                    [i \in DOMAIN @ |-> [@[i] EXCEPT !.coinID = ComputeCoinID(ComputeID(txpow), i - 1)]]]
    /\ Quiet
    /\ UNCHANGED <<wallet, keyUsed, made, proofs>>

TxPoWRead == {r \in {received} : r # None /\ sent[1] = "txpow"}
Check ==
    /\ \E t \in {txpow} \cup TxPoWRead : verdict' = [txpow |-> t, valid |-> Validate(t)]
    /\ UNCHANGED <<wallet, keyUsed, txpow, made, proofs, sent, received>>

-----------------------------------------------------------------------------
(* The wire.                                                               *)

\* Bound: messages other than the TxPoW are exchanged before the first signature.
Messages == {<<"txpow", txpow>>} \cup {p \in Parcels : wallet = <<>> /\ keyUsed = 0}

\* A frame is sent and received; nothing can change it on the way.  One that
\* is too long is refused by its receiver, not by its sender.
Exchange ==
    /\ \E m \in Messages : \E frame \in {Frame(m[1], m[2])} :
          /\ ~Refused(frame)
          /\ sent' = m
          /\ received' = Receive(frame)
    /\ verdict' = None
    /\ UNCHANGED <<wallet, keyUsed, txpow, made, proofs>>

Next == CreateNewKey \/ SignTxPoW \/ SignWithTree \/ Mine \/ NameOutputs \/ Check \/ Exchange

Spec == Init /\ [][Next]_vars

-----------------------------------------------------------------------------
(* Properties.                                                             *)

TypeOK ==
    /\ \A k \in DOMAIN wallet : wallet[k].seed = k /\ wallet[k].used \in BOOLEAN
    /\ keyUsed \in 0..Leaves
    /\ \A e \in made : Len(e.key) = SigBlocks /\ Len(e.digits) = SigBlocks

\* What a message is after the wire: a coin without token id has the id 0x00,
\* and a cascade node has the level its super parents show.
OverList(Op(_), list)  == [i \in DOMAIN list |-> Op(list[i])]
SettledCoin(c)         == [c EXCEPT !.tokenID = IF @ = NoToken THEN <<0>> ELSE @]
SettledCoins(coins)    == OverList(SettledCoin, coins)
SettledProof(p)        == [p EXCEPT !.coin = SettledCoin(@)]
SettledTransaction(t)  == [t EXCEPT !.inputs = SettledCoins(@), !.outputs = SettledCoins(@)]
SettledWitness(w)      == [w EXCEPT !.coinProofs = OverList(SettledProof, @)]
SettledTxPoW(t) ==
    [t EXCEPT !.body.txn = SettledTransaction(@), !.body.burnTxn = SettledTransaction(@),
              !.body.witness = SettledWitness(@), !.body.burnWitness = SettledWitness(@)]
SettledTxBlock(b) ==
    [b EXCEPT !.txpow = SettledTxPoW(@), !.newCoins = SettledCoins(@),
              !.spentCoins = OverList(SettledProof, @)]
EqualParents(parents) == {i \in DOMAIN parents : \A j \in 1..i : parents[j] = parents[1]}
SettledNode(n) == [n EXCEPT !.superLevel = Cardinality(EqualParents(n.header.superParents)) - 1]
SettledCascade(c) == IF c = NoCascade THEN c ELSE OverList(SettledNode, c)
SettledIBD(ibd) ==
    [ibd EXCEPT !.cascade = SettledCascade(@), !.txBlocks = OverList(SettledTxBlock, @)]
Settled(kind, object) == CASE kind = "txpow"   -> SettledTxPoW(object)
                           [] kind = "txBlock" -> SettledTxBlock(object)
                           [] kind = "ibd"     -> SettledIBD(object)
                           [] OTHER            -> object

\* Every object is read from the wire as it was written, but for the two
\* fields above: the readers take the fields in the order, the widths and the
\* counts of the writers (serialise and deserialise of every class).
ReadIsWritten == received # None => received = Settled(sent[1], sent[2])

\* A one-time key settles one message: whoever holds all the signatures made
\* with a key has the chains of no other message, because each digit that is
\* higher makes a checksum digit lower (Winternitz::appendChecksum) and a key
\* signs once (Wallet::sign, TreeKey::sign).  A proof of the tree key verifies
\* under the root for the digits it signed, and no others.  The keys of the
\* older copy bind in the same way, also when they are saved and read back.
Reached(key, digits) ==
    \A i \in 1..SigBlocks : \E e \in made : e.key = key /\ e.digits[i] <= digits[i]
KeysBind ==
    /\ OlderKeysBind
    /\ \A m \in 0..2^HashBits - 1 : LET digits == SignedDigits(m) IN
          /\ \A e \in made : Reached(e.key, digits) => [key |-> e.key, digits |-> digits] \in made
          /\ \A p \in proofs : VerifyTree(BuildMerkleTree(Master)[1], m, p.proof)
                                  <=> digits = SignedDigits(p.message)

\* A TxPoW is accepted exactly when it is due: its proofs were made for the
\* header it has now (mining after signing undoes them), every input is known
\* and unlocked, outputs named after an older header are refused, the first
\* byte of its id is no larger than its difficulty allows, it is no longer
\* than its header says, and its outputs without a token id are worth no more
\* than such inputs.  The last is less than the words of the source ask for:
\* see NativeBalances.
Proofs(t) == UNION {ToSet(t.body.witness.signatures[i]) : i \in DOMAIN t.body.witness.signatures}
SignerKeys(t) == {sp.publicKey : sp \in Proofs(t)}
OpenedBy(t, coin) ==
    \E sp \in ToSet(t.body.witness.scripts) :
        /\ coin.address = Hash(WriteData(sp.script)) /\ sp.proof.proof = <<>>
        /\ \/ sp.script = TrueScript
           \/ \E key \in SignerKeys(t) : sp.script \in {SignedBy(key), SignedBy(Hash(WriteData(key)))}
Hundredths(x) == ToInt(x.unscaled) * 10^(2 - x.scale)
Known(c) == CHOOSE coin \in UTxO : coin.coinID = c.coinID
Sum(amounts) == FoldLeft(LAMBDA sum, x : sum + Hundredths(x), 0, amounts)
Spent(t, ids) ==
    LET inputs == SelectSeq(t.body.txn.inputs, LAMBDA c : c.tokenID \in ids)
    IN  Sum([i \in DOMAIN inputs |-> Known(inputs[i]).amount])
Made(t, ids) ==
    LET outputs == SelectSeq(t.body.txn.outputs, LAMBDA c : c.tokenID \in ids)
    IN  Sum([i \in DOMAIN outputs |-> outputs[i].amount])

Largest(t) == t.header.magic.desiredMaxTxPoWSize
WorkAsked(t) == FoldLeft(LAMBDA n, byte : 256 * n + byte, 0, t.body.txnDifficulty)
Due(t, id) ==
    /\ \A sp \in Proofs(t) : [key |-> sp.publicKey, digits |-> SignedDigits(Message(id))] \in made
    /\ \A c \in ToSet(t.body.txn.inputs) :
          \E coin \in UTxO : coin.coinID = c.coinID /\ OpenedBy(t, coin)
    /\ \A i \in DOMAIN t.body.txn.outputs :
          t.body.txn.outputs[i].coinID \in {<<>>, Hash(id \o <<0, 0, 0, i - 1>>)}
    /\ Made(t, {NoToken}) <= Spent(t, {NoToken})
    /\ t.body.txnDifficulty = <<>>
       \/ Leading(id, 8) * 256^(Len(t.body.txnDifficulty) - 1) <= WorkAsked(t)
    /\ Largest(t) = Zero \/ Len(Write("txpow", t)) * 10^Largest(t).scale <= ToInt(Largest(t).unscaled)
VerdictIsDue == verdict # None => (verdict.valid <=> Due(verdict.txpow, ComputeID(verdict.txpow)))

\* An accepted TxPoW makes no more native coins than it spends: "sum(inputs)
\* >= sum(outputs)", and "tokenID 0x00 = native Minima".  checkBalance leaves
\* out every coin with a token id, and a coin read from the wire always has
\* one, so there nothing is compared.
NativeIDs == {NoToken, <<0>>}
NativeBalances ==
    verdict # None /\ verdict.valid =>
        Made(verdict.txpow, NativeIDs) <= Spent(verdict.txpow, NativeIDs)
=============================================================================
