--------------------------- MODULE TxPoWValidator ---------------------------
(***************************************************************************)
(* src/validation/TxPoWValidator.cpp: the checks of one TxPoW against the  *)
(* unspent coins, with the witness of src/objects/Witness.cpp.  A script   *)
(* is one of three: RETURN TRUE, RETURN SIGNEDBY(key), or one that returns *)
(* FALSE or throws; KissVM.tla runs scripts.                               *)
(***************************************************************************)
EXTENDS Wire, OneTimeKeys

CONSTANT UTxO \* the coins the lookup callback finds

TrueScript      == <<1>>
SignedBy(key)   == <<2>> \o key

\* The leading bits of a hash, an arbitrary function of it.
Leading(hash, bits) == FoldLeft(+, 0, [i \in DOMAIN hash |-> i * hash[i]]) % 2^bits

ComputeID(t) == Hash(Hash(Write("header", t.header)))
Message(id)  == Leading(Hash(id), HashBits)
ComputeCoinID(txID, index) == Hash(txID \o BigEndian(index, 4))

-----------------------------------------------------------------------------
(* The witness.                                                            *)

Nodes(data)   == [i \in DOMAIN data |-> data[i].data]
PathOf(proof) == [entry |-> proof.entry, proof |-> Nodes(proof.proof),
                  left |-> Nodes(proof.leftPeaks), right |-> Nodes(proof.rightPeaks)]
RootAbove(bytes, proof) == CalculateProof(PathOf(proof), Hash(WriteData(bytes)))

GetRootPublicKey(group) == IF group = <<>> THEN <<>> ELSE RootAbove(group[1].publicKey, group[1].proof)

ScriptsAt(witness, address) ==
    SelectSeq(witness.scripts, LAMBDA sp : RootAbove(sp.script, sp.proof) = address)

-----------------------------------------------------------------------------
(* The checks.                                                             *)

Lookup(coinID) == {c \in UTxO : c.coinID = coinID}

CheckSize(t) ==
    LET max == t.header.magic.desiredMaxTxPoWSize
    IN  IsZero(max.unscaled) \/ Len(Write("txpow", t)) <= AsLong(max)

\* Only the first bytes are compared.
CheckPoW(t, id) ==
    LET difficulty == t.body.txnDifficulty
    IN  \/ \A i \in DOMAIN difficulty : difficulty[i] = 255
        \/ Leading(id, 8) <= difficulty[1]

CheckStateVars(t) ==
    /\ \A i \in DOMAIN t.body.txn.stateVars : t.body.txn.stateVars[i].port <= 255
    /\ \A i \in DOMAIN t.body.txn.outputs :
          LET vars == t.body.txn.outputs[i].stateVars IN \A j \in DOMAIN vars : vars[j].port <= 255

\* Unknown inputs are left out of the sum; coins with a token id are in neither.
AmountOf(coins)  == FoldLeft(LAMBDA sum, c : Add(sum, c.amount), Zero, coins)
Native(coins)    == SelectSeq(coins, LAMBDA c : c.tokenID = NoToken)
Found(coins)     == FoldLeft(LAMBDA out, c : out \o SetToSeq(Lookup(c.coinID)), <<>>, coins)
Covers(amounts)  == ~LessThan(amounts[1], amounts[2])
Amounts(sides)   == [i \in DOMAIN sides |-> AmountOf(sides[i])]
CheckBalance(t)  == Covers(Amounts(<<Found(Native(t.body.txn.inputs)), Native(t.body.txn.outputs)>>))

\* Mutant: indices from one.
CheckCoinIDsFromOne(t, id) ==
    \A i \in DOMAIN t.body.txn.outputs :
        t.body.txn.outputs[i].coinID \in {<<>>, ComputeCoinID(id, i)}
CheckCoinIDs(t, id) ==
    \A i \in DOMAIN t.body.txn.outputs :
        t.body.txn.outputs[i].coinID \in {<<>>, ComputeCoinID(id, i - 1)}

CheckProof(sp, message) ==
    \/ sp.publicKey = <<>> \/ sp.signature = <<>>
    \/ /\ Len(sp.publicKey) = SigBlocks /\ Len(sp.signature) = SigBlocks
       /\ VerifyWOTS(sp.publicKey, message, sp.signature)
CheckSignatures(t, message) ==
    \A i \in DOMAIN t.body.witness.signatures :
        \A j \in DOMAIN t.body.witness.signatures[i] :
            CheckProof(t.body.witness.signatures[i][j], message)

\* SIGNEDBY takes a group's root key and any key that signed.
Returns(script, witness) ==
    \/ script = TrueScript
    \/ \E i \in DOMAIN witness.signatures :
          LET group == witness.signatures[i] IN
          \/ script = SignedBy(GetRootPublicKey(group))
          \/ \E j \in DOMAIN group : script = SignedBy(group[j].publicKey)
Unlocks(coin, witness, scripts) ==
    /\ scripts # <<>>
    /\ Hash(WriteData(scripts[1].script)) = coin.address
    /\ Returns(scripts[1].script, witness)
CheckScripts(t) ==
    \A i \in DOMAIN t.body.txn.inputs :
        \E coin \in Lookup(t.body.txn.inputs[i].coinID) :
            Unlocks(coin, t.body.witness, ScriptsAt(t.body.witness, coin.address))

Valid(t, id) == /\ CheckSize(t)
                /\ CheckPoW(t, id)
                /\ CheckStateVars(t)
                /\ CheckBalance(t)
                /\ CheckCoinIDs(t, id)
                /\ CheckSignatures(t, Message(id))
                /\ CheckScripts(t)
Validate(t) == Valid(t, ComputeID(t))
=============================================================================
