------------------------------ MODULE MCSpend ------------------------------
(* Coins, transactions and messages that between them use every class of    *)
(* the wire format and every check of the validator.  The older tree key, of *)
(* two leaves, and the seed phrase share no state with the rest: a behaviour *)
(* uses one of the three.                                                    *)
EXTENDS Spend, SeedPhrase

\* A MiniNumber with these bytes.
D(bytes, places) == [unscaled |-> bytes, scale |-> places]
Ones(n) == [i \in 1..n |-> 255]
Key(seed) == GeneratePublicKey(seed)
AddressOf(script) == Hash(WriteData(script))
ByKey  == SignedBy(Key(1))
ByRoot == SignedBy(Hash(WriteData(Key(2))))

\* A state variable of every type.
MCState == << [port |-> 0, type |-> 0, data |-> D(<<253>>, 0)], [port |-> 7, type |-> 1, data |-> <<1, 2>>],
              [port |-> 255, type |-> 2, data |-> <<>>] >>

Coin(id, script, amount, tokenID, state) ==
    [coinID |-> id, address |-> AddressOf(script), amount |-> amount, tokenID |-> tokenID,
     storeState |-> state # <<>>, mmrEntry |-> D(<<Len(state)>>, 0), spent |-> FALSE,
     blockCreated |-> D(<<1, 44>>, 0), stateVars |-> state, token |-> FALSE]
Free   == Coin(<<11>>, TrueScript, D(<<5>>, 0), NoToken, <<>>)
Locked == Coin(<<12>>, ByKey, D(<<25>>, 1), NoToken, MCState)
Token  == Coin(<<13>>, ByRoot, D(<<4>>, 0), <<7>>, <<>>)
Lost   == Coin(<<99>>, TrueScript, D(<<9>>, 0), NoToken, <<>>)

Output(id, amount, tokenID) == Coin(id, TrueScript, amount, tokenID, <<>>)

Node1 == [data |-> <<5, 6>>, value |-> D(<<255>>, 1), spent |-> TRUE]
Path  == [blocktime |-> 70000, entry |-> 1, data |-> Node1, proof |-> <<Node1>>,
          leftPeaks |-> <<>>, rightPeaks |-> <<Node1, Node1>>]
\* The address of a tree of scripts: the validator compares it with the hash of one.
Shared == [Free EXCEPT !.coinID = <<14>>, !.address = RootAbove(TrueScript, Path)]
MCUTxO == {Free, Locked, Token, Shared}

Script(s) == [script |-> s, proof |-> NoProof]
Scripts   == <<Script(TrueScript), Script(ByKey), Script(ByRoot)>>

Transaction(inputs, outputs) ==
    [inputs |-> inputs, outputs |-> outputs, stateVars |-> <<>>, linkHash |-> <<>>]
Witness(coinProofs, scripts) == [signatures |-> <<>>, coinProofs |-> coinProofs, scripts |-> scripts]
Magic(maxSize) ==
    [currentMaxTxPoWSize |-> D(<<64>>, 0), currentMaxKISSVMOps |-> D(<<4, 0>>, 0),
     currentMaxTxnPerBlock |-> D(<<1, 0>>, 0), currentMinTxPoWWork |-> <<255>>,
     desiredMaxTxPoWSize |-> maxSize, desiredMaxKISSVMOps |-> Zero,
     desiredMaxTxnPerBlock |-> Zero, desiredMinTxPoWWork |-> <<>>]
Header(parents, maxSize) ==
    [nonce |-> Zero, chainID |-> <<0>>, timeMilli |-> D(<<35, 40>>, 0), blockNumber |-> D(<<2>>, 0),
     blockDifficulty |-> <<255>>, superParents |-> parents, mmrRoot |-> <<0>>, mmrTotal |-> Zero,
     magic |-> Magic(maxSize), customHash |-> <<0>>, bodyHash |-> <<0>>]
TxPoW(parents, maxSize, difficulty, txn, witness) ==
    [header |-> Header(parents, maxSize),
     body |-> [prng |-> <<1>>, txnDifficulty |-> difficulty, txn |-> txn, witness |-> witness,
               burnTxn |-> Transaction(<<>>, <<>>), burnWitness |-> Witness(<<>>, <<>>),
               txnList |-> << <<8>>, <<9, 9>> >>]]

Plain(inputs, outputs, scripts) ==
    TxPoW(<< <<1>>, <<1>>, <<2>> >>, Zero, Ones(2), Transaction(inputs, outputs), Witness(<<>>, scripts))

\* <<inputs, outputs, scripts>>.
Spends ==
    {<< <<Free>>, <<Output(<<>>, D(<<3>>, 0), NoToken), Output(<<>>, D(<<2>>, 0), NoToken)>>, Scripts>>,
     << <<Free, Locked>>, <<Output(<<>>, D(<<75>>, 1), NoToken)>>, Scripts>>,
     << <<Free>>, <<Output(<<>>, D(<<1, 245>>, 2), NoToken)>>, Scripts>>,
     << <<Token>>, <<Output(<<>>, D(<<4>>, 0), <<7>>)>>, Scripts>>,
     << <<Lost>>, <<>>, Scripts>>,
     << <<Shared>>, <<>>, <<[script |-> TrueScript, proof |-> Path]>> >>}
\* <<super parents, largest size, difficulty>>.
Empty == {<< << <<1>>, <<2>>, <<2>> >>, Zero, <<185>> >>,
          << << <<2>>, <<2>>, <<2>> >>, D(<<0, 200>>, 0), <<>> >>}
MCTemplates ==
    {Plain(x[1], x[2], x[3]) : x \in Spends} \cup
    {TxPoW(x[1], x[2], x[3], Transaction(<<>>, <<>>), Witness(<<>>, <<>>)) : x \in Empty}

CoinProof(coin) == [coin |-> coin, proof |-> Path]
Proved == TxPoW(<< <<2>>, <<2>>, <<2>> >>, Zero, <<>>, Transaction(<<Locked>>, <<Token>>),
                Witness(<<CoinProof(Locked), CoinProof(Token)>>, Scripts))
TxBlock == [txpow |-> Proved, previousPeaks |-> <<[row |-> 2, entry |-> 1, data |-> Node1]>>,
            spentCoins |-> <<CoinProof(Free)>>, newCoins |-> <<Token, Lost>>]
CascadeNode(parents, level) ==
    [header |-> Header(parents, Zero), level |-> D(<<level>>, 0), superLevel |-> level]
IBD(cascade, blocks) == [cascade |-> cascade, txBlocks |-> blocks]
MCParcels ==
    {<<"greeting", [version |-> <<49, 46>>, extraData |-> <<123, 125>>, topBlock |-> D(<<255>>, 0), chain |-> <<>>]>>,
     <<"greeting", [version |-> <<>>, extraData |-> <<>>, topBlock |-> D(<<1, 44>>, 0), chain |-> << <<4>>, <<>> >>]>>,
     <<"pulse", [ids |-> << <<4>>, <<5>> >>]>>,
     <<"ping", <<>>>>, <<"singlePing", <<0>>>>, <<"singlePong", <<>>>>, <<"txpowID", <<4, 200>>>>,
     <<"txpowReq", <<4, 200>>>>, <<"txBlockID", <<0, 5>>>>, <<"txBlockReq", <<5>>>>,
     <<"ibdReq", [fromBlock |-> D(<<0>>, 0), toBlock |-> D(<<1, 44>>, 0)]>>,
     <<"txBlock", TxBlock>>,
     <<"ibd", IBD(NoCascade, <<>>)>>,
     <<"ibd", IBD(<<CascadeNode(<< <<3>>, <<3>>, <<4>> >>, 0), CascadeNode(<< <<0>>, <<0>>, <<0>> >>, 1)>>, <<TxBlock>>)>>,
     <<"ibd", IBD(<<>>, <<TxBlock, TxBlock, TxBlock>>)>>}
MCRandoms == {<<6>>}

\* 6 bits, of whose 3 check bits 2 are written, in 2 words; 9 and all 3 in 3.
MCSizes     == {<<2, 2>>, <<3, 3>>}
MCEntropies == [1..2 -> 0..7] \cup [1..3 -> {0, 5, 7}]
MCSources   == {<<4>>, <<4, 1, 6, 2>>}
MCOlderMessages == {0, 6, 11, 15}

SpendUnused  == wallet = <<>> /\ keyUsed = 0 /\ sent = None /\ verdict = None /\ txpow = MakeGenesisTxPoW
OlderUnused  == olderSigned = {}
PhraseUnused == written = NoPhrase

SpendInit == Init /\ OlderKeysInit /\ PhraseInit
SpendNext ==
    \/ OlderUnused /\ PhraseUnused /\ Next /\ UNCHANGED <<olderKeyVars, phraseVars>>
    \/ SpendUnused /\ PhraseUnused /\ OlderKeysNext /\ UNCHANGED <<vars, phraseVars>>
    \/ SpendUnused /\ OlderUnused /\ PhraseNext /\ UNCHANGED <<vars, olderKeyVars>>
SpendSpec == SpendInit /\ [][SpendNext]_<<vars, olderKeyVars, phraseVars>>
=============================================================================
