-------------------------------- MODULE Wire --------------------------------
(***************************************************************************)
(* The wire format: src/types, src/mmr and src/objects write and read      *)
(* their objects with hand-written serialise and deserialise functions.  A table *)
(* of <<field, type>> per class gives the order in which they write        *)
(* and reads; Write and Read interpret the tables over byte strings.       *)
(*                                                                         *)
(* A byte is an integer; the elements of a hash or of a one-time key are   *)
(* opaque integers.  The limits the readers set to a length (65536, 32 and   *)
(* so on) are left out: only bytes of a writer are read.                   *)
(***************************************************************************)
EXTENDS MiniNumber, TLC

CONSTANTS Levels,   \* CASCADE_LEVELS, 32 in the code
          NoToken,  \* a token id that is not set
          NoCascade \* an IBD without cascade

ASSUME LevelsAssumption == Levels \in Nat \ {0}

-----------------------------------------------------------------------------
(* Primitive types.                                                        *)

BigEndian(n, width) ==
    FoldLeft(LAMBDA acc, i : [left |-> acc.left \div 256, bytes |-> <<acc.left % 256>> \o acc.bytes],
             [left |-> n, bytes |-> <<>>], [i \in 1..width |-> i]).bytes
Unsigned(bytes) == FoldLeft(LAMBDA acc, b : acc * 256 + b, 0, bytes)
Slice(s, at, n) == SubSeq(s, at, at + n - 1)

WriteData(bytes)  == BigEndian(Len(bytes), 4) \o bytes
WriteNumber(x)    == <<x.scale % 256, Len(x.unscaled)>> \o x.unscaled
WriteFlag(b)      == <<IF b THEN 1 ELSE 0>>
Whole(n)          == [unscaled |-> OfInt(n), scale |-> 0]

Result(value, at) == [value |-> value, at |-> at]
ReadUnsigned(s, at, width) == Result(Unsigned(Slice(s, at, width)), at + width)
ReadBytes(s, at, n) == Result(Slice(s, at, n), at + n)
ReadData(s, at) == ReadBytes(s, at + 4, Unsigned(Slice(s, at, 4)))
Int8(b) == IF b < 128 THEN b ELSE b - 256
ReadNumber(s, at) ==
    Result([unscaled |-> Slice(s, at + 2, s[at + 1]), scale |-> Int8(s[at])], at + 2 + s[at + 1])

-----------------------------------------------------------------------------
(* The fields of each object, in the order in which its serialise writes   *)
(* and its deserialise reads them.  A coin is read in another way.         *)

CoinWritten == << <<"coinID", "data">>, <<"address", "data">>, <<"amount", "number">>,
                  <<"tokenID", "tokenID">>, <<"storeState", "flag">>, <<"mmrEntry", "number">>,
                  <<"spent", "numberFlag">>, <<"blockCreated", "number">>,
                  <<"stateVars", "stateVars">>, <<"token", "noToken">> >>
TransactionFields == << <<"inputs", "coins">>, <<"outputs", "coins">>,
                         <<"stateVars", "stateVars">>, <<"linkHash", "data">> >>
SignatureProofFields == << <<"publicKey", "data">>, <<"signature", "data">>, <<"proof", "mmrProof">> >>
ScriptProofFields == << <<"script", "data">>, <<"proof", "mmrProof">> >>
CoinProofFields   == << <<"coin", "coin">>, <<"proof", "mmrProof">> >>
WitnessFields     == << <<"signatures", "signatures">>, <<"coinProofs", "coinProofs">>,
                         <<"scripts", "scriptProofs">> >>
MMRDataFields  == << <<"data", "boxedData">>, <<"value", "boxedNumber">>, <<"spent", "flag">> >>
MMRProofFields == << <<"blocktime", "u64">>, <<"entry", "u64">>, <<"data", "mmrData">>,
                      <<"proof", "nodes">>, <<"leftPeaks", "nodes">>, <<"rightPeaks", "nodes">> >>
MMREntryFields == << <<"row", "u32">>, <<"entry", "u64">>, <<"data", "mmrData">> >>
MagicFields == << <<"currentMaxTxPoWSize", "number">>, <<"currentMaxKISSVMOps", "number">>,
                   <<"currentMaxTxnPerBlock", "number">>, <<"currentMinTxPoWWork", "data">>,
                   <<"desiredMaxTxPoWSize", "number">>, <<"desiredMaxKISSVMOps", "number">>,
                   <<"desiredMaxTxnPerBlock", "number">>, <<"desiredMinTxPoWWork", "data">> >>
HeaderFields == << <<"nonce", "number">>, <<"chainID", "data">>, <<"timeMilli", "number">>,
                    <<"blockNumber", "number">>, <<"blockDifficulty", "data">>,
                    <<"superParents", "runs">>, <<"mmrRoot", "data">>, <<"mmrTotal", "number">>,
                    <<"magic", "magic">>, <<"customHash", "data">>, <<"bodyHash", "data">> >>
BodyFields == << <<"prng", "data">>, <<"txnDifficulty", "data">>, <<"txn", "transaction">>,
                  <<"witness", "witness">>, <<"burnTxn", "transaction">>,
                  <<"burnWitness", "witness">>, <<"txnList", "ids">> >>
TxPoWFields   == << <<"header", "header">>, <<"body", "optionalBody">> >>
TxBlockFields == << <<"txpow", "txpow">>, <<"previousPeaks", "entries">>,
                     <<"spentCoins", "coinProofs">>, <<"newCoins", "coins">> >>
CascadeNodeFields == << <<"header", "header">>, <<"level", "number">> >>
IBDFields      == << <<"cascade", "optionalCascade">>, <<"txBlocks", "txBlocks">> >>
GreetingFields == << <<"version", "data">>, <<"extraData", "data">>, <<"topBlock", "number">>,
                      <<"chain", "ids">> >>
PulseFields    == << <<"ids", "fewIds">> >>
IBDReqFields   == << <<"fromBlock", "number">>, <<"toBlock", "number">> >>

FieldsOf == [coin |-> CoinWritten, transaction |-> TransactionFields,
             signatureProof |-> SignatureProofFields, scriptProof |-> ScriptProofFields,
             coinProof |-> CoinProofFields, witness |-> WitnessFields, mmrData |-> MMRDataFields,
             mmrProof |-> MMRProofFields, mmrEntry |-> MMREntryFields, magic |-> MagicFields,
             header |-> HeaderFields, txBody |-> BodyFields, txpow |-> TxPoWFields,
             txBlock |-> TxBlockFields, cascadeNode |-> CascadeNodeFields, ibd |-> IBDFields,
             greeting |-> GreetingFields, pulse |-> PulseFields, ibdReq |-> IBDReqFields]

\* Lists: the type of an element and how the count is written.
ListOf == [coins |-> <<"coin", "number">>, stateVars |-> <<"stateVariable", "number">>,
           signatures |-> <<"signature", "number">>, signature |-> <<"signatureProof", "number">>,
           scriptProofs |-> <<"scriptProof", "number">>, coinProofs |-> <<"coinProof", "number">>,
           entries |-> <<"mmrEntry", "number">>, txBlocks |-> <<"txBlock", "number">>,
           cascade |-> <<"cascadeNode", "number">>, ids |-> <<"data", "number">>,
           nodes |-> <<"mmrData", "u32">>, fewIds |-> <<"data", "byte">>]

WriteCount(kind, n) == CASE kind = "number" -> WriteNumber(Whole(n))
                         [] kind = "u32"    -> BigEndian(n, 4)
                         [] kind = "byte"   -> <<n % 256>>

\* The super parents as runs <<count, hash>> of equal hashes.
RunStarts(hashes) == {i \in DOMAIN hashes : i = 1 \/ hashes[i] # hashes[i - 1]}
RunLength(hashes, i) == CHOOSE n \in 1..Len(hashes) :
                            /\ i + n \in RunStarts(hashes) \cup {Len(hashes) + 1}
                            /\ \A j \in i + 1..i + n - 1 : j \notin RunStarts(hashes)
WriteRuns(hashes) ==
    FoldLeft(LAMBDA out, i : out \o <<RunLength(hashes, i)>> \o WriteData(hashes[i]),
             <<>>, SetToSortSeq(RunStarts(hashes), <))

\* The types of a StateVariable's data: VALUE, HEX and SCRIPT.
StateTypes == <<"number", "data", "data">>

RECURSIVE Write(_, _)
Write(type, v) ==
    CASE type = "u32"        -> BigEndian(v, 4)
      [] type = "u64"        -> BigEndian(v, 8)
      [] type = "flag"       -> WriteFlag(v)
      [] type = "data"       -> WriteData(v)
      [] type = "number"     -> WriteNumber(v)
      [] type = "numberFlag" -> WriteNumber(Whole(IF v THEN 1 ELSE 0))
      [] type = "tokenID"    -> WriteData(IF v = NoToken THEN <<0>> ELSE v)
      [] type = "noToken"    -> WriteFlag(FALSE)
      [] type \in {"raw", "nothing"} -> v
      [] type = "boxedData"  -> WriteData(WriteData(v))
      [] type = "boxedNumber" -> WriteData(WriteNumber(v))
      [] type = "runs"       -> WriteRuns(v)
      [] type = "stateVariable" -> <<v.port, v.type>> \o Write(StateTypes[v.type + 1], v.data)
      [] type = "optionalBody" -> WriteFlag(TRUE) \o Write("txBody", v)
      [] type = "optionalCascade" -> IF v = NoCascade THEN WriteFlag(FALSE)
                                     ELSE WriteFlag(TRUE) \o Write("cascade", v)
      [] type \in DOMAIN ListOf ->
            FoldLeft(LAMBDA out, x : out \o Write(ListOf[type][1], x),
                     WriteCount(ListOf[type][2], Len(v)), v)
      [] type \in DOMAIN FieldsOf ->
            FoldLeft(LAMBDA out, f : out \o Write(f[2], v[f[1]]), <<>>, FieldsOf[type])

-----------------------------------------------------------------------------
(* Reading.                                                                *)

\* Mutant: the two numbers of a coin are read in the other order.
CoinReadSwapped == << <<"coinID", "data">>, <<"address", "data">>, <<"amount", "number">>,
                      <<"tokenID", "data">>, <<"storeState", "flag">>, <<"blockCreated", "number">>,
                      <<"spent", "numberFlag">>, <<"mmrEntry", "number">>,
                      <<"stateVars", "stateVars">>, <<"token", "flag">> >>
CoinRead == << <<"coinID", "data">>, <<"address", "data">>, <<"amount", "number">>,
               <<"tokenID", "data">>, <<"storeState", "flag">>, <<"mmrEntry", "number">>,
               <<"spent", "numberFlag">>, <<"blockCreated", "number">>,
               <<"stateVars", "stateVars">>, <<"token", "flag">> >>
ReadBy == [coin |-> CoinRead] @@ FieldsOf

AsCount(r) == Result(AsLong(r.value), r.at)
ReadCount(kind, s, at) ==
    CASE kind = "number" -> AsCount(ReadNumber(s, at))
      [] kind = "u32"    -> ReadUnsigned(s, at, 4)
      [] kind = "byte"   -> ReadUnsigned(s, at, 1)

\* Runs are read until all the levels are filled; a longer run is cut.
RECURSIVE ReadRuns(_, _, _)
ReadRuns(filled, s, at) ==
    LET hash == ReadData(s, at + 1)
        room == Levels - Len(filled)
        copies == IF s[at] < room THEN s[at] ELSE room
    IN  IF Len(filled) = Levels THEN Result(filled, at)
        ELSE ReadRuns(filled \o [i \in 1..copies |-> hash.value], s, hash.at)

\* deriveSuperLevel: the level of a cascade node is not on the wire.
DerivedLevel(parents) ==
    CHOOSE level \in 0..Levels - 1 :
        /\ \A i \in 2..level + 1 : parents[i] = parents[1] /\ parents[1] # <<>>
        /\ \/ level = Levels - 1
           \/ parents[level + 2] # parents[1]
           \/ parents[1] = <<>>
WithSuperLevel(r) ==
    Result(r.value @@ [superLevel |-> DerivedLevel(r.value.header.superParents)], r.at)

\* Nothing is read past the end.
Ended(r, s) == r.at > Len(s)
Then(r, fields, name) == Result((name :> r.value) @@ fields, r.at)
NotZero(r) == Result(r.value # 0, r.at)
Push(r, list) == Result(Append(list, r.value), r.at)
Tagged(r, port, type) == Result([port |-> port, type |-> type, data |-> r.value], r.at)

RECURSIVE Read(_, _, _)
ReadList(element, count, s) ==
    FoldLeft(LAMBDA acc, i : IF Ended(acc, s) THEN acc ELSE Push(Read(element, s, acc.at), acc.value),
             Result(<<>>, count.at), [i \in 1..count.value |-> i])
ReadFields(fields, s, at) ==
    FoldLeft(LAMBDA acc, f : IF Ended(acc, s) THEN acc ELSE Then(Read(f[2], s, acc.at), acc.value, f[1]),
             Result([x \in {} |-> x], at), fields)
Unboxed(type, box) == Result(Read(type, box.value, 1).value, box.at)
Read(type, s, at) ==
    CASE type = "u32"        -> ReadUnsigned(s, at, 4)
      [] type = "u64"        -> ReadUnsigned(s, at, 8)
      [] type = "flag"       -> Result(s[at] # 0, at + 1)
      [] type = "data"       -> ReadData(s, at)
      [] type = "number"     -> ReadNumber(s, at)
      [] type = "raw"        -> Result(SubSeq(s, at, Len(s)), Len(s) + 1)
      [] type = "nothing"    -> Result(<<>>, at)
      [] type = "numberFlag" -> NotZero(ReadCount("number", s, at))
      [] type = "boxedData"  -> Unboxed("data", ReadData(s, at))
      [] type = "boxedNumber" -> Unboxed("number", ReadData(s, at))
      [] type = "runs"       -> ReadRuns(<<>>, s, at)
      [] type = "stateVariable" -> Tagged(Read(StateTypes[s[at + 1] + 1], s, at + 2), s[at], s[at + 1])
      [] type = "optionalBody" -> Read("txBody", s, at + 1)
      [] type = "optionalCascade" -> IF s[at] = 0 THEN Result(NoCascade, at + 1)
                                     ELSE Read("cascade", s, at + 1)
      [] type = "cascadeNode" -> WithSuperLevel(ReadFields(ReadBy[type], s, at))
      [] type \in DOMAIN ListOf -> ReadList(ListOf[type][1], ReadCount(ListOf[type][2], s, at), s)
      [] type \in DOMAIN FieldsOf \ {"cascadeNode"} -> ReadFields(ReadBy[type], s, at)

-----------------------------------------------------------------------------
(* Messages: NIOMsg::encode behind a length, NIOClient::receive and decode. *)

CONSTANT MaxMessage \* kMaxMessageSize

MessageCode == [greeting |-> 0, ibd |-> 1, txpowID |-> 2, txpowReq |-> 3, txpow |-> 4, pulse |-> 6,
                ping |-> 8, singlePing |-> 11, singlePong |-> 12, ibdReq |-> 13,
                txBlockID |-> 18, txBlockReq |-> 19, txBlock |-> 20]

\* The type of a payload: in the requests of NIOClient, in the messages of
\* NIOMessage.hpp (the two about a TxBlock carry the id without a length), and
\* in those P2PSync reads.
Requested == [ping |-> "nothing", txpowReq |-> "data", ibdReq |-> "ibdReq"]
Built     == [txpow |-> "txpow", singlePing |-> "data", singlePong |-> "nothing"]
Announced == [txBlockID |-> "raw", txBlockReq |-> "raw"]
Flooded   == [txpowID |-> "data", txBlock |-> "txBlock", ibd |-> "ibd"]
Payload   == Requested @@ Built @@ Announced @@ Flooded
             @@ [greeting |-> "greeting", pulse |-> "pulse"]

Frame(kind, object) == WriteData(<<MessageCode[kind]>> \o Write(Payload[kind], object))

KindOf(code) == CHOOSE kind \in DOMAIN MessageCode : MessageCode[kind] = code
Refused(frame) == Len(frame) - 4 > MaxMessage
Receive(frame) == Read(Payload[KindOf(frame[5])], frame, 6).value
=============================================================================
