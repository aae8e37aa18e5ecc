---------------------------- MODULE WireMessages ----------------------------
(***************************************************************************)
(* Package wire: the encodings its messages are made of, every message     *)
(* with what its BtcEncode (Serialize) writes and what its BtcDecode       *)
(* (Deserialize) reads back, translated independently of each other, the   *)
(* limit MaxPayloadLength sets on it and the dispatch from its command;    *)
(* and the messages on a connection.                                       *)
(*                                                                         *)
(* A stream is a sequence of tokens <<size, value>>: size is the number of *)
(* bytes one write puts on the stream and value stands for their contents. *)
(* A read of n bytes succeeds on a token of n bytes.  Byte strings and     *)
(* lists whose elements all have the same size are represented by their    *)
(* length, so the limits of the code are the ones used here.  A 64-bit     *)
(* number of 2^32 or more is represented by a negative integer.            *)
(*                                                                         *)
(* Two peers and the connection between them: WriteMessageWithEncodingN    *)
(* and ReadMessageWithEncodingN on a plain connection, WriteV2MessageN and *)
(* ReadV2MessageN on an encrypted one, and what the reading peer does with *)
(* an error (peer.go, inHandler).  A plain connection is a stream, a frame *)
(* the token of its header followed by those of its payload.  An encrypted *)
(* connection is a sequence of packets, each with the tokens of a message. *)
(***************************************************************************)
EXTENDS Integers, Sequences, FiniteSets, SequencesExt, TLC

CONSTANTS Samples,      \* pairs <<command, message>> a peer may send first
          Pvers,        \* protocol versions
          Probe         \* the pair every peer sends next

VARIABLES link,     \* [pver, wit, v2, tolerant]: how the connection was set up
          todo,     \* the pairs still to be written
          conn,     \* what is on its way
          sent,     \* the pairs that were written
          got,      \* the pairs that were read
          damage,   \* what happened to the bytes on their way
          alive     \* the reading peer is connected

linkVars == <<link, todo, conn, sent, got, damage, alive>>

-----------------------------------------------------------------------------
(* The encodings of the elements.                                          *)

HashSize == 32
MaxVarIntPayload == 9
MaxMessagePayload == 1024 * 1024 * 32
MaxBlockPayload == 4000000
MultipleAddressVersion == 209
NetAddressTimeVersion == 31402
BIP0031Version == 60000
BIP0035Version == 60002
BIP0037Version == 70001
RejectVersion == 70002
SendHeadersVersion == 70012
FeeFilterVersion == 70013
MaxInvPerMsg == 50000
MaxAddrPerMsg == 1000
MaxBlockHeadersPerMsg == 2000
MaxBlockLocatorsPerMsg == 500
maxCFHeadersLen == 100000
MaxCFHeadersPerMsg == 2000
MaxCFilterDataSize == 256 * 1024
MaxFilterAddDataSize == 520
MaxFilterLoadHashFuncs == 50
MaxFilterLoadFilterSize == 36000
MaxUserAgentLen == 256
MaxScriptSize == 10000
MaxPossibleInputsPerBlock == 24386
MaxUtreexoTTLExponent == 5
MaxUtreexoTTLsPerMsg == 2 ^ MaxUtreexoTTLExponent
maxTxPerBlock == (MaxBlockPayload \div 10) + 1
maxTxInPerMessage == (MaxMessagePayload \div 41) + 1
maxTxOutPerMessage == (MaxMessagePayload \div 9) + 1
maxWitnessItemsPerInput == 4000000
maxWitnessItemSize == 4000000
maxAlertSize == MaxMessagePayload - 72 - MaxVarIntPayload - 1
maxCountSetCancel == (maxAlertSize - 45 - MaxVarIntPayload + 1) \div 4
maxCountSetSubVer == (maxAlertSize - 45 - MaxVarIntPayload + 1) \div 256
maxAddrV2Size == 512
BlockHeaderLen == 80
MaxProofHashes ==
    (51 - 15) * MaxPossibleInputsPerBlock + (2 ^ 15 - MaxPossibleInputsPerBlock)

-----------------------------------------------------------------------------
(* The writing side: a sequence of tokens, or Refused when an encoder      *)
(* returns an error.                                                       *)

Fix(n, v) == <<<<n, v>>>>
Many(n, size) == IF n = 0 THEN <<>> ELSE Fix(n * size, n)
Refused == <<<<0, 0>>>>

\* seq folded from the left.
Fold(op(_, _), base, seq) ==
    LET acc[i \in 0 .. Len(seq)] == IF i = 0 THEN base ELSE CHOOSE r \in {op(v, seq[i]) : v \in {acc[i - 1]}} : TRUE
    IN  acc[Len(seq)]

\* The bytes of w, added up by halves.
SizeOf(w) ==
    LET sum[i, j \in 0 .. Len(w)] ==
            IF j <= i + 1 THEN IF i = j THEN 0 ELSE w[j][1]
            ELSE LET k == (i + j) \div 2 IN sum[i, k] + sum[k, j]
    IN  sum[0, Len(w)]

VarIntSerializeSize(v) ==
    IF v < 0 THEN 9 ELSE IF v < 253 THEN 1 ELSE IF v <= 65535 THEN 3 ELSE 5

WriteVarInt(v) ==
    CASE v < 0     -> Fix(1, 255) \o Fix(8, v)
      [] v \in 0 .. 252 -> Fix(1, v)
      [] v \in 253 .. 65535 -> Fix(1, 253) \o Fix(2, v)
      [] OTHER     -> Fix(1, 254) \o Fix(4, v)

WriteVarBytes(n) == WriteVarInt(n) \o Many(n, 1)
WriteVarString(n) == WriteVarInt(n) \o Many(n, 1)

\* The writes of every element of a list, one after the other.
Each(list, Write(_)) == Fold(LAMBDA w, x : w \o Write(x), <<>>, list)

-----------------------------------------------------------------------------
(* The reading side: the rest of the stream, the fields read so far, the   *)
(* number read last, and whether a read failed.                            *)

Reader(in) == [in |-> in, m |-> <<>>, n |-> 0, ok |-> TRUE]
Set(s, f, v) == [s EXCEPT !.m = (f :> v) @@ @]
RefuseIf(s, cond) == [s EXCEPT !.ok = @ /\ ~cond]

\* The tokens that hold the next n bytes; all when the connection ends before them.
Upto(in, n) ==
    LET At[k \in 0 .. Len(in)] == IF k = 0 THEN 0 ELSE At[k - 1] + in[k][1]
        ends == {k \in 0 .. Len(in) : At[k] = n}
    IN  IF ends = {} THEN Len(in) ELSE CHOOSE k \in ends : TRUE

\* io.ReadFull of n bytes.
Take(s, n) ==
    CASE ~s.ok \/ n = 0 -> [s EXCEPT !.n = 0]
      [] s.ok /\ n # 0 /\ s.in # <<>> /\ Head(s.in)[1] = n ->
            [s EXCEPT !.in = Tail(@), !.n = Head(s.in)[2]]
      [] OTHER -> [s EXCEPT !.ok = FALSE]

\* A plain Read of n bytes: fewer bytes than asked for are no error.
Read(s, n) ==
    IF s.ok /\ s.in # <<>> /\ Head(s.in)[1] < n /\ Len(s.in) = 1
    THEN [s EXCEPT !.in = <<>>, !.n = Head(s.in)[2]]
    ELSE Take(s, n)

\* One read after another.
Then(s, Read2(_)) == Read2(s)

\* The number read last becomes field f.
Keep(s, f) == Set(s, f, s.n)
Elem(s, f, n) == Keep(Take(s, n), f)
ReadElem(s, f, n) == Keep(Read(s, n), f)

\* The number after its discriminant d, which must need as many bytes.
Wide(d) ==
    CASE d.n = 255 -> Then(Take(d, 8), LAMBDA v : RefuseIf(v, v.n >= 0))
      [] d.n = 254 -> Then(Take(d, 4), LAMBDA v : RefuseIf(v, v.n < 65536))
      [] d.n = 253 -> Then(Take(d, 2), LAMBDA v : RefuseIf(v, v.n < 253))
      [] OTHER -> d
ReadVarInt(s) == Then(Take(s, 1), LAMBDA d : IF d.ok THEN Wide(d) ELSE d)

Bounded(s, max) == RefuseIf(s, s.n > max \/ s.n < 0)
Counted(s, max) == Bounded(ReadVarInt(s), max)
VarInt(s, f) == Keep(ReadVarInt(s), f)
\* As many elements of size bytes as the number read last, which is kept.
Elements(s, f, size) == Set(Take(s, s.n * size), f, s.n)
ReadVarBytes(s, f, max) == Elements(Counted(s, max), f, 1)
ReadVarString(s, f) == Elements(Counted(s, MaxMessagePayload), f, 1)
\* A count, refused above max, and that many elements of size bytes.
List(s, f, max, size) == Elements(Counted(s, max), f, size)
\* A count, used as it comes, and that many elements of size bytes.
OpenList(s, f, size) == Elements(ReadVarInt(s), f, size)

\* n records read one after the other and appended to field f; the read of a
\* record starts with no fields.
Records(s, f, n, ReadOne(_)) ==
    IF ~s.ok THEN s
    ELSE Fold(LAMBDA acc, i :
                 Then(ReadOne([acc EXCEPT !.m = <<>>]),
                      LAMBDA r : [r EXCEPT !.m = (f :> Append(acc.m[f], r.m)) @@ acc.m]),
              Set(s, f, <<>>), [i \in 1 .. n |-> i])

-----------------------------------------------------------------------------
(* Block headers and network addresses.                                    *)

writeBlockHeader(h) ==
    Fix(4, h.version) \o Fix(32, h.prev) \o Fix(32, h.root)
        \o Fix(4, h.time) \o Fix(4, h.bits) \o Fix(4, h.nonce)

readBlockHeader(s) ==
    LET a == Elem(Elem(Elem(s, "version", 4), "prev", 32), "root", 32)
    IN  Elem(Elem(Elem(a, "time", 4), "bits", 4), "nonce", 4)

maxNetAddressPayload(pver) == IF pver >= NetAddressTimeVersion THEN 30 ELSE 26

writeNetAddress(na, pver, ts) ==
    (IF ts /\ pver >= NetAddressTimeVersion THEN Fix(4, na.time) ELSE <<>>)
        \o Fix(8, na.services) \o Fix(16, na.ip) \o Fix(2, na.port)

readNetAddress(s, pver, ts) ==
    LET t == IF ts /\ pver >= NetAddressTimeVersion
             THEN Elem(s, "time", 4) ELSE Set(s, "time", 0)
    IN  Elem(Elem(Elem(t, "services", 8), "ip", 16), "port", 2)

\* The networks of BIP-155 by number, and the size of their addresses.
AddrSize == <<4, 16, 10, 32, 32, 16>>
isKnownNetworkID(id) == id \in 1 .. 6
WritableNets == 1 .. 4      \* ipv4, ipv6, torv2, torv3

writeNetAddressV2(na) ==
    IF na.net \notin WritableNets THEN Refused
    ELSE Fix(4, na.time) \o WriteVarInt(na.services) \o Fix(1, na.net)
            \o WriteVarInt(AddrSize[na.net]) \o Fix(AddrSize[na.net], na.addr)
            \o Fix(2, na.port)

\* An address on a network that is not kept is read to its end and skipped.
\* addr values 1 and 2 are the OnionCat and the IPv4-mapped ranges of ipv6.
AddressOf(h) ==
    LET known == isKnownNetworkID(h.m["net"])
        wrong == IF known THEN h.n # AddrSize[h.m["net"]] ELSE h.n \notin 0 .. maxAddrV2Size
        Done(b, kept) == [s |-> b, err |-> IF ~b.ok THEN "read" ELSE IF kept THEN "none" ELSE "skip"]
    IN  CASE ~h.ok -> [s |-> h, err |-> "read"]
          [] h.ok /\ wrong -> [s |-> h, err |-> "size"]
          [] h.ok /\ ~wrong /\ ~known -> Done(Take(Take(h, h.n), 2), FALSE)
          [] OTHER ->
                Then(Elem(Elem(h, "addr", h.n), "port", 2),
                     LAMBDA b : Done(b, /\ b.m["net"] \notin {5, 6}
                                        /\ ~(b.m["net"] = 2 /\ b.m["addr"] \in {1, 2})))
readNetAddressV2(s) ==
    AddressOf(ReadVarInt(Elem(VarInt(Elem(s, "time", 4), "services"), "net", 1)))

-----------------------------------------------------------------------------
(* Transactions and blocks.  wit is the sequence of the lengths of the     *)
(* witness items of an input.                                              *)

WriteTxOut(to) == Fix(8, to.value) \o WriteVarBytes(to.script)
ReadTxOut(s) == ReadVarBytes(Elem(s, "value", 8), "script", MaxMessagePayload)

writeTxIn(ti) ==
    Fix(32, ti.hash) \o Fix(4, ti.index) \o WriteVarBytes(ti.script) \o Fix(4, ti.seq)
readTxIn(s) ==
    LET o == Elem(Elem(s, "hash", 32), "index", 4)
        t == Elem(ReadVarBytes(o, "script", MaxMessagePayload), "seq", 4)
    IN  Set(t, "wit", <<>>)

writeTxWitness(wit) == WriteVarInt(Len(wit)) \o Each(wit, WriteVarBytes)
HasWitness(tx) == \E i \in 1 .. Len(tx.ins) : tx.ins[i].wit # <<>>

MsgTxEncode(tx, witness) ==
    LET doWitness == witness /\ HasWitness(tx)
    IN  Fix(4, tx.version)
          \o (IF doWitness THEN Fix(1, 0) \o Fix(1, 1) ELSE <<>>)
          \o WriteVarInt(Len(tx.ins)) \o Each(tx.ins, writeTxIn)
          \o WriteVarInt(Len(tx.outs)) \o Each(tx.outs, WriteTxOut)
          \o (IF doWitness THEN Each(tx.ins, LAMBDA ti : writeTxWitness(ti.wit)) ELSE <<>>)
          \o Fix(4, tx.lock)

\* The witness of every input, in the order of the inputs.
ReadWitnesses(s) ==
    LET Items(c) == Records(c, "items", c.n, LAMBDA r : ReadVarBytes(r, "item", maxWitnessItemSize))
        Wit(list) == [j \in 1 .. Len(list) |-> list[j]["item"]]
        Given(acc, i, t) ==
            IF ~t.ok THEN [acc EXCEPT !.ok = FALSE]
            ELSE [t EXCEPT !.m = [acc.m EXCEPT !["ins"][i] = ("wit" :> Wit(t.m["items"])) @@ @]]
    IN  Fold(LAMBDA acc, i : Given(acc, i, Then(Counted(acc, maxWitnessItemsPerInput), Items)),
             s, [i \in 1 .. Len(s.m["ins"]) |-> i])

ReadTxIns(s) == Records(Bounded(s, maxTxInPerMessage), "ins", s.n, readTxIn)
ReadTxOuts(s) == Records(Bounded(s, maxTxOutPerMessage), "outs", s.n, ReadTxOut)
\* c follows the count of the inputs; a count of 0 may be the marker of a witness.
TxBody(c, marked) ==
    LET n == IF marked THEN ReadVarInt(Then(Take(c, 1), LAMBDA f : RefuseIf(f, f.n # 1))) ELSE c
        Witnesses(t) == IF t.ok /\ marked THEN ReadWitnesses(t) ELSE t
    IN  Elem(Witnesses(Then(ReadVarInt(Then(n, ReadTxIns)), ReadTxOuts)), "lock", 4)
MsgTxDecode(s, witness) ==
    Then(ReadVarInt(Elem(s, "version", 4)), LAMBDA c : TxBody(c, c.ok /\ c.n = 0 /\ witness))

TxInSize(ti) == 40 + VarIntSerializeSize(ti.script) + ti.script
TxOutSize(to) == 8 + VarIntSerializeSize(to.script) + to.script
WitnessSize(wit) ==
    Fold(LAMBDA n, l : n + VarIntSerializeSize(l) + l, VarIntSerializeSize(Len(wit)), wit)
baseSize(tx) ==
    LET ins == Fold(LAMBDA n, ti : n + TxInSize(ti), 0, tx.ins)
        outs == Fold(LAMBDA n, to : n + TxOutSize(to), 0, tx.outs)
    IN  8 + VarIntSerializeSize(Len(tx.ins)) + VarIntSerializeSize(Len(tx.outs)) + ins + outs
TxSerializeSize(tx) ==
    baseSize(tx) + IF ~HasWitness(tx) THEN 0
                   ELSE Fold(LAMBDA n, ti : n + WitnessSize(ti.wit), 2, tx.ins)

\* Where the scripts of the outputs start.  A decoded transaction with a
\* witness has a non-nil one on every input, the case the code tests.
PkScriptLocs(tx) ==
    LET before == 4 + VarIntSerializeSize(Len(tx.ins)) + VarIntSerializeSize(Len(tx.outs))
                    + (IF HasWitness(tx) THEN 2 ELSE 0)
                    + Fold(LAMBDA n, ti : n + TxInSize(ti), 0, tx.ins)
        Start(i) == before + Fold(LAMBDA n, to : n + TxOutSize(to), 0, SubSeq(tx.outs, 1, i - 1))
    IN  [i \in 1 .. Len(tx.outs) |->
            Start(i) + 8 + VarIntSerializeSize(tx.outs[i].script)]

MsgBlockEncode(b, witness) ==
    writeBlockHeader(b.header) \o WriteVarInt(Len(b.txs))
        \o Each(b.txs, LAMBDA tx : MsgTxEncode(tx, witness))

MsgBlockDecode(s, witness) ==
    Then(Counted([readBlockHeader(s) EXCEPT !.m = "header" :> @], maxTxPerBlock),
         LAMBDA c : Records(c, "txs", c.n, LAMBDA r : MsgTxDecode(r, witness)))

BlockSerializeSize(b) ==
    Fold(LAMBDA n, tx : n + TxSerializeSize(tx),
             BlockHeaderLen + VarIntSerializeSize(Len(b.txs)), b.txs)
BlockSizeStripped(b) ==
    Fold(LAMBDA n, tx : n + baseSize(tx),
             BlockHeaderLen + VarIntSerializeSize(Len(b.txs)), b.txs)

\* DeserializeTxLoc: where every transaction of a serialized block starts and
\* how long it is, by what is left of the stream before and after it is read.
DeserializeTxLoc(in) ==
    LET Loc(before, after) == <<SizeOf(in) - SizeOf(before), SizeOf(before) - SizeOf(after)>>
        One(acc, i) ==
            Then(MsgTxDecode([acc.s EXCEPT !.m = <<>>], TRUE),
                 LAMBDA t : [s |-> t, locs |-> Append(acc.locs, Loc(acc.s.in, t.in))])
        All(h) == Fold(One, [s |-> h, locs |-> <<>>], [i \in 1 .. h.n |-> i])
    IN  All(ReadVarInt(readBlockHeader(Reader(in)))).locs

-----------------------------------------------------------------------------
(* Utreexo data: accumulator proofs, leaf data, block summaries and TTLs.  *)
(* A proof is [targets, hashes]: the sequence of its targets and the       *)
(* number of its hashes.  A leaf has height -1 when it is unconfirmed; type *)
(* 0 keeps its script, the others rebuild it from the spending input.      *)

BatchProofSerialize(p) ==
    WriteVarInt(Len(p.targets)) \o Each(p.targets, WriteVarInt)
        \o WriteVarInt(p.hashes) \o Many(p.hashes, HashSize)

\* As many numbers as the one read last says become field f.
ListOf(s, f, ReadOne(_, _)) ==
    Then(Records(s, "list", s.n, LAMBDA t : ReadOne(t, "one")),
         LAMBDA r : IF ~r.ok THEN r
                    ELSE [r EXCEPT !.m = (f :> [i \in 1 .. s.n |-> r.m["list"][i]["one"]]) @@ s.m])
Targets(s) == ListOf(ReadVarInt(s), "targets", VarInt)

BatchProofDeserialize(s) ==
    OpenList(Targets(s), "hashes", HashSize)

BatchProofSerializeSize(p) ==
    Fold(LAMBDA n, t : n + VarIntSerializeSize(t), VarIntSerializeSize(Len(p.targets)), p.targets)
        + VarIntSerializeSize(p.hashes) + HashSize * p.hashes

IsUnconfirmed(l) == l.height = -1
HeightCode(l) == 2 * l.height + (IF l.coinbase THEN 1 ELSE 0)
PkScriptSerializeCompact(l) ==
    IF l.type = 0 THEN Fix(1, 0) \o WriteVarBytes(l.script) ELSE Fix(1, l.type)
PkScriptDeserializeCompact(s) ==
    Then(Elem(s, "type", 1),
         LAMBDA t : CASE ~t.ok -> t
                      [] t.ok /\ t.n = 0 -> ReadVarBytes(t, "script", MaxScriptSize)
                      [] t.ok /\ t.n \in 1 .. 4 -> Set(t, "script", 0)
                      [] OTHER -> RefuseIf(t, TRUE))

ReadHeightCode(s) ==
    Then(Take(s, 4), LAMBDA h : Set(Set(h, "height", h.n \div 2), "coinbase", h.n % 2 = 1))

LeafSerializeCompact(l) ==
    IF IsUnconfirmed(l) THEN <<>>
    ELSE IF l.script > MaxScriptSize THEN Refused
    ELSE Fix(4, HeightCode(l)) \o Fix(8, l.amount) \o PkScriptSerializeCompact(l)
LeafDeserializeCompact(s) ==
    PkScriptDeserializeCompact(Elem(ReadHeightCode(s), "amount", 8))
LeafSizeCompact(l) ==
    CASE IsUnconfirmed(l) -> 0
      [] ~IsUnconfirmed(l) /\ l.type = 0 -> 12 + 1 + VarIntSerializeSize(l.script) + l.script
      [] OTHER -> 12 + 1

\* The full form, of which the block hash (0: empty) and the outpoint are part.
LeafSerialize(l) ==
    IF l.block = 0 \/ l.script > MaxScriptSize THEN Refused
    ELSE Fix(32, l.block) \o Fix(32, l.hash) \o Fix(4, l.index) \o Fix(4, HeightCode(l))
            \o Fix(8, l.amount) \o WriteVarBytes(l.script)
LeafDeserialize(s) ==
    LET o == Elem(Elem(Elem(s, "block", 32), "hash", 32), "index", 4)
    IN  ReadVarBytes(Elem(ReadHeightCode(o), "amount", 8), "script", MaxScriptSize)
LeafSerializeSize(l) == 80 + VarIntSerializeSize(l.script) + l.script

\* Serialization of a list fails when that of one element does.
EachOrRefused(list, Write(_)) ==
    IF \E i \in 1 .. Len(list) : Write(list[i]) = Refused THEN Refused ELSE Each(list, Write)
After(before, w) == IF w = Refused THEN Refused ELSE before \o w

SerializeUtxoData(leaves) ==
    After(WriteVarInt(Len(leaves)), EachOrRefused(leaves, LeafSerializeCompact))
ReadLeaves(s) == Records(s, "leaves", s.n, LeafDeserializeCompact)
DeserializeUtxoData(s) == ReadLeaves(Counted(s, MaxPossibleInputsPerBlock))

UDataSerialize(ud) == After(BatchProofSerialize(ud), SerializeUtxoData(ud.leaves))
UDataDeserialize(s) == DeserializeUtxoData(BatchProofDeserialize(s))
UDataSerializeSize(ud) ==
    BatchProofSerializeSize(ud)
      + Fold(LAMBDA n, l : n + LeafSizeCompact(l), VarIntSerializeSize(Len(ud.leaves)), ud.leaves)

writeUtreexoBlockSummary(b) ==
    Fix(32, b.hash) \o WriteVarInt(b.adds) \o WriteVarInt(Len(b.targets)) \o Each(b.targets, WriteVarInt)
readUtreexoBlockSummary(s) ==
    Targets(VarInt(Elem(s, "hash", 32), "adds"))
SummarySerializeSize(b) ==
    Fold(LAMBDA n, t : n + VarIntSerializeSize(t),
             HashSize + VarIntSerializeSize(b.adds) + VarIntSerializeSize(Len(b.targets)), b.targets)

TTLSerialize(t) == Fix(4, t.height) \o WriteVarInt(t.ttls) \o Many(t.ttls, 4 + 4)
TTLDeserialize(s) == OpenList(Elem(s, "height", 4), "ttls", 4 + 4)
TTLSerializeSize(t) == 4 + VarIntSerializeSize(t.ttls) + t.ttls * (4 + 4)

-----------------------------------------------------------------------------
(* Addresses, inventory and headers.  A list of addresses, inventory       *)
(* vectors or headers whose elements are written alike is its length.      *)

NetAddressSize(pver) == maxNetAddressPayload(pver)

MsgAddrEncode(m, pver) ==
    IF (pver < MultipleAddressVersion /\ m.addrs > 1) \/ m.addrs > MaxAddrPerMsg THEN Refused
    ELSE WriteVarInt(m.addrs) \o Many(m.addrs, NetAddressSize(pver))
MsgAddrDecode(s, pver) == List(s, "addrs", MaxAddrPerMsg, NetAddressSize(pver))
MsgAddrMax(pver) ==
    MaxVarIntPayload + (IF pver < MultipleAddressVersion THEN 1 ELSE MaxAddrPerMsg)
                          * maxNetAddressPayload(pver)

MsgAddrV2Encode(m) ==
    IF Len(m.addrs) > MaxAddrPerMsg THEN Refused
    ELSE After(WriteVarInt(Len(m.addrs)), EachOrRefused(m.addrs, writeNetAddressV2))

\* A skipped address is left out; of the errors of readNetAddressV2 only a wrong
\* address size ends the message.
MsgAddrV2Decode(s) ==
    LET Added(acc, r) ==
            CASE r.err = "skip" -> [r.s EXCEPT !.m = acc.m]
              [] r.err = "size" -> RefuseIf(acc, TRUE)
              [] OTHER -> [r.s EXCEPT !.m = "addrs" :> Append(acc.m["addrs"], r.s.m), !.ok = TRUE]
        One(acc, i) == IF acc.ok THEN Added(acc, readNetAddressV2([acc EXCEPT !.m = <<>>])) ELSE acc
    IN  Then(Counted(s, MaxAddrPerMsg),
             LAMBDA c : Fold(One, Set(c, "addrs", <<>>), [i \in 1 .. (IF c.ok THEN c.n ELSE 0) |-> i]))
MsgAddrV2Max == 3 + MaxAddrPerMsg * (4 + 9 + 1 + 515 + 2)

MsgInvEncode(m) ==
    IF m.invs > MaxInvPerMsg THEN Refused ELSE WriteVarInt(m.invs) \o Many(m.invs, 36)
MsgInvDecode(s) == List(s, "invs", MaxInvPerMsg, 36)
MsgGetDataEncode(m) == MsgInvEncode(m)
MsgGetDataDecode(s) == MsgInvDecode(s)
MsgNotFoundEncode(m) == MsgInvEncode(m)
MsgNotFoundDecode(s) == MsgInvDecode(s)
MsgInvMax == MaxVarIntPayload + MaxInvPerMsg * 36

\* Every header is followed by the number of its transactions, which is 0.
MsgHeadersEncode(m) ==
    IF Len(m.headers) > MaxBlockHeadersPerMsg THEN Refused
    ELSE WriteVarInt(Len(m.headers))
            \o Each(m.headers, LAMBDA h : writeBlockHeader(h) \o WriteVarInt(0))
MsgHeadersDecode(s) ==
    LET One(r) == Then(ReadVarInt(readBlockHeader(r)), LAMBDA t : RefuseIf(t, t.n > 0))
    IN  Then(Counted(s, MaxBlockHeadersPerMsg), LAMBDA c : Records(c, "headers", c.n, One))
MsgHeadersMax == MaxVarIntPayload + (BlockHeaderLen + 1) * MaxBlockHeadersPerMsg

MsgGetBlocksEncode(m) ==
    IF m.locator > MaxBlockLocatorsPerMsg THEN Refused
    ELSE Fix(4, m.version) \o WriteVarInt(m.locator) \o Many(m.locator, 32) \o Fix(32, m.stop)
MsgGetBlocksDecode(s) ==
    Elem(List(Elem(s, "version", 4), "locator", MaxBlockLocatorsPerMsg, 32), "stop", 32)
MsgGetHeadersEncode(m) ==
    IF m.locator > MaxBlockLocatorsPerMsg THEN Refused
    ELSE Fix(4, m.version) \o WriteVarInt(m.locator) \o Many(m.locator, 32) \o Fix(32, m.stop)
MsgGetHeadersDecode(s) ==
    Elem(List(Elem(s, "version", 4), "locator", MaxBlockLocatorsPerMsg, 32), "stop", 32)
MsgGetBlocksMax == 4 + MaxVarIntPayload + MaxBlockLocatorsPerMsg * HashSize + HashSize

-----------------------------------------------------------------------------
(* Committed filters.                                                      *)

MsgCFCheckptEncode(m) ==
    Fix(1, m.type) \o Fix(32, m.stop) \o WriteVarInt(m.headers) \o Many(m.headers, 32)
MsgCFCheckptDecode(s) ==
    List(Elem(Elem(s, "type", 1), "stop", 32), "headers", maxCFHeadersLen, 32)

MsgCFHeadersEncode(m) ==
    IF m.hashes > MaxCFHeadersPerMsg THEN Refused
    ELSE Fix(1, m.type) \o Fix(32, m.stop) \o Fix(32, m.prev)
            \o WriteVarInt(m.hashes) \o Many(m.hashes, 32)
MsgCFHeadersDecode(s) ==
    List(Elem(Elem(Elem(s, "type", 1), "stop", 32), "prev", 32), "hashes", MaxCFHeadersPerMsg, 32)
MsgCFHeadersMax == 1 + HashSize + HashSize + MaxVarIntPayload + 32 * MaxCFHeadersPerMsg

MsgCFilterEncode(m) ==
    IF m.data > MaxCFilterDataSize THEN Refused
    ELSE Fix(1, m.type) \o Fix(32, m.block) \o WriteVarBytes(m.data)
MsgCFilterDecode(s) ==
    ReadVarBytes(Elem(Elem(s, "type", 1), "block", 32), "data", MaxCFilterDataSize)
MsgCFilterMax == VarIntSerializeSize(MaxCFilterDataSize) + MaxCFilterDataSize + HashSize + 1

MsgGetCFHeadersEncode(m) == Fix(1, m.type) \o Fix(4, m.start) \o Fix(32, m.stop)
MsgGetCFHeadersDecode(s) == Elem(Elem(Elem(s, "type", 1), "start", 4), "stop", 32)
MsgGetCFiltersEncode(m) == Fix(1, m.type) \o Fix(4, m.start) \o Fix(32, m.stop)
MsgGetCFiltersDecode(s) == Elem(Elem(Elem(s, "type", 1), "start", 4), "stop", 32)
MsgGetCFCheckptEncode(m) == Fix(1, m.type) \o Fix(32, m.stop)
MsgGetCFCheckptDecode(s) == Elem(Elem(s, "type", 1), "stop", 32)

-----------------------------------------------------------------------------
(* Bloom filters, merkle blocks, fee filters, pings and the empty messages. *)

MsgFilterAddEncode(m, pver) ==
    IF pver < BIP0037Version \/ m.data > MaxFilterAddDataSize THEN Refused
    ELSE WriteVarBytes(m.data)
MsgFilterAddDecode(s, pver) ==
    ReadVarBytes(RefuseIf(s, pver < BIP0037Version), "data", MaxFilterAddDataSize)
MsgFilterAddMax == VarIntSerializeSize(MaxFilterAddDataSize) + MaxFilterAddDataSize

MsgFilterClearEncode(pver) == IF pver < BIP0037Version THEN Refused ELSE <<>>
MsgFilterClearDecode(s, pver) == RefuseIf(s, pver < BIP0037Version)

MsgFilterLoadEncode(m, pver) ==
    IF \/ pver < BIP0037Version
       \/ m.filter > MaxFilterLoadFilterSize
       \/ m.funcs > MaxFilterLoadHashFuncs
    THEN Refused
    ELSE WriteVarBytes(m.filter) \o Fix(4, m.funcs) \o Fix(4, m.tweak) \o Fix(1, m.flags)
MsgFilterLoadDecode(s, pver) ==
    LET f == ReadVarBytes(RefuseIf(s, pver < BIP0037Version), "filter", MaxFilterLoadFilterSize)
    IN  Then(Elem(Elem(Elem(f, "funcs", 4), "tweak", 4), "flags", 1),
             LAMBDA t : RefuseIf(t, t.ok /\ t.m["funcs"] > MaxFilterLoadHashFuncs))
MsgFilterLoadMax == VarIntSerializeSize(MaxFilterLoadFilterSize) + MaxFilterLoadFilterSize + 9

MsgMerkleBlockEncode(m, pver) ==
    IF pver < BIP0037Version \/ m.hashes > maxTxPerBlock \/ m.flags > maxTxPerBlock \div 8 THEN Refused
    ELSE writeBlockHeader(m.header) \o Fix(4, m.txs) \o WriteVarInt(m.hashes)
            \o Many(m.hashes, 32) \o WriteVarBytes(m.flags)
MsgMerkleBlockDecode(s, pver) ==
    LET h == readBlockHeader(RefuseIf(s, pver < BIP0037Version))
        l == List(Elem([h EXCEPT !.m = "header" :> @], "txs", 4), "hashes", maxTxPerBlock, 32)
    IN  ReadVarBytes(l, "flags", maxTxPerBlock \div 8)

MsgFeeFilterEncode(m, pver) == IF pver < FeeFilterVersion THEN Refused ELSE Fix(8, m.fee)
MsgFeeFilterDecode(s, pver) == Elem(RefuseIf(s, pver < FeeFilterVersion), "fee", 8)

MsgPingEncode(m, pver) == IF pver > BIP0031Version THEN Fix(8, m.nonce) ELSE <<>>
MsgPingDecode(s, pver) ==
    IF pver > BIP0031Version THEN Elem(s, "nonce", 8) ELSE Set(s, "nonce", 0)
MsgPongEncode(m, pver) == IF pver <= BIP0031Version THEN Refused ELSE Fix(8, m.nonce)
MsgPongDecode(s, pver) == Elem(RefuseIf(s, pver <= BIP0031Version), "nonce", 8)
MsgPingMax(pver) == IF pver > BIP0031Version THEN 8 ELSE 0

MsgMemPoolEncode(pver) == IF pver < BIP0035Version THEN Refused ELSE <<>>
MsgMemPoolDecode(s, pver) == RefuseIf(s, pver < BIP0035Version)
MsgSendHeadersEncode(pver) == IF pver < SendHeadersVersion THEN Refused ELSE <<>>
MsgSendHeadersDecode(s, pver) == RefuseIf(s, pver < SendHeadersVersion)

-----------------------------------------------------------------------------
(* Version, reject and alert.                                              *)

\* A field after the first address is read only when something is left.
MsgVersionDecode(s, pver) ==
    LET Addr(r, f) == [readNetAddress([r EXCEPT !.m = <<>>], pver, FALSE) EXCEPT !.m = (f :> @) @@ r.m]
        If(r, Read2(_)) == IF r.ok /\ r.in # <<>> THEN Read2(r) ELSE r
        you == Addr(Elem(Elem(Elem(s, "version", 4), "services", 8), "time", 8), "you")
        me == If(you, LAMBDA r : Addr(r, "me"))
        nonce == If(me, LAMBDA r : Elem(r, "nonce", 8))
        agent == If(nonce, LAMBDA r : ReadVarString(r, "agent"))
        valid == Then(agent, LAMBDA r : RefuseIf(r, "agent" \in DOMAIN r.m /\ r.m["agent"] > MaxUserAgentLen))
        last == If(valid, LAMBDA r : Elem(r, "last", 4))
    IN  If(last, LAMBDA r : Elem(r, "relay", 1))

MsgVersionEncode(m, pver) ==
    IF m.agent > MaxUserAgentLen THEN Refused
    ELSE Fix(4, m.version) \o Fix(8, m.services) \o Fix(8, m.time)
            \o writeNetAddress(m.you, pver, FALSE) \o writeNetAddress(m.me, pver, FALSE)
            \o Fix(8, m.nonce) \o WriteVarString(m.agent) \o Fix(4, m.last)
            \o (IF pver >= BIP0037Version THEN Fix(1, m.relay) ELSE <<>>)
MsgVersionMax(pver) == 33 + maxNetAddressPayload(pver) * 2 + MaxVarIntPayload + MaxUserAgentLen

\* The command is its length; those of block (5) and tx (2) are about a hash.
AboutHash(m) == m["cmd"] \in {2, 5}
MsgRejectEncode(m, pver) ==
    IF pver < RejectVersion THEN Refused
    ELSE WriteVarString(m.cmd) \o Fix(1, m.code) \o WriteVarString(m.reason)
            \o (IF AboutHash(m) THEN Fix(32, m.hash) ELSE <<>>)
MsgRejectDecode(s, pver) ==
    LET c == ReadVarString(RefuseIf(s, pver < RejectVersion), "cmd")
    IN  Then(ReadVarString(Elem(c, "code", 1), "reason"),
             LAMBDA t : IF t.ok /\ AboutHash(t.m) THEN Elem(t, "hash", 32) ELSE Set(t, "hash", 0))

AlertSerialize(a) ==
    IF a.cancels > maxCountSetCancel \/ Len(a.subvers) > maxCountSetSubVer THEN Refused
    ELSE Fix(4, a.version) \o Fix(8, a.until) \o Fix(8, a.expire) \o Fix(4, a.id) \o Fix(4, a.cancel)
            \o WriteVarInt(a.cancels) \o Many(a.cancels, 4) \o Fix(4, a.min) \o Fix(4, a.max)
            \o WriteVarInt(Len(a.subvers)) \o Each(a.subvers, WriteVarString) \o Fix(4, a.priority)
            \o WriteVarString(a.comment) \o WriteVarString(a.status) \o WriteVarString(a.reserved)
AlertDeserialize(s) ==
    LET a == Elem(Elem(Elem(Elem(Elem(s, "version", 4), "until", 8), "expire", 8), "id", 4), "cancel", 4)
        b == Elem(Elem(List(a, "cancels", maxCountSetCancel, 4), "min", 4), "max", 4)
        c == ListOf(Counted(b, maxCountSetSubVer), "subvers", ReadVarString)
        d == ReadVarString(Elem(c, "priority", 4), "comment")
    IN  ReadVarString(ReadVarString(d, "status"), "reserved")

\* The alert is encoded apart and carried as a byte string; payload is the size of
\* that string, alert what it says (<<>>: unknown).
MsgAlertEncode(m) ==
    LET Payload(a) == IF a = Refused THEN Many(m.payload, 1) ELSE a
        With(p) == IF p = <<>> THEN Refused
                   ELSE WriteVarInt(SizeOf(p)) \o p \o WriteVarBytes(m.signature)
    IN  With(Payload(IF m.alert = <<>> THEN Refused ELSE AlertSerialize(m.alert)))
MsgAlertDecode(s) ==
    LET Said(a) == IF a.ok THEN a.m ELSE <<>>
        Alert(c, k) == Set(Set([c EXCEPT !.in = SubSeq(@, k + 1, Len(@))], "payload", c.n),
                           "alert", Said(AlertDeserialize(Reader(SubSeq(c.in, 1, k)))))
        Carried(c) == IF c.ok THEN Alert(c, Upto(c.in, c.n)) ELSE c
    IN  ReadVarBytes(Carried(Counted(s, MaxMessagePayload)), "signature", MaxMessagePayload)

-----------------------------------------------------------------------------
(* Utreexo messages.                                                       *)

MsgUtreexoProofEncode(m) ==
    After(Fix(32, m.block) \o WriteVarInt(m.hashes) \o Many(m.hashes, 32)
             \o WriteVarInt(Len(m.targets)) \o Each(m.targets, WriteVarInt)
             \o WriteVarInt(Len(m.leaves)),
          EachOrRefused(m.leaves, LeafSerializeCompact))
MsgUtreexoProofDecode(s) ==
    ReadLeaves(ReadVarInt(Targets(OpenList(ReadElem(s, "block", 32), "hashes", 32))))
MsgUtreexoProofMax ==
    HashSize + MaxVarIntPayload + MaxProofHashes * HashSize + MaxVarIntPayload
      + MaxVarIntPayload * MaxPossibleInputsPerBlock + MaxVarIntPayload
      + MaxBlockPayload + MaxPossibleInputsPerBlock * 12

MsgGetUtreexoProofEncode(m) ==
    Fix(32, m.block) \o Fix(1, m.request) \o WriteVarInt(m.proofbits) \o Many(m.proofbits, 1)
        \o WriteVarInt(m.leafbits) \o Many(m.leafbits, 1)
MsgGetUtreexoProofDecode(s) ==
    LET Bits(c, f) == Set(Read(c, c.n), f, c.n)
        head == ReadElem(ReadElem(s, "block", 32), "request", 1)
    IN  Bits(ReadVarInt(Bits(ReadVarInt(head), "proofbits")), "leafbits")
MaxGetUtreexoProofSize ==
    HashSize + 1 + MaxVarIntPayload + ((MaxProofHashes + 7) \div 8)
      + MaxVarIntPayload + ((MaxPossibleInputsPerBlock + 7) \div 8)

MsgUtreexoRootEncode(m) ==
    WriteVarInt(m.leaves) \o WriteVarInt(m.target) \o Fix(32, m.block)
        \o WriteVarInt(m.roots) \o Many(m.roots, 32) \o WriteVarInt(m.proof) \o Many(m.proof, 32)
MsgUtreexoRootDecode(s) ==
    LET h == ReadElem(VarInt(VarInt(s, "leaves"), "target"), "block", 32)
    IN  OpenList(OpenList(h, "roots", 32), "proof", 32)
MaxUtreexoRootMsgSize ==
    MaxVarIntPayload * 2 + HashSize + (63 * HashSize + MaxVarIntPayload) + (255 * HashSize + MaxVarIntPayload)

MsgGetUtreexoRootEncode(m) == Fix(32, m.block)
MsgGetUtreexoRootDecode(s) == Elem(s, "block", 32)

MsgUtreexoTTLsEncode(m) ==
    IF Len(m.ttls) > MaxUtreexoTTLsPerMsg THEN Refused
    ELSE WriteVarInt(Len(m.ttls)) \o Each(m.ttls, TTLSerialize)
            \o WriteVarInt(m.hashes) \o Many(m.hashes, 32)
MsgUtreexoTTLsDecode(s) ==
    Then(Counted(s, MaxUtreexoTTLsPerMsg),
         LAMBDA c : OpenList(Records(c, "ttls", c.n, TTLDeserialize), "hashes", 32))
MaxUtreexoTTLsSize ==
    MaxUtreexoTTLsPerMsg * (4 + MaxVarIntPayload + 99984 * 8) + 2 * MaxVarIntPayload + HashSize * 255

MsgGetUtreexoTTLsEncode(m) ==
    IF m.exponent > MaxUtreexoTTLExponent \/ m.version < m.start THEN Refused
    ELSE Fix(4, m.version) \o Fix(4, m.start) \o Fix(1, m.exponent)
MsgGetUtreexoTTLsDecode(s) ==
    Then(Elem(Elem(Elem(s, "version", 4), "start", 4), "exponent", 1),
         LAMBDA t : RefuseIf(t, /\ t.ok
                                /\ \/ t.m["version"] < t.m["start"]
                                   \/ t.m["exponent"] > MaxUtreexoTTLExponent))

\* The low bit of an input's index tells whether its output is unconfirmed; the
\* indexes of the message that is encoded stay shifted.
Shifted(m) ==
    [m EXCEPT !.tx.ins = [i \in 1 .. Len(@) |->
        [@[i] EXCEPT !.index = 2 * @ + IF IsUnconfirmed(m.leaves[i]) THEN 1 ELSE 0]]]
MsgUtreexoTxEncode(m, witness) ==
    After(BatchProofSerialize(m) \o MsgTxEncode(Shifted(m).tx, witness),
          EachOrRefused(m.leaves, LeafSerializeCompact))
MsgUtreexoTxDecode(s, witness) ==
    LET Leaf(r, unconfirmed) ==
            IF unconfirmed
            THEN Set(Set(Set(Set(Set(r, "height", -1), "coinbase", FALSE), "amount", 0), "type", 0), "script", 0)
            ELSE LeafDeserializeCompact(r)
        One(acc, i) ==
            Then(Leaf([acc EXCEPT !.m = <<>>], acc.m["tx"]["ins"][i]["index"] % 2 = 1),
                 LAMBDA r : [r EXCEPT !.m = [acc.m EXCEPT !["tx"]["ins"][i]["index"] = @ \div 2,
                                                          !["leaves"] = Append(@, r.m)]])
        Leaves(t) == IF t.ok THEN Fold(One, t, [i \in 1 .. Len(t.m["tx"]["ins"]) |-> i]) ELSE t
        Tx(p) == [MsgTxDecode([p EXCEPT !.m = <<>>], witness) EXCEPT
                     !.m = ("tx" :> @) @@ ("leaves" :> <<>>) @@ p.m]
    IN  Leaves(Tx(BatchProofDeserialize(s)))

-----------------------------------------------------------------------------
(* Dispatch.                                                               *)

BtcEncode(cmd, m, pver, wit) ==
    CASE cmd = "version"      -> MsgVersionEncode(m, pver)
      [] cmd \in {"verack", "getaddr", "sendaddrv2"} -> <<>>
      [] cmd = "addr"         -> MsgAddrEncode(m, pver)
      [] cmd = "addrv2"       -> MsgAddrV2Encode(m)
      [] cmd = "getblocks"    -> MsgGetBlocksEncode(m)
      [] cmd = "block"        -> MsgBlockEncode(m, wit)
      [] cmd = "inv"          -> MsgInvEncode(m)
      [] cmd = "getdata"      -> MsgGetDataEncode(m)
      [] cmd = "notfound"     -> MsgNotFoundEncode(m)
      [] cmd = "tx"           -> MsgTxEncode(m, wit)
      [] cmd = "utreexotx"    -> MsgUtreexoTxEncode(m, wit)
      [] cmd = "ping"         -> MsgPingEncode(m, pver)
      [] cmd = "pong"         -> MsgPongEncode(m, pver)
      [] cmd = "getheaders"   -> MsgGetHeadersEncode(m)
      [] cmd = "getuttls"     -> MsgGetUtreexoTTLsEncode(m)
      [] cmd = "headers"      -> MsgHeadersEncode(m)
      [] cmd = "uttls"        -> MsgUtreexoTTLsEncode(m)
      [] cmd = "uproof"       -> MsgUtreexoProofEncode(m)
      [] cmd = "getuproof"    -> MsgGetUtreexoProofEncode(m)
      [] cmd = "uroot"        -> MsgUtreexoRootEncode(m)
      [] cmd = "geturoot"     -> MsgGetUtreexoRootEncode(m)
      [] cmd = "alert"        -> MsgAlertEncode(m)
      [] cmd = "mempool"      -> MsgMemPoolEncode(pver)
      [] cmd = "filteradd"    -> MsgFilterAddEncode(m, pver)
      [] cmd = "filterclear"  -> MsgFilterClearEncode(pver)
      [] cmd = "filterload"   -> MsgFilterLoadEncode(m, pver)
      [] cmd = "merkleblock"  -> MsgMerkleBlockEncode(m, pver)
      [] cmd = "reject"       -> MsgRejectEncode(m, pver)
      [] cmd = "sendheaders"  -> MsgSendHeadersEncode(pver)
      [] cmd = "feefilter"    -> MsgFeeFilterEncode(m, pver)
      [] cmd = "getcfilters"  -> MsgGetCFiltersEncode(m)
      [] cmd = "getcfheaders" -> MsgGetCFHeadersEncode(m)
      [] cmd = "getcfcheckpt" -> MsgGetCFCheckptEncode(m)
      [] cmd = "cfilter"      -> MsgCFilterEncode(m)
      [] cmd = "cfheaders"    -> MsgCFHeadersEncode(m)
      [] cmd = "cfcheckpt"    -> MsgCFCheckptEncode(m)

BtcDecode(cmd, s, pver, wit) ==
    CASE cmd = "version"      -> MsgVersionDecode(s, pver)
      [] cmd \in {"verack", "getaddr", "sendaddrv2"} -> s
      [] cmd = "addr"         -> MsgAddrDecode(s, pver)
      [] cmd = "addrv2"       -> MsgAddrV2Decode(s)
      [] cmd = "getblocks"    -> MsgGetBlocksDecode(s)
      [] cmd = "block"        -> MsgBlockDecode(s, wit)
      [] cmd = "inv"          -> MsgInvDecode(s)
      [] cmd = "getdata"      -> MsgGetDataDecode(s)
      [] cmd = "notfound"     -> MsgNotFoundDecode(s)
      [] cmd = "tx"           -> MsgTxDecode(s, wit)
      [] cmd = "utreexotx"    -> MsgUtreexoTxDecode(s, wit)
      [] cmd = "ping"         -> MsgPingDecode(s, pver)
      [] cmd = "pong"         -> MsgPongDecode(s, pver)
      [] cmd = "getheaders"   -> MsgGetHeadersDecode(s)
      [] cmd = "getuttls"     -> MsgGetUtreexoTTLsDecode(s)
      [] cmd = "headers"      -> MsgHeadersDecode(s)
      [] cmd = "uttls"        -> MsgUtreexoTTLsDecode(s)
      [] cmd = "uproof"       -> MsgUtreexoProofDecode(s)
      [] cmd = "getuproof"    -> MsgGetUtreexoProofDecode(s)
      [] cmd = "uroot"        -> MsgUtreexoRootDecode(s)
      [] cmd = "geturoot"     -> MsgGetUtreexoRootDecode(s)
      [] cmd = "alert"        -> MsgAlertDecode(s)
      [] cmd = "mempool"      -> MsgMemPoolDecode(s, pver)
      [] cmd = "filteradd"    -> MsgFilterAddDecode(s, pver)
      [] cmd = "filterclear"  -> MsgFilterClearDecode(s, pver)
      [] cmd = "filterload"   -> MsgFilterLoadDecode(s, pver)
      [] cmd = "merkleblock"  -> MsgMerkleBlockDecode(s, pver)
      [] cmd = "reject"       -> MsgRejectDecode(s, pver)
      [] cmd = "sendheaders"  -> MsgSendHeadersDecode(s, pver)
      [] cmd = "feefilter"    -> MsgFeeFilterDecode(s, pver)
      [] cmd = "getcfilters"  -> MsgGetCFiltersDecode(s)
      [] cmd = "getcfheaders" -> MsgGetCFHeadersDecode(s)
      [] cmd = "getcfcheckpt" -> MsgGetCFCheckptDecode(s)
      [] cmd = "cfilter"      -> MsgCFilterDecode(s)
      [] cmd = "cfheaders"    -> MsgCFHeadersDecode(s)
      [] cmd = "cfcheckpt"    -> MsgCFCheckptDecode(s)

MaxPayloadLength(cmd, pver) ==
    CASE cmd \in {"verack", "getaddr", "sendaddrv2", "mempool", "filterclear", "sendheaders"} -> 0
      [] cmd = "version" -> MsgVersionMax(pver)
      [] cmd = "addr" -> MsgAddrMax(pver)
      [] cmd = "addrv2" -> MsgAddrV2Max
      [] cmd \in {"getblocks", "getheaders"} -> MsgGetBlocksMax
      [] cmd \in {"block", "tx", "utreexotx", "merkleblock"} -> MaxBlockPayload
      [] cmd \in {"inv", "getdata", "notfound"} -> MsgInvMax
      [] cmd \in {"ping", "pong"} -> MsgPingMax(pver)
      [] cmd = "headers" -> MsgHeadersMax
      [] cmd \in {"alert", "cfcheckpt"} -> MaxMessagePayload
      [] cmd = "reject" -> IF pver >= RejectVersion THEN MaxMessagePayload ELSE 0
      [] cmd = "filteradd" -> MsgFilterAddMax
      [] cmd = "filterload" -> MsgFilterLoadMax
      [] cmd = "feefilter" -> 8
      [] cmd \in {"getcfilters", "getcfheaders"} -> 1 + 4 + HashSize
      [] cmd = "getcfcheckpt" -> 1 + HashSize
      [] cmd = "cfilter" -> MsgCFilterMax
      [] cmd = "cfheaders" -> MsgCFHeadersMax
      [] cmd = "uproof" -> MsgUtreexoProofMax
      [] cmd = "getuproof" -> MaxGetUtreexoProofSize
      [] cmd = "uroot" -> MaxUtreexoRootMsgSize
      [] cmd = "geturoot" -> HashSize
      [] cmd = "uttls" -> MaxUtreexoTTLsSize
      [] cmd = "getuttls" -> 9

-----------------------------------------------------------------------------
(* The connection.                                                         *)

MessageHeaderSize == 24

v2MessageIDs ==
    1 :> "addr" @@ 2 :> "block" @@ 5 :> "feefilter" @@ 6 :> "filteradd" @@ 7 :> "filterclear"
    @@ 8 :> "filterload" @@ 9 :> "getblocks" @@ 11 :> "getdata" @@ 12 :> "getheaders"
    @@ 13 :> "headers" @@ 14 :> "inv" @@ 15 :> "mempool" @@ 16 :> "merkleblock"
    @@ 17 :> "notfound" @@ 18 :> "ping" @@ 19 :> "pong" @@ 21 :> "tx" @@ 22 :> "getcfilters"
    @@ 23 :> "cfilter" @@ 24 :> "getcfheaders" @@ 25 :> "cfheaders" @@ 26 :> "getcfcheckpt"
    @@ 27 :> "cfcheckpt" @@ 28 :> "addrv2" @@ 29 :> "uproof" @@ 30 :> "getuproof"
    @@ 31 :> "uttls" @@ 32 :> "getuttls" @@ 34 :> "utreexotx" @@ 35 :> "uroot" @@ 36 :> "geturoot"

v2Messages ==
    "addr" :> 1 @@ "block" :> 2 @@ "feefilter" :> 5 @@ "filteradd" :> 6 @@ "filterclear" :> 7
    @@ "filterload" :> 8 @@ "getblocks" :> 9 @@ "getdata" :> 11 @@ "getheaders" :> 12
    @@ "headers" :> 13 @@ "inv" :> 14 @@ "mempool" :> 15 @@ "merkleblock" :> 16
    @@ "notfound" :> 17 @@ "ping" :> 18 @@ "pong" :> 19 @@ "tx" :> 21 @@ "getcfilters" :> 22
    @@ "cfilter" :> 23 @@ "getcfheaders" :> 24 @@ "cfheaders" :> 25 @@ "getcfcheckpt" :> 26
    @@ "cfcheckpt" :> 27 @@ "addrv2" :> 28 @@ "uproof" :> 29 @@ "getuproof" :> 30
    @@ "uttls" :> 31 @@ "getuttls" :> 32 @@ "utreexotx" :> 34 @@ "uroot" :> 35 @@ "geturoot" :> 36

\* makeEmptyMessage: the commands the reader knows.
Known ==
    {"version", "verack", "sendaddrv2", "getaddr", "addr", "addrv2", "getblocks", "block",
     "inv", "getdata", "notfound", "tx", "utreexotx", "ping", "pong", "getheaders",
     "getuttls", "headers", "uttls", "uproof", "getuproof", "uroot", "geturoot", "alert",
     "mempool", "filteradd", "filterclear", "filterload", "merkleblock", "reject",
     "sendheaders", "feefilter", "getcfilters", "getcfheaders", "getcfcheckpt", "cfilter",
     "cfheaders", "cfcheckpt"}

\* The payload of a message, Refused when it does not encode or is too large.  A
\* command the reader does not know is written by a peer with another protocol.
Payload(cmd, m) ==
    LET Fits(w) == IF \/ SizeOf(w) > MaxMessagePayload
                      \/ cmd \in Known /\ SizeOf(w) > MaxPayloadLength(cmd, link.pver)
                   THEN Refused ELSE w
    IN  Fits(IF cmd \in Known THEN BtcEncode(cmd, m, link.pver, link.wit) ELSE Fix(m.size, 0))

Header(cmd, payload) ==
    [magic |-> "net", command |-> cmd, length |-> SizeOf(payload), checksum |-> payload]

WriteMessageWithEncodingN(cmd, w) ==
    IF w = Refused THEN <<>> ELSE Fix(MessageHeaderSize, Header(cmd, w)) \o w

WriteV2MessageN(cmd, w) ==
    IF w = Refused THEN <<>>
    ELSE <<[id |-> IF cmd \in DOMAIN v2Messages THEN v2Messages[cmd] ELSE 0,
            command |-> IF cmd \in DOMAIN v2Messages THEN "" ELSE cmd,
            payload |-> w]>>


discardInput(in, n) == SubSeq(in, Upto(in, n) + 1, Len(in))

\* A read: what is left, and the message or the kind of the error.
Answer(rest, err, cmd, m) == [rest |-> rest, err |-> err, msg |-> <<cmd, m>>]
Failed(rest, err) == Answer(rest, err, "", <<>>)

\* A payload of another size or with another checksum, or one that is not read to
\* its end, is no message.
ReadPayload(hdr, payload, after) ==
    LET Read2(d) == CASE ~d.ok -> Failed(after, "decode")
                      [] d.ok /\ d.in # <<>> -> Failed(after, "malformed")
                      [] OTHER -> Answer(after, "none", hdr.command, d.m)
    IN  CASE SizeOf(payload) # hdr.length -> Failed(<<>>, "io")
          [] SizeOf(payload) = hdr.length /\ payload # hdr.checksum -> Failed(after, "malformed")
          [] OTHER -> Read2(BtcDecode(hdr.command, Reader(payload), link.pver, link.wit))

ReadMessageWithEncodingN(in) ==
    LET hdr == Head(in)[2]
        body == Tail(in)
        end == Upto(body, hdr.length)
        rest == discardInput(body, hdr.length)
    IN  CASE Head(in)[1] # MessageHeaderSize -> Failed(in, "io")
          [] Head(in)[1] = MessageHeaderSize /\ hdr.magic # "net" -> Failed(rest, "malformed")
          [] Head(in)[1] = MessageHeaderSize /\ hdr.magic = "net" /\ hdr.command \notin Known ->
                Failed(rest, "unknown")
          [] OTHER ->
                IF hdr.length > MaxPayloadLength(hdr.command, link.pver) THEN Failed(rest, "malformed")
                ELSE ReadPayload(hdr, SubSeq(body, 1, end), SubSeq(body, end + 1, Len(body)))

ReadV2MessageN(in) ==
    LET p == Head(in)
        Name(id) == IF id = 0 THEN p.command
                    ELSE IF id \in DOMAIN v2MessageIDs THEN v2MessageIDs[id] ELSE ""
        Read2(cmd, d) == IF SizeOf(p.payload) > MaxPayloadLength(cmd, link.pver) \/ ~d.ok
                         THEN Failed(Tail(in), "decode")
                         ELSE Answer(Tail(in), "none", cmd, d.m)
        Of(cmd) == IF cmd \notin Known THEN Failed(Tail(in), "unknown")
                   ELSE Read2(cmd, BtcDecode(cmd, Reader(p.payload), link.pver, link.wit))
    IN  Of(Name(p.id))

-----------------------------------------------------------------------------
LinkInit ==
    /\ link \in [pver : Pvers, wit : BOOLEAN, v2 : BOOLEAN, tolerant : BOOLEAN]
    /\ \E s \in Samples : todo = <<s, Probe>>
    /\ conn = <<>>
    /\ sent = <<>>
    /\ got = <<>>
    /\ damage = "none"
    /\ alive = TRUE

\* writeMessage: a message that does not encode is not sent.
Write ==
    /\ todo # <<>>
    /\ LET cmd == Head(todo)[1]
           Sent(w) == /\ conn' = conn \o w
                      /\ sent' = IF w = <<>> THEN sent ELSE Append(sent, Head(todo))
           Framed(p) == IF link.v2 THEN WriteV2MessageN(cmd, p) ELSE WriteMessageWithEncodingN(cmd, p)
       IN  Sent(Framed(Payload(cmd, Head(todo)[2])))
    /\ todo' = Tail(todo)
    /\ UNCHANGED <<link, got, damage, alive>>

\* The first frame arrives from another network, with one write of its payload
\* changed, or without its last bytes and those that follow.
Damage ==
    /\ damage = "none" /\ ~link.v2 /\ conn # <<>> /\ todo = <<>> /\ got = <<>>
    /\ \/ /\ conn' = [conn EXCEPT ![1][2].magic = "other"]
          /\ damage' = "magic"
       \/ /\ conn[1][2].length > 0
          /\ conn' = [conn EXCEPT ![2][2] = @ - 1]
          /\ damage' = "bytes"
       \/ /\ conn[1][2].length > 0
          /\ conn' = SubSeq(conn, 1, Upto(Tail(conn), conn[1][2].length))
          /\ damage' = "cut"
    /\ UNCHANGED <<link, todo, sent, got, alive>>

\* inHandler: an unknown message is ignored; any other error disconnects the peer,
\* but for a malformed message of a local peer in the regression test network.
Receive ==
    /\ alive /\ conn # <<>>
    /\ LET Handle(r) ==
              /\ conn' = r.rest
              /\ got' = IF r.err = "none" THEN Append(got, r.msg) ELSE got
              /\ CASE r.err \in {"none", "unknown"} -> alive' = TRUE
                   [] r.err = "malformed" -> alive' = link.tolerant
                   [] r.err = "decode" -> alive' \in {FALSE, link.tolerant}
                   [] OTHER -> alive' = FALSE
       IN  Handle(IF link.v2 THEN ReadV2MessageN(conn) ELSE ReadMessageWithEncodingN(conn))
    /\ UNCHANGED <<link, todo, sent, damage>>

LinkNext == Write \/ Damage \/ Receive
LinkSpec == LinkInit /\ [][LinkNext]_linkVars

-----------------------------------------------------------------------------
LinkTypeOK ==
    /\ link \in [pver : Pvers, wit : BOOLEAN, v2 : BOOLEAN, tolerant : BOOLEAN]
    /\ Len(sent) <= 2 /\ Len(got) <= Len(sent)
    /\ damage \in {"none", "magic", "bytes", "cut"}
    /\ alive \in BOOLEAN

\* What the protocol version or the encoding of the connection leaves out of a message.
AsRead(pair) ==
    LET m == pair[2]
        NoWitness(tx) == [tx EXCEPT !.ins = [i \in 1 .. Len(@) |-> [@[i] EXCEPT !.wit = <<>>]]]
    IN  CASE pair[1] = "version" /\ link.pver < BIP0037Version ->
                <<"version", [f \in DOMAIN m \ {"relay"} |-> m[f]]>>
          [] pair[1] = "ping" /\ link.pver <= BIP0031Version -> <<"ping", [nonce |-> 0]>>
          [] pair[1] = "tx" /\ ~link.wit -> <<"tx", NoWitness(m)>>
          [] pair[1] = "utreexotx" /\ ~link.wit -> <<"utreexotx", [m EXCEPT !.tx = NoWitness(@)]>>
          [] pair[1] = "block" /\ ~link.wit ->
                <<"block", [m EXCEPT !.txs = [i \in 1 .. Len(@) |-> NoWitness(@[i])]]>>
          [] OTHER -> pair

\* What a peer reads is what the other one wrote, in that order and field by field,
\* without the messages it does not know and without a damaged one: no decoder
\* shifts, drops or invents a field of what its encoder writes, at the limits of
\* every list and string and in every protocol version.
Delivered ==
    LET known == SelectSeq(sent, LAMBDA p : p[1] \in Known)
        whole == IF damage = "none" \/ known = <<>> \/ known[1] # sent[1] THEN known ELSE Tail(known)
    IN  got = [i \in 1 .. Len(got) |-> AsRead(whole[i])]

\* A peer that goes on reading after a message it refused or does not know reads the
\* next message from its first byte: discardInput has skipped exactly the payload.
InSync ==
    ~link.v2 /\ alive /\ conn # <<>> /\ damage # "cut" => Head(conn)[1] = MessageHeaderSize

\* Nothing a peer can write makes the other one disconnect: what the limits of an
\* encoder and WriteMessage let through, those of the reader do too.
WrittenIsReadable == damage = "none" => alive

\* Every message that was written has been read once the connection is drained, also
\* after one the reader does not know.
AllRead ==
    todo = <<>> /\ conn = <<>> /\ damage = "none" =>
        Len(got) = Cardinality({i \in 1 .. Len(sent) : sent[i][1] \in Known})

\* The sizes computed without encoding (SerializeSize, SerializeSizeStripped and the
\* like, which size buffers, weigh blocks and locate transactions on disk) are those of
\* the encoding, and TxLoc and PkScriptLocs point at what they say.
SizesAgree ==
    \A i \in 1 .. Len(sent) :
        LET m == sent[i][2]
            TxSizes(tx) ==
                /\ TxSerializeSize(tx) = SizeOf(MsgTxEncode(tx, TRUE))
                /\ baseSize(tx) = SizeOf(MsgTxEncode(tx, FALSE))
                /\ \A j \in 1 .. Len(tx.outs) :
                      LET w == MsgTxEncode(tx, TRUE)
                          k == Upto(w, PkScriptLocs(tx)[j])
                      IN  Len(w) > k /\ w[k + 1] = <<tx.outs[j].script, tx.outs[j].script>>
        IN  CASE sent[i][1] = "tx" -> TxSizes(m)
              [] sent[i][1] = "block" ->
                    LET w == MsgBlockEncode(m, TRUE)
                        locs == DeserializeTxLoc(w)
                    IN  /\ BlockSerializeSize(m) = SizeOf(w)
                        /\ BlockSizeStripped(m) = SizeOf(MsgBlockEncode(m, FALSE))
                        /\ \A j \in 1 .. Len(m.txs) :
                              /\ TxSizes(m.txs[j])
                              /\ SubSeq(w, Upto(w, locs[j][1]) + 1, Upto(w, locs[j][1] + locs[j][2]))
                                    = MsgTxEncode(m.txs[j], TRUE)
              [] sent[i][1] = "uproof" ->
                    /\ UDataSerializeSize(m) = SizeOf(UDataSerialize(m))
                    /\ UDataDeserialize(Reader(UDataSerialize(m))).m
                          = [targets |-> m.targets, hashes |-> m.hashes, leaves |-> m.leaves]
                    /\ \A j \in 1 .. Len(m.leaves) :
                          LET l == ("block" :> m.block) @@ ("hash" :> 7) @@ ("index" :> j)
                                     @@ [f \in DOMAIN m.leaves[j] \ {"type"} |-> m.leaves[j][f]]
                          IN  /\ LeafSerializeSize(l) = SizeOf(LeafSerialize(l))
                              /\ LeafDeserialize(Reader(LeafSerialize(l))).m = l
                    /\ LET b == [hash |-> m.block, adds |-> m.hashes, targets |-> m.targets]
                       IN  /\ SummarySerializeSize(b) = SizeOf(writeUtreexoBlockSummary(b))
                           /\ readUtreexoBlockSummary(Reader(writeUtreexoBlockSummary(b))).m = b
              [] sent[i][1] = "uttls" ->
                    \A j \in 1 .. Len(m.ttls) :
                        TTLSerializeSize(m.ttls[j]) = SizeOf(TTLSerialize(m.ttls[j]))
              [] OTHER -> TRUE

\* An encoder's own limits keep its message below MaxPayloadLength: a message filled to
\* its limit can be sent.
FilledFits ==
    \A i \in 1 .. Len(todo) :
        todo[i][1] \in Known \ {"merkleblock", "uproof", "getuproof", "uroot", "uttls"} =>
            SizeOf(BtcEncode(todo[i][1], todo[i][2], link.pver, link.wit))
                <= MaxPayloadLength(todo[i][1], link.pver)


=============================================================================
