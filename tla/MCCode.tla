------------------------------- MODULE MCCode -------------------------------
(***************************************************************************)
(* The rules of the chain, the script engine and the wire encoding. A      *)
(* behaviour is one of the script engines over an input, of a connection   *)
(* that carries two messages, of the header index or of the ledger that    *)
(* blocks are checked against: "machine" says which. The engines and the   *)
(* connection keep initial values while another machine runs, the          *)
(* variables of the headers and of the ledger are 0.                       *)
(***************************************************************************)
EXTENDS ScriptEngine, WireMessages, TLC

VARIABLES machine, par, nodes, tip, cp, caches, rules, chain, utxos

HeadersVars == <<par, nodes, tip, cp, caches>>
BlocksVars == <<rules, chain, utxos>>

-----------------------------------------------------------------------------
(* Script engines, one per rule set.                                       *)

AllOk == [n \in {"sig", "pk", "redeem", "leaf"} |-> "ok"]
Free == [kind |-> "free", version |-> 0, program |-> <<>>]
P2SH == [Free EXCEPT !.kind = "p2sh"]
Wit(v, item) == [kind |-> "witness", version |-> v, program |-> item]

Early == [lockTime |-> 20, sequence |-> 5, version |-> 2]
Final == [lockTime |-> 20, sequence |-> 127, version |-> 1]

Anyone == [pk |-> Free, redeem |-> Free, sig |-> <<>>, witness |-> <<>>, shape |-> AllOk,
          weight |-> 60, tx |-> Early, vocabulary |-> "all"]

K(i) == Key(i, Compressed)
S(i) == Sig(i, Strict, Legacy, 0, 1)
W(i) == Sig(i, Strict, SegwitV0, 0, 1)
T(i) == Sig(i, Schnorr, Tapscript, 0, 0)

\* Bare outputs: the signature script leaves operands of every kind.
Bare ==
    {[Anyone EXCEPT !.sig = s, !.tx = t] :
        t \in {Early},
        s \in {<<>>,
               <<Push(<<255, 127>>), Push(<<1, 128>>)>>,
               <<SmallInt(3), SmallInt(1), SmallInt(2)>>,
               <<Push(<<0>>), Push(<<128>>), Push(<<5>>), SmallInt(1), SmallInt(0), SmallInt(7)>>,
               <<Push(S(1)), Push(K(1))>>,
               <<Push(Sig(1, LaxDER, Legacy, 0, 1)), Push(Key(1, Hybrid))>>,
               <<Push(Sig(1, HighS, Legacy, 1, 1)), Push(K(1))>>,
               <<Push(S(2)), Push(Key(2, Unparsable))>>}}
    \cup {[Anyone EXCEPT !.sig = <<Push(<<21>>)>>, !.tx = t] : t \in {Early, Final}}
    \cup {[Anyone EXCEPT !.shape["pk"] = "empty", !.sig = <<SmallInt(1)>>],
          [Anyone EXCEPT !.shape["pk"] = "unparsable"],
          [Anyone EXCEPT !.sig = <<SmallInt(1), Tok("OP_NOP")>>]}

\* Two of three, with signatures by any two, in any order or missing.
MultiSigs ==
    {[Anyone EXCEPT !.sig = <<Push(dummy), Push(a), Push(b), SmallInt(2), Push(K(1)), Push(K(2)),
                             Push(K(3)), SmallInt(3)>>] :
        dummy \in {<<>>}, a \in {S(1), S(2), S(3), <<>>}, b \in {S(1), S(2), S(3)}}
    \cup {[Anyone EXCEPT !.sig = <<Push(<<1>>), Push(S(1)), SmallInt(1), Push(K(1)), SmallInt(1)>>],
          [Anyone EXCEPT !.sig = <<Push(<<>>), Push(Sig(1, LaxDER, Legacy, 0, 1)), SmallInt(1),
                                  Push(Key(1, Hybrid)), Push(K(1)), SmallInt(2)>>]}

\* Outputs that commit to a script by its hash.
Hashed ==
    {[Anyone EXCEPT !.pk = P2SH, !.sig = s] :
        s \in {<<Push(FreeScript)>>, <<SmallInt(1), Push(FreeScript)>>, <<SmallInt(1), Push(<<7>>)>>,
               <<Push(S(1)), Push(K(1)), Push(FreeScript)>>, <<Tok("OP_NOP"), Push(FreeScript)>>}}
    \cup {[Anyone EXCEPT !.pk = P2SH, !.sig = <<SmallInt(1), Push(FreeScript)>>, !.shape["redeem"] = k]
          : k \in {"empty", "unparsable"}}

\* Version 0 witness programs, native and nested.
KeyHash == Wit(0, Hash(Hash160, K(1)))
ScriptHash == Wit(0, Hash(Sha256, FreeScript))
Segwit ==
    {[Anyone EXCEPT !.pk = pk, !.witness = w] :
        pk \in {KeyHash, ScriptHash, Wit(0, <<1, 2>>)},
        w \in {<<>>, <<W(1), K(1)>>, <<S(1), K(1)>>, <<<<1>>, FreeScript>>, <<<<2>>, FreeScript>>,
               <<W(1), Key(1, Uncompressed), FreeScript>>, <<<<1>>, <<7>>>>}}
    \cup {[Anyone EXCEPT !.pk = P2SH, !.redeem = r, !.witness = w,
                        !.sig = <<Push(<<ScriptMark, r.version>> \o r.program)>>] :
            r \in {KeyHash, ScriptHash, Wit(1, Key(1, XOnly))},
            w \in {<<>>, <<W(1), K(1)>>, <<<<1>>, FreeScript>>}}
    \cup {[Anyone EXCEPT !.pk = ScriptHash, !.witness = <<<<1>>, FreeScript>>, !.shape["leaf"] = k]
          : k \in {"empty", "oversize", "unparsable"}}
    \cup {[Anyone EXCEPT !.witness = <<<<1>>>>]}

\* Taproot and later witness programs.
ToKey == Wit(1, Key(1, XOnly))
Spend == Sig(1, Schnorr, KeySpend, 0, 0)
Later ==
    {[Anyone EXCEPT !.pk = ToKey, !.witness = w] :
        w \in {<<>>, <<Spend>>, <<Spend, <<80>>>>, <<W(1)>>,
               <<<<1>>, FreeScript, Control(TRUE, TRUE)>>, <<<<1>>, FreeScript, Control(FALSE, TRUE)>>,
               <<FreeScript, Control(TRUE, FALSE)>>, <<<<1>>, <<7>>, <<8>>>>,
               <<T(2), Key(2, XOnly), FreeScript, Control(TRUE, TRUE)>>,
               <<T(2), <<>>, Key(2, XOnly), FreeScript, Control(TRUE, TRUE)>>,
               <<T(2), T(2), Key(3, Compressed), FreeScript, Control(TRUE, TRUE), <<80>>>>}}
    \cup {[Anyone EXCEPT !.pk = ToKey, !.witness = <<FreeScript, Control(TRUE, TRUE)>>, !.shape["leaf"] = k]
          : k \in {"empty", "success", "unparsable"}}
    \cup {[Anyone EXCEPT !.pk = Wit(v, <<1, 2>>), !.witness = <<<<1>>>>] : v \in {1, 2}}

\* Nested conditionals and sequences of signature checks.
Longer ==
    {[Anyone EXCEPT !.sig = <<SmallInt(1), SmallInt(1), SmallInt(0), SmallInt(a)>>, !.vocabulary = "branches"]
        : a \in {0, 1}}
    \cup {[Anyone EXCEPT !.sig = <<Push(Sig(1, Strict, Legacy, 1, 1)), Push(K(1)), Push(S(1)), Push(K(1))>>,
                        !.vocabulary = "checks"],
          [Anyone EXCEPT !.pk = ToKey, !.vocabulary = "checks",
                        !.witness = <<T(2), Key(2, XOnly), FreeScript, Control(TRUE, TRUE)>>]}

ScriptPrograms == Longer \cup Bare \cup MultiSigs \cup Hashed \cup Segwit \cup Later

AllTokens ==
    {Tok(op) : op \in
        {"OP_RESERVED", "OP_RETURN", "OP_NOP", "OP_NOP1", "OP_IF", "OP_NOTIF", "OP_ELSE", "OP_ENDIF",
         "OP_VERIFY", "OP_CHECKLOCKTIMEVERIFY", "OP_CHECKSEQUENCEVERIFY", "OP_TOALTSTACK",
         "OP_FROMALTSTACK", "OP_2DROP", "OP_2DUP", "OP_3DUP", "OP_2OVER", "OP_2ROT", "OP_2SWAP",
         "OP_IFDUP", "OP_DEPTH", "OP_DROP", "OP_DUP", "OP_NIP", "OP_OVER", "OP_PICK", "OP_ROLL",
         "OP_ROT", "OP_SWAP", "OP_TUCK", "OP_SIZE", "OP_EQUAL", "OP_EQUALVERIFY",
         "OP_NUMEQUALVERIFY", "OP_WITHIN", "OP_RIPEMD160", "OP_SHA1", "OP_SHA256", "OP_HASH160",
         "OP_HASH256", "OP_CODESEPARATOR", "OP_CHECKSIG", "OP_CHECKSIGVERIFY", "OP_CHECKSIGADD",
         "OP_CHECKMULTISIG", "OP_CHECKMULTISIGVERIFY", "OP_1NEGATE", "OP_CAT", "OP_VERIF"}
        \cup UnaryOps \cup BinaryOps}
    \cup {SmallInt(0), SmallInt(1), Push(<<1>>)}

ScriptVocabularies ==
    [all |-> [tokens |-> AllTokens, max |-> 2],
     branches |-> [max |-> 6,
                   tokens |-> {Tok("OP_IF"), Tok("OP_NOTIF"), Tok("OP_ELSE"), Tok("OP_ENDIF"), Tok("OP_DROP")}],
     checks |-> [max |-> 5,
                 tokens |-> {Tok("OP_CODESEPARATOR"), Tok("OP_CHECKSIG"), Tok("OP_CHECKSIGVERIFY"),
                             Tok("OP_2DUP"), Tok("OP_NOT")}]]

Bip16Rules == {"Bip16"}
DER == Bip16Rules \cup {"DERSignatures"}
CLTV == DER \cup {"CheckLockTimeVerify"}
CSV == CLTV \cup {"CheckSequenceVerify"}
SegwitRules == CSV \cup {"Witness", "StrictMultiSig"}
TaprootRules == SegwitRules \cup {"Taproot"}
StandardVerifyFlags ==
    TaprootRules \cup
    {"StrictEncoding", "MinimalData", "DiscourageUpgradableNops", "CleanStack", "NullFail", "LowS",
     "DiscourageUpgradeableWitnessProgram", "MinimalIf", "WitnessPubKeyType",
     "DiscourageUpgradeableTaprootVersion", "DiscourageOpSuccess", "DiscourageUpgradeablePubkeyType"}

ScriptRuleSets == <<{}, Bip16Rules, DER, CLTV, CSV, SegwitRules, TaprootRules, StandardVerifyFlags>>
ScriptSequenceBits == [disabled |-> 64, seconds |-> 16, mask |-> 8, max |-> 127]

-----------------------------------------------------------------------------
(* A connection that carries a message and a probe.                        *)

WireHeader(n) == [version |-> n, prev |-> n + 1, root |-> n + 2, time |-> n + 3, bits |-> n + 4, nonce |-> n + 5]
WireIn(i, len, wit) == [hash |-> 7, index |-> i, script |-> len, seq |-> 5, wit |-> wit]
WireOut(v, len) == [value |-> v, script |-> len]
WireTx(ins, outs) == [version |-> 2, ins |-> ins, outs |-> outs, lock |-> 9]
WireTxs == {WireTx(<<WireIn(0, 0, <<>>)>>, <<WireOut(5, 25)>>),
        WireTx(<<WireIn(1, 107, <<>>), WireIn(2, 0, <<72, 33>>)>>, <<WireOut(5, 22), WireOut(6, 34)>>),
        WireTx(<<WireIn(3, 253, <<0, 252, 253>>)>>, <<WireOut(5, 65536), WireOut(6, 252)>>)}
Addr(n) == [time |-> 0, services |-> n, ip |-> n + 1, port |-> n + 2]
AddrV2(net, a) == [time |-> 3, services |-> 253, net |-> net, addr |-> a, port |-> 8333]
Leaf(h, cb, type, len) == [height |-> h, coinbase |-> cb, amount |-> 50, type |-> type, script |-> len]
Leaves == <<Leaf(0, FALSE, 1, 0), Leaf(7, TRUE, 0, 10000), Leaf(8, FALSE, 0, 35)>>
Pending == [height |-> -1, coinbase |-> FALSE, amount |-> 0, type |-> 0, script |-> 0]
Alerts == {[version |-> 1, until |-> 2, expire |-> 3, id |-> 4, cancel |-> 5, cancels |-> n, min |-> 6, max |-> 7,
            subvers |-> v, priority |-> 8, comment |-> 300, status |-> 0, reserved |-> 0] :
              n \in {0, 253}, v \in {<<>>, <<0, 256>>}}
UtxTx == CHOOSE t \in WireTxs : Len(t.ins) = 2

WireProbe == <<"inv", [invs |-> 1]>>
WirePvers == {208, 31401, 60000, 60001, 60002, 70001, 70002, 70012, 70016}
WireSamples ==
    {<<c, <<>>>> : c \in {"verack", "getaddr", "sendaddrv2", "mempool", "filterclear", "sendheaders"}}
    \cup {<<"addr", [addrs |-> n]>> : n \in {0, 1, 2, 253, 1000, 1001}}
    \cup {<<"addrv2", [addrs |-> a]>> : a \in {<<>>, <<AddrV2(1, 9), AddrV2(4, 9)>>, <<AddrV2(5, 9)>>,
                                             <<AddrV2(2, 9), AddrV2(3, 9)>>}}
    \cup {<<c, [invs |-> n]>> : c \in {"inv", "getdata", "notfound"}, n \in {0, 252, 50000, 50001}}
    \cup {<<"headers", [headers |-> h]>> : h \in {<<>>, <<WireHeader(1)>>, <<WireHeader(1), WireHeader(9)>>}}
    \cup {<<c, [version |-> 70016, locator |-> n, stop |-> 3]>> :
            c \in {"getblocks", "getheaders"}, n \in {0, 500, 501}}
    \cup {<<"cfcheckpt", [type |-> 0, stop |-> 4, headers |-> n]>> : n \in {0, 253, 100000}}
    \cup {<<"cfheaders", [type |-> 0, stop |-> 4, prev |-> 5, hashes |-> n]>> : n \in {0, 2000, 2001}}
    \cup {<<"cfilter", [type |-> 0, block |-> 4, data |-> n]>> : n \in {0, 65536, 262144, 262145}}
    \cup {<<c, [type |-> 0, start |-> 6, stop |-> 4]>> : c \in {"getcfheaders", "getcfilters"}}
    \cup {<<"getcfcheckpt", [type |-> 0, stop |-> 4]>>}
    \cup {<<"filteradd", [data |-> n]>> : n \in {0, 520, 521}}
    \cup {<<"filterload", [filter |-> n, funcs |-> k, tweak |-> 3, flags |-> 1]>> :
            n \in {0, 36000, 36001}, k \in {50, 51}}
    \cup {<<"merkleblock", [header |-> WireHeader(1), txs |-> 3, hashes |-> n, flags |-> 50000]>> :
            n \in {0, 100000, 400001, 400002}}
    \cup {<<"feefilter", [fee |-> 1000]>>, <<"ping", [nonce |-> 4]>>, <<"pong", [nonce |-> 4]>>}
    \cup {<<"version", [version |-> 70016, services |-> 1, time |-> 2, you |-> Addr(1), me |-> Addr(4),
                        nonce |-> 3, agent |-> n, last |-> 7, relay |-> 1]>> : n \in {0, 256, 257}}
    \cup {<<"reject", [cmd |-> 2, code |-> 16, reason |-> 300, hash |-> 6]>>,
          <<"reject", [cmd |-> 7, code |-> 16, reason |-> 0, hash |-> 0]>>}
    \cup {<<"alert", [payload |-> n, alert |-> <<>>, signature |-> 72]>> : n \in {0, 45, 70000}}
    \cup {<<"alert", [payload |-> SizeOf(AlertSerialize(a)), alert |-> a, signature |-> 0]>> : a \in Alerts}
    \cup {<<"tx", t>> : t \in WireTxs}
    \cup {<<"block", [header |-> WireHeader(3), txs |-> b]>> :
            b \in {<<>>} \cup {<<x>> : x \in WireTxs} \cup {<<x, y>> : x \in WireTxs, y \in WireTxs}}
    \cup {<<"utreexotx", [targets |-> <<5, 70000>>, hashes |-> 3, tx |-> UtxTx, leaves |-> l]>> :
            l \in {<<Leaves[1], Leaves[3]>>, <<Pending, Leaves[2]>>, <<Leaves[3], Pending>>}}
    \cup {<<"uproof", [block |-> 4, hashes |-> h, targets |-> t, leaves |-> l]>> :
            h \in {0, 253}, t \in {<<>>, <<3, 300, -1>>}, l \in {<<>>, Leaves}}
    \cup {<<"getuproof", [block |-> 4, request |-> 3, proofbits |-> p, leafbits |-> l]>> :
            p \in {0, 1, 300}, l \in {0, 1}}
    \cup {<<"uroot", [leaves |-> n, target |-> 3, block |-> 4, roots |-> r, proof |-> p]>> :
            n \in {5, -5}, r \in {0, 63}, p \in {0, 255}}
    \cup {<<"geturoot", [block |-> 4]>>}
    \cup {<<"uttls", [ttls |-> t, hashes |-> h]>> :
            t \in {<<>>, <<[height |-> 4, ttls |-> 300], [height |-> 5, ttls |-> 0]>>}, h \in {0, 40}}
    \cup {<<"getuttls", [version |-> v, start |-> 100, exponent |-> e]>> : v \in {99, 100}, e \in {0, 5, 6}}
    \cup {<<"wtxidrelay", [size |-> n]>> : n \in {0, 5}}

-----------------------------------------------------------------------------
(* Headers: version bits, difficulty, checkpoints.                         *)

Version5 == [n |-> 5, bits |-> {}]
Quiet == [deployments |-> <<>>, bits |-> {}, window |-> 100, threshold |-> 1, medianTimeBlocks |-> 3,
          powLimit |-> 60, genesisBits |-> [exp |-> 4, man |-> 12], blocksPerRetarget |-> 100,
          minTimespan |-> 2, maxTimespan |-> 8, targetTimespan |-> 4, adjustmentFactor |-> 2,
          reduceMinDifficulty |-> FALSE, minDiffReductionTime |-> 3, checkpoints |-> <<>>, goodTimes |-> <<>>,
          goodVersion |-> Version5, bip34 |-> 1, bip66 |-> 1, bip65 |-> 1,
          maxNodes |-> 7, maxForks |-> 0, gaps |-> {1, 2, 5}, versions |-> {Version5}]

Params ==
    {[Quiet EXCEPT !.deployments = <<[bit |-> 0, start |-> 1, end |-> 3, minHeight |-> 0, threshold |-> 0],
                                     [bit |-> 1, start |-> 0, end |-> 3, minHeight |-> 4, threshold |-> 1]>>,
                   !.bits = {1, 2}, !.window = 2, !.threshold = 2, !.gaps = {1, 3},
                   !.versions = {[n |-> 5, bits |-> {0, 2}], [n |-> 5, bits |-> {1}]}],
     [Quiet EXCEPT !.deployments = <<[bit |-> 0, start |-> 5, end |-> 9, minHeight |-> 0, threshold |-> 0]>>,
                   !.bits = {0}, !.window = 2, !.threshold = 1, !.gaps = {1, 4}, !.versions = {Version5, [n |-> 5, bits |-> {0}]}],
     [Quiet EXCEPT !.blocksPerRetarget = 2, !.maxNodes = 7, !.gaps = {1, 4, 9}],
     [Quiet EXCEPT !.blocksPerRetarget = 3, !.maxNodes = 7, !.gaps = {1, 4, 9}, !.reduceMinDifficulty = TRUE],
     [Quiet EXCEPT !.deployments = <<[bit |-> 0, start |-> 0, end |-> 0, minHeight |-> 0, threshold |-> 0]>>, !.window = 2, !.checkpoints = <<2, 4>>, !.goodTimes = <<1, 2, 2, 3>>, !.maxForks = 1, !.maxNodes = 6,
                   !.bip34 = 1, !.bip66 = 2, !.bip65 = 3, !.gaps = {1, 2},
                   !.versions = {[n |-> 2, bits |-> {}], [n |-> 3, bits |-> {}], Version5}]}

Headers == INSTANCE HeaderRules
    WITH Base <- 4

\* The header rules do what they are defined to do on every branch: skip lists
\* find the ancestors, the median time advances, cached deployment states equal
\* computed ones, targets change within their bounds, and checkpoints hold.
HeadersSound == machine = "headers" => Headers!HeadersSound

-----------------------------------------------------------------------------
(* Blocks: sanity, context and inputs.                                     *)

In(prev, kind, n) == [prev |-> prev, seq |-> [kind |-> kind, n |-> n], sigLen |-> 2, sigOps |-> 0,
                      p2shOps |-> 1, witOps |-> 1, push |-> TRUE]
Out(value, class) == [value |-> value, class |-> class, sigOps |-> 1, size |-> 10,
                      keys |-> 0, sigs |-> 0]
Basic == [ins |-> <<>>, outs |-> <<>>, version |-> 2, lockTime |-> 0, base |-> 10, total |-> 10,
          witness |-> FALSE, scripts |-> TRUE, height |-> 0]
Coin(height, value) == [Basic EXCEPT !.ins = <<In(<<0, 0>>, "max", 0)>>, !.outs = <<Out(value, "pubkey")>>,
                                     !.height = height]
Pay(ins, outs) == [Basic EXCEPT !.ins = ins, !.outs = outs]
Transactions ==
    (1 :> Coin(1, 8)) @@ (2 :> Coin(2, 8)) @@ (3 :> Coin(3, 4)) @@ (4 :> Coin(4, 5)) @@ (5 :> Coin(3, 9)) @@
    (11 :> Pay(<<In(<<1, 1>>, "height", 2)>>, <<Out(5, "scripthash"), Out(2, "pubkey"), Out(0, "nulldata")>>)) @@
    (12 :> Pay(<<In(<<11, 1>>, "time", 1)>>, <<Out(5, "pubkey")>>)) @@
    (13 :> [Pay(<<In(<<1, 1>>, "last", 0)>>, <<Out(8, "pubkey")>>) EXCEPT !.lockTime = 5]) @@
    (14 :> Pay(<<In(<<11, 2>>, "off", 0), In(<<2, 1>>, "max", 0)>>, <<Out(10, "pubkey")>>)) @@
    (6 :> [Coin(3, 4) EXCEPT !.witness = TRUE]) @@ (7 :> [Coin(4, 5) EXCEPT !.witness = TRUE]) @@
    (16 :> [Pay(<<In(<<11, 2>>, "max", 0)>>, <<Out(1, "pubkey")>>) EXCEPT !.witness = TRUE]) @@
    (15 :> [Pay(<<In(<<11, 2>>, "max", 0), In(<<11, 2>>, "max", 0)>>, <<Out(4, "pubkey")>>) EXCEPT !.witness = TRUE])
Submitted ==
    {[time |-> gap, version |-> v, txs |-> <<cb>> \o rest, commitment |-> c] :
        gap \in {1, 3}, v \in {4}, cb \in 1 .. 5, c \in {"none"},
        rest \in {<<>>, <<11>>, <<13>>, <<12>>, <<11, 12>>, <<12, 11>>, <<11, 13>>, <<14>>, <<11, 14>>, <<15>>}}
    \cup {[time |-> 1, version |-> 4, txs |-> t, commitment |-> c] :
            t \in {<<6, 11>>, <<6, 11, 16>>, <<7, 16>>}, c \in {"none", "good", "bad"}}
    \cup {[time |-> 1, version |-> 1, txs |-> <<cb>>, commitment |-> "none"] : cb \in {1, 2}}
Forks(b16, csv, segwit, b34) == [bip16 |-> b16, csv |-> csv, segwit |-> segwit, bip34 |-> b34, checkpoint |-> 0]
Rules == {Forks(TRUE, FALSE, FALSE, 100), Forks(TRUE, TRUE, TRUE, 1)}

Ledger == INSTANCE BlockRules
    WITH MaxSatoshi <- 20, BaseSubsidy <- 8, SubsidyInterval <- 3,
         CoinbaseMaturity <- 2, MaxBlockBaseSize <- 30, MaxBlockWeight <-
         120, MaxBlockSigOpsCost <- 40, LockTimeThreshold <- 3,
         Granularity <- 2, MedianBlocks <- 3, MaxHeight <- 4


-----------------------------------------------------------------------------
Machines == {"script", "link", "headers", "blocks"}

HeadersIdle ==
    par = 0 /\ nodes = 0 /\ tip = 0 /\ cp = 0 /\ caches = 0

BlocksIdle ==
    rules = 0 /\ chain = 0 /\ utxos = 0

MCInit ==
    /\ machine \in Machines
    /\ machine # "script" => input = Anyone
    /\ Init
    /\ machine # "link" => todo = <<<<"inv", [invs |-> 0]>>, WireProbe>> /\ link = [pver |-> 70016, wit |-> TRUE, v2 |-> FALSE, tolerant |-> FALSE]
    /\ LinkInit
    /\ IF machine = "headers" THEN Headers!Init ELSE HeadersIdle
    /\ IF machine = "blocks" THEN Ledger!Init ELSE BlocksIdle

ScriptStep ==
    /\ machine = "script" /\ Next
    /\ UNCHANGED <<machine, linkVars, HeadersVars, BlocksVars>>

LinkStep ==
    /\ machine = "link" /\ LinkNext
    /\ UNCHANGED <<machine, vars, HeadersVars, BlocksVars>>

HeadersStep ==
    /\ machine = "headers" /\ Headers!Next
    /\ UNCHANGED <<machine, vars, linkVars, BlocksVars>>

BlocksStep ==
    /\ machine = "blocks" /\ Ledger!Next
    /\ UNCHANGED <<machine, vars, linkVars, HeadersVars>>

MCNext ==
    ScriptStep \/ LinkStep \/ HeadersStep \/ BlocksStep

all == <<machine, vars, linkVars, HeadersVars, BlocksVars>>

MCSpec == MCInit /\ [][MCNext]_all
=============================================================================
