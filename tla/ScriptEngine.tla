---------------------------- MODULE ScriptEngine ----------------------------
(***************************************************************************)
(* The script engine of txscript: Engine, its data and alternate stacks,   *)
(* script numbers, the conditional stack, and every opcode handler.        *)
(*                                                                         *)
(* One input is executed by one engine per rule set, in lock step: rules   *)
(* are the flags blockchain.checkConnectBlock adds as soft forks activate, *)
(* and the flags of the memory pool.  The opcodes of a script are chosen   *)
(* as they are executed, so a behaviour is a script.                       *)
(*                                                                         *)
(* A stack item is a sequence of bytes.  A key, signature, hash or script  *)
(* is a short sequence that starts with a mark above 255.  A handler is an *)
(* operator from an engine to the set of its successors; the set is empty  *)
(* when the handler returns an error.                                      *)
(***************************************************************************)
EXTENDS Integers, Sequences, FiniteSets, SequencesExt

CONSTANTS
    Programs,              \* the inputs that are executed
    Vocabularies,          \* the opcodes free scripts are written from: name to
                           \* [tokens, max], max bounding their number
    RuleSets,              \* sequence of sets of flags, each one stricter
    MaxStackSize,
    MaxOpsPerScript,
    MaxScriptElementSize,
    MaxPubKeysPerMultiSig,
    maxScriptNumLen,
    cltvMaxScriptNumLen,
    LockTimeThreshold,
    SequenceBits           \* [disabled, seconds, mask, max]: layout of a sequence

VARIABLES
    input,                 \* the program being executed
    engines,               \* one engine per rule set
    script,                \* which script is being executed
    tokens,                \* opcodes executed so far
    counted                \* countSigOpsV0 of the current script so far

vars == <<input, engines, script, tokens, counted>>

-----------------------------------------------------------------------------
(* Byte strings *)

KeyMark == 300
SigMark == 301
HashMark == 302
ScriptMark == 303
ControlMark == 304

\* A public key: k names the key, form its encoding.
Key(k, form) == <<KeyMark, k, form>>
\* A signature by k over a digest of the given algorithm, code separator and
\* hash type.
Sig(k, form, alg, sep, type) == <<SigMark, k, form, alg, sep, type>>
Hash(fn, item) == <<HashMark, fn>> \o item
\* The serialized form of the free script that the witness or the signature
\* script carries.
FreeScript == <<ScriptMark>>

Marked(item, mark) == item # <<>> /\ item[1] = mark

Compressed == 1
Uncompressed == 2
Hybrid == 3
XOnly == 4
Unparsable == 5

Strict == 1
HighS == 2
LaxDER == 3
Garbage == 4
Schnorr == 5
SchnorrTyped == 6

Ripemd160 == 1
Sha1 == 2
Sha256 == 3
Hash160 == 4
Hash256 == 5

Size(item) ==
    CASE Marked(item, KeyMark) -> <<33, 65, 65, 32, 33>>[item[3]]
      [] Marked(item, SigMark) -> <<71, 71, 71, 9, 64, 65>>[item[3]]
      [] Marked(item, HashMark) -> <<20, 20, 32, 20, 32>>[item[2]]
      [] Marked(item, ScriptMark) -> 40
      [] Marked(item, ControlMark) -> 33
      [] OTHER -> Len(item)

-----------------------------------------------------------------------------
(* Script numbers *)

asBool(item) ==
    \E i \in 1 .. Len(item) : item[i] # 0 /\ ~(i = Len(item) /\ item[i] = 128)

fromBool(b) == IF b THEN <<1>> ELSE <<>>

checkMinimalDataEncoding(v) ==
    \/ v = <<>>
    \/ Last(v) % 128 # 0
    \/ Len(v) > 1 /\ v[Len(v) - 1] >= 128

Bytes(n) ==
    LET mag == IF n < 0 THEN -n ELSE n
        raw[m \in 0 .. mag] == IF m = 0 THEN <<>> ELSE <<m % 256>> \o raw[m \div 256]
        bytes == raw[mag]
    IN  CASE n = 0 -> <<>>
          [] n # 0 /\ Last(bytes) >= 128 -> Append(bytes, IF n < 0 THEN 128 ELSE 0)
          [] n < 0 /\ Last(bytes) < 128 -> [bytes EXCEPT ![Len(bytes)] = @ + 128]
          [] OTHER -> bytes

Magnitude(v) ==
    LET low(i) == IF i = Len(v) THEN v[i] % 128 ELSE v[i]
        sum[i \in 0 .. Len(v)] == IF i = 0 THEN 0 ELSE sum[i - 1] + low(i) * 256 ^ (i - 1)
    IN  sum[Len(v)]

makeScriptNum(v, requireMinimal, scriptNumLen) ==
    IF Size(v) > scriptNumLen \/ (requireMinimal /\ ~checkMinimalDataEncoding(v))
    THEN {}
    ELSE IF v = <<>> THEN {0}
    ELSE {IF Last(v) >= 128 THEN -Magnitude(v) ELSE Magnitude(v)}

-----------------------------------------------------------------------------
(* The engine and its stacks *)

NoWitness == -1
V0 == 0
V1 == 1

Running(e) == e.result = "running"

hasFlag(e, flag) == flag \in e.flags
isWitnessVersionActive(e, version) == e.witnessVersion = version

Depth(stk) == Len(stk)
\* The item idx below the top.
Peek(stk, idx) == stk[Len(stk) - idx]
DropTop(stk, n) == SubSeq(stk, 1, Len(stk) - n)
TopItems(stk, n) == SubSeq(stk, Len(stk) - n + 1, Len(stk))

\* The engine with another data stack.
With(e, stk) == [e EXCEPT !.d = stk]

\* The engines that remain once n items are popped and items pushed; none when
\* the stack is too short.
PopPush(e, n, items) ==
    IF Depth(e.d) < n THEN {} ELSE {With(e, DropTop(e.d, n) \o items)}

\* The n numbers on top of the stack, deepest first; none when PopInt fails.
PopInts(e, n) ==
    IF Depth(e.d) < n THEN {}
    ELSE LET num(i) == makeScriptNum(Peek(e.d, n - i), hasFlag(e, "MinimalData"), maxScriptNumLen)
         IN  IF \E i \in 1 .. n : num(i) = {} THEN {}
             ELSE {[i \in 1 .. n |-> CHOOSE v \in num(i) : TRUE]}

nipN(e, idx) ==
    IF idx < 0 \/ idx > Depth(e.d) - 1 THEN {}
    ELSE {With(e, DropTop(e.d, idx + 1) \o TopItems(e.d, idx))}

DropN(e, n) == PopPush(e, n, <<>>)
DupN(e, n) == IF Depth(e.d) < n THEN {} ELSE {With(e, e.d \o TopItems(e.d, n))}
RotN(e, n) ==
    IF Depth(e.d) < 3 * n THEN {}
    ELSE {With(e, DropTop(e.d, 3 * n) \o TopItems(e.d, 2 * n)
                  \o SubSeq(TopItems(e.d, 3 * n), 1, n))}
SwapN(e, n) ==
    IF Depth(e.d) < 2 * n THEN {}
    ELSE {With(e, DropTop(e.d, 2 * n) \o TopItems(e.d, n) \o SubSeq(TopItems(e.d, 2 * n), 1, n))}
OverN(e, n) ==
    IF Depth(e.d) < 2 * n THEN {} ELSE {With(e, e.d \o SubSeq(TopItems(e.d, 2 * n), 1, n))}
PickN(e, n) ==
    IF n < 0 \/ n >= Depth(e.d) THEN {} ELSE {With(e, Append(e.d, Peek(e.d, n)))}
RollN(e, n) ==
    IF n < 0 \/ n >= Depth(e.d) THEN {}
    ELSE {With(e, DropTop(e.d, n + 1) \o TopItems(e.d, n) \o <<Peek(e.d, n)>>)}
Tuck(e) ==
    IF Depth(e.d) < 2 THEN {}
    ELSE {With(e, DropTop(e.d, 2) \o <<Peek(e.d, 0), Peek(e.d, 1), Peek(e.d, 0)>>)}

\* abstractVerify: what is left of the engines whose top item is true.
abstractVerify(es) ==
    {With(e, DropTop(e.d, 1)) : e \in {x \in es : Depth(x.d) > 0 /\ asBool(Peek(x.d, 0))}}

-----------------------------------------------------------------------------
(* Conditional execution *)

OpCondSkip == "skip"

isBranchExecuting(e) == e.cond = <<>> \/ Last(e.cond) = "true"

isOpcodeConditional(op) == op \in {"OP_IF", "OP_NOTIF", "OP_ELSE", "OP_ENDIF"}

\* The engines that remain, each with the Boolean popped.
popIfBool(e) ==
    LET minimal == isWitnessVersionActive(e, V1)
                     \/ (isWitnessVersionActive(e, V0) /\ hasFlag(e, "MinimalIf"))
    IN  IF Depth(e.d) = 0 \/ (minimal /\ Peek(e.d, 0) \notin {<<>>, <<1>>}) THEN {}
        ELSE {<<With(e, DropTop(e.d, 1)), asBool(Peek(e.d, 0))>>}

opcodeIf(e, taken) ==
    IF ~isBranchExecuting(e) THEN {[e EXCEPT !.cond = Append(@, OpCondSkip)]}
    ELSE {[r[1] EXCEPT !.cond = Append(@, IF r[2] = taken THEN "true" ELSE "false")]
          : r \in popIfBool(e)}

opcodeElse(e) ==
    IF e.cond = <<>> THEN {}
    ELSE {[e EXCEPT !.cond[Len(e.cond)] = CASE @ = "true" -> "false"
                                            [] @ = "false" -> "true"
                                            [] OTHER -> @]}

opcodeEndif(e) == IF e.cond = <<>> THEN {} ELSE {[e EXCEPT !.cond = Front(@)]}

-----------------------------------------------------------------------------
(* Numeric opcodes *)

Truth(b) == IF b THEN 1 ELSE 0

UnaryOps == {"OP_1ADD", "OP_1SUB", "OP_NEGATE", "OP_ABS", "OP_NOT", "OP_0NOTEQUAL"}
Unary(op, m) ==
    CASE op = "OP_1ADD" -> m + 1
      [] op = "OP_1SUB" -> m - 1
      [] op = "OP_NEGATE" -> -m
      [] op = "OP_ABS" -> IF m < 0 THEN -m ELSE m
      [] op = "OP_NOT" -> Truth(m = 0)
      [] op = "OP_0NOTEQUAL" -> Truth(m # 0)

\* The operands of a binary opcode: v0 is popped first, it is the top item.
ArithmeticOps == {"OP_ADD", "OP_SUB", "OP_BOOLAND", "OP_BOOLOR"}
Arithmetic(op, v1, v0) ==
    CASE op = "OP_ADD" -> v0 + v1
      [] op = "OP_SUB" -> v1 - v0
      [] op = "OP_BOOLAND" -> Truth(v0 # 0 /\ v1 # 0)
      [] op = "OP_BOOLOR" -> Truth(v0 # 0 \/ v1 # 0)

ComparisonOps == {"OP_NUMEQUAL", "OP_NUMNOTEQUAL", "OP_LESSTHAN", "OP_GREATERTHAN",
                  "OP_LESSTHANOREQUAL", "OP_GREATERTHANOREQUAL"}
Comparison(op, v1, v0) ==
    CASE op = "OP_NUMEQUAL" -> Truth(v0 = v1)
      [] op = "OP_NUMNOTEQUAL" -> Truth(v0 # v1)
      [] op = "OP_LESSTHAN" -> Truth(v1 < v0)
      [] op = "OP_GREATERTHAN" -> Truth(v1 > v0)
      [] op = "OP_LESSTHANOREQUAL" -> Truth(v1 <= v0)
      [] op = "OP_GREATERTHANOREQUAL" -> Truth(v1 >= v0)

ChoiceOps == {"OP_MIN", "OP_MAX"}
Choice(op, v1, v0) ==
    IF op = "OP_MIN" THEN IF v1 < v0 THEN v1 ELSE v0 ELSE IF v1 > v0 THEN v1 ELSE v0

BinaryOps == ArithmeticOps \cup ComparisonOps \cup ChoiceOps
Binary(op, v1, v0) ==
    CASE op \in ArithmeticOps -> Arithmetic(op, v1, v0)
      [] op \in ComparisonOps -> Comparison(op, v1, v0)
      [] op \in ChoiceOps -> Choice(op, v1, v0)

opcodeUnary(e, op) == UNION {PopPush(e, 1, <<Bytes(Unary(op, v[1]))>>) : v \in PopInts(e, 1)}
opcodeBinary(e, op) == UNION {PopPush(e, 2, <<Bytes(Binary(op, v[1], v[2]))>>) : v \in PopInts(e, 2)}
opcodeNumEqualVerify(e) == abstractVerify(opcodeBinary(e, "OP_NUMEQUAL"))
opcodeWithin(e) ==
    UNION {PopPush(e, 3, <<fromBool(v[1] >= v[2] /\ v[1] < v[3])>>) : v \in PopInts(e, 3)}

opcodeEqual(e) ==
    IF Depth(e.d) < 2 THEN {} ELSE PopPush(e, 2, <<fromBool(Peek(e.d, 0) = Peek(e.d, 1))>>)
opcodeEqualVerify(e) == abstractVerify(opcodeEqual(e))

opcodeHash(e, fn) == IF Depth(e.d) = 0 THEN {} ELSE PopPush(e, 1, <<Hash(fn, Peek(e.d, 0))>>)

opcodeIfDup(e) ==
    IF Depth(e.d) = 0 THEN {}
    ELSE IF asBool(Peek(e.d, 0)) THEN DupN(e, 1) ELSE {e}
opcodeDepth(e) == PopPush(e, 0, <<Bytes(Depth(e.d))>>)
opcodeSize(e) == IF Depth(e.d) = 0 THEN {} ELSE PopPush(e, 0, <<Bytes(Size(Peek(e.d, 0)))>>)
opcodePick(e) == UNION {PickN(With(e, DropTop(e.d, 1)), v[1]) : v \in PopInts(e, 1)}
opcodeRoll(e) == UNION {RollN(With(e, DropTop(e.d, 1)), v[1]) : v \in PopInts(e, 1)}

opcodeToAltStack(e) ==
    IF e.d = <<>> THEN {}
    ELSE {[e EXCEPT !.d = DropTop(@, 1), !.a = Append(@, Peek(e.d, 0))]}
opcodeFromAltStack(e) ==
    IF e.a = <<>> THEN {}
    ELSE {[e EXCEPT !.a = DropTop(@, 1), !.d = Append(@, Peek(e.a, 0))]}

-----------------------------------------------------------------------------
(* Lock times *)

verifyLockTime(txLockTime, threshold, lockTime) ==
    (txLockTime < threshold <=> lockTime < threshold) /\ lockTime <= txLockTime

\* An upgraded no-op: nothing without its flag unless no-ops are discouraged.
AsNop(e) == IF hasFlag(e, "DiscourageUpgradableNops") THEN {} ELSE {e}

\* The number on top of the stack, which stays there.
PeekLockTime(e) ==
    IF Depth(e.d) = 0 THEN {}
    ELSE {n \in makeScriptNum(Peek(e.d, 0), hasFlag(e, "MinimalData"), cltvMaxScriptNumLen)
          : n >= 0}

opcodeCheckLockTimeVerify(e, tx) ==
    IF ~hasFlag(e, "CheckLockTimeVerify") THEN AsNop(e)
    ELSE {e : n \in {m \in PeekLockTime(e) :
                        /\ verifyLockTime(tx.lockTime, LockTimeThreshold, m)
                        /\ tx.sequence # SequenceBits.max}}

Bit(n, bit) == (n \div bit) % 2 = 1
MaskedSequence(n) ==
    (n % SequenceBits.mask) + (IF Bit(n, SequenceBits.seconds) THEN SequenceBits.seconds ELSE 0)

opcodeCheckSequenceVerify(e, tx) ==
    IF ~hasFlag(e, "CheckSequenceVerify") THEN AsNop(e)
    ELSE {e : n \in {m \in PeekLockTime(e) :
                        \/ Bit(m, SequenceBits.disabled)
                        \/ /\ tx.version >= 2
                           /\ ~Bit(tx.sequence, SequenceBits.disabled)
                           /\ verifyLockTime(MaskedSequence(tx.sequence), SequenceBits.seconds,
                                             MaskedSequence(m))}}

-----------------------------------------------------------------------------
(* Signatures *)

Legacy == 0
SegwitV0 == 1
Tapscript == 2
KeySpend == 3

KeyForm(pk) == IF Marked(pk, KeyMark) THEN pk[3] ELSE 0
SigForm(sig) == IF Marked(sig, SigMark) THEN sig[3] ELSE Garbage

checkHashTypeEncoding(e, sig) ==
    hasFlag(e, "StrictEncoding") => Last(sig) % 128 \in 1 .. 3 /\ Last(sig) < 256

checkSignatureEncoding(e, sig) ==
    {"DERSignatures", "LowS", "StrictEncoding"} \cap e.flags # {} =>
        /\ SigForm(sig) \in {Strict, HighS}
        /\ hasFlag(e, "LowS") => SigForm(sig) # HighS

checkPubKeyEncoding(e, pk) ==
    /\ hasFlag(e, "WitnessPubKeyType") /\ isWitnessVersionActive(e, V0) =>
           KeyForm(pk) \in {Compressed, Unparsable}
    /\ hasFlag(e, "StrictEncoding") => KeyForm(pk) \in {Compressed, Uncompressed, Unparsable}

ParsePubKey(pk) == KeyForm(pk) \in {Compressed, Uncompressed, Hybrid}
ParseSignature(e, sig) ==
    \/ SigForm(sig) \in {Strict, HighS}
    \/ SigForm(sig) = LaxDER /\ {"DERSignatures", "StrictEncoding"} \cap e.flags = {}

\* The signature is by the key's owner over this algorithm's digest, from this
\* code separator on.
Verify(sig, pk, alg, sep) ==
    /\ Marked(sig, SigMark) /\ Marked(pk, KeyMark)
    /\ sig[2] = pk[2] /\ sig[4] = alg /\ sig[5] = sep

BaseAlgorithm(e) == IF isWitnessVersionActive(e, V0) THEN SegwitV0 ELSE Legacy

\* newBaseSigVerifier and Verify: none when an encoding is an error.
BaseVerdict(e, sig, pk) ==
    IF ~(checkHashTypeEncoding(e, sig) /\ checkSignatureEncoding(e, sig) /\ checkPubKeyEncoding(e, pk))
    THEN {}
    ELSE {IF ~(ParsePubKey(pk) /\ ParseSignature(e, sig)) THEN "unparsed"
          ELSE IF Verify(sig, pk, BaseAlgorithm(e), e.sep) THEN "valid" ELSE "invalid"}

\* parseTaprootSigAndPubKey and Verify.
TaprootVerdict(sig, pk, alg, sep) ==
    IF KeyForm(pk) # XOnly \/ SigForm(sig) \notin {Schnorr, SchnorrTyped}
       \/ (SigForm(sig) = SchnorrTyped /\ Last(sig) = 0)
    THEN {}
    ELSE {/\ Verify(sig, pk, alg, sep)
          /\ Last(sig) \in {0, 1, 2, 3, 129, 130, 131}}

\* newBaseTapscriptSigVerifier and Verify.
TapscriptVerdict(e, sig, pk) ==
    CASE Size(pk) = 0 -> {}
      [] Size(pk) = 32 -> TaprootVerdict(sig, pk, Tapscript, e.sep)
      [] OTHER -> IF hasFlag(e, "DiscourageUpgradeablePubkeyType") THEN {} ELSE {TRUE}

sigOpsDelta == 50

tallysigOp(e) ==
    IF e.budget - sigOpsDelta < 0 THEN {} ELSE {[e EXCEPT !.budget = @ - sigOpsDelta]}

\* One signature was verified.
Checked(e, n) == [e EXCEPT !.checks = @ + n]

\* The signature check of a tapscript: engines paired with what it found.
TapscriptCheck(e, sig, pk) ==
    IF sig = <<>> THEN IF Size(pk) = 0 THEN {} ELSE {<<e, FALSE>>}
    ELSE UNION {{<<Checked(t, 1), TRUE>> : v \in {x \in TapscriptVerdict(t, sig, pk) : x}}
                : t \in tallysigOp(e)}

opcodeCheckSig(e) ==
    IF Depth(e.d) < 2 THEN {}
    ELSE LET pk == Peek(e.d, 0)
             sig == Peek(e.d, 1)
             rest == With(e, DropTop(e.d, 2))
         IN  IF e.tap
             THEN UNION {PopPush(r[1], 0, <<fromBool(r[2])>>) : r \in TapscriptCheck(rest, sig, pk)}
             ELSE IF sig = <<>> THEN PopPush(rest, 0, <<fromBool(FALSE)>>)
             ELSE UNION {PopPush(Checked(rest, 1), 0, <<fromBool(v = "valid")>>)
                         : v \in {x \in BaseVerdict(e, sig, pk) :
                                     x # "invalid" \/ ~hasFlag(e, "NullFail")}}

opcodeCheckSigAdd(e) ==
    IF ~e.tap \/ Depth(e.d) < 3 THEN {}
    ELSE UNION {UNION {PopPush(r[1], 0, <<Bytes(acc + Truth(r[2]))>>)
                       : r \in TapscriptCheck(With(e, DropTop(e.d, 3)), Peek(e.d, 2), Peek(e.d, 0))}
                : acc \in makeScriptNum(Peek(e.d, 1), hasFlag(e, "MinimalData"), maxScriptNumLen)}

\* Mutant: a signature that does not match a key is given up.
MultiSigNoRetry(e, sigs, keys, at) ==
    [at EXCEPT !.key = @ + 1, !.sig = @ + 1, !.checks = @ + 1,
               !.failed = ~Verify(sigs[at.sig + 1], keys[at.key + 1], BaseAlgorithm(e), e.sep)]

\* One turn of the loop of opcodeCheckMultiSig: the next key is tried with the
\* first signature that has no key yet.
MultiSigTurn(e, sigs, keys, at) ==
    LET sig == sigs[at.sig + 1]
        pk == keys[at.key + 1]
        next == [at EXCEPT !.key = @ + 1]
    IN  CASE Len(sigs) - at.sig > Len(keys) - at.key -> [at EXCEPT !.failed = TRUE]
          [] Len(sigs) - at.sig <= Len(keys) - at.key /\ sig = <<>> -> next
          [] OTHER ->
               IF ~(checkHashTypeEncoding(e, sig) /\ checkSignatureEncoding(e, sig))
               THEN [at EXCEPT !.error = TRUE]
               ELSE IF ~ParseSignature(e, sig) THEN next
               ELSE IF ~checkPubKeyEncoding(e, pk) THEN [at EXCEPT !.error = TRUE]
               ELSE IF ~ParsePubKey(pk) THEN next
               ELSE [next EXCEPT !.checks = @ + 1,
                                 !.sig = IF Verify(sig, pk, BaseAlgorithm(e), e.sep) THEN @ + 1 ELSE @]

MultiSigLoop(e, sigs, keys) ==
    LET start == [key |-> 0, sig |-> 0, failed |-> FALSE, error |-> FALSE, checks |-> 0]
        over(at) == at.failed \/ at.error \/ at.sig = Len(sigs)
        turn[i \in 0 .. Len(keys) + 1] ==
            IF i = 0 THEN start
            ELSE IF over(turn[i - 1]) THEN turn[i - 1] ELSE MultiSigTurn(e, sigs, keys, turn[i - 1])
    IN  turn[Len(keys) + 1]

Reversed(s) == [i \in 1 .. Len(s) |-> s[Len(s) + 1 - i]]

\* The keys and signatures opcodeCheckMultiSig pops, in the order it pops them,
\* with the dummy and the rest of the stack; none when it stops before the loop.
MultiSigArgs(e) ==
    LET count(i) == IF Depth(e.d) <= i THEN {}
                    ELSE makeScriptNum(Peek(e.d, i), hasFlag(e, "MinimalData"), maxScriptNumLen)
    IN  UNION {{[keys |-> Reversed(TopItems(DropTop(e.d, 1), n)),
                 sigs |-> Reversed(TopItems(DropTop(e.d, n + 2), m)),
                 dummy |-> Peek(e.d, n + m + 2),
                 rest |-> DropTop(e.d, n + m + 3)]
                : m \in {x \in count(n + 1) : x \in 0 .. n /\ Depth(e.d) > n + x + 2}}
               : n \in {x \in count(0) : x \in 0 .. MaxPubKeysPerMultiSig
                                           /\ e.ops + x <= MaxOpsPerScript}}

opcodeCheckMultiSig(e) ==
    IF e.tap THEN {}
    ELSE LET Push(args, loop) ==
                 IF \/ loop.error
                    \/ loop.failed /\ hasFlag(e, "NullFail") /\ \E i \in DOMAIN args.sigs : args.sigs[i] # <<>>
                 THEN {}
                 ELSE {[Checked(e, loop.checks) EXCEPT !.d = Append(args.rest, fromBool(~loop.failed)),
                                                       !.ops = @ + Len(args.keys)]}
         IN  UNION {Push(args, MultiSigLoop(e, args.sigs, args.keys))
                    : args \in {x \in MultiSigArgs(e) : hasFlag(e, "StrictMultiSig") => x.dummy = <<>>}}

-----------------------------------------------------------------------------
(* One opcode *)

Disabled == {"OP_CAT", "OP_2MUL"}
Illegal == {"OP_VERIF"}
PushDataOps == {"OP_0", "OP_DATA", "OP_PUSHDATA1", "OP_PUSHDATA2", "OP_PUSHDATA4"}
\* The opcodes up to OP_16, which do not count as operations.
UpTo16 == PushDataOps \cup {"OP_1NEGATE", "OP_N", "OP_RESERVED"}

checkMinimalDataPush(tok) ==
    LET n == Size(tok.data)
    IN  CASE n = 0 -> tok.op = "OP_0"
          [] n = 1 /\ tok.data[1] \in 1 .. 16 \cup {129} -> FALSE
          [] n \in 1 .. 75 /\ ~(n = 1 /\ tok.data[1] \in 1 .. 16 \cup {129}) -> tok.op = "OP_DATA"
          [] n \in 76 .. 255 -> tok.op = "OP_PUSHDATA1"
          [] n \in 256 .. 65535 -> tok.op = "OP_PUSHDATA2"
          [] OTHER -> TRUE

\* The handler of an opcode that is executed.
opfunc(e, tok, tx) ==
    LET op == tok.op IN
    CASE op \in PushDataOps -> PopPush(e, 0, <<tok.data>>)
      [] op = "OP_1NEGATE" -> PopPush(e, 0, <<Bytes(-1)>>)
      [] op = "OP_N" -> PopPush(e, 0, <<tok.data>>)
      [] op \in {"OP_RESERVED", "OP_RETURN", "OP_INVALID"} -> {}
      [] op = "OP_NOP" -> {e}
      [] op = "OP_NOP1" -> AsNop(e)
      [] op = "OP_IF" -> opcodeIf(e, TRUE)
      [] op = "OP_NOTIF" -> opcodeIf(e, FALSE)
      [] op = "OP_ELSE" -> opcodeElse(e)
      [] op = "OP_ENDIF" -> opcodeEndif(e)
      [] op = "OP_VERIFY" -> abstractVerify({e})
      [] op = "OP_CHECKLOCKTIMEVERIFY" -> opcodeCheckLockTimeVerify(e, tx)
      [] op = "OP_CHECKSEQUENCEVERIFY" -> opcodeCheckSequenceVerify(e, tx)
      [] op = "OP_TOALTSTACK" -> opcodeToAltStack(e)
      [] op = "OP_FROMALTSTACK" -> opcodeFromAltStack(e)
      [] op = "OP_2DROP" -> DropN(e, 2)
      [] op = "OP_2DUP" -> DupN(e, 2)
      [] op = "OP_3DUP" -> DupN(e, 3)
      [] op = "OP_2OVER" -> OverN(e, 2)
      [] op = "OP_2ROT" -> RotN(e, 2)
      [] op = "OP_2SWAP" -> SwapN(e, 2)
      [] op = "OP_IFDUP" -> opcodeIfDup(e)
      [] op = "OP_DEPTH" -> opcodeDepth(e)
      [] op = "OP_DROP" -> DropN(e, 1)
      [] op = "OP_DUP" -> DupN(e, 1)
      [] op = "OP_NIP" -> nipN(e, 1)
      [] op = "OP_OVER" -> OverN(e, 1)
      [] op = "OP_PICK" -> opcodePick(e)
      [] op = "OP_ROLL" -> opcodeRoll(e)
      [] op = "OP_ROT" -> RotN(e, 1)
      [] op = "OP_SWAP" -> SwapN(e, 1)
      [] op = "OP_TUCK" -> Tuck(e)
      [] op = "OP_SIZE" -> opcodeSize(e)
      [] op = "OP_EQUAL" -> opcodeEqual(e)
      [] op = "OP_EQUALVERIFY" -> opcodeEqualVerify(e)
      [] op \in UnaryOps -> opcodeUnary(e, op)
      [] op \in BinaryOps -> opcodeBinary(e, op)
      [] op = "OP_NUMEQUALVERIFY" -> opcodeNumEqualVerify(e)
      [] op = "OP_WITHIN" -> opcodeWithin(e)
      [] op = "OP_RIPEMD160" -> opcodeHash(e, Ripemd160)
      [] op = "OP_SHA1" -> opcodeHash(e, Sha1)
      [] op = "OP_SHA256" -> opcodeHash(e, Sha256)
      [] op = "OP_HASH160" -> opcodeHash(e, Hash160)
      [] op = "OP_HASH256" -> opcodeHash(e, Hash256)
      [] op = "OP_CODESEPARATOR" -> {[e EXCEPT !.sep = e.pos + 1]}
      [] op = "OP_CHECKSIG" -> opcodeCheckSig(e)
      [] op = "OP_CHECKSIGVERIFY" -> abstractVerify(opcodeCheckSig(e))
      [] op = "OP_CHECKSIGADD" -> opcodeCheckSigAdd(e)
      [] op = "OP_CHECKMULTISIG" -> opcodeCheckMultiSig(e)
      [] op = "OP_CHECKMULTISIGVERIFY" -> abstractVerify(opcodeCheckMultiSig(e))

executeOpcode(e, tok, tx) ==
    LET counts == ~e.tap /\ tok.op \notin UpTo16
        c == IF counts THEN [e EXCEPT !.ops = @ + 1] ELSE e
    IN  CASE tok.op \in Disabled \cup Illegal -> {}
          [] tok.op \notin Disabled \cup Illegal /\
             (c.ops > MaxOpsPerScript \/ (~counts /\ Size(tok.data) > MaxScriptElementSize)) -> {}
          [] OTHER ->
               IF ~isBranchExecuting(c) /\ ~isOpcodeConditional(tok.op) THEN {c}
               ELSE IF /\ hasFlag(c, "MinimalData") /\ isBranchExecuting(c)
                       /\ tok.op \in PushDataOps /\ ~checkMinimalDataPush(tok)
               THEN {}
               ELSE opfunc(c, tok, tx)

-----------------------------------------------------------------------------
(* The scripts of an input *)

Tok(op) == [op |-> op, data |-> <<>>]
Push(item) == [op |-> IF item = <<>> THEN "OP_0" ELSE "OP_DATA", data |-> item]
SmallInt(n) == IF n = 0 THEN Push(<<>>) ELSE [op |-> "OP_N", data |-> <<n>>]

\* The witness program an input commits to, in its output or nested in P2SH.
WitnessProgram(p) == IF p.pk.kind = "witness" THEN p.pk ELSE p.redeem

\* The serialized redeem script of a pay-to-script-hash output.
RedeemItem(p) ==
    IF p.redeem.kind = "witness" THEN <<ScriptMark, p.redeem.version>> \o p.redeem.program
    ELSE FreeScript

IsKeyHashProgram(w) == w.kind = "witness" /\ w.version = V0 /\ Size(w.program) = 20

payToPubKeyHashScript(hash) ==
    <<Tok("OP_DUP"), Tok("OP_HASH160"), Push(hash), Tok("OP_EQUALVERIFY"), Tok("OP_CHECKSIG")>>

\* The text of a script that is not free.
Text(p, name) ==
    LET Fixed(w) == IF w.kind = "witness" THEN <<SmallInt(w.version), Push(w.program)>> ELSE <<>>
    IN  CASE name = "sig" -> p.sig
          [] name = "pk" /\ p.pk.kind = "p2sh" ->
               <<Tok("OP_HASH160"), Push(Hash(Hash160, RedeemItem(p))), Tok("OP_EQUAL")>>
          [] name = "pk" /\ p.pk.kind # "p2sh" -> Fixed(p.pk)
          [] name = "redeem" -> Fixed(p.redeem)
          [] name = "leaf" -> IF IsKeyHashProgram(WitnessProgram(p))
                              THEN payToPubKeyHashScript(WitnessProgram(p).program) ELSE <<>>

IsFree(p, name) == name # "sig" /\ Text(p, name) = <<>>

IsPushOnlyScript(toks) == \A i \in DOMAIN toks : toks[i].op \in UpTo16

\* The engine goes on with these scripts; an empty one is skipped.
GoOn(e, p, names) ==
    [e EXCEPT !.queue = IF names # <<>> /\ p.shape[Head(names)] = "empty" THEN Tail(names) ELSE names,
              !.sep = 0]

-----------------------------------------------------------------------------
(* Witness programs *)

isAnnexedWitness(w) == Len(w) >= 2 /\ Last(w) # <<>> /\ Last(w)[1] = 80

\* VerifyTaprootLeafCommitment holds, and the leaf version is the base version.
Control(commits, base) == <<ControlMark, Truth(commits), Truth(base)>>
ParseControlBlock(item) == Marked(item, ControlMark)

\* The engine starts the witness script on these items.
StartLeaf(e, p, items) ==
    IF \/ isWitnessVersionActive(e, V1) /\ Len(items) > MaxStackSize
       \/ \E i \in DOMAIN items : Size(items[i]) > MaxScriptElementSize
    THEN {} ELSE {GoOn([e EXCEPT !.d = items], p, <<"leaf">>)}

Succeed(e, p) == {GoOn([e EXCEPT !.tap = TRUE, !.must = TRUE], p, <<>>)}

verifyTaproot(e, p) ==
    LET w == IF isAnnexedWitness(p.witness) THEN Front(p.witness) ELSE p.witness
        t == [e EXCEPT !.tap = TRUE, !.budget = sigOpsDelta + p.weight]
    IN  IF ~hasFlag(e, "Taproot") THEN {GoOn(e, p, <<>>)}
        ELSE IF p.witness = <<>> THEN {}
        ELSE IF Len(w) = 1
        THEN IF TRUE \in TaprootVerdict(w[1], WitnessProgram(p).program, KeySpend, 0)
             THEN Succeed(e, p) ELSE {}
        ELSE IF ~ParseControlBlock(Last(w)) \/ Last(w)[2] = 0 THEN {}
        ELSE IF p.shape["leaf"] = "success"
        THEN IF hasFlag(e, "DiscourageOpSuccess") THEN {} ELSE Succeed(e, p)
        ELSE IF Last(w)[3] = 0
        THEN IF hasFlag(e, "DiscourageUpgradeableTaprootVersion") THEN {} ELSE Succeed(e, p)
        ELSE IF p.shape["leaf"] = "unparsable" THEN {}
        ELSE StartLeaf(t, p, SubSeq(w, 1, Len(w) - 2))

verifyWitnessProgram(e, p) ==
    LET w == WitnessProgram(p)
    IN  CASE w.version = V0 /\ Size(w.program) = 20 ->
               IF Len(p.witness) # 2 THEN {} ELSE StartLeaf(e, p, p.witness)
          [] w.version = V0 /\ Size(w.program) = 32 ->
               IF \/ p.witness = <<>> \/ p.shape["leaf"] \in {"oversize", "unparsable"}
                  \/ Hash(Sha256, Last(p.witness)) # w.program
               THEN {} ELSE StartLeaf(e, p, Front(p.witness))
          [] w.version = V0 /\ Size(w.program) \notin {20, 32} -> {}
          [] w.version = V1 /\ Size(w.program) = 32 /\ ~e.bip16 -> verifyTaproot(e, p)
          [] OTHER ->
               IF hasFlag(e, "DiscourageUpgradeableWitnessProgram") THEN {}
               ELSE {GoOn([e EXCEPT !.witnessVersion = NoWitness], p, <<>>)}

-----------------------------------------------------------------------------
(* NewEngine, Step and Execute *)

NewEngine(p, flags) ==
    LET bip16 == "Bip16" \in flags /\ p.pk.kind = "p2sh"
        nested == bip16 /\ p.witness # <<>>
        carries == "Witness" \in flags /\ (p.pk.kind = "witness" \/ nested)
        refused ==
            \/ p.sig = <<>> /\ p.shape["pk"] = "empty"
            \/ "CleanStack" \in flags /\ flags \cap {"Bip16", "Witness"} = {}
            \/ ("SigPushOnly" \in flags \/ bip16) /\ ~IsPushOnlyScript(p.sig)
            \/ \E n \in {"sig", "pk"} : p.shape[n] \in {"oversize", "unparsable"}
            \/ /\ "Witness" \in flags
               /\ \/ "Bip16" \notin flags
                  \/ p.pk.kind = "witness" /\ p.sig # <<>>
                  \/ nested /\ ~(/\ p.redeem.kind = "witness" /\ Len(p.sig) = 1
                                 /\ p.sig[1] = Push(RedeemItem(p)))
                  \/ ~carries /\ p.witness # <<>>
    IN  IF refused THEN {}
        ELSE {[flags |-> flags, d |-> <<>>, a |-> <<>>, cond |-> <<>>, ops |-> 0, pos |-> 0,
               sep |-> 0, checks |-> 0, bip16 |-> bip16, saved |-> <<>>,
               witnessVersion |-> IF carries THEN WitnessProgram(p).version ELSE NoWitness,
               tap |-> FALSE, must |-> FALSE, budget |-> 0, result |-> "running",
               queue |-> IF p.sig = <<>> THEN <<"pk">> ELSE <<"sig", "pk">>]}

CheckErrorCondition(e, finalScript) ==
    \/ e.must
    \/ /\ finalScript /\ (isWitnessVersionActive(e, V0) \/ hasFlag(e, "CleanStack") \/ e.tap) =>
              Depth(e.d) = 1
       /\ Depth(e.d) >= 1 /\ asBool(Peek(e.d, 0))

\* The end of a script: what Step does once the tokenizer is done.
EndOfScript(e, p) ==
    LET name == Head(e.queue)
        clean == [e EXCEPT !.a = <<>>, !.ops = 0, !.pos = 0, !.checks = 0]
        moved ==
            CASE name = "sig" /\ e.bip16 -> {GoOn([clean EXCEPT !.saved = e.d], p, Tail(e.queue))}
              [] name = "pk" /\ e.bip16 ->
                   IF ~CheckErrorCondition(e, FALSE) \/ p.shape["redeem"] = "unparsable" THEN {}
                   ELSE {GoOn([clean EXCEPT !.d = Front(e.saved)], p, <<"redeem">>)}
              [] (name = "redeem" \/ (name = "pk" /\ ~e.bip16)) /\ e.witnessVersion # NoWitness ->
                   verifyWitnessProgram(clean, p)
              [] OTHER -> {GoOn(clean, p, Tail(e.queue))}
    IN  IF e.cond # <<>> THEN {}
        ELSE UNION {IF m.queue # <<>> THEN {m}
                    ELSE IF CheckErrorCondition(m, TRUE) THEN {[m EXCEPT !.result = "accepted"]} ELSE {}
                    : m \in moved}

\* One opcode of the engine; it is the last one of its script when last holds.
EngineStep(e, p, tok, last) ==
    UNION {IF Depth(x.d) + Depth(x.a) > MaxStackSize THEN {}
           ELSE IF last THEN EndOfScript(x, p) ELSE {[x EXCEPT !.pos = @ + 1]}
           : x \in executeOpcode(e, tok, p.tx)}

\* The engine after a set of outcomes: an error ends it.
Outcome(e, es) ==
    IF es = {} THEN [e EXCEPT !.result = "rejected"] ELSE CHOOSE x \in es : TRUE

\* countSigOpsV0 with precise counting, one opcode further.
countSigOpsV0(c, tok) ==
    [n |-> c.n + (CASE tok.op \in {"OP_CHECKSIG", "OP_CHECKSIGVERIFY"} -> 1
                    [] tok.op \in {"OP_CHECKMULTISIG", "OP_CHECKMULTISIGVERIFY"} ->
                         IF c.prev.op = "OP_N" THEN c.prev.data[1] ELSE MaxPubKeysPerMultiSig
                    [] OTHER -> 0),
     prev |-> tok]

NoSigOps == [n |-> 0, prev |-> Tok("OP_INVALID")]

-----------------------------------------------------------------------------
Order == <<"sig", "pk", "redeem", "leaf">>

\* The script the slowest engine is at.
Current(es) ==
    LET at == {i \in 1 .. 4 : \E k \in DOMAIN es : Running(es[k]) /\ Head(es[k].queue) = Order[i]}
    IN  IF at = {} THEN "done" ELSE Order[CHOOSE i \in at : \A j \in at : i <= j]

Init ==
    /\ input \in Programs
    /\ engines = [i \in DOMAIN RuleSets |->
                    LET es == NewEngine(input, RuleSets[i])
                    IN  IF es = {} THEN [result |-> "rejected"] ELSE CHOOSE e \in es : TRUE]
    /\ script = Current(engines)
    /\ tokens = 0
    /\ counted = NoSigOps

At(e) == Running(e) /\ Head(e.queue) = script

Step(tok, last) ==
    /\ engines' = [i \in DOMAIN engines |->
                     IF At(engines[i])
                     THEN Outcome(engines[i], EngineStep(engines[i], input, tok, last))
                     ELSE engines[i]]
    /\ script' = Current(engines')
    /\ counted' = IF script' = script THEN countSigOpsV0(counted, tok) ELSE NoSigOps
    /\ UNCHANGED input

\* The next opcode of a script whose text the input fixes.
StepFixed ==
    /\ script # "done" /\ ~IsFree(input, script)
    /\ LET text == Text(input, script)
           e == CHOOSE x \in {engines[i] : i \in DOMAIN engines} : At(x)
       IN  Step(text[e.pos + 1], e.pos + 1 = Len(text))
    /\ UNCHANGED tokens

\* The next opcode of a free script.
StepFree ==
    /\ script # "done" /\ IsFree(input, script)
    /\ tokens < Vocabularies[input.vocabulary].max
    /\ tokens' = tokens + 1
    /\ \E tok \in Vocabularies[input.vocabulary].tokens : \E last \in BOOLEAN :
         /\ last \/ tokens' < Vocabularies[input.vocabulary].max
         /\ Step(tok, last)

Next == StepFixed \/ StepFree

Spec == Init /\ [][Next]_vars

-----------------------------------------------------------------------------
(* Properties *)

Engines == {engines[i] : i \in DOMAIN engines}
Live == {e \in Engines : Running(e)}

\* Every engine is running, has accepted or has rejected, its combined stacks
\* hold at most MaxStackSize items and its tapscript budget is never overdrawn.
TypeOK ==
    /\ input \in Programs
    /\ script \in {"sig", "pk", "redeem", "leaf", "done"}
    /\ tokens \in 0 .. Vocabularies[input.vocabulary].max
    /\ \A e \in Engines : e.result \in {"running", "accepted", "rejected"}
    /\ \A e \in Live : Depth(e.d) + Depth(e.a) <= MaxStackSize /\ e.budget >= 0

\* Every soft fork and every policy flag only forbids: an input that an engine
\* accepts under stricter rules is accepted under all looser ones.  It holds
\* only if a rule that does not like an encoding makes Execute fail, and never
\* makes an opcode push another result.
RulesOnlyTighten ==
    \A i, j \in DOMAIN engines :
        i < j /\ engines[j].result = "accepted" => engines[i].result = "accepted"

\* An opcode is executed only if every conditional around it has taken its
\* branch, although isBranchExecuting looks at the innermost one alone.
BranchesNest ==
    \A e \in Live : \A k \in DOMAIN e.cond :
        e.cond[k] # OpCondSkip \/ k = 1 => \A l \in 1 .. k - 1 : e.cond[l] = "true"

\* What the numeric opcodes compute from the two numbers on top of a stack reads
\* back as the same number and is minimally encoded, also where the result needs
\* one byte more than an operand may have.
NumbersExact ==
    \A e \in Live : \A v \in PopInts(e, 2) :
        \A r \in {Binary("OP_ADD", v[1], v[2]), Binary("OP_SUB", v[1], v[2]),
                  Unary("OP_NEGATE", v[1]), Unary("OP_1ADD", v[1])} :
            makeScriptNum(Bytes(r), TRUE, maxScriptNumLen + 1) = {r}

\* opcodeCheckMultiSig succeeds exactly when the signatures can be assigned to
\* keys in the order of the keys, each to a key that verifies it, although the
\* loop never goes back to a key it has passed.
MultiSigExact ==
    \A e \in Live : \A args \in MultiSigArgs(e) :
        LET n == Len(args.keys)
            m == Len(args.sigs)
            loop == MultiSigLoop(e, args.sigs, args.keys)
            Matches(f) ==
                /\ \A i \in 1 .. m : /\ args.sigs[i] # <<>>
                                     /\ ParseSignature(e, args.sigs[i]) /\ ParsePubKey(args.keys[f[i]])
                                     /\ Verify(args.sigs[i], args.keys[f[i]], BaseAlgorithm(e), e.sep)
                /\ \A i, j \in 1 .. m : i < j => f[i] < f[j]
        IN  e.tap \/ loop.error \/ (loop.failed <=> ~\E f \in [1 .. m -> 1 .. n] : Matches(f))

\* The signatures an engine has verified in a script are covered by the count
\* that the block's limit is charged with, or by the budget of a tapscript.
ChecksPaidFor ==
    \A e \in Live : At(e) =>
        IF e.tap THEN e.checks * sigOpsDelta <= input.weight + sigOpsDelta
        ELSE e.checks <= counted.n

\* The script engines execute within their limits: an additional rule never
\* lets a script pass that fails without it, conditionals nest, numbers are
\* encoded and decoded exactly, CHECKMULTISIG matches signatures to keys in
\* order, and signature checks of tapscript are paid for.
EnginesSound ==
    /\ TypeOK /\ RulesOnlyTighten /\ BranchesNest /\ NumbersExact
    /\ MultiSigExact /\ ChecksPaidFor

=============================================================================
