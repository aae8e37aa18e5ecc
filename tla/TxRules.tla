---- MODULE TxRules ----
(***************************************************************************)
(* The rules a transaction must satisfy, alone and against the outputs it  *)
(* spends (blockchain/validate.go, weight.go, chain.go, utxoviewpoint.go). *)
(*                                                                         *)
(* A transaction is Tx[id], a record of what the rules look at:            *)
(*   ins   its inputs, [prev, seq, sigLen, sigOps, p2shOps, witOps, push]  *)
(*   outs  its outputs, [value, class, sigOps, size, keys, sigs]           *)
(*   version, lockTime, base (size without witness), total (size),         *)
(*   witness (has witness data), scripts (every input script executes),    *)
(*   height (what a coinbase commits to).                                  *)
(* An outpoint is <<id, index>> with index from 1; the null outpoint of a  *)
(* coinbase is <<0, 0>>. A sequence number is [kind, n]: "max" and "last"  *)
(* are the two highest values, "off" one below with the disable bit,       *)
(* "height" and "time" are relative locks of n units. A view maps          *)
(* outpoints to entries [value, height, coinbase, class, spent].           *)
(*                                                                         *)
(* Amounts are checked one by one and after every addition in the code, so *)
(* that no sum leaves the 64 bits: here the total is checked.              *)
(***************************************************************************)
EXTENDS Integers, Sequences, FiniteSets, TLC

CONSTANTS
    Transactions,       \* the transactions: a function from their ids to their contents
    MaxSatoshi,         \* the largest amount
    BaseSubsidy, SubsidyInterval,
    CoinbaseMaturity,
    MaxBlockBaseSize, MaxBlockWeight, MaxBlockSigOpsCost,
    LockTimeThreshold,  \* lock times below are heights
    Granularity         \* seconds in a unit of a relative time lock

Tx == Transactions

NullOutpoint == <<0, 0>>
WitnessScaleFactor == 4
MinCoinbaseScriptLen == 2
MaxCoinbaseScriptLen == 100
UnminedHeight == 1000           \* 0x7fffffff: the output of a transaction of the pool
NoHeight == -1

SumOver(s, F(_)) ==
    LET Sum[i \in 0 .. Len(s)] == IF i = 0 THEN 0 ELSE Sum[i - 1] + F(s[i]) IN Sum[Len(s)]

Elements(s) == {s[i] : i \in DOMAIN s}
Largest(S) == CHOOSE x \in S : \A y \in S : y <= x

InputsOf(id) == {Tx[id].ins[i].prev : i \in DOMAIN Tx[id].ins}

IsCoinBase(id) == Len(Tx[id].ins) = 1 /\ Tx[id].ins[1].prev = NullOutpoint

OutValue(id) == LET Value(o) == o.value IN SumOver(Tx[id].outs, Value)

CalcBlockSubsidy(height) ==
    IF SubsidyInterval = 0 THEN BaseSubsidy ELSE BaseSubsidy \div 2^(height \div SubsidyInterval)

-----------------------------------------------------------------------------
(* Sanity: what needs no context.                                          *)

CheckTransactionSanity(id) ==
    /\ Tx[id].ins # <<>> /\ Tx[id].outs # <<>>
    /\ Tx[id].base <= MaxBlockBaseSize
    /\ \A o \in Elements(Tx[id].outs) : o.value \in 0 .. MaxSatoshi
    /\ OutValue(id) <= MaxSatoshi
    /\ Cardinality(InputsOf(id)) = Len(Tx[id].ins)
    /\ IF IsCoinBase(id)
       THEN Tx[id].ins[1].sigLen \in MinCoinbaseScriptLen .. MaxCoinbaseScriptLen
       ELSE NullOutpoint \notin InputsOf(id)

GetTransactionWeight(id) == Tx[id].base * (WitnessScaleFactor - 1) + Tx[id].total

CountSigOps(id) ==
    LET Ops(s) == s.sigOps IN SumOver(Tx[id].ins, Ops) + SumOver(Tx[id].outs, Ops)

IsFinalizedTransaction(id, height, time) ==
    \/ Tx[id].lockTime = 0
    \/ Tx[id].lockTime < (IF Tx[id].lockTime < LockTimeThreshold THEN height ELSE time)
    \/ \A i \in Elements(Tx[id].ins) : i.seq.kind = "max"

-----------------------------------------------------------------------------
(* The view of the outputs.                                                *)

Unspent(view, o) == o \in DOMAIN view /\ ~view[o].spent

\* OP_RETURN first, or a script that does not parse.
IsUnspendable(out) == out.class \in {"nulldata", "malformed"}

\* The entries AddTxOuts gives the outputs of a transaction; an unspendable one gets none.
EntriesOf(id, height) ==
    [o \in {<<id, i>> : i \in {j \in DOMAIN Tx[id].outs : ~IsUnspendable(Tx[id].outs[j])}} |->
        [value |-> Tx[id].outs[o[2]].value, height |-> height, coinbase |-> IsCoinBase(id),
         class |-> Tx[id].outs[o[2]].class, spent |-> FALSE]]

AddTxOuts(view, id, height) == EntriesOf(id, height) @@ view

ConnectTransaction(view, id, height) ==
    IF IsCoinBase(id) THEN AddTxOuts(view, id, height)
    ELSE AddTxOuts([o \in DOMAIN view |->
                      IF o \in InputsOf(id) THEN [view[o] EXCEPT !.spent = TRUE] ELSE view[o]], id, height)

\* The count a transaction costs; -1 where the code returns an error. A missing output is an
\* error for the witness count only: the one of the P2SH count is dropped for a cost of zero.
GetSigOpCost(id, view, bip16, segwit) ==
    LET P2SH(i) == IF view[i.prev].class = "scripthash" THEN i.p2shOps ELSE 0
        Wit(i)  == i.witOps
        found   == \A o \in InputsOf(id) : Unspent(view, o)
        legacy  == CountSigOps(id) * WitnessScaleFactor
    IN  IF IsCoinBase(id) THEN legacy
        ELSE IF bip16 /\ ~found THEN 0
        ELSE IF segwit /\ ~found THEN -1
        ELSE legacy + (IF bip16 THEN SumOver(Tx[id].ins, P2SH) * WitnessScaleFactor ELSE 0)
                    + (IF segwit THEN SumOver(Tx[id].ins, Wit) ELSE 0)

InValue(id, view) == LET Value(i) == view[i.prev].value IN SumOver(Tx[id].ins, Value)

CheckTransactionInputs(id, height, view) ==
    \/ IsCoinBase(id)
    \/ /\ \A o \in InputsOf(id) : Unspent(view, o)
       /\ \A o \in InputsOf(id) :
            view[o].value \in 0 .. MaxSatoshi
            /\ (view[o].coinbase => height - view[o].height >= CoinbaseMaturity)
       /\ InValue(id, view) <= MaxSatoshi
       /\ OutValue(id) <= InValue(id, view)

TxFee(id, view) == IF IsCoinBase(id) THEN 0 ELSE InValue(id, view) - OutValue(id)

-----------------------------------------------------------------------------
(* Relative lock times. `mtp` gives the median time past of the block at a *)
(* height of the chain the node extends.                                   *)

HeightLock(i, view, next) ==
    (IF view[i.prev].height = UnminedHeight THEN next ELSE view[i.prev].height) + i.seq.n - 1

TimeLock(i, view, next, mtp) ==
    LET height == IF view[i.prev].height = UnminedHeight THEN next ELSE view[i.prev].height
    IN  mtp[IF height > 0 THEN height - 1 ELSE 0] + i.seq.n * Granularity - 1

\* The lock of a transaction for the block at `next`: -1 where there is none.
CalcSequenceLock(id, view, next, active, mtp) ==
    LET Locks(kind) == {i \in Elements(Tx[id].ins) : i.seq.kind = kind}
    IN  IF Tx[id].version < 2 \/ ~active \/ IsCoinBase(id)
        THEN [height |-> NoHeight, seconds |-> NoHeight]
        ELSE [height  |-> Largest({NoHeight} \cup {HeightLock(i, view, next) : i \in Locks("height")}),
              seconds |-> Largest({NoHeight} \cup {TimeLock(i, view, next, mtp) : i \in Locks("time")})]

SequenceLockActive(lock, height, time) == lock.seconds < time /\ lock.height < height
====
