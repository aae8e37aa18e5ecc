---- MODULE BlockRules ----
(***************************************************************************)
(* Validating a block and connecting it to the tip: checkBlockSanity,      *)
(* checkBlockContext and checkConnectBlock (blockchain/validate.go) with   *)
(* the witness commitment (merkle.go), over the rules of TxRules.          *)
(*                                                                         *)
(* The state is the connected chain and the utxo set it leaves. A block is *)
(* [time, version, txs (ids, the coinbase first), commitment]; the height  *)
(* a coinbase commits to is the field `height` of the transaction. Of the  *)
(* header rules, which are those of HeaderRules, the two that matter here  *)
(* are kept: the time after the median time past, and the version.         *)
(***************************************************************************)
EXTENDS TxRules

CONSTANTS
    Rules,          \* the settings a behaviour may run under: which soft forks are active
    Submitted,      \* the blocks that may be submitted: time is a gap over the median time past
    MedianBlocks,   \* medianTimeBlocks
    MaxHeight       \* bound: blocks in the chain

Blocks == Submitted

VARIABLES rules, chain, utxos

vars == <<rules, chain, utxos>>

NoCommitment == "none"
GoodCommitment == "good"

\* The median time past at each height of a chain; the genesis block has time 0.
MedianTimes(ch) ==
    [h \in 0 .. Len(ch) |->
        LET first == IF h - MedianBlocks + 1 > 0 THEN h - MedianBlocks + 1 ELSE 0
            times == [i \in 1 .. (h - first + 1) |-> IF first + i - 1 = 0 THEN 0 ELSE ch[first + i - 1].time]
        IN  SortSeq(times, <)[(Len(times) \div 2) + 1]]

BlockBaseSize(b) == LET Size(id) == Tx[id].base IN SumOver(b.txs, Size)
GetBlockWeight(b) == LET Weight(id) == GetTransactionWeight(id) IN SumOver(b.txs, Weight)

-----------------------------------------------------------------------------
\* The merkle root commits to the transactions, so here it always matches.
CheckBlockSanity(b) ==
    LET Ops(id) == CountSigOps(id) * WitnessScaleFactor
    IN  /\ b.txs # <<>>
        /\ BlockBaseSize(b) <= MaxBlockBaseSize
        /\ IsCoinBase(b.txs[1])
        /\ \A i \in 2 .. Len(b.txs) : ~IsCoinBase(b.txs[i])
        /\ \A id \in Elements(b.txs) : CheckTransactionSanity(id)
        /\ Cardinality(Elements(b.txs)) = Len(b.txs)
        /\ SumOver(b.txs, Ops) <= MaxBlockSigOpsCost

\* The commitment is the last matching output of the coinbase, over the witness merkle root.
ValidateWitnessCommitment(b) ==
    IF b.commitment = NoCommitment
    THEN \A id \in Elements(b.txs) : ~Tx[id].witness
    ELSE Tx[b.txs[1]].witness /\ b.commitment = GoodCommitment

CheckBlockContext(b, height, mtp) ==
    /\ b.time > mtp
    /\ \A id \in Elements(b.txs) :
         IsFinalizedTransaction(id, height, IF rules.csv THEN mtp ELSE b.time)
    /\ height >= rules.bip34 => b.version >= 2
    /\ b.version >= 2 /\ height >= rules.bip34 => Tx[b.txs[1]].height = height
    /\ rules.segwit => ValidateWitnessCommitment(b) /\ GetBlockWeight(b) <= MaxBlockWeight


\* No transaction of the block recreates an output that is still unspent.
CheckBIP0030(b) ==
    \A id \in Elements(b.txs) : \A i \in DOMAIN Tx[id].outs : <<id, i>> \notin DOMAIN utxos

\* fetchInputUtxos: what the block's inputs name, from the utxo set unless an earlier
\* transaction of the block creates it.
FetchInputUtxos(b, height) ==
    LET InFlight == {i \in DOMAIN b.txs : \E j \in 2 .. Len(b.txs) :
                        i < j /\ \E o \in InputsOf(b.txs[j]) : o[1] = b.txs[i]}
        Outs[k \in 0 .. Len(b.txs)] ==
            IF k = 0 THEN <<>>
            ELSE IF k \in InFlight THEN AddTxOuts(Outs[k - 1], b.txs[k], height) ELSE Outs[k - 1]
        Needed == {o \in UNION {InputsOf(b.txs[j]) : j \in 2 .. Len(b.txs)} :
                      o \in DOMAIN utxos /\ ~\E i \in InFlight : b.txs[i] = o[1]}
    IN  Outs[Len(b.txs)] @@ [o \in Needed |-> utxos[o]]

SigOpsInLimit(b, view) ==
    LET Cost(id) == GetSigOpCost(id, view, rules.bip16, rules.segwit)
    IN  /\ \A id \in Elements(b.txs) : Cost(id) >= 0
        /\ SumOver(b.txs, Cost) <= MaxBlockSigOpsCost

\* The transactions one by one, each against the view the ones before it leave.
ConnectAll(b, height, view) ==
    LET Step[i \in 0 .. Len(b.txs)] ==
          IF i = 0 THEN [ok |-> TRUE, fees |-> 0, view |-> view]
          ELSE LET s == Step[i - 1]
               IN  IF s.ok /\ CheckTransactionInputs(b.txs[i], height, s.view)
                   THEN [ok |-> TRUE, fees |-> s.fees + TxFee(b.txs[i], s.view),
                         view |-> ConnectTransaction(s.view, b.txs[i], height)]
                   ELSE [s EXCEPT !.ok = FALSE]
    IN  Step[Len(b.txs)]

SequenceLocksMet(b, height, view, mtp) ==
    \A id \in Elements(b.txs) :
        SequenceLockActive(CalcSequenceLock(id, view, height + 1, rules.csv, mtp), height, mtp[height - 1])

CoinbaseValueOk(b, height, fees) == OutValue(b.txs[1]) <= CalcBlockSubsidy(height) + fees

\* The views that connecting the block may end in: none when a check fails.
CheckConnectBlock(b, height, mtp) ==
    {done.view : done \in
       {d \in {ConnectAll(b, height, view) : view \in
                 {v \in {FetchInputUtxos(b, height)} :
                     (height < rules.bip34 => CheckBIP0030(b)) /\ SigOpsInLimit(b, v)}} :
           /\ d.ok
           /\ CoinbaseValueOk(b, height, d.fees)
           /\ rules.csv => SequenceLocksMet(b, height, d.view, mtp)
           /\ height > rules.checkpoint => \A id \in Elements(b.txs) : Tx[id].scripts}}

-----------------------------------------------------------------------------
Init ==
    /\ rules \in Rules
    /\ chain = <<>>
    /\ utxos = <<>>

\* A block that extends the tip passes every check and its view is committed to the utxo set:
\* an entry that is spent goes, every other one of the view replaces the one of the set.
ConnectBlock(block) ==
    LET height == Len(chain) + 1
    IN  /\ height <= MaxHeight
        /\ CheckBlockSanity(block)
        /\ \E mtp \in {MedianTimes(chain)} :
           \E b \in {[block EXCEPT !.time = mtp[height - 1] + block.time]} :
             /\ CheckBlockContext(b, height, mtp[height - 1])
             /\ \E view \in CheckConnectBlock(b, height, mtp) :
                  /\ chain' = Append(chain, b)
                  /\ utxos' = [o \in (DOMAIN view \cup DOMAIN utxos) \ {x \in DOMAIN view : view[x].spent} |->
                                 IF o \in DOMAIN view THEN view[o] ELSE utxos[o]]
                  /\ UNCHANGED rules

Next == \E block \in Blocks : ConnectBlock(block)

Spec == Init /\ [][Next]_vars

-----------------------------------------------------------------------------
(* Properties.                                                             *)

\* The (block, place) of every occurrence of a transaction in the chain, in order.
Places == {<<h, i>> \in (1 .. Len(chain)) \X (1 .. 3) : i <= Len(chain[h].txs)}
TxAt(p) == chain[p[1]].txs[p[2]]
Earlier(p, q) == p[1] < q[1] \/ (p[1] = q[1] /\ p[2] < q[2])

\* The place that created the output that the input o of the transaction at p spends.
Creator(o, p) ==
    LET made == {q \in Places : Earlier(q, p) /\ TxAt(q) = o[1]}
    IN  CHOOSE q \in made : \A r \in made : r = q \/ Earlier(r, q)

Spends == {<<p, o>> \in Places \X UNION {InputsOf(TxAt(p)) : p \in Places} :
              p[2] > 1 /\ o \in InputsOf(TxAt(p))}

\* The entries of the utxo set are unspent outputs of transactions of the chain.
TypeOK ==
    /\ Len(chain) \in 0 .. MaxHeight
    /\ \A o \in DOMAIN utxos :
         /\ \E p \in Places : TxAt(p) = o[1] /\ p[1] = utxos[o].height
         /\ ~utxos[o].spent
         /\ utxos[o].value \in 0 .. MaxSatoshi

\* Blocks create no money: the utxo set is worth no more than the subsidies so far.
SupplyBounded ==
    LET Value(h) == CalcBlockSubsidy(h)
        Sum[S \in SUBSET DOMAIN utxos] ==
            IF S = {} THEN 0 ELSE LET o == CHOOSE o \in S : TRUE IN utxos[o].value + Sum[S \ {o}]
    IN  Sum[DOMAIN utxos] <= SumOver([h \in 1 .. Len(chain) |-> h], Value)

\* Every input spends an output an earlier transaction created, no two spend the same creation
\* of it, and every spendable creation is spent or in the utxo set: no block overwrites it.
LedgerExact ==
    /\ \A s \in Spends : \E q \in Places : Earlier(q, s[1]) /\ TxAt(q) = s[2][1]
    /\ \A s, t \in Spends : s # t /\ s[2] = t[2] => Creator(s[2], s[1]) # Creator(t[2], t[1])
    /\ \A p \in Places : \A i \in DOMAIN Tx[TxAt(p)].outs :
         LET o     == <<TxAt(p), i>>
             spent == \E s \in Spends : s[2] = o /\ Creator(o, s[1]) = p
             kept  == o \in DOMAIN utxos /\ utxos[o].height = p[1]
         IN  ~IsUnspendable(Tx[TxAt(p)].outs[i]) => (kept # spent)

\* A coinbase output is spent only by a block at least CoinbaseMaturity above its own.
CoinbaseMature ==
    \A s \in Spends : IsCoinBase(s[2][1]) => s[1][1] - Creator(s[2], s[1])[1] >= CoinbaseMaturity

\* With the CSV soft fork, a transaction of version 2 is in a block only when every relative lock
\* of it has run out, counted in blocks from the block that created the output or in seconds of
\* median time past from the block before that one; and its absolute lock too, by the median
\* time past and not by the time its miner chose.
LocksHold ==
    LET mtp == MedianTimes(chain)
    IN  rules.csv => \A p \in Places :
          /\ \/ Tx[TxAt(p)].lockTime = 0
             \/ Tx[TxAt(p)].lockTime < (IF Tx[TxAt(p)].lockTime < LockTimeThreshold THEN p[1] ELSE mtp[p[1] - 1])
             \/ \A i \in Elements(Tx[TxAt(p)].ins) : i.seq.kind = "max"
          /\ p[2] > 1 /\ Tx[TxAt(p)].version >= 2 => \A i \in Elements(Tx[TxAt(p)].ins) :
               LET born == Creator(i.prev, p)[1]
               IN  /\ i.seq.kind = "height" => p[1] >= born + i.seq.n
                   /\ i.seq.kind = "time" => mtp[p[1] - 1] >= mtp[born - 1] + i.seq.n * Granularity


====
