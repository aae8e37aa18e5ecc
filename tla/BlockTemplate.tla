---- MODULE BlockTemplate ----
(***************************************************************************)
(* NewBlockTemplate (mining/mining.go) on top of the moving pool and chain *)
(* of MemPool: the best block is read, then the pool is listed, then the   *)
(* outputs its transactions spend are fetched, then the block is put       *)
(* together and checked against the tip. Nothing is locked in between.     *)
(*                                                                         *)
(* `tmpl` is the template under way. An item is the id of a transaction    *)
(* with its priority, fee rate and fee; `dependsOn` the transactions of    *)
(* the pool an item still waits for.                                       *)
(***************************************************************************)
EXTENDS MemPool

CONSTANTS
    CoinbaseId,         \* the template's coinbase among the transactions, without its fees
    HeaderWeight        \* blockHeaderOverhead * WitnessScaleFactor

VARIABLE tmpl

tvars == <<vars, tmpl>>

mining == policy.mining     \* [maxWeight, minWeight, prioritySize, minFreeFee], maxWeight 0 where the node does not mine

Rules == INSTANCE BlockRules
    WITH Rules <- {}, Submitted <- {}, MedianBlocks <- 1, MaxHeight <- 1, chain <- <<>>, utxos <- Utxos(tip),
         rules <- [bip16 |-> TRUE, csv |-> TRUE, segwit |-> policy.segwit, bip34 |-> 0, checkpoint |-> 0]

NoTemplate == [phase |-> "none"]

-----------------------------------------------------------------------------
(* The priority queue.                                                     *)

TxPQByPriority(a, b) == PriorityAbove(a.prio, b.prio) \/ (~PriorityAbove(b.prio, a.prio) /\ a.rate > b.rate)
TxPQByFee(a, b) == a.rate > b.rate \/ (a.rate = b.rate /\ PriorityAbove(a.prio, b.prio))

\* The items the heap may give next: the order of equal ones is its own.
Foremost(items, queue, byFee) ==
    {t \in queue : ~\E u \in queue : IF byFee THEN TxPQByFee(items[u], items[t]) ELSE TxPQByPriority(items[u], items[t])}

SpendTransaction(view, id, height) ==
    AddTxOuts([o \in DOMAIN view |-> IF o \in InputsOf(id) THEN [view[o] EXCEPT !.spent = TRUE] ELSE view[o]], id, height)

-----------------------------------------------------------------------------
\* The weight a commitment output and its nonce add to the coinbase.
CommitmentWeight == 10

\* Whether the transaction fits what is left of the block.
Fits(s, id, weight) ==
    LET ops == GetSigOpCost(id, s.view, TRUE, policy.segwit)
    IN  weight < mining.maxWeight /\ ops >= 0 /\ s.sigOps + ops <= MaxBlockSigOpsCost

\* The block with one more transaction; the ones that only waited for it join the queue.
AddToBlock(s, items, id, weight, next) ==
    LET waiting == [t \in DOMAIN s.dependsOn |-> s.dependsOn[t] \ {id}]
    IN  [s EXCEPT !.view = SpendTransaction(s.view, id, next),
                  !.txs = Append(@, id), !.weight = weight, !.fees = @ + items[id].fee,
                  !.sigOps = @ + GetSigOpCost(id, s.view, TRUE, policy.segwit),
                  !.dependsOn = waiting,
                  !.queue = @ \cup {t \in DOMAIN waiting : id \in s.dependsOn[t] /\ waiting[t] = {}}]

\* One turn of the selection loop for the item it popped. The first item past the priority
\* area turns the queue to fees; it goes back to the queue unless it sits on the boundary.
Turn(s, items, id, next) ==
    LET popped == [s EXCEPT !.queue = @ \ {id}]
        seg    == IF policy.segwit /\ ~s.witness /\ Tx[id].witness
                  THEN [popped EXCEPT !.weight = @ + CommitmentWeight, !.witness = TRUE] ELSE popped
        weight == seg.weight + GetTransactionWeight(id)
        item   == items[id]
        high   == <<MinHighPriority, 1>>
        switch == ~s.byFee /\ (weight >= mining.prioritySize \/ ~PriorityAbove(item.prio, high))
        back   == weight > mining.prioritySize \/ PriorityAbove(high, item.prio)
        sorted == [seg EXCEPT !.byFee = @ \/ switch]
    IN  IF Tx[id].witness /\ ~policy.segwit THEN popped
        ELSE IF ~Fits(seg, id, weight) THEN seg
        ELSE IF s.byFee /\ item.rate < mining.minFreeFee /\ weight >= mining.minWeight THEN seg
        ELSE IF switch /\ back THEN [sorted EXCEPT !.queue = @ \cup {id}]
        ELSE IF ~CheckTransactionInputs(id, next, seg.view) \/ ~Tx[id].scripts THEN sorted
        ELSE AddToBlock(sorted, items, id, weight, next)

RECURSIVE Fill(_, _, _)
Fill(s, items, next) ==
    IF s.queue = {} THEN {s}
    ELSE UNION {Fill(Turn(s, items, t, next), items, next) : t \in Foremost(items, s.queue, s.byFee)}

-----------------------------------------------------------------------------
TInit ==
    /\ Init
    /\ tmpl = NoTemplate

NewBlockTemplate ==
    /\ mining.maxWeight > 0 /\ tmpl.phase \in {"none", "done"}
    /\ tmpl' = [phase |-> "best", best |-> tip]
    /\ UNCHANGED vars

MiningDescs ==
    /\ tmpl.phase = "best"
    /\ call = Idle
    /\ tmpl' = [phase |-> "listed", best |-> tmpl.best, descs |-> mp.pool]
    /\ UNCHANGED vars

\* Each listed transaction that is final by the clock, with what it spends of the chain; one that
\* spends something of neither the chain nor the pools is skipped. A node with a utreexo view
\* has no utxo cache: there is no view to look in and the process stops.
FetchItems ==
    /\ tmpl.phase = "listed"
    /\ call = Idle
    /\ IF policy.utreexo /\ DOMAIN tmpl.descs # {}
       THEN tmpl' = [phase |-> "panicked"]
       ELSE LET next  == HeightOf[tmpl.best] + 1
                In(t) == InputsOf(t) \cap DOMAIN Utxos(tip)
                kept  == {t \in DOMAIN tmpl.descs :
                            /\ IsFinalizedTransaction(t, next, MedianTimes[next])
                            /\ \A o \in InputsOf(t) \ In(t) : o[1] \in DOMAIN mp.pool \cup DOMAIN mp.orphans}
                view  == [o \in UNION {In(t) : t \in kept} |-> Utxos(tip)[o]]
            IN  tmpl' = [phase |-> "fetched", best |-> tmpl.best, seen |-> tip, view |-> view,
                         items |-> [t \in kept |->
                            [prio |-> CalcPriority(t, view, next), fee |-> tmpl.descs[t].fee,
                             rate |-> FeePerKB(tmpl.descs[t].fee, t)]],
                         dependsOn |-> [t \in kept |-> {o[1] : o \in InputsOf(t) \ In(t)}]]
    /\ UNCHANGED vars

\* CheckConnectBlockTemplate, for the chain as it is by then: ok or the first check that fails.
CheckConnectBlockTemplate(best, txs, fees) ==
    LET height == HeightOf[tip] + 1
        b      == [time |-> height, version |-> 2, txs |-> <<CoinbaseId>> \o txs, commitment |-> "none"]
        view   == Rules!FetchInputUtxos(b, height)
        done   == Rules!ConnectAll(b, height, view)
        final  == \A t \in Elements(txs) : IsFinalizedTransaction(t, height, MedianTimes[height - 1])
        valid  == /\ Rules!CheckBlockSanity(b)
                  /\ Rules!GetBlockWeight(b) <= MaxBlockWeight
                  /\ Rules!SigOpsInLimit(b, view)
                  /\ done.ok
                  /\ fees <= done.fees
                  /\ \A t \in Elements(txs) : Tx[t].scripts
    IN  IF best # tip THEN "stale"
        ELSE IF ~valid THEN "invalid"
        ELSE IF final /\ Rules!SequenceLocksMet(b, height, done.view, MedianTimes) THEN "ok" ELSE "locked"

CheckTemplate ==
    /\ tmpl.phase = "fetched"
    /\ \E s \in Fill([queue |-> {t \in DOMAIN tmpl.items : tmpl.dependsOn[t] = {}},
                      dependsOn |-> tmpl.dependsOn, byFee |-> mining.prioritySize = 0,
                      weight |-> HeaderWeight + GetTransactionWeight(CoinbaseId),
                      sigOps |-> CountSigOps(CoinbaseId) * WitnessScaleFactor,
                      txs |-> <<>>, fees |-> 0, view |-> tmpl.view, witness |-> FALSE],
                     tmpl.items, HeightOf[tmpl.best] + 1) :
         tmpl' = [phase |-> "done", best |-> tmpl.best, txs |-> s.txs, fees |-> s.fees, weight |-> s.weight,
                  seen |-> tmpl.seen, at |-> tip, res |-> CheckConnectBlockTemplate(tmpl.best, s.txs, s.fees)]
    /\ UNCHANGED vars

TNext ==
    /\ tmpl.phase # "panicked"
    /\ \/ Next /\ UNCHANGED tmpl
       \/ NewBlockTemplate
       \/ MiningDescs
       \/ FetchItems
       \/ CheckTemplate

TSpec == TInit /\ [][TNext]_tvars

-----------------------------------------------------------------------------
(* Properties.                                                             *)

\* A template made under one tip (the same at its start, its reads and its end) passes the
\* check that ends its making, although the pool may be behind or ahead of the chain while it
\* is put together: its transactions come after what they spend, none is confirmed already,
\* its fees are real and its weight is in the limit.
\* The one exception is a lock time a reorganization has brought back, which nothing looks at
\* before the check.
TemplateConnects == tmpl.phase = "done" /\ tmpl.best = tmpl.seen => tmpl.res # "invalid"

\* The coinbase claims exactly the fees the block's transactions pay.
FeesClaimed ==
    tmpl.phase = "done" /\ tmpl.res = "ok" =>
        tmpl.fees = (LET In(t)  == InValue(t, Utxos(tmpl.at) @@ [o \in UNION {OutsOf(u) : u \in Elements(tmpl.txs)} |->
                                        [value |-> Tx[o[1]].outs[o[2]].value]])
                         Fee(t) == In(t) - OutValue(t)
                     IN  SumOver(tmpl.txs, Fee))


====
