---- MODULE FeeEstimator ----
(***************************************************************************)
(* The fee estimator (mempool/estimatefee.go) as the rest of the node      *)
(* drives it: the pool shows it the transactions it accepts, the sync      *)
(* manager registers every connected block and rolls back every            *)
(* disconnected one, the RPC server asks it for estimates, and the server  *)
(* saves and restores it around a restart.                                 *)
(*                                                                         *)
(* An estimator is a record: observed (id -> [rate, seen, mined]), bin     *)
(* (for each number of blocks to confirmation a sequence of ids), dropped  *)
(* (for the last blocks [hash, txs], the entries the block pushed out of   *)
(* the bins), lastKnownHeight, num, cached (the estimates, <<>> for none)  *)
(* and panicked. est[1] is the estimator of the server, shared by the      *)
(* pool, the RPC server and at first the sync manager; after an error the  *)
(* sync manager makes one of its own, est[2].                              *)
(***************************************************************************)
EXTENDS Integers, Sequences, FiniteSets, SequencesExt

CONSTANTS
    Rates,              \* transaction -> fee rate
    Depth,              \* estimateFeeDepth
    BinSize,            \* estimateFeeBinSize
    MaxReplacements,    \* estimateFeeMaxReplacements
    MaxRollback,        \* DefaultEstimateFeeMaxRollback
    MinBlocks,          \* DefaultEstimateFeeMinRegisteredBlocks
    MaxBlocks, BlockSize    \* bounds: blocks ever mined, observed transactions in one

VARIABLES est, own, chain, mined, note, shadow

\* own: which estimator the sync manager uses; chain: the blocks [hash, txs] of the best chain;
\* mined: how many blocks there ever were; note: the notification the chain is delivering;
\* shadow: hash -> the bins of est[1] before that block was registered.
vars == <<est, own, chain, mined, note, shadow>>

FeeRate == Rates
Txs == DOMAIN FeeRate
Bins == 1 .. Depth
Unmined == 1000         \* mining.UnminedHeight
NoNote == [kind |-> "none", hash |-> 0, txs |-> {}]

Update(f, k, v) == [x \in DOMAIN f \cup {k} |-> IF x = k THEN v ELSE f[x]]

NewFeeEstimator ==
    [observed |-> <<>>, bin |-> [b \in Bins |-> <<>>], dropped |-> <<>>,
     lastKnownHeight |-> Unmined, num |-> 0, cached |-> <<>>, panicked |-> FALSE]

ObserveTransaction(e, t, height) ==
    IF e.lastKnownHeight = Unmined \/ t \in DOMAIN e.observed THEN e
    ELSE [e EXCEPT !.observed = Update(@, t, [rate |-> FeeRate[t], seen |-> height, mined |-> Unmined])]

-----------------------------------------------------------------------------
(* RegisterBlock: the set of its outcomes [e, err].                        *)

\* Mutant of RegisterTx: an entry of a full bin is overwritten and not kept for a rollback.
RegisterForgetful(s, t, height) ==
    LET o == s.e.observed[t]
        b == height - o.seen
        n == s.counts[b] + 1
        e == [s.e EXCEPT !.observed[t].mined = height]
    IN  IF t \notin DOMAIN s.e.observed THEN {s}
        ELSE IF o.mined # Unmined THEN {[s EXCEPT !.err = TRUE]}
        ELSE IF b \notin Bins \/ s.counts[b] = MaxReplacements THEN {s}
        ELSE IF Len(e.bin[b]) < BinSize
        THEN {[s EXCEPT !.e = [e EXCEPT !.bin[b] = Append(@, t)], !.counts[b] = n]}
        ELSE {[s EXCEPT !.e = [e EXCEPT !.bin[b][BinSize - n] = t], !.counts[b] = n]}

\* One transaction of the block. In a full bin a random one of the entries below those this
\* block may have put there goes to `dropped`; the new one takes the highest of those places.
RegisterTx(s, t, height) ==
    LET o == s.e.observed[t]
        b == height - o.seen            \* blocksToConfirm, counted from 1
        n == s.counts[b] + 1
        l == BinSize - n
        e == [s.e EXCEPT !.observed[t].mined = height]
    IN  IF t \notin DOMAIN s.e.observed THEN {s}
        ELSE IF o.mined # Unmined THEN {[s EXCEPT !.err = TRUE]}
        ELSE IF b \notin Bins \/ s.counts[b] = MaxReplacements THEN {s}
        ELSE IF Len(e.bin[b]) < BinSize
        THEN {[s EXCEPT !.e = [e EXCEPT !.bin[b] = Append(@, t)], !.counts[b] = n]}
        ELSE {[s EXCEPT !.e = [e EXCEPT !.bin[b] = [@ EXCEPT ![d] = e.bin[b][l], ![l] = t]],
                        !.counts[b] = n,
                        !.dropped = Append(@, e.bin[b][d])] : d \in 1 .. l}

\* The map of the block's transactions is walked in any order, up to an error.
RECURSIVE RegisterAll(_, _, _)
RegisterAll(s, S, height) ==
    IF S = {} \/ s.err THEN {s}
    ELSE UNION {UNION {RegisterAll(r, S \ {t}, height) : r \in RegisterTx(s, t, height)} : t \in S}

Stale(e, height) == {t \in DOMAIN e.observed : /\ e.observed[t].mined = Unmined
                                               /\ height - e.observed[t].seen >= Depth}

RegisterBlock(e0, block, height) ==
    LET c == [e0 EXCEPT !.cached = <<>>]
        start == [e |-> [c EXCEPT !.lastKnownHeight = height, !.num = @ + 1],
                  counts |-> [b \in Bins |-> 0], dropped |-> <<>>, err |-> FALSE]
        \* The transactions that waited too long go, and the dropped entries join the history.
        Done(s) == [s.e EXCEPT !.observed = [t \in DOMAIN @ \ Stale(s.e, height) |-> @[t]],
                               !.dropped = LET h == Append(@, [hash |-> block.hash, txs |-> s.dropped])
                                           IN  IF Len(h) > MaxRollback THEN Tail(h) ELSE h]
    IN  IF e0.lastKnownHeight \notin {Unmined, height - 1} THEN {[e |-> c, err |-> TRUE]}
        ELSE {[e |-> IF s.err THEN s.e ELSE Done(s), err |-> s.err] : s \in RegisterAll(start, block.txs, height)}

-----------------------------------------------------------------------------
(* Rollback.                                                               *)

\* One dropped entry takes the place of the next entry of its bin that the last block put there.
PutBack(s, t) ==
    LET b == s.e.observed[t].mined - s.e.observed[t].seen
        bin == s.e.bin[b]
        places == {i \in s.counters[b] + 1 .. Len(bin) : s.e.observed[bin[i]].mined = s.e.lastKnownHeight}
        i == CHOOSE i \in places : \A j \in places : i <= j
    IN  IF s.e.panicked THEN s
        ELSE IF places = {} THEN [s EXCEPT !.e.panicked = TRUE]
        ELSE [s EXCEPT !.e.observed[bin[i]].mined = Unmined, !.e.bin[b][i] = t, !.counters[b] = i]

\* Mutant of Unregister: the entries that replaced none stay in their bins.
UnregisterReplacedOnly(e) ==
    LET s == FoldLeft(PutBack, [e |-> e, counters |-> [b \in Bins |-> 0]], Last(e.dropped).txs)
    IN  [s.e EXCEPT !.cached = <<>>, !.dropped = Front(@), !.num = @ - 1, !.lastKnownHeight = @ - 1]

\* rollback of the last block: the dropped entries return, then the rest of what the block
\* added leaves the bins.
Unregister(e) ==
    LET s == FoldLeft(PutBack, [e |-> e, counters |-> [b \in Bins |-> 0]], Last(e.dropped).txs)
        added == {t \in DOMAIN s.e.observed : \E b \in Bins : \E i \in s.counters[b] + 1 .. Len(s.e.bin[b]) :
                      s.e.bin[b][i] = t /\ s.e.observed[t].mined = s.e.lastKnownHeight}
    IN  IF s.e.panicked THEN s.e
        ELSE [s.e EXCEPT !.observed = [t \in DOMAIN @ |-> IF t \in added THEN [@[t] EXCEPT !.mined = Unmined] ELSE @[t]],
                         !.bin = [b \in Bins |-> SelectSeq(@[b], LAMBDA t : t \notin added)],
                         !.cached = <<>>, !.dropped = Front(@),
                         !.num = @ - 1, !.lastKnownHeight = @ - 1]

RECURSIVE Rollback(_, _)
Rollback(e, hash) ==
    IF \A i \in DOMAIN e.dropped : e.dropped[i].hash # hash THEN e     \* no such block was recently registered
    ELSE IF Last(e.dropped).hash = hash THEN Unregister(e)
    ELSE Rollback(Unregister(e), hash)

-----------------------------------------------------------------------------
(* Estimates.                                                              *)

\* newEstimateFeeSet: the rates of the bins, the highest first.
NewEstimateFeeSet(e) ==
    SortSeq(FlattenSeq([b \in Bins |-> [i \in DOMAIN e.bin[b] |-> e.observed[e.bin[b][i]].rate]]),
            LAMBDA x, y : x > y)

EstimateFee(e, confirmations) ==
    LET rates == NewEstimateFeeSet(e)
        min == FoldLeft(LAMBDA n, b : n + Len(e.bin[b]), 0, [b \in 1 .. confirmations - 1 |-> b])
        max == IF e.bin[confirmations] = <<>> THEN min ELSE min + Len(e.bin[confirmations]) - 1
        feeIndex == (min + max) \div 2 + 1
    IN  IF rates = <<>> THEN 0
        ELSE rates[IF feeIndex > Len(rates) THEN Len(rates) ELSE feeIndex]

Estimates(e) == [n \in Bins |-> EstimateFee(e, n)]

-----------------------------------------------------------------------------
(* Save and RestoreFeeEstimator.                                           *)

\* The observed transactions are written in the order of their hashes; the bins and the
\* dropped lists refer to them by index, an entry not in the table by 0.
Save(e) ==
    LET table == SetToSortSeq(DOMAIN e.observed, <)
        Index(t) == IF t \in DOMAIN e.observed THEN (CHOOSE i \in DOMAIN table : table[i] = t) - 1 ELSE 0
        Indices(s) == [i \in DOMAIN s |-> Index(s[i])]
    IN  [table |-> [i \in DOMAIN table |-> [hash |-> table[i], entry |-> e.observed[table[i]]]],
         bin |-> [b \in Bins |-> Indices(e.bin[b])],
         dropped |-> [i \in DOMAIN e.dropped |-> [hash |-> e.dropped[i].hash, txs |-> Indices(e.dropped[i].txs)]],
         lastKnownHeight |-> e.lastKnownHeight, num |-> e.num]

RestoreFeeEstimator(data) ==
    LET Hashes(s) == [i \in DOMAIN s |-> data.table[s[i] + 1].hash]
    IN  [observed |-> [t \in {data.table[i].hash : i \in DOMAIN data.table} |->
                          data.table[CHOOSE i \in DOMAIN data.table : data.table[i].hash = t].entry],
         bin |-> [b \in Bins |-> Hashes(data.bin[b])],
         dropped |-> [i \in DOMAIN data.dropped |-> [hash |-> data.dropped[i].hash, txs |-> Hashes(data.dropped[i].txs)]],
         lastKnownHeight |-> data.lastKnownHeight, num |-> data.num, cached |-> <<>>, panicked |-> FALSE]
-----------------------------------------------------------------------------
(* The node around it.                                                     *)

Height == Len(chain)
OnChain == UNION {chain[i].txs : i \in DOMAIN chain}
BinSets(e) == [b \in Bins |-> ToSet(e.bin[b])]
Recent(e) == {e.dropped[i].hash : i \in DOMAIN e.dropped}

Init == /\ est = <<NewFeeEstimator, NewFeeEstimator>>
        /\ own = 1
        /\ chain = <<>>
        /\ mined = 0
        /\ note = NoNote
        /\ shadow = <<>>

\* The pool accepts a transaction: addTransaction.
Accept(t) ==
    /\ t \notin OnChain
    /\ est' = [est EXCEPT ![1] = ObserveTransaction(@, t, Height)]
    /\ UNCHANGED <<own, chain, mined, note, shadow>>

\* The best chain grows or shrinks by one block; the chain delivers one notification at a time.
Connect(S) ==
    /\ note = NoNote
    /\ mined < MaxBlocks
    /\ mined' = mined + 1
    /\ chain' = Append(chain, [hash |-> mined', txs |-> S])
    /\ note' = [kind |-> "connected", hash |-> mined', txs |-> S]
    /\ UNCHANGED <<est, own, shadow>>

Disconnect ==
    /\ note = NoNote
    /\ chain # <<>>
    /\ chain' = Front(chain)
    /\ note' = [kind |-> "disconnected", hash |-> Last(chain).hash, txs |-> Last(chain).txs]
    /\ UNCHANGED <<est, own, mined, shadow>>

\* handleBlockchainNotification, the estimator's part: after an error the sync manager goes on
\* with a new estimator of its own.
BlockConnected ==
    /\ note.kind = "connected"
    /\ \E r \in RegisterBlock(est[own], note, Height) :
         /\ est' = IF r.err THEN [est EXCEPT ![own] = r.e, ![2] = NewFeeEstimator] ELSE [est EXCEPT ![own] = r.e]
         /\ own' = IF r.err THEN 2 ELSE own
    /\ shadow' = [h \in (DOMAIN shadow \cup {note.hash}) \cap Recent(est'[1]) |->
                      IF h = note.hash THEN BinSets(est[1]) ELSE shadow[h]]
    /\ note' = NoNote
    /\ UNCHANGED <<chain, mined>>

\* The transactions the pool takes back are shown to its estimator, then the block is rolled back.
BlockDisconnected ==
    /\ note.kind = "disconnected"
    /\ \E S \in SUBSET note.txs :
         LET shown == [est EXCEPT ![1] = FoldLeft(LAMBDA e, t : ObserveTransaction(e, t, Height), @, SetToSeq(S))]
         IN  est' = [shown EXCEPT ![own] = Rollback(@, note.hash)]
    /\ shadow' = [h \in DOMAIN shadow \cap Recent(est'[1]) |-> shadow[h]]
    /\ note' = NoNote
    /\ UNCHANGED <<own, chain, mined>>

\* EstimateFee of the RPC server.
Ask ==
    /\ est[1].num >= MinBlocks
    /\ est[1].cached = <<>>
    /\ est' = [est EXCEPT ![1].cached = Estimates(est[1])]
    /\ UNCHANGED <<own, chain, mined, note, shadow>>

\* The server stops, cleanly or not, and starts again: the saved state is used once, and only
\* at the height it was saved at.
Restart(clean) ==
    /\ note = NoNote
    /\ LET e == RestoreFeeEstimator(Save(est[1]))
       IN  est' = <<IF clean /\ e.lastKnownHeight = Height THEN e ELSE NewFeeEstimator, NewFeeEstimator>>
    /\ own' = 1
    /\ shadow' = [h \in DOMAIN shadow \cap Recent(est'[1]) |-> shadow[h]]
    /\ UNCHANGED <<chain, mined, note>>

Next == \/ \E t \in Txs : Accept(t)
        \/ \E S \in SUBSET (Txs \ OnChain) : Cardinality(S) <= BlockSize /\ Connect(S)
        \/ Disconnect
        \/ BlockConnected
        \/ BlockDisconnected
        \/ Ask
        \/ \E clean \in BOOLEAN : Restart(clean)

Spec == Init /\ [][Next]_vars

-----------------------------------------------------------------------------
(* Properties.                                                             *)

\* Heights, bins and lists are within their limits, the registered blocks are counted, and no
\* rollback ever meets the "illegal state" panic of rollback().
TypeOK ==
    \A k \in 1 .. 2 :
        /\ est[k].lastKnownHeight \in 0 .. MaxBlocks \cup {Unmined}
        /\ est[k].num >= Len(est[k].dropped)
        /\ Len(est[k].dropped) <= MaxRollback
        /\ \A b \in Bins : Len(est[k].bin[b]) <= BinSize
        /\ ~est[k].panicked

\* Every entry of a bin is an observed transaction that was mined the number of blocks after it
\* was seen that the bin stands for, no transaction is in the bins twice, and none is both in a
\* bin and in a list of dropped entries.
BinsSound ==
    \A k \in 1 .. 2 :
        LET e == est[k]
            all == FlattenSeq(e.bin) \o FlattenSeq([i \in DOMAIN e.dropped |-> e.dropped[i].txs])
        IN  /\ IsInjective(all)
            /\ ToSet(all) \subseteq DOMAIN e.observed
            /\ \A b \in Bins : \A t \in ToSet(e.bin[b]) :
                  /\ e.observed[t].mined - e.observed[t].seen = b
                  /\ e.observed[t].mined <= e.lastKnownHeight

\* The answers given from the cache are those of the present bins, and waiting for more blocks
\* never costs a higher rate.
EstimatesSound ==
    LET e == est[1]
    IN  e.cached # <<>> => /\ e.cached = Estimates(e)
                           /\ \A n \in 1 .. Depth - 1 : e.cached[n + 1] <= e.cached[n]

Restoring ==
    \A h \in DOMAIN shadow : note.kind = "disconnected" /\ note' = NoNote /\ own = 1 /\ h = note.hash
        => BinSets(est'[1]) = shadow[h]

\* Rolling back a block the estimator still remembers gives the bins the entries they had
\* before that block was registered, also when the estimator was saved and restored in between.
RollbackRestores == [][Restoring]_vars

\* The bins of the fee estimator hold what it observed and no more than they
\* may, and its estimates never rise with the number of blocks one is ready to
\* wait.
EstimatorSound ==
    /\ TypeOK /\ BinsSound /\ EstimatesSound

====
