---- MODULE MemPool ----
(***************************************************************************)
(* The transaction pool (mempool/mempool.go) over a chain that moves under *)
(* it: netsync applies each connected or disconnected block to the pool by *)
(* one pool call after another (netsync/manager.go                         *)
(* handleBlockchainNotification), while peers and RPC clients submit       *)
(* transactions.                                                           *)
(*                                                                         *)
(* `mp` is the pool: pool (id -> [fee, height]), outpoints (outpoint ->    *)
(* the pool transaction that spends it), orphans (id -> [tag, old]),       *)
(* orphansByPrev (outpoint -> orphans that spend it), pennyTotal, scanDue  *)
(* (nextExpireScan has passed). On a node with a utreexo view a            *)
(* transaction comes with leaf data, here the set of its outpoints the     *)
(* data says are confirmed: poolLeaves and orphanUData keep it, and        *)
(* `cached` is what the accumulator remembers because of it.               *)
(*                                                                         *)
(* A pool call holds the pool lock throughout but reads the chain several  *)
(* times, and the chain may move between two reads: `call` is a submission *)
(* under way, with the tip it took the height from and the tip it fetched  *)
(* the outputs at. The chain waits for the pool in its notifications:      *)
(* `todo` is the pool calls still due for the block that moved last.       *)
(*                                                                         *)
(* A node applies a policy on top of the consensus rules of TxRules: what  *)
(* is standard and what fee is asked (mempool/policy.go), and the priority *)
(* of a transaction (mining/policy.go), which BlockTemplate uses too.      *)
(***************************************************************************)
EXTENDS TxRules, FiniteSetsExt

CONSTANTS
    Policies,           \* the policies a behaviour may run under, and its bounds: submittable
                        \* (transactions submitted), tags (who submits them: peers, and 0 for RPC
                        \* clients), maxMoves (blocks connected and disconnected)
    BlockList,          \* block -> [parent, txs]; the coinbase is the first transaction
    Genesis,            \* the block the chain starts at
    MaxReplacementEvictions,
    MaxStandardTxWeight, MaxStandardSigScriptSize, MaxStandardP2SHSigOps, MaxStandardMultiSigKeys,
    MinHighPriority,
    FreeSize            \* DefaultBlockPrioritySize - 1000: above it a fee is always asked

VARIABLES policy, tip, todo, mp, call, moves

vars == <<policy, tip, todo, mp, call, moves>>

-----------------------------------------------------------------------------
(* Policy.                                                                 *)

DustInputSize == 41
DustSigSize == 107

GetTxVirtualSize(id) == (GetTransactionWeight(id) + WitnessScaleFactor - 1) \div WitnessScaleFactor

\* Of a size and a rate per 1000 bytes: never zero unless the rate is, never above MaxSatoshi.
CalcMinRequiredTxRelayFee(size, rate) ==
    LET fee    == (size * rate) \div 1000
        atLeast == IF fee = 0 /\ rate > 0 THEN rate ELSE fee
    IN  IF atLeast > MaxSatoshi THEN MaxSatoshi ELSE atLeast

CheckInputsStandard(id, view) ==
    \A i \in Elements(Tx[id].ins) :
        /\ view[i.prev].class \notin {"nonstandard", "malformed"}
        /\ view[i.prev].class = "scripthash" => i.p2shOps <= MaxStandardP2SHSigOps

CheckPkScriptStandard(out) ==
    /\ out.class \notin {"nonstandard", "malformed"}
    /\ out.class = "multisig" =>
         out.keys \in 1 .. MaxStandardMultiSigKeys /\ out.sigs \in 1 .. out.keys

\* An output that costs more than a third of its value to spend.
IsDust(out, rate) ==
    LET size == out.size + DustInputSize
                + (IF out.class = "witness" THEN DustSigSize \div WitnessScaleFactor ELSE DustSigSize)
    IN  IsUnspendable(out) \/ (out.value * 1000) \div (3 * size) < rate

CheckTransactionStandard(id, height, time, rate, maxVersion) ==
    /\ Tx[id].version \in 1 .. maxVersion
    /\ IsFinalizedTransaction(id, height, time)
    /\ GetTransactionWeight(id) <= MaxStandardTxWeight
    /\ \A i \in Elements(Tx[id].ins) : i.sigLen <= MaxStandardSigScriptSize /\ i.push
    /\ \A o \in Elements(Tx[id].outs) :
         CheckPkScriptStandard(o) /\ (o.class # "nulldata" => ~IsDust(o, rate))
    /\ Cardinality({j \in DOMAIN Tx[id].outs : Tx[id].outs[j].class = "nulldata"}) <= 1

-----------------------------------------------------------------------------
(* Priority: the value of the inputs times their age, per byte. It is a    *)
(* quotient kept as <<dividend, divisor>>.                                 *)

CalcInputValueAge(id, view, next) ==
    LET Age(i) == IF ~Unspent(view, i.prev) \/ view[i.prev].height = UnminedHeight THEN 0
                  ELSE view[i.prev].value * (next - view[i.prev].height)
    IN  SumOver(Tx[id].ins, Age)

CalcPriority(id, view, next) ==
    LET Over(i)  == 41 + (IF i.sigLen < 110 THEN i.sigLen ELSE 110)
        overhead == SumOver(Tx[id].ins, Over)
    IN  IF overhead >= Tx[id].total THEN <<0, 1>>
        ELSE <<CalcInputValueAge(id, view, next), Tx[id].total - overhead>>

PriorityAbove(p, q) == p[1] * q[2] > q[1] * p[2]

-----------------------------------------------------------------------------
(* The pool.                                                               *)

Idle == [phase |-> "idle"]
Rpc == 0
NoLeaves == {NullOutpoint}      \* no leaf data at all: it never verifies

Block == BlockList
Transactional(b) == Tail(Block[b].txs)

\* Heights, ledgers and median times of the blocks. A block is one unit of time long.
HeightOf == LET H[b \in DOMAIN Block] == IF b = Genesis THEN 1 ELSE H[Block[b].parent] + 1 IN H

LedgerOf ==
    LET Add(view, txs, height) ==
            LET S[i \in 0 .. Len(txs)] == IF i = 0 THEN view ELSE ConnectTransaction(S[i - 1], txs[i], height)
            IN  S[Len(txs)]
        L[b \in DOMAIN Block] == Add(IF b = Genesis THEN <<>> ELSE L[Block[b].parent], Block[b].txs, HeightOf[b])
    IN  [b \in DOMAIN Block |-> [o \in {x \in DOMAIN L[b] : ~L[b][x].spent} |-> L[b][o]]]

MedianTimes == [h \in 0 .. 10 |-> h]

Utxos(b) == LedgerOf[b]

Without(f, S) == [x \in DOMAIN f \ S |-> f[x]]
OutsOf(id) == {<<id, i>> : i \in DOMAIN Tx[id].outs}

-----------------------------------------------------------------------------
(* Orphans.                                                                *)

\* The leaves go from the accumulator although another transaction may need them.
PruneFromAccumulator(p, leaves) == [p EXCEPT !.cached = @ \ leaves]

RECURSIVE RemoveOrphan(_, _, _)
RemoveOrphan(p, id, redeemers) ==
    IF id \notin DOMAIN p.orphans THEN p
    ELSE LET leaves == IF id \in DOMAIN p.orphanUData THEN p.orphanUData[id] ELSE {}
             left   == [o \in DOMAIN p.orphansByPrev |->
                          IF o \in InputsOf(id) THEN p.orphansByPrev[o] \ {id} ELSE p.orphansByPrev[o]]
             p1     == [PruneFromAccumulator(p, leaves) EXCEPT
                          !.orphanUData = Without(@, {id}),
                          !.orphansByPrev = Without(left, {o \in DOMAIN left : left[o] = {}})]
             Remove(t, q) == RemoveOrphan(q, t, TRUE)
             p2     == IF ~redeemers THEN p1
                       ELSE FoldSet(Remove, p1, UNION {p1.orphansByPrev[o] : o \in OutsOf(id) \cap DOMAIN p1.orphansByPrev})
         IN  [p2 EXCEPT !.orphans = Without(@, {id})]

RemoveOrphans(p, S, redeemers) ==
    LET Remove(t, q) == RemoveOrphan(q, t, redeemers) IN FoldSet(Remove, p, S)

\* The expired orphans go when the scan is due; then, at the limit, any one orphan.
LimitNumOrphans(p) ==
    LET p1 == IF ~p.scanDue THEN p
              ELSE [RemoveOrphans(p, {t \in DOMAIN p.orphans : p.orphans[t].old}, TRUE) EXCEPT !.scanDue = FALSE]
    IN  IF Cardinality(DOMAIN p1.orphans) + 1 <= policy.maxOrphans THEN {p1}
        ELSE {RemoveOrphan(p1, t, FALSE) : t \in DOMAIN p1.orphans}

IndexOrphan(byPrev, id) ==
    [o \in DOMAIN byPrev \cup InputsOf(id) |->
        (IF o \in DOMAIN byPrev THEN byPrev[o] ELSE {}) \cup (IF o \in InputsOf(id) THEN {id} ELSE {})]

\* A proof that does not verify is not remembered; the orphan is kept all the same.
AddOrphan(p, id, leaves, tag) ==
    IF policy.maxOrphans <= 0 THEN {p}
    ELSE {[q EXCEPT
             !.orphans = (id :> [tag |-> tag, old |-> FALSE]) @@ @,
             !.orphansByPrev = IndexOrphan(@, id),
             !.orphanUData = IF policy.utreexo THEN (id :> leaves) @@ @ ELSE @,
             !.cached = IF policy.utreexo /\ leaves \subseteq DOMAIN Utxos(tip) THEN @ \cup leaves ELSE @] :
             q \in LimitNumOrphans(p)}

MaybeAddOrphan(p, id, leaves, tag) ==
    IF Tx[id].total > policy.maxOrphanSize THEN {p} ELSE AddOrphan(p, id, leaves, tag)

RemoveOrphanDoubleSpends(p, id) ==
    RemoveOrphans(p, UNION {p.orphansByPrev[o] : o \in InputsOf(id) \cap DOMAIN p.orphansByPrev}, TRUE)

-----------------------------------------------------------------------------
(* The main pool.                                                          *)

IsTransactionInPool(p, id) == id \in DOMAIN p.pool
IsOrphanInPool(p, id) == id \in DOMAIN p.orphans

RemoveUtreexoData(p, id) ==
    IF id \notin DOMAIN p.poolLeaves THEN p
    ELSE [PruneFromAccumulator(p, p.poolLeaves[id]) EXCEPT !.poolLeaves = Without(@, {id})]

RECURSIVE RemoveTransaction(_, _, _)
RemoveTransaction(p, id, redeemers) ==
    LET Remove(o, q) == IF o \in DOMAIN q.outpoints THEN RemoveTransaction(q, q.outpoints[o], TRUE) ELSE q
        p1 == IF redeemers THEN FoldSet(Remove, p, OutsOf(id)) ELSE p
    IN  IF ~IsTransactionInPool(p1, id) THEN p1
        ELSE [RemoveUtreexoData(p1, id) EXCEPT
                !.outpoints = Without(@, InputsOf(id)), !.pool = Without(@, {id})]


RemoveDoubleSpends(p, id) ==
    LET Remove(o, q) == IF o \in DOMAIN q.outpoints /\ q.outpoints[o] # id
                        THEN RemoveTransaction(q, q.outpoints[o], TRUE) ELSE q
    IN  FoldSet(Remove, p, InputsOf(id))

AddTransaction(p, id, height, fee) ==
    [p EXCEPT !.pool = (id :> [fee |-> fee, height |-> height]) @@ @,
              !.outpoints = [o \in InputsOf(id) |-> id] @@ @]

\* An input below the two highest sequence numbers, or an ancestor in the pool with one.
RECURSIVE SignalsReplacement(_, _)
SignalsReplacement(p, id) ==
    \E i \in Elements(Tx[id].ins) :
        \/ i.seq.kind \notin {"max", "last"}
        \/ IsTransactionInPool(p, i.prev[1]) /\ SignalsReplacement(p, i.prev[1])

Conflicting(p, id) == {p.outpoints[o] : o \in InputsOf(id) \cap DOMAIN p.outpoints}

CheckPoolDoubleSpend(p, id) ==
    \A c \in Conflicting(p, id) : ~policy.rejectReplacement /\ SignalsReplacement(p, c)

RECURSIVE TxAncestors(_, _)
TxAncestors(p, id) ==
    LET parents == {o[1] : o \in InputsOf(id)} \cap DOMAIN p.pool
    IN  parents \cup UNION {TxAncestors(p, t) : t \in parents}

RECURSIVE TxDescendants(_, _)
TxDescendants(p, id) ==
    LET children == {p.outpoints[o] : o \in OutsOf(id) \cap DOMAIN p.outpoints}
    IN  children \cup UNION {TxDescendants(p, t) : t \in children}

TxConflicts(p, id) ==
    Conflicting(p, id) \cup UNION {TxDescendants(p, c) : c \in Conflicting(p, id)}

FeePerKB(fee, id) == (fee * 1000) \div GetTxVirtualSize(id)
FeesOf(p, S) == LET Add(t, sum) == sum + p.pool[t].fee IN FoldSet(Add, 0, S)

ReplacementByRate(p, id, fee) ==
    LET conflicts == TxConflicts(p, id)
        parents   == {o[1] : o \in UNION {InputsOf(c) : c \in conflicts}}
    IN  /\ Cardinality(conflicts) <= MaxReplacementEvictions
        /\ TxAncestors(p, id) \cap conflicts = {}
        /\ \A c \in conflicts : FeePerKB(fee, id) > FeePerKB(p.pool[c].fee, c)
        /\ \A o \in InputsOf(id) : o[1] \in DOMAIN p.pool => o[1] \in parents

ValidateReplacement(p, id, fee) ==
    LET conflicts == TxConflicts(p, id)
        parents   == {o[1] : o \in UNION {InputsOf(c) : c \in conflicts}}
    IN  /\ Cardinality(conflicts) <= MaxReplacementEvictions
        /\ TxAncestors(p, id) \cap conflicts = {}
        /\ \A c \in conflicts : FeePerKB(fee, id) > FeePerKB(p.pool[c].fee, c)
        /\ fee >= FeesOf(p, conflicts) + CalcMinRequiredTxRelayFee(GetTxVirtualSize(id), policy.minRelayTxFee)
        /\ \A o \in InputsOf(id) : o[1] \in DOMAIN p.pool => o[1] \in parents

-----------------------------------------------------------------------------
(* Acceptance. `at` is the tip the height and the median time come from,   *)
(* `seen` the tip the outputs were fetched at.                             *)

\* The outputs a transaction spends that can be found: in the chain (on a utreexo node, among
\* the leaves that came with it) or made by a transaction of the pool.
FetchInputUtxos(p, id, leaves, seen) ==
    LET chained == IF policy.utreexo THEN leaves ELSE InputsOf(id) \cap DOMAIN Utxos(seen)
        pooled  == {o \in InputsOf(id) \ chained : IsTransactionInPool(p, o[1]) /\ o \in DOMAIN EntriesOf(o[1], UnminedHeight)}
    IN  [o \in chained |-> Utxos(seen)[o]] @@ [o \in pooled |-> EntriesOf(o[1], UnminedHeight)[o]]

ValidateStandardness(id, next, time, view) ==
    policy.acceptNonStd \/ (/\ CheckTransactionStandard(id, next, time, policy.minRelayTxFee, policy.maxTxVersion)
                            /\ CheckInputsStandard(id, view))

\* The pools after the relay fee check: none when it fails. A free transaction is charged to
\* the penny total even when a later check refuses it.
ValidateRelayFeeMet(p, id, fee, view, next, isNew, rateLimit) ==
    LET size   == GetTxVirtualSize(id)
        minFee == CalcMinRequiredTxRelayFee(size, policy.minRelayTxFee)
        urgent == PriorityAbove(CalcPriority(id, view, next), <<MinHighPriority, 1>>)
    IN  IF fee >= minFee THEN {p}
        ELSE IF size >= FreeSize THEN {}
        ELSE IF ~isNew /\ ~rateLimit THEN {p}
        ELSE IF isNew /\ ~policy.disableRelayPriority /\ ~urgent THEN {}
        ELSE IF p.pennyTotal >= policy.freeTxRelayLimit THEN {}
        ELSE {[p EXCEPT !.pennyTotal = @ + size]}

Refused(p) == {[mp |-> p, res |-> "refused"]}

\* checkMempoolAcceptance, to the parents it misses.
Misses(p, id, view) == InputsOf(id) \ DOMAIN view # {}

PreCheck(p, id, leaves, seen, rejectDupOrphans) ==
    /\ Tx[id].witness => policy.segwit
    /\ ~IsTransactionInPool(p, id)
    /\ rejectDupOrphans => ~IsOrphanInPool(p, id)
    /\ CheckTransactionSanity(id)
    /\ ~IsCoinBase(id)
    /\ CheckPoolDoubleSpend(p, id)
    /\ policy.utreexo => leaves \subseteq DOMAIN Utxos(seen)
    /\ ~policy.utreexo => OutsOf(id) \cap DOMAIN Utxos(seen) = {}

PostCheck(p, id, view, at) ==
    LET next == HeightOf[at] + 1
        time == MedianTimes[HeightOf[at]]
    IN  /\ CheckTransactionInputs(id, next, view)
        /\ ValidateStandardness(id, next, time, view)
        /\ SequenceLockActive(CalcSequenceLock(id, view, HeightOf[tip] + 1, TRUE, MedianTimes), next, time)
        /\ GetSigOpCost(id, view, TRUE, TRUE) <= policy.maxSigOpCost

\* On a utreexo node the proof is ingested first: with a chain that moved it may fail here.
Accept(p, id, leaves, view, at, replaced) ==
    IF policy.utreexo /\ ~(leaves \subseteq DOMAIN Utxos(tip)) THEN Refused(p)
    ELSE LET fee == TxFee(id, view)
             p1  == IF policy.utreexo THEN [p EXCEPT !.poolLeaves = (id :> leaves) @@ @, !.cached = @ \cup leaves] ELSE p
             Remove(t, q) == RemoveTransaction(q, t, FALSE)
             p2  == FoldSet(Remove, p1, replaced)
         IN  {[mp |-> AddTransaction(p2, id, HeightOf[at], fee), res |-> "accepted"]}

\* What becomes of a transaction: [mp, res] with res refused, missing (its parents) or accepted.
MaybeAcceptTransaction(p, id, leaves, at, seen, isNew, rateLimit, rejectDupOrphans) ==
    IF ~PreCheck(p, id, leaves, seen, rejectDupOrphans) THEN Refused(p)
    ELSE UNION {
      IF Misses(p, id, view) THEN {[mp |-> p, res |-> "missing"]}
      ELSE IF ~PostCheck(p, id, view, at) THEN Refused(p)
      ELSE LET charged == ValidateRelayFeeMet(p, id, TxFee(id, view), view, HeightOf[at] + 1, isNew, rateLimit)
               replaces == Conflicting(p, id) # {}
           IN  IF charged = {} THEN Refused(p)
               ELSE UNION {IF (replaces => ValidateReplacement(q, id, TxFee(id, view))) /\ Tx[id].scripts
                           THEN Accept(q, id, leaves, view, at, IF replaces THEN TxConflicts(q, id) ELSE {})
                           ELSE Refused(q) : q \in charged} :
      view \in {FetchInputUtxos(p, id, leaves, seen)}}

-----------------------------------------------------------------------------
(* Orphans that an accepted transaction makes acceptable, in any order of  *)
(* the maps.                                                               *)

\* The orphans that spend one output, until one is accepted or refused: [mp, accepted].
RECURSIVE TryRedeemers(_, _)
TryRedeemers(p, S) ==
    IF S = {} THEN {[mp |-> p, accepted |-> {}]}
    ELSE UNION {
      IF policy.utreexo /\ t \notin DOMAIN p.orphanUData THEN TryRedeemers(p, S \ {t})
      ELSE UNION {CASE r.res = "refused"  -> {[mp |-> RemoveOrphan(r.mp, t, TRUE), accepted |-> {}]}
                    [] r.res = "missing"  -> TryRedeemers(r.mp, S \ {t})
                    [] r.res = "accepted" -> {[mp |-> RemoveOrphan(r.mp, t, FALSE), accepted |-> {t}]} :
                  r \in MaybeAcceptTransaction(p, t, IF policy.utreexo THEN p.orphanUData[t] ELSE {},
                                               tip, tip, TRUE, TRUE, FALSE)} : t \in S}

\* The outputs of the transactions of a list in order: [mp, accepted].
RECURSIVE ProcessList(_, _, _, _)
ProcessList(p, list, out, accepted) ==
    IF list = <<>> THEN {[mp |-> p, accepted |-> accepted]}
    ELSE IF out > Len(Tx[Head(list)].outs) THEN ProcessList(p, Tail(list), 1, accepted)
    ELSE UNION {ProcessList(r.mp, list \o (IF r.accepted = {} THEN <<>> ELSE <<CHOOSE t \in r.accepted : TRUE>>),
                            out + 1, accepted \cup r.accepted) :
                r \in TryRedeemers(p, IF <<Head(list), out>> \in DOMAIN p.orphansByPrev
                                      THEN p.orphansByPrev[<<Head(list), out>>] ELSE {})}

ProcessOrphans(p, id) ==
    LET Remove(t, q) == RemoveOrphanDoubleSpends(q, t)
    IN  {FoldSet(Remove, RemoveOrphanDoubleSpends(r.mp, id), r.accepted) : r \in ProcessList(p, <<id>>, 1, {})}

ProcessTransaction(p, c) ==
    UNION {CASE r.res = "refused"  -> {r.mp}
             [] r.res = "accepted" -> ProcessOrphans(r.mp, c.id)
             [] r.res = "missing"  -> IF c.tag = Rpc THEN {r.mp} ELSE MaybeAddOrphan(r.mp, c.id, c.leaves, c.tag) :
           r \in MaybeAcceptTransaction(p, c.id, c.leaves, c.at, c.seen, TRUE, c.tag # Rpc, TRUE)}

-----------------------------------------------------------------------------
Init ==
    /\ policy \in Policies
    /\ tip \in DOMAIN Block
    /\ todo = <<>>
    /\ mp = [pool |-> <<>>, outpoints |-> <<>>, orphans |-> <<>>, orphansByPrev |-> <<>>,
             poolLeaves |-> <<>>, orphanUData |-> <<>>, cached |-> {}, pennyTotal |-> 0, scanDue |-> FALSE]
    /\ call = Idle
    /\ moves = 0

\* A peer (or, with tag 0, an RPC client) submits a transaction: the pool lock is taken and the
\* height and the median time are read.
Submit(id, tag) ==
    /\ call = Idle
    /\ \E leaves \in IF policy.utreexo THEN SUBSET InputsOf(id) ELSE {{}} :
         call' = [phase |-> "begun", id |-> id, tag |-> tag, leaves |-> leaves, at |-> tip]
    /\ UNCHANGED <<policy, tip, todo, mp, moves>>

FetchUtxoView ==
    /\ call.phase = "begun"
    /\ call' = [phase |-> "fetched", id |-> call.id, tag |-> call.tag, leaves |-> call.leaves,
                at |-> call.at, seen |-> tip]
    /\ UNCHANGED <<policy, tip, todo, mp, moves>>

Finish ==
    /\ call.phase = "fetched"
    /\ mp' \in ProcessTransaction(mp, call)
    /\ call' = Idle
    /\ UNCHANGED <<policy, tip, todo, moves>>

\* A peer has gone: what it sent that is still an orphan goes with it.
RemoveOrphansByTag(tag) ==
    /\ call = Idle
    /\ \E S \in {{t \in DOMAIN mp.orphans : mp.orphans[t].tag = tag}} :
         S # {} /\ mp' = RemoveOrphans(mp, S, TRUE)
    /\ UNCHANGED <<policy, tip, todo, call, moves>>

\* Orphans reach their expiration, the scan is due, and the penny total decays.
TimePasses ==
    /\ mp' = [mp EXCEPT !.scanDue = TRUE, !.pennyTotal = 0,
                        !.orphans = [t \in DOMAIN @ |-> [@[t] EXCEPT !.old = TRUE]]]
    /\ mp' # mp
    /\ call = Idle
    /\ UNCHANGED <<policy, tip, todo, call, moves>>

\* The accumulator forgets what a block spends.
BlockConnected(b) ==
    /\ todo = <<>> /\ moves < policy.maxMoves
    /\ b # Genesis /\ Block[b].parent = tip
    /\ tip' = b /\ moves' = moves + 1
    /\ mp' = [mp EXCEPT !.cached = @ \cap DOMAIN Utxos(b)]
    /\ todo' = [i \in 1 .. 4 * Len(Transactional(b)) |->
                  [op |-> <<"remove", "doubles", "orphan", "promote">>[((i - 1) % 4) + 1],
                   tx |-> Transactional(b)[((i - 1) \div 4) + 1]]]
    /\ UNCHANGED <<policy, call>>

BlockDisconnected ==
    /\ todo = <<>> /\ moves < policy.maxMoves
    /\ tip # Genesis
    /\ tip' = Block[tip].parent /\ moves' = moves + 1
    /\ mp' = [mp EXCEPT !.cached = @ \cap DOMAIN Utxos(tip')]
    /\ todo' = [i \in 1 .. Len(Transactional(tip)) |-> [op |-> "reinsert", tx |-> Transactional(tip)[i]]]
    /\ UNCHANGED <<policy, call>>

\* The next pool call of the notification. A transaction of a disconnected block that is
\* refused is dropped with its redeemers by a second call; one whose parents are missing is not.
HandleNotification ==
    /\ todo # <<>> /\ call = Idle
    /\ LET op == Head(todo).op
           id == Head(todo).tx
       IN  \/ /\ op = "remove"
              /\ mp' = RemoveTransaction(mp, id, FALSE) /\ todo' = Tail(todo)
           \/ /\ op = "doubles"
              /\ mp' = RemoveDoubleSpends(mp, id) /\ todo' = Tail(todo)
           \/ /\ op = "orphan"
              /\ mp' = RemoveOrphan(mp, id, FALSE) /\ todo' = Tail(todo)
           \/ /\ op = "promote"
              /\ mp' \in ProcessOrphans(mp, id) /\ todo' = Tail(todo)
           \/ /\ op = "reinsert"
              /\ \E r \in MaybeAcceptTransaction(mp, id, NoLeaves, tip, tip, FALSE, FALSE, TRUE) :
                   /\ mp' = r.mp
                   /\ todo' = (IF r.res = "refused" THEN <<[op |-> "drop", tx |-> id]>> ELSE <<>>) \o Tail(todo)
           \/ /\ op = "drop"
              /\ mp' = RemoveTransaction(mp, id, TRUE) /\ todo' = Tail(todo)
    /\ UNCHANGED <<policy, tip, call, moves>>

Next ==
    \/ \E id \in policy.submittable, tag \in policy.tags : Submit(id, tag)
    \/ FetchUtxoView
    \/ Finish
    \/ \E tag \in policy.tags : RemoveOrphansByTag(tag)
    \/ TimePasses
    \/ \E b \in DOMAIN Block : BlockConnected(b)
    \/ BlockDisconnected
    \/ HandleNotification

Spec == Init /\ [][Next]_vars

-----------------------------------------------------------------------------
(* Properties.                                                             *)

\* The pools hold known transactions with fees that are amounts, and the free ones relayed are
\* never above the limit by more than one transaction.
TypeOK ==
    /\ DOMAIN mp.pool \subseteq DOMAIN Tx /\ DOMAIN mp.orphans \subseteq DOMAIN Tx
    /\ \A t \in DOMAIN mp.pool : mp.pool[t].fee \in 0 .. MaxSatoshi
    /\ mp.pennyTotal = 0 \/ mp.pennyTotal \in 1 .. (policy.freeTxRelayLimit - 1) + (FreeSize - 1)
    /\ tip \in DOMAIN Block

\* outpoints is exactly the spends of the pool's transactions, so that no two of them spend the
\* same output, through replacements that evict whole families, recursive removals and blocks.
OutpointsExact ==
    /\ DOMAIN mp.outpoints = UNION {InputsOf(t) : t \in DOMAIN mp.pool}
    /\ \A t \in DOMAIN mp.pool : \A o \in InputsOf(t) : mp.outpoints[o] = t

\* The orphan pool keeps its limit, holds nothing of the main pool, and orphansByPrev finds
\* exactly its orphans, whichever of expiry, eviction, promotion and removal took the others.
OrphansExact ==
    /\ Cardinality(DOMAIN mp.orphans) <= policy.maxOrphans
    /\ DOMAIN mp.orphans \cap DOMAIN mp.pool = {}
    /\ mp.orphansByPrev =
         [o \in UNION {InputsOf(t) : t \in DOMAIN mp.orphans} |-> {t \in DOMAIN mp.orphans : o \in InputsOf(t)}]

\* Once the notifications of a block are handled, every input of the pool is an output of the
\* chain or of the pool, although transactions were accepted against older states of the chain
\* between the calls that the notification makes.
InputsAvailable ==
    todo = <<>> /\ call = Idle =>
        \A t \in DOMAIN mp.pool : \A o \in InputsOf(t) : o \in DOMAIN Utxos(tip) \/ o[1] \in DOMAIN mp.pool

\* Leaf data is kept for exactly the transactions of the two pools of a utreexo node: the ones
\* it mines or relays need it.
LeavesExact ==
    policy.utreexo => DOMAIN mp.poolLeaves = DOMAIN mp.pool /\ DOMAIN mp.orphanUData = DOMAIN mp.orphans

\* calcSequenceLock looks up the block below the one of each output the call fetched earlier:
\* the chain is never so far behind by then that there is none, because the notification of
\* the block with the parent waits for the pool.
ViewNotAhead ==
    call.phase = "fetched" =>
        \A o \in InputsOf(call.id) \cap DOMAIN Utxos(call.seen) :
            ~Utxos(call.seen)[o].coinbase => Utxos(call.seen)[o].height - 1 <= HeightOf[tip]

\* Submitting a transaction never lowers the fees of the pool: a replacement pays for all it
\* evicts, descendants included, and something for its own relay.
FeesNeverFall ==
    [][Finish => LET before == FeesOf(mp, DOMAIN mp.pool)
                     after  == FeesOf(mp', DOMAIN mp'.pool)
                 IN  after >= before /\ (DOMAIN mp.pool \ DOMAIN mp'.pool # {} => after > before)]_vars

\* The memory pool is consistent with itself and with the chain it has been
\* told of: no two transactions spend the same output, every input is
\* available, orphans are indexed by what they wait for, and the cached leaves
\* are those of its transactions.
PoolSound ==
    /\ TypeOK /\ OutpointsExact /\ OrphansExact /\ InputsAvailable
    /\ LeavesExact /\ ViewNotAhead

====
