------------------------------ MODULE AddrIndex ------------------------------
(***************************************************************************)
(* The transaction and address indexes (blockchain/indexers: txindex.go,   *)
(* addrindex.go) with the search over them (rpcserver.go), and how an      *)
(* index is dropped in several transactions (manager.go).                  *)
(*                                                                         *)
(* The transaction index numbers the blocks it holds; the number of the    *)
(* last block is kept in memory only and found again at the start.  The    *)
(* address index keeps the entries of an address in levels of doubling     *)
(* size, and the transactions of the pool in two tables.                   *)
(*                                                                         *)
(* A block is [at, kind]: its height and what is in it.  A transaction is  *)
(* named by its block and place, an entry holds the number of the block    *)
(* and the place.                                                          *)
(***************************************************************************)
EXTENDS Integers, Sequences, FiniteSets, SequencesExt

CONSTANTS Addresses,
          Involved,          \* by kind of block: the addresses of each of its transactions
          PoolScripts,       \* by pool transaction: the addresses of its scripts, in order
          level0MaxEntries,
          ScanIncrement,     \* the gap of the forward scan of Init
          MaxBlocks, MaxLevel,
          OldEntries, maxDeletions,  \* the entries of an index; how many go in a transaction
          Plans              \* what may happen: [part, rollbacks, restarts, drops, kills, killsLate]

VARIABLES course,      \* the plan, with the events left
          ledger,      \* the blocks that are indexed
          idByHash, hashByID,
          txEntries,   \* transaction -> [id, place]
          curBlockID,
          levels,      \* address -> level -> entries
          txnsByAddr, addrsByTx, unconfirmed,
          bucket,      \* index -> what the database has of it
          dropper      \* the process that drops: [phase, steps]

addrVars == <<course, ledger, idByHash, hashByID, txEntries, curBlockID, levels,
              txnsByAddr, addrsByTx, unconfirmed, bucket, dropper>>

chainVars == <<ledger, idByHash, hashByID, txEntries, curBlockID, levels>>
poolVars == <<txnsByAddr, addrsByTx, unconfirmed>>
dropVars == <<bucket, dropper>>

Least(S) == CHOOSE x \in S : \A y \in S : x <= y
Places(block) == 1 .. Len(Involved[block.kind])
Without(f, x) == [y \in DOMAIN f \ {x} |-> f[y]]
With(f, x, v) == [y \in DOMAIN f \cup {x} |-> IF y = x THEN v ELSE f[y]]

-----------------------------------------------------------------------------
(* The levels of an address.                                               *)

LevelNumbers == 0 .. MaxLevel
NoLevels == [l \in LevelNumbers |-> <<>>]

maxEntriesForLevel(level) == level0MaxEntries * 2 ^ level

(* 1 + the maxima of the levels below.                                     *)
minEntriesToReachLevel(level) == 1 + level0MaxEntries * (2 ^ level - 1)

(* A full level 0 moves the run of full levels above it up by one; the     *)
(* last of the run is merged into the first level that is not full.        *)
dbPutAddrIndexEntry(data, entry) ==
    IF Len(data[0]) < level0MaxEntries THEN [data EXCEPT ![0] = Append(@, entry)]
    ELSE LET free == Least({l \in LevelNumbers \ {0} : Len(data[l]) # maxEntriesForLevel(l)})
         IN [l \in LevelNumbers |->
                IF l = 0 THEN <<entry>>
                ELSE IF l < free THEN data[l - 1]
                ELSE IF l = free THEN data[l] \o data[l - 1]
                ELSE data[l]]

RECURSIVE PutAll(_, _)
PutAll(data, entries) ==
    IF entries = <<>> THEN data ELSE PutAll(dbPutAddrIndexEntry(data, Head(entries)), Tail(entries))

(* The entries loaded from level l on; in reverse only as many levels as   *)
(* are needed.                                                             *)
RECURSIVE Load(_, _, _, _)
Load(data, l, loaded, enough) ==
    IF l > MaxLevel \/ data[l] = <<>> \/ (enough >= 0 /\ Len(loaded) >= enough) THEN loaded
    ELSE Load(data, l + 1, data[l] \o loaded, enough)

(* dbFetchAddrIndexEntries: the entries of a page and how many were        *)
(* skipped.                                                                *)
dbFetchAddrIndexEntries(data, numToSkip, numRequested, reverse) ==
    LET loaded == Load(data, 0, <<>>, IF reverse THEN numToSkip + numRequested ELSE -1)
        n == Len(loaded)
        k == IF n - numToSkip > numRequested THEN numRequested ELSE n - numToSkip
    IN IF numToSkip >= n THEN [regions |-> <<>>, skipped |-> n]
       ELSE [regions |-> [i \in 1 .. k |-> IF reverse THEN loaded[n - numToSkip - i + 1]
                                                      ELSE loaded[numToSkip + i]],
             skipped |-> numToSkip]

(* The levels that a removal of count entries empties or shortens, as      *)
(* [pending, highest]; none when there are not enough entries.             *)
RECURSIVE Shorten(_, _, _, _)
Shorten(data, level, remaining, pending) ==
    IF remaining = 0 THEN {[pending |-> pending, highest |-> level - 1]}
    ELSE IF level > MaxLevel \/ data[level] = <<>> THEN {}
    ELSE IF remaining >= Len(data[level])
         THEN Shorten(data, level + 1, remaining - Len(data[level]), [pending EXCEPT ![level] = <<>>])
    ELSE {[pending |-> [pending EXCEPT ![level] = SubSeq(@, 1, Len(@) - remaining)], highest |-> level]}

(* The entries left in the highest level touched are spread over the lower *)
(* ones, each of which ends up empty, half full or full.                   *)
RECURSIVE Squash(_, _, _, _)
Squash(pending, level, data, lowestEmpty) ==
    IF level = 0
    THEN [pending |-> [pending EXCEPT ![0] = data],
          lowestEmpty |-> IF data = <<>> THEN 0 ELSE lowestEmpty]
    ELSE LET max == maxEntriesForLevel(level)
             need == minEntriesToReachLevel(level - 1)
             offset == IF Len(data) - max >= need THEN max ELSE max \div 2
         IN IF Len(data) < max \div 2 + need
            THEN Squash([pending EXCEPT ![level] = <<>>], level - 1, data, level)
            ELSE Squash([pending EXCEPT ![level] = SubSeq(data, 1, offset)], level - 1,
                        SubSeq(data, offset + 1, Len(data)), lowestEmpty)

(* A level split over the empty ones below it.                             *)
RECURSIVE Spread(_, _, _, _, _)
Spread(pending, level, data, max, lowestEmpty) ==
    IF level <= lowestEmpty THEN pending
    ELSE LET half == max \div 2 IN
         Spread([pending EXCEPT ![level] = SubSeq(data, 1, half),
                                ![level - 1] = SubSeq(data, half + 1, Len(data))],
                level - 1, SubSeq(data, half + 1, Len(data)), half, lowestEmpty)


(* While the highest level touched is empty, the next one is brought down: *)
(* a half full one as a whole, then split over the empty levels.           *)
RECURSIVE Backfill(_, _, _)
Backfill(pending, highest, lowestEmpty) ==
    LET level == highest + 1
        data == pending[level]
        full == Len(data) = maxEntriesForLevel(level)
        moved == IF full THEN pending ELSE [pending EXCEPT ![level] = <<>>, ![level - 1] = data]
        from == IF full THEN level ELSE level - 1
    IN IF pending[highest] # <<>> \/ level > MaxLevel \/ data = <<>> THEN pending
       ELSE Backfill(Spread(moved, from, data, maxEntriesForLevel(from), lowestEmpty),
                     level, level)

dbRemoveAddrIndexEntries(data, count) ==
    IF count = 0 THEN {data}
    ELSE {IF cut.pending[0] # <<>> THEN cut.pending
          ELSE LET low == Squash(cut.pending, cut.highest, cut.pending[cut.highest], 255)
               IN Backfill(low.pending, cut.highest, low.lowestEmpty)
            : cut \in Shorten(data, 0, count, data)}

-----------------------------------------------------------------------------
(* Blocks come and go.                                                     *)

(* indexBlock: by address, the places of the transactions that involve it, *)
(* each once.                                                              *)
indexBlock(block, a) ==
    LET txs == Involved[block.kind] IN SelectSeq([i \in DOMAIN txs |-> i], LAMBDA i : a \in txs[i])

EntriesOf(block, id, places) == [i \in DOMAIN places |-> [id |-> id, place |-> places[i]]]

PrevBlockID == curBlockID - 1

(* TxIndex.ConnectBlock and AddrIndex.ConnectBlock.                        *)
ConnectBlock(block) ==
    LET newBlockID == curBlockID + 1 IN
    /\ ledger' = Append(ledger, block)
    /\ txEntries' = [t \in DOMAIN txEntries \cup {<<block, i>> : i \in Places(block)} |->
                        IF t \in DOMAIN txEntries THEN txEntries[t]
                        ELSE [id |-> newBlockID, place |-> t[2]]]
    /\ idByHash' = With(idByHash, block, newBlockID)
    /\ hashByID' = With(hashByID, newBlockID, block)
    /\ levels' = [a \in Addresses |->
                    PutAll(levels[a], EntriesOf(block, newBlockID, indexBlock(block, a)))]
    /\ curBlockID' = newBlockID

Connect(kind) ==
    LET block == [at |-> Len(ledger) + 1, kind |-> kind] IN
    /\ course.part = "chain"
    /\ Len(ledger) < MaxBlocks
    /\ ConnectBlock(block)
    /\ UNCHANGED <<course, poolVars, dropVars>>

(* TxIndex.DisconnectBlock and AddrIndex.DisconnectBlock.                  *)
Disconnect ==
    /\ course.part = "chain"
    /\ ledger # <<>>
    /\ LET block == Last(ledger)
           left == [a \in Addresses |-> dbRemoveAddrIndexEntries(levels[a], Len(indexBlock(block, a)))]
       IN
       /\ \A a \in Addresses : left[a] # {}
       /\ levels' = [a \in Addresses |-> CHOOSE data \in left[a] : TRUE]
       /\ ledger' = Front(ledger)
       /\ txEntries' = [t \in {t \in DOMAIN txEntries : t[1] # block} |-> txEntries[t]]
       /\ hashByID' = Without(hashByID, idByHash[block])
       /\ idByHash' = Without(idByHash, block)
       /\ curBlockID' = PrevBlockID
    /\ UNCHANGED <<course, poolVars, dropVars>>

(* A later step of the transaction that connects a block fails: what the   *)
(* index wrote is rolled back, the number in memory is not.                *)
ConnectRolledBack ==
    /\ course.part = "chain"
    /\ course.rollbacks > 0
    /\ course' = [course EXCEPT !.rollbacks = @ - 1]
    /\ curBlockID' = curBlockID + 1
    /\ UNCHANGED <<ledger, idByHash, hashByID, txEntries, levels, poolVars, dropVars>>

(* The search for the highest number: forward in large gaps to a number    *)
(* that is free, then by halving.                                          *)
RECURSIVE ForwardScan(_), Halve(_, _)
ForwardScan(id) == IF id \in DOMAIN hashByID THEN ForwardScan(id + ScanIncrement) ELSE id

Halve(known, unknown) ==
    LET test == (known + unknown) \div 2
        low == IF test \in DOMAIN hashByID THEN test ELSE known
        high == IF test \in DOMAIN hashByID THEN unknown ELSE test
    IN IF low + 1 = high THEN low ELSE Halve(low, high)

(* TxIndex.Init.                                                           *)
Init_curBlockID ==
    LET unknown == ForwardScan(1) IN
    IF unknown = 1 THEN 0 ELSE Halve(unknown - ScanIncrement, unknown)

Restart ==
    /\ course.part = "chain"
    /\ course.restarts > 0
    /\ course' = [course EXCEPT !.restarts = @ - 1]
    /\ curBlockID' = Init_curBlockID
    /\ UNCHANGED <<ledger, idByHash, hashByID, txEntries, levels, poolVars, dropVars>>

-----------------------------------------------------------------------------
(* The transactions of the pool.                                           *)

PoolTxs == DOMAIN PoolScripts
PoolAddresses(t) == UNION {PoolScripts[t][i] : i \in DOMAIN PoolScripts[t]}

AddUnconfirmedTx(t) ==
    /\ course.part = "pool"
    /\ t \notin unconfirmed
    /\ unconfirmed' = unconfirmed \cup {t}
    /\ txnsByAddr' = [a \in DOMAIN txnsByAddr \cup PoolAddresses(t) |->
            (IF a \in DOMAIN txnsByAddr THEN txnsByAddr[a] ELSE {})
            \cup (IF a \in PoolAddresses(t) THEN {t} ELSE {})]
    /\ addrsByTx' = IF PoolAddresses(t) = {} THEN addrsByTx ELSE With(addrsByTx, t, PoolAddresses(t))
    /\ UNCHANGED <<course, chainVars, dropVars>>

IndexedUnder(t) == IF t \in DOMAIN addrsByTx THEN addrsByTx[t] ELSE {}

RemoveUnconfirmedTx(t) ==
    /\ course.part = "pool"
    /\ t \in unconfirmed
    /\ unconfirmed' = unconfirmed \ {t}
    /\ txnsByAddr' = [a \in {a \in DOMAIN txnsByAddr : a \in IndexedUnder(t) => txnsByAddr[a] # {t}} |->
                        IF a \in IndexedUnder(t) THEN txnsByAddr[a] \ {t} ELSE txnsByAddr[a]]
    /\ addrsByTx' = Without(addrsByTx, t)
    /\ UNCHANGED <<course, chainVars, dropVars>>

(* fetchMempoolTxnsForAddress: the order is that of a map, the same within *)
(* a search.                                                               *)
fetchMempoolTxnsForAddress(txns, numToSkip, numRequested) ==
    IF numToSkip > Len(txns) THEN [txns |-> <<>>, skipped |-> Len(txns)]
    ELSE [txns |-> SubSeq(txns, numToSkip + 1,
                          IF numToSkip + numRequested > Len(txns) THEN Len(txns) ELSE numToSkip + numRequested),
          skipped |-> numToSkip]

(* A page of handleSearchRawTransactions, oldest first: the index, then    *)
(* the pool.                                                               *)
ForwardPage(data, txns, numToSkip, numRequested) ==
    LET db == dbFetchAddrIndexEntries(data, numToSkip, numRequested, FALSE)
        rest == numRequested - Len(db.regions)
        mp == fetchMempoolTxnsForAddress(txns, numToSkip - db.skipped, rest)
    IN [confirmed |-> db.regions, pool |-> IF rest > 0 THEN mp.txns ELSE <<>>]

(* Newest first: the pool, then the index.                                 *)
ReversePage(data, txns, numToSkip, numRequested) ==
    LET mp == fetchMempoolTxnsForAddress(txns, numToSkip, numRequested)
        rest == numRequested - Len(mp.txns)
        db == dbFetchAddrIndexEntries(data, numToSkip - mp.skipped, rest, TRUE)
    IN [pool |-> mp.txns, confirmed |-> IF rest > 0 THEN db.regions ELSE <<>>]

-----------------------------------------------------------------------------
(* Dropping an index.                                                      *)

Indexes == {"tx", "addr"}

DropSteps(idx) ==
    <<[op |-> "mark", idx |-> idx], [op |-> "catalog", idx |-> idx], [op |-> "delete", idx |-> idx],
      [op |-> "bucket", idx |-> idx]>>
    \o (IF idx = "tx" THEN <<[op |-> "ids", idx |-> idx]>> ELSE <<>>)
    \o <<[op |-> "finish", idx |-> idx]>>

(* dropIndex does nothing for an index that does not exist.                *)
dropIndex(idx) == IF bucket[idx].tip THEN DropSteps(idx) ELSE <<>>

(* DropTxIndex, run by a process of its own: the address index, which      *)
(* needs the other, goes first.                                            *)
DropTxIndex ==
    /\ course.part = "drop"
    /\ dropper.phase = "off" /\ course.drops > 0
    /\ course' = [course EXCEPT !.drops = @ - 1]
    /\ dropper' = [phase |-> "dropping", steps |-> dropIndex("addr") \o dropIndex("tx")]
    /\ UNCHANGED <<bucket, chainVars, poolVars>>

(* Init of the manager: the drops that were begun are finished first.      *)
maybeFinishDrops ==
    /\ course.part = "drop"
    /\ dropper.phase = "off"
    /\ dropper' = [phase |-> "starting",
                   steps |-> (IF bucket["tx"].marked THEN dropIndex("tx") ELSE <<>>)
                             \o (IF bucket["addr"].marked THEN dropIndex("addr") ELSE <<>>)]
    /\ UNCHANGED <<course, bucket, chainVars, poolVars>>

Mark(b) == [b EXCEPT !.marked = TRUE]

(* One transaction of a drop.  A bucket that is gone cannot be cataloged   *)
(* or deleted again.                                                       *)
DropStep ==
    /\ dropper.steps # <<>>
    /\ LET step == Head(dropper.steps)
           b == bucket[step.idx]
           Done(after) == /\ bucket' = [bucket EXCEPT ![step.idx] = after]
                          /\ dropper' = [dropper EXCEPT !.steps = Tail(@)]
           Fails == dropper' = [phase |-> "stuck", steps |-> <<>>] /\ UNCHANGED bucket
       IN CASE step.op = "mark" -> Done(Mark(b))
            [] step.op = "catalog" -> IF b.exists THEN Done(b) ELSE Fails
            [] step.op = "delete" ->
                 IF b.old >= maxDeletions
                 THEN /\ bucket' = [bucket EXCEPT ![step.idx].old = @ - maxDeletions]
                      /\ UNCHANGED dropper
                 ELSE Done([b EXCEPT !.old = 0])
            [] step.op = "bucket" -> Done([b EXCEPT !.exists = FALSE])
            [] step.op = "ids" -> IF b.ids THEN Done([b EXCEPT !.ids = FALSE]) ELSE Fails
            [] step.op = "finish" -> Done([b EXCEPT !.tip = FALSE, !.marked = FALSE])
    /\ UNCHANGED <<course, chainVars, poolVars>>

(* maybeCreateIndexes, after which the indexes are in use.                 *)
maybeCreateIndexes ==
    /\ dropper.phase = "starting" /\ dropper.steps = <<>>
    /\ bucket' = [idx \in Indexes |->
                    IF bucket[idx].tip THEN bucket[idx]
                    ELSE [bucket[idx] EXCEPT !.tip = TRUE, !.exists = TRUE, !.ids = idx = "tx"]]
    /\ dropper' = [dropper EXCEPT !.phase = "running"]
    /\ UNCHANGED <<course, chainVars, poolVars>>

DropEnds ==
    /\ dropper.phase = "dropping" /\ dropper.steps = <<>>
    /\ dropper' = [dropper EXCEPT !.phase = "off"]
    /\ UNCHANGED <<course, bucket, chainVars, poolVars>>

(* The process ends or is killed between two transactions.                 *)
DropKilled ==
    /\ dropper.phase \in {"dropping", "starting", "running"}
    /\ course.kills > 0
    /\ \/ course.killsLate
       \/ \A idx \in Indexes : bucket[idx].tip => bucket[idx].exists
    /\ course' = [course EXCEPT !.kills = @ - 1]
    /\ dropper' = [phase |-> "off", steps |-> <<>>]
    /\ UNCHANGED <<bucket, chainVars, poolVars>>

-----------------------------------------------------------------------------
AddrInit ==
    /\ course \in Plans
    /\ ledger = <<>> /\ idByHash = <<>> /\ hashByID = <<>> /\ txEntries = <<>>
    /\ curBlockID = 0
    /\ levels = [a \in Addresses |-> NoLevels]
    /\ txnsByAddr = <<>> /\ addrsByTx = <<>> /\ unconfirmed = {}
    /\ bucket = [idx \in Indexes |-> [tip |-> TRUE, marked |-> FALSE, exists |-> TRUE,
                                     old |-> OldEntries, ids |-> idx = "tx"]]
    /\ dropper = [phase |-> "off", steps |-> <<>>]

AddrNext ==
    \/ \E kind \in DOMAIN Involved : Connect(kind)
    \/ Disconnect
    \/ ConnectRolledBack
    \/ Restart
    \/ \E t \in PoolTxs : AddUnconfirmedTx(t) \/ RemoveUnconfirmedTx(t)
    \/ DropTxIndex \/ maybeFinishDrops \/ DropStep \/ maybeCreateIndexes \/ DropEnds \/ DropKilled

AddrSpec == AddrInit /\ [][AddrNext]_addrVars

-----------------------------------------------------------------------------
(* The entries of an address in the order of the chain.                    *)
RECURSIVE EntriesUpTo(_, _)
EntriesUpTo(a, n) ==
    IF n = 0 THEN <<>>
    ELSE LET places == indexBlock(ledger[n], a)
         IN EntriesUpTo(a, n - 1) \o [i \in DOMAIN places |-> [block |-> ledger[n], place |-> places[i]]]

Pages == (0 .. 4) \X (1 .. 3)

Slice(seq, skip, n) == SubSeq(seq, skip + 1, IF skip + n > Len(seq) THEN Len(seq) ELSE skip + n)

Located(entries) == [i \in DOMAIN entries |-> [block |-> hashByID[entries[i].id], place |-> entries[i].place]]

(* A page of the search is the slice of the address's transactions that    *)
(* was asked for, those of the chain in its order before those of the      *)
(* pool, or the reverse, after any sequence of connected and disconnected  *)
(* blocks (addrindex.go:192, :371, rpcserver.go:3960).                     *)
PagesExact ==
    course.part = "chain" =>
    \A a \in Addresses : \E all \in {EntriesUpTo(a, Len(ledger))} : \A page \in Pages :
        LET pool == <<"u", "v">>
            n == Len(all)
            forward == ForwardPage(levels[a], pool, page[1], page[2])
            back == ReversePage(levels[a], pool, page[1], page[2])
        IN /\ Located(forward.confirmed) = Slice(all, page[1], page[2])
           /\ forward.pool = Slice(pool, IF page[1] > n THEN page[1] - n ELSE 0,
                                   page[2] - Len(forward.confirmed))
           /\ back.pool = Slice(pool, page[1], page[2])
           /\ Located(back.confirmed) = Slice(Reverse(all), IF page[1] > 2 THEN page[1] - 2 ELSE 0,
                                              page[2] - Len(back.pool))

(* Every level of an address above the first is empty, half full or full   *)
(* and no level below one that is used is empty, whatever blocks came and  *)
(* went; the insertion relies on it (addrindex.go:225, :438).              *)
LevelsHalved ==
    \A a \in Addresses : \A l \in LevelNumbers :
        /\ l > 0 => Len(levels[a][l]) \in {0, maxEntriesForLevel(l) \div 2, maxEntriesForLevel(l)}
        /\ levels[a][l] # <<>> => \A m \in 0 .. l : levels[a][m] # <<>>

(* Every transaction of the chain is found in its own block, also after a  *)
(* restart, and the number given to the next block is free                 *)
(* (txindex.go:297, :391).                                                 *)
BlockIDsExact ==
    /\ DOMAIN txEntries = UNION {{<<ledger[n], i>> : i \in Places(ledger[n])} : n \in DOMAIN ledger}
    /\ \A t \in DOMAIN txEntries : /\ txEntries[t].id \in DOMAIN hashByID
                                   /\ hashByID[txEntries[t].id] = t[1]
    /\ curBlockID + 1 \notin DOMAIN hashByID

(* The two tables of the unconfirmed transactions agree with each other    *)
(* and with the pool; no address keeps an empty set (addrindex.go:875).    *)
UnconfirmedExact ==
    /\ DOMAIN addrsByTx \subseteq unconfirmed
    /\ \A t \in unconfirmed : \A a \in Addresses :
         (a \in PoolAddresses(t)) <=> (a \in DOMAIN txnsByAddr /\ t \in txnsByAddr[a])
    /\ \A a \in DOMAIN txnsByAddr : txnsByAddr[a] # {} /\ txnsByAddr[a] \subseteq unconfirmed

(* An index that is in use holds all that it held or nothing of it, and    *)
(* has its buckets, wherever the process that dropped it was stopped       *)
(* (manager.go:182).                                                       *)
DropsWhole ==
    dropper.phase = "running" =>
        \A idx \in Indexes : /\ bucket[idx].tip /\ bucket[idx].exists /\ ~bucket[idx].marked
                             /\ bucket[idx].ids = (idx = "tx")
                             /\ bucket[idx].old \in {0, OldEntries}


=============================================================================
