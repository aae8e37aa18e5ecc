----------------------------- MODULE UtxoCache -----------------------------
(***************************************************************************)
(* The UTXO state of a full node (blockchain/utxocache.go) together with   *)
(* the operations that move the best block (connectBlock, disconnectBlock  *)
(* and reorganizeChain of blockchain/chain.go) and the recovery at startup *)
(* (InitConsistentState).                                                  *)
(*                                                                         *)
(* Several goroutines move the best block: the sync manager's block        *)
(* handler and the RPC handlers of invalidateblock and reconsiderblock.    *)
(* They exclude each other with chainLock, but every block connected or    *)
(* disconnected releases it while the notification is sent.  A step is one *)
(* database transaction with the memory updates around it.  A crash may    *)
(* happen between any two steps, and goes back to the last state that the  *)
(* database cache (database/ffldb/dbcache.go) wrote to leveldb.            *)
(***************************************************************************)
EXTENDS UtxoLedger

CONSTANTS
    Procs,      \* goroutines that call into the chain
    NetSync,    \* the one that runs the sync manager's block handler
    NoProc,     \* chainLock is free
    NoBlock,    \* the zero hash
    Pruning,    \* whether a prune target is set
    KeepBlocks, \* blocks below the tip that pruning keeps (287 in the code)
    MaxCrashes  \* bound on the number of crashes

ASSUME ProcAssumption ==
    /\ NetSync \in Procs
    /\ NoProc \notin Procs
    /\ NoBlock \notin Blocks
    /\ Pruning \in BOOLEAN
    /\ KeepBlocks \in Nat
    /\ MaxCrashes \in Nat

VARIABLES
    disk,       \* what a database transaction reads
    durable,    \* what is left of it after a crash
    files,      \* the blocks whose flat file record exists
    cache,      \* utxoCache.cachedEntries
    lastFlush,  \* utxoCache.lastFlushHash
    lock,       \* the holder of chainLock
    job,        \* what each goroutine is in the middle of
    view,       \* the UtxoViewpoint of each goroutine's reorganisation
    mode,       \* "running", "recovering" or "failed"
    replayed,   \* the last block InitConsistentState has applied
    crashes     \* the number of crashes so far

memVars == <<cache, lastFlush, lock, job, view, mode, replayed>>
vars == <<disk, durable, files, memVars, crashes>>

-----------------------------------------------------------------------------
(***************************************************************************)
(* UTXO entries.  A slot of the cache or of a view is missing, an explicit *)
(* nil, or an entry with a creation height and flags.                      *)
(***************************************************************************)
Flags == {"tfSpent", "tfModified", "tfFresh"}

Slots == [kind : {"missing", "nil", "entry"}, height : Int, flags : SUBSET Flags]

Missing == [kind |-> "missing", height |-> Absent, flags |-> {}]
Nil == [kind |-> "nil", height |-> Absent, flags |-> {}]
Entry(h, f) == [kind |-> "entry", height |-> h, flags |-> f]

NoSlots == [o \in Outpoints |-> Missing]

IsSpent(s) == "tfSpent" \in s.flags
IsModified(s) == "tfModified" \in s.flags
IsFresh(s) == "tfFresh" \in s.flags

\* UtxoEntry.Spend
Spend(s) == [s EXCEPT !.flags = @ \cup {"tfSpent", "tfModified"}]

\* dbFetchUtxoEntry, with nil for an outpoint the bucket does not hold
FromDb(h) == IF h = Absent THEN Nil ELSE Entry(h, {})

\* What a lookup of o answers: nil and spent entries are no outputs.
Resolve(s, h) == CASE s.kind = "missing" -> h
                   [] s.kind = "nil" -> Absent
                   [] OTHER -> IF IsSpent(s) THEN Absent ELSE s.height

Lookup(c, u) == [o \in Outpoints |-> Resolve(c[o], u[o])]

-----------------------------------------------------------------------------
(***************************************************************************)
(* Operations on the cache                                                 *)
(***************************************************************************)

\* utxoCache.fetchEntries: a missing outpoint is loaded, misses included.
FetchEntries(c, u, S) ==
    [o \in Outpoints |->
        IF o \in S /\ c[o].kind = "missing" THEN FromDb(u[o]) ELSE c[o]]

\* Mutant of AddTxIn: every spent entry is dropped from the cache.
AddTxInForgets(s) == Missing

\* utxoCache.addTxIn: a fresh entry is dropped, another one kept as spent.
AddTxIn(s) == IF IsFresh(s) THEN Missing ELSE Spend(s)

\* utxoCache.addTxOut
AddTxOut(b) == Entry(Height[b], {"tfFresh", "tfModified"})

\* utxoCache.connectTransactions
ConnectTransactions(c, u, b) ==
    LET loaded == FetchEntries(c, u, Spends[b])
    IN  [o \in Outpoints |->
            IF o \in Creates[b] THEN AddTxOut(b)
            ELSE IF o \in Transient[b] THEN AddTxIn(AddTxOut(b))
            ELSE IF o \in Spends[b] THEN AddTxIn(loaded[o])
            ELSE c[o]]

\* Mutant of SpentTxOuts: the outputs are recorded after they were spent.
SpentTxOutsLate(c, b) == [o \in Outpoints |-> Absent]

\* The spent outputs that utxoCache.addTxIn and view.connectTransaction record.
SpentTxOuts(c, b) ==
    [o \in Outpoints |-> IF o \in Spends[b] THEN c[o].height ELSE Absent]

\* The utxo bucket after utxoCache.writeCache
WrittenUtxos(c, u) ==
    [o \in Outpoints |->
        IF c[o].kind = "nil" \/ IsSpent(c[o]) THEN Absent
        ELSE IF IsModified(c[o]) THEN c[o].height
        ELSE u[o]]

\* Mutant of WriteCache: the status is not written.
WriteCacheKeepsStatus(d, c, n) == [d EXCEPT !.utxo = WrittenUtxos(c, @)]

\* utxoCache.writeCache, for a best state at block n
WriteCache(d, c, n) ==
    [d EXCEPT !.utxo = WrittenUtxos(c, @), !.status = n]

-----------------------------------------------------------------------------
(***************************************************************************)
(* Operations on the view of a reorganisation (blockchain/utxoviewpoint.go) *)
(***************************************************************************)

\* The inputs of b that view.findInputsToFetch asks the cache for.
InputsToFetch(v, b) == {o \in Spends[b] : v[o].kind = "missing"}

\* view.fetchInputUtxos
FetchInputUtxos(v, c, u, b) ==
    [o \in Outpoints |-> IF o \in InputsToFetch(v, b)
                         THEN FetchEntries(c, u, Spends[b])[o] ELSE v[o]]

\* view.connectTransactions
ViewConnect(v, b) ==
    [o \in Outpoints |->
        IF o \in Creates[b] THEN AddTxOut(b)
        ELSE IF o \in Transient[b] THEN Spend(AddTxOut(b))
        ELSE IF o \in Spends[b] THEN Spend(v[o])
        ELSE v[o]]

\* view.disconnectTransactions, with the block's spend journal entry
ViewDisconnect(v, b, stxos) ==
    [o \in Outpoints |->
        IF o \in Creates[b] \cup Transient[b]
        THEN Spend(IF v[o].kind = "entry" THEN v[o] ELSE Entry(Height[b], {}))
        ELSE IF o \in Spends[b] THEN Entry(stxos[o], {"tfModified"})
        ELSE v[o]]

\* dbPutUtxoView
PutUtxoView(v, u) ==
    [o \in Outpoints |->
        IF v[o].kind # "entry" \/ ~IsModified(v[o]) THEN u[o]
        ELSE IF IsSpent(v[o]) THEN Absent
        ELSE v[o].height]

\* view.commit: the modified flag is toggled, not cleared.
Commit(v) ==
    [o \in Outpoints |->
        IF v[o].kind # "entry" \/ (IsModified(v[o]) /\ IsSpent(v[o])) THEN Missing
        ELSE [v[o] EXCEPT !.flags = IF "tfModified" \in @ THEN @ \ {"tfModified"}
                                    ELSE @ \cup {"tfModified"}]]

-----------------------------------------------------------------------------
(***************************************************************************)
(* The state of a goroutine between two steps:                             *)
(*   "accept"  the block in attach is stored and extends the best chain    *)
(*   "reorg"   the next block of detach, then of attach, is to be handled  *)
(*   "attach"  connectBlock has flushed the cache for the next block       *)
(*   "notify"  connectBlock is sending the notification of a block         *)
(***************************************************************************)
Jobs == [op : {"idle", "accept", "reorg", "attach", "notify"},
         detach : SUBSET Blocks, attach : SUBSET Blocks]

Job(op, d, a) == [op |-> op, detach |-> d, attach |-> a]

Idle == Job("idle", {}, {})

\* The job after a block was handled: reorganizeChain returns after the last.
Remaining(d, a) == IF d = {} /\ a = {} THEN Idle ELSE Job("reorg", d, a)

Running == mode = "running"

MayLock(p) == lock \in {NoProc, p}

Init ==
    /\ disk = [utxo |-> EmptyUtxos, status |-> Genesis, best |-> Genesis,
               blocks |-> {Genesis}, journal |-> [b \in Blocks |-> EmptyUtxos]]
    /\ durable = disk
    /\ files = {Genesis}
    /\ cache = NoSlots
    /\ lastFlush = Genesis
    /\ lock = NoProc
    /\ job = [p \in Procs |-> Idle]
    /\ view = [p \in Procs |-> NoSlots]
    /\ mode = "running"
    /\ replayed = Genesis
    /\ crashes = 0

\* maybeAcceptBlock up to connectBestChain: a block that is not stored yet is
\* written with its index entry.  One that extends the best chain is connected
\* under the same lock; another one is a side chain block until a
\* reorganisation picks it.
MaybeAcceptBlock(b) ==
    /\ Running
    /\ lock = NoProc
    /\ job[NetSync] = Idle
    /\ b \notin disk.blocks
    /\ Parent[b] \in disk.blocks
    /\ disk' = [disk EXCEPT !.blocks = @ \cup {b}]
    /\ files' = files \cup {b}
    /\ IF Parent[b] = disk.best
       THEN /\ lock' = NetSync
            /\ job' = [job EXCEPT ![NetSync] = Job("accept", {}, {b})]
       ELSE UNCHANGED <<lock, job>>
    /\ UNCHANGED <<durable, cache, lastFlush, view, mode, replayed, crashes>>

\* PruneBlocks returns the earliest height in the files that it keeps, or -1
\* when it deletes none.  Which blocks share a file is left open here: any of
\* the blocks below the height to keep may go.  Module FlatStore has the files.
EarliestKept == {Height[b] : b \in Blocks}

PruneBlocks(b) ==
    {[earliest |-> -1, kept |-> files]} \cup
    IF ~Pruning THEN {}
    ELSE LET prunable == {f \in files : \/ Height[f] < Height[b] - KeepBlocks
                                       \/ Height[b] <= KeepBlocks}
         IN  [earliest : EarliestKept, kept : {files \ D : D \in SUBSET prunable}]

\* flushNeededAfterPrune
FlushNeededAfterPrune(e) == e >= 0 /\ e > Height[lastFlush]

\* connectBestChain and connectBlock for a block that extends the best chain.
\* Its effects go to the cache; pruning may force the cache out with them.
ConnectExtending(p) ==
    /\ job[p].op = "accept"
    /\ lock = p
    /\ \E b \in job[p].attach : \E pruned \in PruneBlocks(b) :
        LET loaded == FetchEntries(cache, disk.utxo, Spends[b])
            c == ConnectTransactions(cache, disk.utxo, b)
            d == [disk EXCEPT !.best = b, !.journal[b] = SpentTxOuts(loaded, b)]
        IN  /\ \A o \in Spends[b] : loaded[o].kind = "entry"
            /\ files' = pruned.kept
            /\ IF FlushNeededAfterPrune(pruned.earliest)
               THEN /\ disk' = WriteCache(d, c, b)
                    /\ cache' = NoSlots
                    /\ lastFlush' = b
               ELSE /\ disk' = d
                    /\ cache' = c
                    /\ UNCHANGED lastFlush
    /\ job' = [job EXCEPT ![p] = Job("notify", {}, {})]
    /\ lock' = NoProc
    /\ UNCHANGED <<durable, view, mode, replayed, crashes>>

\* The end of connectBlock, after the notification: the lock is taken again and
\* the cache flushed if it is too large for the best state of that moment.
FlushIfNeeded(p) ==
    /\ job[p].op = "notify"
    /\ lock = NoProc
    /\ \/ UNCHANGED <<disk, cache, lastFlush>>
       \/ /\ disk.best # lastFlush
          /\ disk' = WriteCache(disk, cache, disk.best)
          /\ cache' = NoSlots
          /\ lastFlush' = disk.best
    /\ job' = [job EXCEPT ![p] = Remaining(@.detach, @.attach)]
    /\ lock' = IF job[p].attach = {} THEN NoProc ELSE p
    /\ UNCHANGED <<durable, files, view, mode, replayed, crashes>>

\* The outputs that verifyReorganizationValidity loads into the cache while it
\* tries the reorganisation on a view of its own.
VerifyLoads(d, a) ==
    LET touched == UNION {Spends[b] \cup Creates[b] \cup Transient[b] : b \in d}
        created == UNION {Creates[b] \cup Transient[b] : b \in a}
    IN  UNION {Spends[b] : b \in d}
          \cup (UNION {Spends[b] : b \in a} \ (touched \cup created))

\* getReorganizeNodes and verifyReorganizationValidity: reorganizeChain is
\* called with lists that lead from the best block to target.  Chain
\* selection, invalidateblock and reconsiderblock choose the target.
StartReorganize(p, target) ==
    /\ Running
    /\ lock = NoProc
    /\ job[p] = Idle
    /\ target \in disk.blocks \ {disk.best}
    /\ LET d == Anc[disk.best] \ Anc[target]
           a == Anc[target] \ Anc[disk.best]
       IN  /\ d \cup a \subseteq files
           /\ cache' = FetchEntries(cache, disk.utxo, VerifyLoads(d, a))
           /\ job' = [job EXCEPT ![p] = Job("reorg", d, a)]
    /\ view' = [view EXCEPT ![p] = NoSlots]
    /\ lock' = p
    /\ UNCHANGED <<disk, durable, files, lastFlush, mode, replayed, crashes>>

\* The check at the start of connectBlock and of disconnectBlock
TipIs(n) == n = disk.best

\* One detached block of reorganizeChain.  disconnectBlock flushes the cache
\* and writes the view in the transaction that moves the best state back.
DisconnectBlock(p) ==
    /\ job[p].op = "reorg"
    /\ job[p].detach # {}
    /\ MayLock(p)
    /\ LET n == Highest(job[p].detach)
           prev == Parent[n]
           c == FetchEntries(cache, disk.utxo, InputsToFetch(view[p], n))
           v == ViewDisconnect(FetchInputUtxos(view[p], cache, disk.utxo, n),
                               n, disk.journal[n])
       IN  /\ TipIs(n)
           /\ prev \in files
           /\ disk' = [WriteCache(disk, c, prev) EXCEPT !.utxo = PutUtxoView(v, @),
                                                      !.best = prev]
           /\ lastFlush' = prev
           /\ view' = [view EXCEPT ![p] = Commit(v)]
           /\ job' = [job EXCEPT ![p] = Remaining(@.detach \ {n}, @.attach)]
    /\ cache' = NoSlots
    /\ lock' = NoProc
    /\ UNCHANGED <<durable, files, mode, replayed, crashes>>

\* The first transaction of connectBlock for an attached block: the cache is
\* flushed and the consistency status set to the block being attached.
FlushBeforeAttach(p) ==
    /\ job[p].op = "reorg"
    /\ job[p].detach = {}
    /\ job[p].attach # {}
    /\ MayLock(p)
    /\ LET n == Lowest(job[p].attach)
           c == FetchEntries(cache, disk.utxo, InputsToFetch(view[p], n))
           v == FetchInputUtxos(view[p], cache, disk.utxo, n)
       IN  /\ TipIs(Parent[n])
           /\ \A o \in Spends[n] : v[o].kind = "entry"
           /\ disk' = WriteCache(disk, c, n)
           /\ lastFlush' = n
           /\ view' = [view EXCEPT ![p] = v]
    /\ cache' = NoSlots
    /\ job' = [job EXCEPT ![p].op = "attach"]
    /\ lock' = p
    /\ UNCHANGED <<durable, files, mode, replayed, crashes>>

\* The second transaction of connectBlock for an attached block: the view is
\* written with the new best state.
ConnectAttached(p) ==
    /\ job[p].op = "attach"
    /\ lock = p
    /\ LET n == Lowest(job[p].attach)
           v == ViewConnect(view[p], n)
       IN  /\ disk' = [disk EXCEPT !.utxo = PutUtxoView(v, @), !.best = n,
                                   !.journal[n] = SpentTxOuts(view[p], n)]
           /\ view' = [view EXCEPT ![p] = Commit(v)]
           /\ \E pruned \in PruneBlocks(n) : files' = pruned.kept
           /\ job' = [job EXCEPT ![p] = Job("notify", {}, @.attach \ {n})]
    /\ lock' = NoProc
    /\ UNCHANGED <<durable, cache, lastFlush, mode, replayed, crashes>>

\* A reorganisation returns early when its next block does not fit the best
\* block any more, because another goroutine moved it during a notification,
\* or when the block below the one to detach was pruned.
AbortReorganize(p) ==
    /\ job[p].op = "reorg"
    /\ MayLock(p)
    /\ IF job[p].detach # {}
       THEN LET n == Highest(job[p].detach)
            IN  /\ ~TipIs(n) \/ Parent[n] \notin files
                /\ cache' = FetchEntries(cache, disk.utxo, InputsToFetch(view[p], n))
       ELSE LET n == Lowest(job[p].attach)
                v == FetchInputUtxos(view[p], cache, disk.utxo, n)
            IN  /\ \/ ~TipIs(Parent[n])
                   \/ \E o \in Spends[n] : v[o].kind # "entry"
                /\ cache' = FetchEntries(cache, disk.utxo, InputsToFetch(view[p], n))
    /\ job' = [job EXCEPT ![p] = Idle]
    /\ view' = [view EXCEPT ![p] = NoSlots]
    /\ lock' = NoProc
    /\ UNCHANGED <<disk, durable, files, lastFlush, mode, replayed, crashes>>

\* FetchUtxoEntry and FetchUtxoView, by any goroutine under the read lock
FetchUtxo(o) ==
    /\ Running
    /\ lock = NoProc
    /\ cache[o].kind = "missing"
    /\ cache' = FetchEntries(cache, disk.utxo, {o})
    /\ UNCHANGED <<disk, durable, files, lastFlush, lock, job, view, mode, replayed,
                   crashes>>

\* FlushUtxoCache, by the sync manager: periodically and at shutdown
FlushUtxoCache ==
    /\ Running
    /\ lock = NoProc
    /\ job[NetSync] = Idle
    /\ disk' = WriteCache(disk, cache, disk.best)
    /\ cache' = NoSlots
    /\ lastFlush' = disk.best
    /\ UNCHANGED <<durable, files, lock, job, view, mode, replayed, crashes>>

\* dbCache.flush: the committed transactions reach leveldb.  Once no crash can
\* follow within the bound, what is durable does not matter.
FlushDbCache ==
    /\ crashes < MaxCrashes
    /\ durable # disk
    /\ durable' = disk
    /\ UNCHANGED <<disk, files, memVars, crashes>>

-----------------------------------------------------------------------------
(***************************************************************************)
(* Crash and recovery                                                      *)
(***************************************************************************)

\* Mutants of Restart: the best block is put back to the last flush instead of
\* being replayed to; the replay starts from the cache's own last flush, which
\* is not set yet.
RestartRewinds ==
    /\ replayed' = FindFork(durable.best, durable.status)
    /\ disk' = [durable EXCEPT !.best = replayed']
    /\ files' = files \cap durable.blocks
    /\ cache' = NoSlots
    /\ lastFlush' = NoBlock
    /\ lock' = NoProc
    /\ job' = [p \in Procs |-> Idle]
    /\ view' = [p \in Procs |-> NoSlots]
    /\ mode' = "recovering"
    /\ UNCHANGED durable

\* The process dies and is started again.  reconcileDB drops the blocks that
\* leveldb does not know of; initChainState loads the best state;
\* InitConsistentState looks for the fork point of its status.
Restart ==
    /\ disk' = durable
    /\ files' = files \cap durable.blocks
    /\ cache' = NoSlots
    /\ lastFlush' = NoBlock
    /\ lock' = NoProc
    /\ job' = [p \in Procs |-> Idle]
    /\ view' = [p \in Procs |-> NoSlots]
    /\ mode' = "recovering"
    /\ replayed' = FindFork(durable.best, durable.status)
    /\ UNCHANGED durable

Crash ==
    /\ mode # "failed"
    /\ crashes < MaxCrashes
    /\ crashes' = crashes + 1
    /\ Restart

\* The next block that InitConsistentState replays.
NextReplay == Lowest(Anc[disk.best] \ Anc[replayed])

\* One block of the replay, with the flush that may follow it.
ReplayBlock ==
    /\ mode = "recovering"
    /\ replayed # disk.best
    /\ NextReplay \in files
    /\ LET n == NextReplay
           c == ConnectTransactions(cache, disk.utxo, n)
       IN  /\ \A o \in Spends[n] : FetchEntries(cache, disk.utxo, Spends[n])[o].kind = "entry"
           /\ \/ /\ cache' = c
                 /\ UNCHANGED <<disk, lastFlush>>
              \/ /\ disk' = WriteCache(disk, c, n)
                 /\ cache' = NoSlots
                 /\ lastFlush' = n
           /\ replayed' = n
    /\ UNCHANGED <<durable, files, lock, job, view, mode, crashes>>

\* A block to replay cannot be read: startup fails and is tried again.
ReplayFails ==
    /\ mode = "recovering"
    /\ replayed # disk.best
    /\ NextReplay \notin files
    /\ mode' = "failed"
    /\ UNCHANGED <<disk, durable, files, cache, lastFlush, lock, job, view, replayed,
                   crashes>>

Retry ==
    /\ mode = "failed"
    /\ Restart
    /\ UNCHANGED crashes

\* Mutant of FinishRecovery: the replay starts over when it is through.
FinishOver ==
    /\ mode = "recovering"
    /\ replayed = disk.best
    /\ cache' = NoSlots
    /\ replayed' = FindFork(disk.best, disk.status)
    /\ UNCHANGED <<disk, durable, files, lastFlush, lock, job, view, mode, crashes>>

\* The end of InitConsistentState
FinishRecovery ==
    /\ mode = "recovering"
    /\ replayed = disk.best
    /\ mode' = "running"
    /\ lastFlush' = disk.best
    /\ UNCHANGED <<disk, durable, files, cache, lock, job, view, replayed, crashes>>

Next ==
    \/ \E b \in NonGenesis : MaybeAcceptBlock(b)
    \/ \E p \in Procs : ConnectExtending(p)
    \/ \E p \in Procs : FlushIfNeeded(p)
    \/ \E p \in Procs, target \in Blocks : StartReorganize(p, target)
    \/ \E p \in Procs : DisconnectBlock(p)
    \/ \E p \in Procs : FlushBeforeAttach(p)
    \/ \E p \in Procs : ConnectAttached(p)
    \/ \E p \in Procs : AbortReorganize(p)
    \/ \E o \in Outpoints : FetchUtxo(o)
    \/ FlushUtxoCache
    \/ FlushDbCache
    \/ Crash
    \/ ReplayBlock
    \/ ReplayFails
    \/ Retry
    \/ FinishRecovery

Spec == Init /\ [][Next]_vars

\* A step that a goroutine takes once it is inside a call.
Progress(p) ==
    \/ ConnectExtending(p)
    \/ FlushIfNeeded(p)
    \/ DisconnectBlock(p)
    \/ FlushBeforeAttach(p)
    \/ ConnectAttached(p)
    \/ AbortReorganize(p)

\* Startup runs to its end, and a goroutine inside a call gets the lock again:
\* a Go mutex hands itself to a waiter that has waited too long, which is
\* strong fairness.  Nothing forces a new call or a flush.
Fairness ==
    /\ WF_vars(ReplayBlock \/ FinishRecovery)
    /\ \A p \in Procs : SF_vars(Progress(p))

FairSpec == Spec /\ Fairness

-----------------------------------------------------------------------------
(***************************************************************************)
(* Properties                                                              *)
(***************************************************************************)
DiskStates == [utxo : [Outpoints -> Int], status : Blocks, best : Blocks,
               blocks : SUBSET Blocks, journal : [Blocks -> [Outpoints -> Int]]]

\* Type correctness of the state.
TypeOK ==
    /\ disk \in DiskStates
    /\ durable \in DiskStates
    /\ files \in SUBSET Blocks
    /\ cache \in [Outpoints -> Slots]
    /\ lastFlush \in Blocks \cup {NoBlock}
    /\ lock \in Procs \cup {NoProc}
    /\ job \in [Procs -> Jobs]
    /\ view \in [Procs -> [Outpoints -> Slots]]
    /\ mode \in {"running", "recovering", "failed"}
    /\ replayed \in Blocks
    /\ crashes \in Nat

\* While the node runs, the cache over the database is the UTXO set of the best
\* block: whatever was cached, flushed, connected, detached or recovered before,
\* and whichever goroutine did it.
Consistent == Running => Lookup(cache, disk.utxo) = UtxoAt[disk.best]

\* What recovery starts from: the utxo bucket is the set of the block where the
\* status forks from the best chain, in the database and in what a crash leaves.
ConsistentAtStatus(d) == d.utxo = UtxoAt[FindFork(d.best, d.status)]

Recoverable == ConsistentAtStatus(disk) /\ ConsistentAtStatus(durable)

\* An entry marked fresh has never been written to the database, which is what
\* makes it right for addTxIn to forget it when it is spent.
FreshNotInDatabase ==
    \A o \in Outpoints : IsFresh(cache[o]) => disk.utxo[o] = Absent

-----------------------------------------------------------------------------
(***************************************************************************)
(* The inductive invariant behind the invariants above                     *)
(***************************************************************************)

\* A slot without an entry has no flags; an entry that is neither spent nor
\* modified is what the database holds; a fresh one is not in the database.
SlotsOK(c, u) ==
    \A o \in Outpoints :
        /\ c[o].kind # "entry" => c[o].flags = {}
        /\ (c[o].kind = "entry" /\ ~IsSpent(c[o]) /\ ~IsModified(c[o]))
              => c[o].height = u[o]
        /\ IsFresh(c[o]) => u[o] = Absent

\* A view that has followed a reorganisation to b holds unspent outputs of b.
ViewOK(v, b) ==
    \A o \in Outpoints :
        IF v[o].kind = "entry"
        THEN ~IsSpent(v[o]) /\ v[o].height = UtxoAt[b][o]
        ELSE v[o].kind = "missing" /\ v[o].flags = {}

\* The stored blocks are closed under ancestors, the utxo bucket is the set at
\* the fork point of the status, and the spend journal of the best chain is
\* what its blocks spent.
StoreOK(d) ==
    /\ {d.best, d.status} \subseteq d.blocks
    /\ \A b \in d.blocks : Anc[b] \subseteq d.blocks
    /\ ConsistentAtStatus(d)
    /\ \A b \in Anc[d.best] \ {Genesis} :
          \A o \in Spends[b] : d.journal[b][o] = UtxoAt[Parent[b]][o]

\* While blocks are replayed, lookups are those of the last block replayed.
ReplayOK ==
    mode = "recovering" =>
        /\ replayed \in Anc[disk.best]
        /\ FindFork(disk.best, disk.status) \in Anc[replayed]
        /\ Lookup(cache, disk.utxo) = UtxoAt[replayed]

StoppedOK == ~Running => lock = NoProc /\ \A p \in Procs : job[p] = Idle

\* A reorganisation that has come to base leads over fork to target.
OnBranches(j, v, base, fork, target) ==
    /\ fork \in Anc[base] \cap Anc[target]
    /\ j.detach = Anc[base] \ Anc[fork]
    /\ j.attach = Anc[target] \ Anc[fork]
    /\ ViewOK(v, base)

AcceptOK(p) ==
    job[p].op = "accept" =>
        \E b \in disk.blocks \ {Genesis} :
            /\ job[p] = Job("accept", {}, {b})
            /\ Parent[b] = disk.best
            /\ b \notin Anc[disk.status]

ReorgOK(p) ==
    (job[p].op # "accept" /\ job[p].detach \cup job[p].attach # {}) =>
        \E base, fork \in Blocks, target \in disk.blocks :
            OnBranches(job[p], view[p], base, fork, target)

AttachOK(p) ==
    job[p].op = "attach" =>
        /\ cache = NoSlots
        /\ job[p].attach # {}
        /\ LET n == Lowest(job[p].attach)
           IN  /\ Parent[n] = disk.best
               /\ disk.status = n
               /\ \A o \in Spends[n] : view[p][o].kind = "entry"

JobOK(p) ==
    /\ job[p].op \in {"accept", "attach"} => lock = p
    /\ job[p].op = "idle" => job[p] = Idle
    /\ job[p].op = "reorg" => job[p].detach \cup job[p].attach # {}
    /\ job[p].op \in {"attach", "notify"} => job[p].detach = {}
    /\ AcceptOK(p)
    /\ ReorgOK(p)
    /\ AttachOK(p)

\* Every step of every goroutine keeps the cache, the database, the views and
\* the reorganisations in progress in step with each other.
InductiveInv ==
    /\ TypeOK
    /\ StoreOK(disk)
    /\ StoreOK(durable)
    /\ SlotsOK(cache, disk.utxo)
    /\ Consistent
    /\ ReplayOK
    /\ StoppedOK
    /\ \A p \in Procs : JobOK(p)

-----------------------------------------------------------------------------
(***************************************************************************)
(* Refinement and liveness                                                 *)
(***************************************************************************)

\* The UTXO state is the one UtxoSet promises: lookups change only by the
\* effects of one block at a time, and a crash is not visible in them.
Abs == INSTANCE UtxoSet WITH
         best <- disk.best,
         saved <- durable.best,
         serving <- Running,
         utxo <- IF Running THEN Lookup(cache, disk.utxo) ELSE EmptyUtxos

ImplementsUtxoSet == Abs!SetSpec

=============================================================================
