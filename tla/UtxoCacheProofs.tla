-------------------------- MODULE UtxoCacheProofs ---------------------------
(***************************************************************************)
(* The end of a reorganisation, crashes and recovery keep the inductive    *)
(* invariant of UtxoCache.  With the other steps: its invariants hold, and *)
(* it implements UtxoSet, for every block tree, every ledger, any number   *)
(* of goroutines and crashes, with and without pruning.                    *)
(***************************************************************************)
EXTENDS UtxoCacheSteps

\* Attaching a block.
LEMMA ConnectAttachedInv ==
    ASSUME InductiveInv, NEW p \in Procs, ConnectAttached(p)
    PROVE  InductiveInv'
<1> DEFINE n == Lowest(job[p].attach)
           v == ViewConnect(view[p], n)
           stxos == SpentTxOuts(view[p], n)
<1>a. /\ disk' = [disk EXCEPT !.utxo = PutUtxoView(v, @), !.best = n, !.journal[n] = stxos]
      /\ view' = [view EXCEPT ![p] = Commit(v)]
      /\ \E pruned \in PruneBlocks(n) : files' = pruned.kept
      /\ job' = [job EXCEPT ![p] = Job("notify", {}, job[p].attach \ {n})]
      /\ lock' = NoProc /\ lock = p /\ job[p].op = "attach"
      /\ UNCHANGED <<durable, cache, lastFlush, mode, replayed, crashes>>
  BY DEF ConnectAttached
<1>r. Running
  BY <1>a, BusyRuns
<1>o. /\ cache = NoSlots /\ Parent[n] = disk.best /\ disk.status = n
      /\ \A o \in Spends[n] : view[p][o].kind = "entry"
      /\ job[p].detach = {} /\ job[p].attach # {}
  BY <1>a DEF InductiveInv, JobOK, AttachOK
<1>b. PICK base \in Blocks, fork \in Blocks, target \in disk.blocks :
         OnBranches(job[p], view[p], base, fork, target)
  BY <1>a, <1>o DEF InductiveInv, JobOK, ReorgOK
<1>n. /\ base = disk.best /\ n \in NonGenesis /\ n \in Blocks /\ n \in disk.blocks
      /\ n \in Anc[target] /\ ViewOK(view[p], Parent[n])
      /\ job[p].attach \ {n} = Anc[target] \ Anc[n]
  <2>1. target \in Blocks /\ Anc[target] \subseteq disk.blocks
    BY StateTypes DEF InductiveInv, StoreOK
  <2>j. job[p] \in Jobs /\ view[p] \in [Outpoints -> Slots]
    BY StateTypes
  <2>2. /\ base = fork /\ Parent[n] = base /\ n \in NonGenesis /\ n \in Anc[target]
        /\ job[p].attach \ {n} = Anc[target] \ Anc[n]
    BY <1>b, <1>o, <2>1, <2>j, NextAttached
  <2> QED
    BY <1>b, <1>o, <2>1, <2>2, TreeTypes, Zenon DEF OnBranches
<1>u. disk.utxo = UtxoAt[Parent[n]]
  <2>1. FindFork(disk.best, disk.status) = Parent[n]
    BY <1>o, <1>n, ForkOfChild
  <2> QED
    BY <2>1 DEF InductiveInv, StoreOK, ConsistentAtStatus
<1>v. /\ PutUtxoView(v, disk.utxo) = UtxoAt[n]
      /\ Commit(v) \in [Outpoints -> Slots]
      /\ ViewOK(Commit(v), n)
      /\ stxos \in Utxos
      /\ \A o \in Spends[n] : stxos[o] = UtxoAt[Parent[n]][o]
  <2>1. view[p] \in [Outpoints -> Slots]
    BY StateTypes
  <2> HIDE DEF n
  <2>2. /\ PutUtxoView(v, UtxoAt[Parent[n]]) = UtxoAt[n]
        /\ Commit(v) \in [Outpoints -> Slots]
        /\ ViewOK(Commit(v), n)
        /\ stxos \in Utxos
        /\ \A o \in Spends[n] : stxos[o] = UtxoAt[Parent[n]][o]
    BY <1>n, <1>o, <2>1, ConnectView
  <2> QED
    BY <1>u, <2>2
<1> HIDE DEF n, v, stxos
<1>d. /\ disk' \in DiskStates /\ disk'.utxo = UtxoAt[n] /\ disk'.status = n
      /\ disk'.best = n /\ disk'.blocks = disk.blocks
      /\ disk'.journal = [disk.journal EXCEPT ![n] = stxos]
  <2>1. UtxoAt[n] \in Utxos
    BY <1>n, LedgerTypes
  <2>2. disk' = [disk EXCEPT !.utxo = UtxoAt[n], !.best = n, !.journal[n] = stxos]
    BY <1>a, <1>v
  <2> QED
    BY <2>1, <2>2, <1>n, <1>o, <1>v, StateTypes, Zenon DEF DiskStates, Utxos
<1>s. StoreOK(disk)'
  <2>1. FindFork(n, n) = n
    BY <1>n, ForkOfAncestor, TreeTypes
  <2>2. Anc[n] = Anc[disk.best] \cup {n} /\ Anc[n] \subseteq Blocks
    BY <1>n, <1>o, ChildFacts, TreeTypes
  <2>3. /\ \A b \in disk.blocks : Anc[b] \subseteq disk.blocks
        /\ \A b \in Anc[disk.best] \ {Genesis} :
              \A o \in Spends[b] : disk.journal[b][o] = UtxoAt[Parent[b]][o]
    BY DEF InductiveInv, StoreOK
  <2>4. \A b \in Anc[n] \ {Genesis} :
           \A o \in Spends[b] : disk'.journal[b][o] = UtxoAt[Parent[b]][o]
    <3>1. disk.journal \in [Blocks -> Utxos] /\ disk.best \in Blocks
      BY StateTypes
    <3>2. \A b \in Blocks : disk'.journal[b] = IF b = n THEN stxos ELSE disk.journal[b]
      BY <1>d, <1>n, <3>1
    <3>3. ASSUME NEW b \in Anc[n] \ {Genesis}, NEW o \in Spends[b]
          PROVE  disk'.journal[b][o] = UtxoAt[Parent[b]][o]
      <4>1. b \in Blocks
        BY <2>2
      <4>2. CASE b = n
        BY <4>1, <4>2, <3>2, <1>v
      <4>3. CASE b # n
        <5>1. b \in Anc[disk.best] \ {Genesis}
          BY <4>3, <2>2
        <5> QED
          BY <4>1, <4>3, <5>1, <3>2, <2>3
      <4> QED
        BY <4>2, <4>3
    <3> QED
      BY <3>3
  <2> HIDE DEF n, stxos
  <2>5. {disk'.best, disk'.status} \subseteq disk'.blocks
    BY <1>d, <1>n
  <2>6. disk'.utxo = UtxoAt[FindFork(disk'.best, disk'.status)]
    BY <1>d, <2>1
  <2> QED
    BY <1>d, <2>3, <2>4, <2>5, <2>6 DEF StoreOK, ConsistentAtStatus
<1>c. SlotsOK(cache, disk.utxo)' /\ Consistent'
  <2>1. UtxoAt[n] \in Utxos
    BY <1>n, LedgerTypes
  <2> QED
    BY <2>1, <1>a, <1>o, <1>d, EmptyCache DEF Consistent
<1>j. job'[p] = Job("notify", {}, Anc[target] \ Anc[n]) /\ view'[p] = Commit(v)
  BY <1>a, <1>n, StateTypes, Zenon
<1>1. TypeOK'
  <2>1. job[p].attach \ {n} \subseteq Blocks
    BY StateTypes DEF Jobs
  <2>2. job' \in [Procs -> Jobs] /\ view' \in [Procs -> [Outpoints -> Slots]]
    BY <2>1, <1>a, <1>v, StateTypes DEF Job, Jobs
  <2>3. files' \subseteq Blocks
    BY <1>a, <1>n, StateTypes, PruneKeepsBlocks
  <2> QED
    BY <1>a, <1>d, <2>2, <2>3 DEF InductiveInv, TypeOK
<1>2. StoreOK(durable)' /\ ReplayOK' /\ StoppedOK'
  BY <1>r, <1>a DEF InductiveInv, StoreOK, ConsistentAtStatus, ReplayOK, StoppedOK, Running
<1>3. ASSUME NEW q \in Procs
      PROVE  JobOK(q)'
  <2>1. CASE q # p
    <3>1. job[q].op \notin {"accept", "attach"}
      BY <2>1, <1>a, LockExcludes DEF MayLock
    <3>2. job'[q] = job[q] /\ view'[q] = view[q]
      BY <2>1, <1>a, StateTypes
    <3>3. JobOK(q) /\ disk.blocks \subseteq disk'.blocks
      BY <1>d DEF InductiveInv
    <3> QED
      BY <3>1, <3>2, <3>3, OthersKeep
  <2>2. CASE q = p
    <3>f. job'[p].op = "notify" /\ job'[p].detach = {} /\ job'[p].attach = Anc[target] \ Anc[n]
      BY <1>j DEF Job
    <3>s. n \in Anc[n] \cap Anc[target]
      BY <1>n, TreeTypes
    <3>1. OnBranches(job'[p], view'[p], n, n, target)
      BY <3>f, <3>s, <1>j, <1>v, Zenon DEF OnBranches
    <3>2. ReorgOK(p)'
      BY <3>1, <1>d, <1>n, Zenon DEF ReorgOK
    <3> QED
      BY <2>2, <3>2, <3>f DEF JobOK, AcceptOK, AttachOK
  <2> QED
    BY <2>1, <2>2
<1> QED
  BY <1>1, <1>2, <1>3, <1>c, <1>s DEF InductiveInv

\* A reorganisation that gives up leaves loaded entries behind.
LEMMA AbortReorganizeInv ==
    ASSUME InductiveInv, NEW p \in Procs, AbortReorganize(p)
    PROVE  InductiveInv'
<1>a. /\ \E S : cache' = FetchEntries(cache, disk.utxo, S)
      /\ job' = [job EXCEPT ![p] = Idle]
      /\ view' = [view EXCEPT ![p] = NoSlots]
      /\ lock' = NoProc /\ MayLock(p) /\ job[p].op = "reorg"
      /\ UNCHANGED <<disk, durable, files, lastFlush, mode, replayed, crashes>>
  BY DEF AbortReorganize
<1>c. /\ cache' \in [Outpoints -> Slots]
      /\ SlotsOK(cache, disk.utxo)'
      /\ Lookup(cache, disk.utxo)' = Lookup(cache, disk.utxo)
  <2>1. PICK S : cache' = FetchEntries(cache, disk.utxo, S)
    BY <1>a
  <2>2. /\ cache \in [Outpoints -> Slots] /\ disk.utxo \in Utxos
        /\ SlotsOK(cache, disk.utxo) /\ disk' = disk
    BY <1>a, StateTypes DEF InductiveInv
  <2>3. /\ FetchEntries(cache, disk.utxo, S) \in [Outpoints -> Slots]
        /\ SlotsOK(FetchEntries(cache, disk.utxo, S), disk.utxo)
        /\ Lookup(FetchEntries(cache, disk.utxo, S), disk.utxo) = Lookup(cache, disk.utxo)
    BY <2>2, FetchKeeps
  <2> QED
    BY <2>1, <2>2, <2>3
<1>1. TypeOK'
  <2>1. Idle \in Jobs /\ NoSlots \in [Outpoints -> Slots]
    BY EmptyCache, StateTypes DEF Idle, Job, Jobs
  <2>2. job' \in [Procs -> Jobs] /\ view' \in [Procs -> [Outpoints -> Slots]]
    BY <2>1, <1>a, StateTypes, Zenon
  <2> QED
    BY <1>a, <1>c, <2>2 DEF InductiveInv, TypeOK
<1>2. /\ StoreOK(disk)' /\ StoreOK(durable)' /\ Consistent' /\ ReplayOK' /\ StoppedOK'
  <2>1. Running
    BY <1>a, BusyRuns
  <2> QED
    BY <1>a, <1>c, <2>1, Zenon DEF InductiveInv, StoreOK, ConsistentAtStatus, Consistent, ReplayOK,
                            StoppedOK, Running
<1>3. ASSUME NEW q \in Procs
      PROVE  JobOK(q)'
  <2>1. CASE q # p
    <3>1. job[q].op \notin {"accept", "attach"} /\ JobOK(q)
      BY <2>1, <1>a, LockExcludes DEF InductiveInv
    <3>2. job'[q] = job[q] /\ view'[q] = view[q]
      BY <2>1, <1>a, StateTypes
    <3> QED
      BY <3>1, <3>2, <1>a, OthersKeep
  <2>2. CASE q = p
    BY <2>2, <1>a, StateTypes, IdleOK
  <2> QED
    BY <2>1, <2>2
<1> QED
  BY <1>1, <1>2, <1>3, <1>c DEF InductiveInv

\* The database cache is written to leveldb.
LEMMA FlushDbCacheInv ==
    ASSUME InductiveInv, FlushDbCache
    PROVE  InductiveInv'
<1>1. durable' = disk /\ UNCHANGED <<disk, files, memVars, crashes>>
  BY DEF FlushDbCache
<1>2. TypeOK' /\ StoreOK(disk)' /\ StoreOK(durable)' /\ SlotsOK(cache, disk.utxo)'
  BY <1>1 DEF InductiveInv, TypeOK, StoreOK, ConsistentAtStatus, memVars
<1>3. Consistent' /\ ReplayOK' /\ StoppedOK'
  BY <1>1 DEF InductiveInv, Consistent, ReplayOK, StoppedOK, Running, memVars
<1>4. ASSUME NEW p \in Procs
      PROVE  JobOK(p)'
  BY <1>1, Zenon DEF InductiveInv, JobOK, AcceptOK, ReorgOK, AttachOK, OnBranches, memVars
<1> QED
  BY <1>2, <1>3, <1>4 DEF InductiveInv

\* A start after a crash, or after a start that failed.
LEMMA RestartInv ==
    ASSUME InductiveInv, Restart, crashes' \in Nat
    PROVE  InductiveInv'
<1> DEFINE fork == FindFork(durable.best, durable.status)
<1>a. /\ disk' = durable /\ durable' = durable /\ files' = files \cap durable.blocks
      /\ cache' = NoSlots /\ lastFlush' = NoBlock /\ lock' = NoProc
      /\ job' = [p \in Procs |-> Idle] /\ view' = [p \in Procs |-> NoSlots]
      /\ mode' = "recovering" /\ replayed' = fork
  BY DEF Restart
<1>t. /\ durable \in DiskStates /\ durable.best \in Blocks /\ durable.status \in Blocks
      /\ durable.utxo \in Utxos /\ StoreOK(durable)
  BY DEF InductiveInv, TypeOK, DiskStates, Utxos
<1>f. fork \in Anc[durable.best] /\ fork \in Blocks /\ fork \in Anc[fork]
  BY <1>t, ForkOnBoth, TreeTypes
<1>e. /\ NoSlots \in [Outpoints -> Slots] /\ SlotsOK(NoSlots, durable.utxo)
      /\ Lookup(NoSlots, durable.utxo) = durable.utxo
  BY <1>t, EmptyCache
<1>1. TypeOK'
  <2>1. Idle \in Jobs
    BY DEF Idle, Job, Jobs
  <2> QED
    BY <1>a, <1>t, <1>f, <1>e, <2>1 DEF InductiveInv, TypeOK
<1>2. StoreOK(disk)' /\ StoreOK(durable)' /\ SlotsOK(cache, disk.utxo)'
  BY <1>a, <1>t, <1>e DEF StoreOK, ConsistentAtStatus
<1>3. ReplayOK'
  BY <1>a, <1>t, <1>f, <1>e DEF ReplayOK, StoreOK, ConsistentAtStatus
<1>4. Consistent' /\ StoppedOK'
  BY <1>a DEF Consistent, StoppedOK, Running
<1>5. ASSUME NEW p \in Procs
      PROVE  JobOK(p)'
  BY <1>a, IdleOK
<1> QED
  BY <1>1, <1>2, <1>3, <1>4, <1>5 DEF InductiveInv

\* One replayed block.
LEMMA ReplayBlockInv ==
    ASSUME InductiveInv, ReplayBlock
    PROVE  InductiveInv'
<1> DEFINE n == NextReplay
           c == ConnectTransactions(cache, disk.utxo, n)
           fork == FindFork(disk.best, disk.status)
<1>a. /\ mode = "recovering" /\ replayed # disk.best
      /\ \/ cache' = c /\ UNCHANGED <<disk, lastFlush>>
         \/ disk' = WriteCache(disk, c, n) /\ cache' = NoSlots /\ lastFlush' = n
      /\ replayed' = n
      /\ UNCHANGED <<durable, files, lock, job, view, mode, crashes>>
  BY DEF ReplayBlock
<1>r. /\ replayed \in Anc[disk.best] /\ replayed \in Blocks
      /\ fork \in Anc[replayed] /\ disk.utxo = UtxoAt[fork]
      /\ Lookup(cache, disk.utxo) = UtxoAt[replayed]
      /\ SlotsOK(cache, disk.utxo)
      /\ ~Running /\ \A p \in Procs : job[p] = Idle
  BY <1>a DEF InductiveInv, TypeOK, ReplayOK, StoreOK, ConsistentAtStatus, Running, StoppedOK
<1>n. /\ n \in NonGenesis /\ n \in Blocks /\ Parent[n] = replayed /\ n \in Anc[disk.best]
      /\ UtxoAt[n] \in Utxos
  <2>1. n \in (Anc[disk.best] \ Anc[replayed]) \cap NonGenesis /\ Parent[n] = replayed
    BY <1>a, <1>r, LowestOfBranch, StateTypes, Zenon DEF NextReplay
  <2> QED
    BY <2>1, TreeTypes, LedgerTypes
<1>c. /\ c \in [Outpoints -> Slots] /\ SlotsOK(c, disk.utxo)
      /\ Lookup(c, disk.utxo) = UtxoAt[n]
  BY <1>r, <1>n, StateTypes, ConnectLookup
<1>m. /\ disk' \in DiskStates /\ StoreOK(disk)' /\ SlotsOK(cache, disk.utxo)'
      /\ Lookup(cache, disk.utxo)' = UtxoAt[n]
      /\ cache' \in [Outpoints -> Slots] /\ lastFlush' \in Blocks \cup {NoBlock}
      /\ disk'.best = disk.best
      /\ FindFork(disk'.best, disk'.status) \in Anc[n]
  <2>1. CASE cache' = c /\ UNCHANGED <<disk, lastFlush>>
    <3>1. fork \in Anc[n]
      BY <1>r, <1>n, ChildFacts
    <3> QED
      BY <2>1, <3>1, <1>c DEF InductiveInv, TypeOK, StoreOK, ConsistentAtStatus
  <2>2. CASE disk' = WriteCache(disk, c, n) /\ cache' = NoSlots /\ lastFlush' = n
    <3>1. WrittenUtxos(c, disk.utxo) = UtxoAt[n]
      BY <1>c, WrittenIsLookup, StateTypes
    <3>2. /\ disk' \in DiskStates /\ disk'.utxo = UtxoAt[n] /\ disk'.status = n
          /\ disk'.best = disk.best /\ disk'.blocks = disk.blocks
          /\ disk'.journal = disk.journal
      BY <2>2, <3>1, <1>n, StateTypes, Zenon DEF WriteCache, DiskStates, Utxos
    <3>3. FindFork(disk.best, n) = n /\ n \in Anc[n]
      BY <1>n, ForkOfAncestor, StateTypes, TreeTypes
    <3>4. n \in disk.blocks
      BY <1>n DEF InductiveInv, StoreOK
    <3>5. StoreOK(disk)'
      BY <3>2, <3>3, <3>4 DEF InductiveInv, StoreOK, ConsistentAtStatus
    <3> QED
      BY <2>2, <3>2, <3>3, <3>5, <1>n, EmptyCache
  <2> QED
    BY <1>a, <2>1, <2>2
<1>1. TypeOK'
  BY <1>a, <1>m, <1>n DEF InductiveInv, TypeOK
<1>2. ReplayOK'
  BY <1>a, <1>m, <1>n DEF ReplayOK
<1>3. StoreOK(durable)' /\ Consistent' /\ StoppedOK'
  BY <1>a, <1>r DEF InductiveInv, StoreOK, ConsistentAtStatus, Consistent, StoppedOK, Running
<1>4. ASSUME NEW p \in Procs
      PROVE  JobOK(p)'
  BY <1>a, <1>r, IdleOK
<1> QED
  BY <1>1, <1>2, <1>3, <1>4, <1>m DEF InductiveInv

\* Startup fails, or ends.
LEMMA EndOfReplayInv ==
    ASSUME InductiveInv, ReplayFails \/ FinishRecovery
    PROVE  InductiveInv'
<1>a. /\ mode = "recovering" /\ mode' \in {"failed", "running"}
      /\ mode' = "running" => replayed = disk.best
      /\ lastFlush' \in {lastFlush, disk.best}
      /\ UNCHANGED <<disk, durable, files, cache, lock, job, view, replayed, crashes>>
  BY DEF ReplayFails, FinishRecovery
<1>r. /\ lock = NoProc /\ \A p \in Procs : job[p] = Idle
      /\ Lookup(cache, disk.utxo) = UtxoAt[replayed]
  BY <1>a DEF InductiveInv, ReplayOK, StoppedOK, Running
<1>1. TypeOK'
  BY <1>a, StateTypes DEF InductiveInv, TypeOK
<1>2. StoreOK(disk)' /\ StoreOK(durable)' /\ SlotsOK(cache, disk.utxo)' /\ StoppedOK'
  BY <1>a, <1>r DEF InductiveInv, StoreOK, ConsistentAtStatus, StoppedOK
<1>3. Consistent' /\ ReplayOK'
  BY <1>a, <1>r DEF Consistent, ReplayOK, Running
<1>4. ASSUME NEW p \in Procs
      PROVE  JobOK(p)'
  BY <1>a, <1>r, IdleOK
<1> QED
  BY <1>1, <1>2, <1>3, <1>4 DEF InductiveInv

\* Every step keeps the inductive invariant.
LEMMA NextInv == InductiveInv /\ [Next]_vars => InductiveInv'
<1> SUFFICES ASSUME InductiveInv, [Next]_vars
             PROVE  InductiveInv'
  OBVIOUS
<1>1. CASE UNCHANGED vars
  <2>1. TypeOK' /\ StoreOK(disk)' /\ StoreOK(durable)' /\ SlotsOK(cache, disk.utxo)'
    BY <1>1 DEF InductiveInv, TypeOK, StoreOK, ConsistentAtStatus, vars, memVars
  <2>2. Consistent' /\ ReplayOK' /\ StoppedOK'
    BY <1>1 DEF InductiveInv, Consistent, ReplayOK, StoppedOK, Running, vars, memVars
  <2>3. ASSUME NEW p \in Procs
        PROVE  JobOK(p)'
    BY <1>1, Zenon
       DEF InductiveInv, JobOK, AcceptOK, ReorgOK, AttachOK, OnBranches, vars, memVars
  <2> QED
    BY <2>1, <2>2, <2>3 DEF InductiveInv
<1>2. CASE Crash
  <2>1. Restart /\ crashes' \in Nat
    BY <1>2 DEF Crash, InductiveInv, TypeOK
  <2> QED
    BY <2>1, RestartInv
<1>3. CASE Retry
  <2>1. Restart /\ crashes' \in Nat
    BY <1>3 DEF Retry, InductiveInv, TypeOK
  <2> QED
    BY <2>1, RestartInv
<1>4. CASE \E b \in NonGenesis : MaybeAcceptBlock(b)
  BY <1>4, MaybeAcceptBlockInv
<1>5. CASE \E p \in Procs : ConnectExtending(p)
  BY <1>5, ConnectExtendingInv
<1>6. CASE \E p \in Procs : FlushIfNeeded(p)
  BY <1>6, FlushIfNeededInv
<1>7. CASE \E p \in Procs, target \in Blocks : StartReorganize(p, target)
  BY <1>7, StartReorganizeInv
<1>8. CASE \E p \in Procs : DisconnectBlock(p)
  BY <1>8, DisconnectBlockInv
<1>9. CASE \E p \in Procs : FlushBeforeAttach(p)
  BY <1>9, FlushBeforeAttachInv
<1>10. CASE \E p \in Procs : ConnectAttached(p)
  BY <1>10, ConnectAttachedInv
<1>11. CASE \E p \in Procs : AbortReorganize(p)
  BY <1>11, AbortReorganizeInv
<1>12. CASE \E o \in Outpoints : FetchUtxo(o)
  BY <1>12, FetchUtxoInv
<1>13. CASE FlushUtxoCache
  BY <1>13, FlushUtxoCacheInv
<1>14. CASE FlushDbCache
  BY <1>14, FlushDbCacheInv
<1>15. CASE ReplayBlock
  BY <1>15, ReplayBlockInv
<1>16. CASE ReplayFails \/ FinishRecovery
  BY <1>16, EndOfReplayInv
<1> QED
  BY <1>1, <1>2, <1>3, <1>4, <1>5, <1>6, <1>7, <1>8, <1>9, <1>10, <1>11, <1>12, <1>13,
     <1>14, <1>15, <1>16 DEF Next

\* The inductive invariant holds in every reachable state of UtxoCache, for
\* every tree of blocks, number of goroutines and number of crashes.
THEOREM InductiveInvHolds == Spec => []InductiveInv
BY InitInv, NextInv, PTL DEF Spec

\* Type correctness of the UTXO cache, its database and its reorganisations.
THEOREM TypeCorrect == Spec => []TypeOK
<1>1. InductiveInv => TypeOK
  BY DEF InductiveInv
<1> QED
  BY <1>1, InductiveInvHolds, PTL

\* FetchUtxoEntry and checkConnectBlock always see the unspent outputs of the
\* best block: the cache over the database is never out of step with it.
THEOREM CacheIsConsistent == Spec => []Consistent
<1>1. InductiveInv => Consistent
  BY DEF InductiveInv
<1> QED
  BY <1>1, InductiveInvHolds, PTL

\* InitConsistentState can start from what any crash leaves: the utxo bucket is
\* the set at the point where its status forks from the best chain.
THEOREM CrashIsRecoverable == Spec => []Recoverable
<1>1. InductiveInv => Recoverable
  BY DEF InductiveInv, Recoverable, StoreOK
<1> QED
  BY <1>1, InductiveInvHolds, PTL

\* addTxIn may forget a fresh entry: it is never in the database.
THEOREM FreshIsForgettable == Spec => []FreshNotInDatabase
<1>1. InductiveInv => FreshNotInDatabase
  BY DEF InductiveInv, FreshNotInDatabase, SlotsOK
<1> QED
  BY <1>1, InductiveInvHolds, PTL

-----------------------------------------------------------------------------
(* UtxoCache implements UtxoSet.                                           *)

\* What UtxoCache shows as the abstract set of outputs.
AbsUtxo == IF Running THEN Lookup(cache, disk.utxo) ELSE EmptyUtxos

\* Under the invariant, the answers are determined by the best block.
LEMMA AbsUtxoIs ==
    ASSUME InductiveInv
    PROVE  AbsUtxo = IF Running THEN UtxoAt[disk.best] ELSE EmptyUtxos
BY DEF InductiveInv, Consistent, AbsUtxo

\* A step that moves neither best block and does not start or stop the node is
\* a stutter.
LEMMA AbsStutters ==
    ASSUME InductiveInv, InductiveInv', disk'.best = disk.best,
           durable'.best = durable.best, mode' = mode
    PROVE  UNCHANGED <<disk.best, durable.best, Running, AbsUtxo>>
<1>1. AbsUtxo' = IF Running' THEN UtxoAt[disk'.best] ELSE EmptyUtxos
  BY DEF InductiveInv, Consistent, AbsUtxo, EmptyUtxos
<1>2. Running' = Running
  BY DEF Running
<1> QED
  BY <1>1, <1>2, AbsUtxoIs

\* Moving the best block to a child extends the abstract best block.
LEMMA AbsExtends ==
    ASSUME InductiveInv, InductiveInv', NEW b \in NonGenesis, Parent[b] = disk.best,
           disk'.best = b, durable' = durable, Running, mode' = mode
    PROVE  Abs!SetNext
<1>1. AbsUtxo = UtxoAt[Parent[b]] /\ AbsUtxo' = UtxoAt[b] /\ Running'
  BY DEF InductiveInv, Consistent, AbsUtxo, Running
<1>2. UtxoAt[b] = ApplyBlock(UtxoAt[Parent[b]], b)
  BY LedgerAssumption DEF LedgerShape
<1>3. Abs!ExtendBest(b)
  BY <1>1, <1>2 DEF Abs!ExtendBest, Abs!ApplyBlock, ApplyBlock, AbsUtxo, Abs!Absent, Absent,
                    EmptyUtxos, Running
<1> QED
  BY <1>3 DEF Abs!SetNext, Abs!NonGenesis, NonGenesis

\* Every step of UtxoCache is a step of UtxoSet or a stutter.
LEMMA AbsStep ==
    InductiveInv /\ InductiveInv' /\ [Next]_vars => [Abs!SetNext]_(Abs!setVars)
<1> SUFFICES ASSUME InductiveInv, InductiveInv', [Next]_vars
             PROVE  Abs!SetNext \/ UNCHANGED <<disk.best, durable.best, Running, AbsUtxo>>
  BY DEF Abs!setVars, AbsUtxo
<1>1. CASE UNCHANGED vars
  BY <1>1, AbsStutters DEF vars, memVars
<1>2. CASE Crash \/ Retry
  <2>1. /\ disk'.best = durable.best /\ durable' = durable /\ ~Running'
        /\ AbsUtxo' = EmptyUtxos
    BY <1>2 DEF Crash, Retry, Restart, Running, AbsUtxo, EmptyUtxos
  <2>2. Abs!LoseMemory
    BY <2>1 DEF Abs!LoseMemory, AbsUtxo, EmptyUtxos, Abs!EmptyUtxos, Absent, Abs!Absent
  <2> QED
    BY <2>2 DEF Abs!SetNext
<1>3. CASE FinishRecovery
  <2>1. /\ ~Running /\ Running' /\ disk' = disk /\ durable' = durable
    BY <1>3 DEF FinishRecovery, Running
  <2>2. AbsUtxo' = UtxoAt[disk.best]
    BY <2>1 DEF InductiveInv, Consistent, AbsUtxo
  <2>3. Abs!Resume
    BY <2>1, <2>2 DEF Abs!Resume, AbsUtxo
  <2> QED
    BY <2>3 DEF Abs!SetNext
<1>4. CASE FlushDbCache
  <2>1. durable' = disk /\ UNCHANGED <<disk, memVars>>
    BY <1>4 DEF FlushDbCache
  <2>2. UNCHANGED <<disk.best, Running, AbsUtxo>>
    BY <2>1 DEF memVars, Running, AbsUtxo, Lookup, EmptyUtxos
  <2>3. Abs!SaveBest
    BY <2>1, <2>2 DEF Abs!SaveBest, AbsUtxo
  <2> QED
    BY <2>3 DEF Abs!SetNext
<1>5. CASE \E p \in Procs : ConnectExtending(p)
  <2>1. PICK p \in Procs : ConnectExtending(p)
    BY <1>5
  <2>2. job[p].op = "accept" /\ durable' = durable /\ mode' = mode
    BY <2>1 DEF ConnectExtending
  <2>3. PICK b \in NonGenesis : job[p] = Job("accept", {}, {b}) /\ Parent[b] = disk.best
    BY <2>2, StateTypes, Zenon DEF InductiveInv, JobOK, AcceptOK, NonGenesis
  <2>4. disk'.best = b
    <3>1. b \in job[p].attach /\ \A x \in job[p].attach : x = b
      BY <2>3 DEF Job
    <3>2. PICK x \in job[p].attach : \E w, c, s :
             \/ disk' = WriteCache([disk EXCEPT !.best = x, !.journal[x] = s], c, w)
             \/ disk' = [disk EXCEPT !.best = x, !.journal[x] = s]
      BY <2>1, Zenon DEF ConnectExtending
    <3>3. disk \in DiskStates
      BY StateTypes
    <3>4. disk'.best = x
      BY <3>2, <3>3, Zenon DEF WriteCache, DiskStates
    <3> QED
      BY <3>1, <3>4
  <2>5. Running
    BY <2>2, BusyRuns
  <2> QED
    BY <2>2, <2>3, <2>4, <2>5, AbsExtends, Zenon
<1>6. CASE \E p \in Procs : ConnectAttached(p)
  <2>1. PICK p \in Procs : ConnectAttached(p)
    BY <1>6
  <2> DEFINE n == Lowest(job[p].attach)
  <2>2. /\ job[p].op = "attach" /\ durable' = durable /\ mode' = mode
        /\ disk'.best = n
    BY <2>1, StateTypes DEF ConnectAttached, DiskStates
  <2>3. job[p].detach = {} /\ job[p].attach # {} /\ Parent[n] = disk.best
    BY <2>2 DEF InductiveInv, JobOK, AttachOK
  <2>4. PICK base \in Blocks, fork \in Blocks, target \in disk.blocks :
           OnBranches(job[p], view[p], base, fork, target)
    BY <2>2, <2>3 DEF InductiveInv, JobOK, ReorgOK
  <2>5. target \in Blocks /\ job[p] \in Jobs /\ view[p] \in [Outpoints -> Slots]
    BY StateTypes
  <2>6. n \in NonGenesis
    BY <2>3, <2>4, <2>5, NextAttached
  <2>7. Running
    BY <2>2, BusyRuns
  <2> QED
    BY <2>2, <2>3, <2>6, <2>7, AbsExtends, Zenon
<1>7. CASE \E p \in Procs : DisconnectBlock(p)
  <2>1. PICK p \in Procs : DisconnectBlock(p)
    BY <1>7
  <2>2. /\ job[p].op = "reorg" /\ job[p].detach # {} /\ durable' = durable /\ mode' = mode
        /\ Highest(job[p].detach) = disk.best /\ disk'.best = Parent[disk.best]
    BY <2>1, StateTypes DEF DisconnectBlock, TipIs, WriteCache, DiskStates
  <2>3. PICK base \in Blocks, fork \in Blocks, target \in disk.blocks :
           OnBranches(job[p], view[p], base, fork, target)
    BY <2>2 DEF InductiveInv, JobOK, ReorgOK
  <2>4. disk.best # Genesis
    <3>1. /\ fork \in Anc[base] /\ job[p].detach = Anc[base] \ Anc[fork]
          /\ fork # base
      BY <2>2, <2>3 DEF OnBranches
    <3>2. Highest(job[p].detach) = base /\ base \in NonGenesis
      BY <3>1, HighestOfBranch
    <3> QED
      BY <2>2, <3>2 DEF NonGenesis
  <2>5. Running /\ Running'
    BY <2>2, BusyRuns DEF Running
  <2>6. AbsUtxo' = UtxoAt[Parent[disk.best]]
    BY <2>2, <2>5 DEF InductiveInv, Consistent, AbsUtxo
  <2>7. Abs!RetractBest
    BY <2>2, <2>4, <2>5, <2>6 DEF Abs!RetractBest, AbsUtxo
  <2> QED
    BY <2>7 DEF Abs!SetNext
<1>8. CASE \/ \E b \in NonGenesis : MaybeAcceptBlock(b)
           \/ \E p \in Procs : FlushIfNeeded(p)
           \/ \E p \in Procs, target \in Blocks : StartReorganize(p, target)
           \/ \E p \in Procs : FlushBeforeAttach(p)
           \/ \E p \in Procs : AbortReorganize(p)
           \/ \E o \in Outpoints : FetchUtxo(o)
           \/ FlushUtxoCache
           \/ ReplayBlock
  <2>1. disk'.best = disk.best /\ durable' = durable /\ mode' = mode
    BY <1>8, StateTypes, Zenon DEF MaybeAcceptBlock, FlushIfNeeded, StartReorganize, FlushBeforeAttach,
       AbortReorganize, FetchUtxo, FlushUtxoCache, ReplayBlock, WriteCache, DiskStates
  <2> QED
    BY <2>1, AbsStutters
<1>9. CASE ReplayFails
  <2>1. /\ UNCHANGED <<disk, durable>> /\ ~Running /\ ~Running'
    BY <1>9 DEF ReplayFails, Running
  <2>2. AbsUtxo = EmptyUtxos /\ AbsUtxo' = EmptyUtxos
    BY <2>1 DEF AbsUtxo, EmptyUtxos
  <2>3. Running' = Running
    BY <2>1 DEF Running
  <2> QED
    BY <2>1, <2>2, <2>3
<1> QED
  BY <1>1, <1>2, <1>3, <1>4, <1>5, <1>6, <1>7, <1>8, <1>9 DEF Next

\* The UTXO state implements UtxoSet: whatever is cached, flushed, detached,
\* lost or replayed, its users see the unspent outputs of a best block that
\* moves one block at a time and goes back only in a crash.
THEOREM Refinement == Spec => ImplementsUtxoSet
<1>1. Init => Abs!SetInit
  <2> SUFFICES ASSUME Init
               PROVE  Abs!SetInit
    OBVIOUS
  <2>1. EmptyUtxos \in Utxos
    BY DEF EmptyUtxos, Utxos, Absent
  <2>2. Lookup(cache, disk.utxo) = EmptyUtxos
    BY <2>1, EmptyCache DEF Init
  <2> QED
    BY <2>2 DEF Init, Abs!SetInit, Running, EmptyUtxos, Abs!EmptyUtxos, Absent, Abs!Absent
<1> QED
  BY <1>1, InductiveInvHolds, AbsStep, PTL DEF Spec, ImplementsUtxoSet, Abs!SetSpec

=============================================================================
