----------------------------- MODULE Websocket -----------------------------
(***************************************************************************)
(* Notifications to websocket clients (rpcwebsocket.go): the requests a    *)
(* client makes, the notification manager's queue and tables, and the      *)
(* rescan of the chain that ends by handing over to the manager.           *)
(*                                                                         *)
(* The actors: the sync manager (blocks, pool), one goroutine per request  *)
(* being served, and notificationHandler.  A client's own queue to the     *)
(* network is module WsClient; here a notification is `sent` when          *)
(* QueueNotification takes it.                                             *)
(***************************************************************************)
EXTENDS Integers, Sequences, FiniteSets, SequencesExt

CONSTANTS
    Clients,        \* websocket clients
    Txs,            \* tx -> [ins |-> sequence of outpoints, outs |-> sequence of address sets]
    Blocks,         \* block -> [prev |-> block, txs |-> sequence of txs]
    Genesis,
    Encode,         \* address -> the address EncodeAddress writes (a key writes its hash)
    MaxInvPerMsg,   \* blocks per range of a rescan
    Scripts         \* bound: [chain, pruned, max, calls, events]: how the node starts,
                    \* RPCMaxWebsockets, what the actors will do

VARIABLES
    chain, pool,    \* the best chain, the memory pool
    returned,       \* transactions a disconnected block put back into the pool
    pruned,         \* blocks of the chain whose data is deleted
    paused,         \* the client whose rescan holds the sync manager, or None
    queue,          \* the manager's queue (queueHandler)
    mgr,            \* notificationHandler's tables
    cli,            \* client -> its state
    sent,           \* client -> notifications queued to it
    serving,        \* client -> requests being served
    rescan,         \* client -> the rescan being served
    calls, events   \* what is left of the script

wsVars == <<chain, pool, returned, pruned, paused, queue, mgr, cli, sent, serving, rescan, calls, events>>

None == "none"
Forever == 99  \* math.MaxInt32, the end of a rescan without EndBlock

Tip == chain[Len(chain)]
InChain(b) == \E i \in DOMAIN chain : chain[i] = b
HeightOf(b) == (CHOOSE i \in DOMAIN chain : chain[i] = b) - 1
Outpoints(t) == {<<t, i>> : i \in DOMAIN Txs[t].outs}
Spends(t, op) == \E i \in DOMAIN Txs[t].ins : Txs[t].ins[i] = op

(* A strict fold over a sequence.                                          *)
Fold(op(_, _), base, seq) ==
    LET acc[i \in 0 .. Len(seq)] ==
            IF i = 0 THEN base
            ELSE CHOOSE r \in {op(v, seq[i]) : v \in {acc[i - 1]}} : TRUE
    IN acc[Len(seq)]

-----------------------------------------------------------------------------
(* The tables: outpoint or address -> the clients that watch it.  A        *)
(* handler works on s = [ops, addrs, cli, sent].                           *)

Watch(table, key, c) ==
    IF key \in DOMAIN table THEN [table EXCEPT ![key] = @ \cup {c}] ELSE table @@ (key :> {c})

Unwatch(table, key, c) ==
    IF key \notin DOMAIN table THEN table
    ELSE IF table[key] \ {c} # {} THEN [table EXCEPT ![key] = @ \ {c}]
    ELSE [k \in DOMAIN table \ {key} |-> table[k]]

Watchers(table, key) == IF key \in DOMAIN table THEN table[key] ELSE {}

Ntfn(kind, tx, block, txs) == [kind |-> kind, tx |-> tx, block |-> block, txs |-> txs]

QueueNotification(s, c, n) ==
    IF s.cli[c].open THEN [s EXCEPT !.sent[c] = Append(@, n)] ELSE s

removeSpentRequest(s, c, op) ==
    [s EXCEPT !.cli[c].spentRequests = @ \ {op}, !.ops = Unwatch(@, op, c)]

removeAddrRequest(s, c, a) ==
    [s EXCEPT !.cli[c].addrRequests = @ \ {a}, !.addrs = Unwatch(@, a, c)]

addAddrRequests(s, c, as) ==
    LET Add(acc, a) == [acc EXCEPT !.cli[c].addrRequests = @ \cup {a}, !.addrs = Watch(@, a, c)]
    IN Fold(Add, s, as)

(* order is the order in which Go visits a map of clients.                 *)
Among(order, cs) == SelectSeq(order, LAMBDA c : c \in cs)

notifyForTxIns(s, t, b, order) ==
    LET Visit(acc, op, c) ==
            LET r == IF b # None THEN removeSpentRequest(acc.s, c, op) ELSE acc.s
            IN IF c \in acc.notified THEN [acc EXCEPT !.s = r]
               ELSE [s |-> QueueNotification(r, c, Ntfn("redeem", t, b, <<>>)),
                     notified |-> acc.notified \cup {c}]
        In(acc, op) ==
            LET Client(a, c) == Visit(a, op, c)
            IN Fold(Client, acc, Among(order, Watchers(acc.s.ops, op)))
    IN IF DOMAIN s.ops = {} THEN s
       ELSE Fold(In, [s |-> s, notified |-> {}], Txs[t].ins).s

(* TxMemPool.CheckSpend of each outpoint, each spending transaction once.  *)
PoolSpends(ops) == {t \in pool : \E i \in DOMAIN ops : Spends(t, ops[i])}

addSpentRequests(s, c, ops, order) ==
    LET Add(acc, op) == [acc EXCEPT !.cli[c].spentRequests = @ \cup {op}, !.ops = Watch(@, op, c)]
        Found(acc, t) == notifyForTxIns(acc, t, None, order)
    IN Fold(Found, Fold(Add, s, ops), SetToSeq(PoolSpends(ops)))

notifyForTxOuts(s, t, b, order) ==
    LET Visit(acc, op, c) ==
            LET r == addSpentRequests(acc.s, c, <<op>>, order)
            IN IF c \in acc.notified THEN [acc EXCEPT !.s = r]
               ELSE [s |-> QueueNotification(r, c, Ntfn("recv", t, b, <<>>)),
                     notified |-> acc.notified \cup {c}]
        Out(acc, i) ==
            LET Addr(a, addr) ==
                    LET Client(x, c) == Visit(x, <<t, i>>, c)
                    IN Fold(Client, a, Among(order, Watchers(a.s.addrs, Encode[addr])))
            IN Fold(Addr, acc, SetToSeq(Txs[t].outs[i]))
    IN IF DOMAIN s.addrs = {} THEN s
       ELSE Fold(Out, [s |-> s, notified |-> {}], [i \in DOMAIN Txs[t].outs |-> i]).s

notifyForTx(s, t, b, order) == notifyForTxOuts(notifyForTxIns(s, t, b, order), t, b, order)

-----------------------------------------------------------------------------
(* A client's filter: nothing loaded, or addresses and unspent outpoints.  *)

NoFilter == [loaded |-> FALSE, addrs |-> {}, unspent |-> {}]

newWSClientFilter(as, ops) == [loaded |-> TRUE, addrs |-> as, unspent |-> ops]

(* A public key is found by itself and by its hash.                        *)
existsAddress(f, a) == a \in f.addrs \/ Encode[a] \in f.addrs

Matched(f, t) == {<<t, i>> : i \in {j \in DOMAIN Txs[t].outs : \E a \in Txs[t].outs[j] : existsAddress(f, a)}}

(* The filter after a transaction, and whether the transaction concerns it. *)
Concerns(f, t) ==
    /\ f.loaded
    /\ Matched(f, t) # {} \/ \E op \in f.unspent : Spends(t, op)

Filtered(f, t) == [f EXCEPT !.unspent = @ \cup Matched(f, t)]

subscribedClients(s, t, cs) ==
    [s |-> [s EXCEPT !.cli = [c \in Clients |->
                IF c \in cs /\ s.cli[c].filter.loaded
                THEN [s.cli[c] EXCEPT !.filter = Filtered(@, t)] ELSE s.cli[c]]],
     subscribed |-> {c \in cs : Concerns(s.cli[c].filter, t)}]

EachIs(s, cs, order, n(_)) ==
    LET Tell(acc, c) == QueueNotification(acc, c, n(c)) IN Fold(Tell, s, Among(order, cs))

notifyFilteredBlockConnected(s, cs, b, order) ==
    LET Tx(acc, t) ==
            LET r == subscribedClients(acc.s, t, cs)
            IN [s |-> r.s, txs |-> [c \in Clients |->
                    IF c \in r.subscribed THEN Append(acc.txs[c], t) ELSE acc.txs[c]]]
        all == Fold(Tx, [s |-> s, txs |-> [c \in Clients |-> <<>>]], Blocks[b].txs)
    IN EachIs(all.s, cs, order, LAMBDA c : Ntfn("filtered+", None, b, all.txs[c]))

notifyRelevantTxAccepted(s, cs, t, order) ==
    LET r == subscribedClients(s, t, cs)
    IN EachIs(r.s, r.subscribed, order, LAMBDA c : Ntfn("relevant", t, None, <<>>))

-----------------------------------------------------------------------------
(* notificationHandler: one message of the queue.                          *)

State == [ops |-> mgr.ops, addrs |-> mgr.addrs, cli |-> cli, sent |-> sent]

OnBlockConnected(s, b, order) ==
    LET Tx(acc, t) == notifyForTx(acc, t, b, order)
        watched == IF DOMAIN s.ops # {} \/ DOMAIN s.addrs # {} THEN Fold(Tx, s, Blocks[b].txs) ELSE s
        told == EachIs(watched, mgr.blocks, order, LAMBDA c : Ntfn("block+", None, b, <<>>))
    IN notifyFilteredBlockConnected(told, mgr.blocks, b, order)

OnBlockDisconnected(s, b, order) ==
    EachIs(EachIs(s, mgr.blocks, order, LAMBDA c : Ntfn("block-", None, b, <<>>)),
           mgr.blocks, order, LAMBDA c : Ntfn("filtered-", None, b, <<>>))

notifyForNewTx(s, t, order) ==
    EachIs(s, mgr.txs, order,
           LAMBDA c : Ntfn(IF s.cli[c].verboseTxUpdates THEN "txverbose" ELSE "tx", t, None, <<>>))

OnTxAccepted(s, t, order) ==
    notifyRelevantTxAccepted(notifyForTx(notifyForNewTx(s, t, order), t, None, order),
                             mgr.clients, t, order)

UnregisterClient(s, c) ==
    LET Spent(acc, op) == removeSpentRequest(acc, c, op)
        Addr(acc, a) == removeAddrRequest(acc, c, a)
    IN Fold(Addr, Fold(Spent, s, SetToSeq(s.cli[c].spentRequests)),
            SetToSeq(s.cli[c].addrRequests))

Handled(s, n, order) ==
    CASE n.kind = "connected" -> OnBlockConnected(s, n.block, order)
      [] n.kind = "disconnected" -> OnBlockDisconnected(s, n.block, order)
      [] n.kind = "accepted" -> OnTxAccepted(s, n.tx, order)
      [] n.kind = "unregister" -> UnregisterClient(s, n.client)
      [] n.kind = "spent" -> addSpentRequests(s, n.client, n.ops, order)
      [] n.kind = "nospent" -> removeSpentRequest(s, n.client, n.ops[1])
      [] n.kind = "addr" -> addAddrRequests(s, n.client, n.addrs)
      [] n.kind = "noaddr" -> removeAddrRequest(s, n.client, n.addrs[1])
      [] OTHER -> s

Registered(set, n, on, off) ==
    IF n.kind = on THEN set \cup {n.client} ELSE IF n.kind \in off THEN set \ {n.client} ELSE set

notificationHandler ==
    /\ queue # <<>>
    /\ queue' = Tail(queue)
    /\ \E order \in {o \in [1 .. Cardinality(Clients) -> Clients] : Cardinality({o[i] : i \in DOMAIN o}) = Len(o)} :
         \E n \in {Head(queue)} : \E r \in {Handled(State, n, order)} :
            /\ cli' = r.cli /\ sent' = r.sent
            /\ mgr' = [max |-> mgr.max, ops |-> r.ops, addrs |-> r.addrs,
                       clients |-> Registered(mgr.clients, n, "register", {"unregister"}),
                       blocks |-> Registered(mgr.blocks, n, "blocks", {"noblocks", "unregister"}),
                       txs |-> Registered(mgr.txs, n, "txs", {"notxs", "unregister"})]
    /\ UNCHANGED <<chain, pool, returned, pruned, paused, serving, rescan, calls, events>>

-----------------------------------------------------------------------------
(* WebsocketHandler: a connection is counted, registered and served.       *)

CountClients(c) ==
    /\ cli[c].phase = "dialled"
    /\ cli' = [cli EXCEPT ![c].phase = IF Cardinality(mgr.clients) + 1 > mgr.max
                                       THEN "refused" ELSE "counted"]
    /\ UNCHANGED <<chain, pool, returned, pruned, paused, queue, mgr, sent, serving, rescan, calls, events>>

Msg(kind, c) == [kind |-> kind, client |-> c, tx |-> None, block |-> None, ops |-> <<>>, addrs |-> <<>>]

AddClient(c) ==
    /\ cli[c].phase = "counted"
    /\ cli' = [cli EXCEPT ![c].phase = "served", ![c].open = TRUE]
    /\ queue' = Append(queue, Msg("register", c))
    /\ UNCHANGED <<chain, pool, returned, pruned, paused, mgr, sent, serving, rescan, calls, events>>

(* The goroutines of a closed connection end, the requests being served    *)
(* do not.                                                                 *)
RemoveClient(c) ==
    /\ cli[c].phase = "served" /\ ~cli[c].open
    /\ cli' = [cli EXCEPT ![c].phase = "gone"]
    /\ queue' = Append(queue, Msg("unregister", c))
    /\ UNCHANGED <<chain, pool, returned, pruned, paused, mgr, sent, serving, rescan, calls, events>>

-----------------------------------------------------------------------------
(* Requests: read by inHandler in order, served in any order.              *)

ReadRequest(c) ==
    /\ cli[c].open /\ calls[c] # <<>>
    /\ serving' = [serving EXCEPT ![c] = @ \cup {Head(calls[c])}]
    /\ calls' = [calls EXCEPT ![c] = Tail(@)]
    /\ UNCHANGED <<chain, pool, returned, pruned, paused, queue, mgr, cli, sent, rescan, events>>

(* What the handlers of the notify and stopnotify commands queue.          *)
Registrations(c, r) ==
    CASE r.method = "notifyspent" -> <<[Msg("spent", c) EXCEPT !.ops = r.ops]>>
      [] r.method = "stopnotifyspent" -> [i \in DOMAIN r.ops |-> [Msg("nospent", c) EXCEPT !.ops = <<r.ops[i]>>]]
      [] r.method = "notifyreceived" -> <<[Msg("addr", c) EXCEPT !.addrs = r.addrs]>>
      [] r.method = "stopnotifyreceived" -> [i \in DOMAIN r.addrs |-> [Msg("noaddr", c) EXCEPT !.addrs = <<r.addrs[i]>>]]
      [] r.method = "notifyblocks" -> <<Msg("blocks", c)>>
      [] r.method = "stopnotifyblocks" -> <<Msg("noblocks", c)>>
      [] r.method = "notifynewtransactions" -> <<Msg("txs", c)>>
      [] r.method = "stopnotifynewtransactions" -> <<Msg("notxs", c)>>
      [] OTHER -> <<>>

Serve(c, r) ==
    /\ r \in serving[c] /\ r.method \notin {"rescan", "loadtxfilter", "rescanblocks"}
    /\ serving' = [serving EXCEPT ![c] = @ \ {r}]
    /\ queue' = queue \o Registrations(c, r)
    /\ cli' = IF r.method = "notifynewtransactions"
              THEN [cli EXCEPT ![c].verboseTxUpdates = r.verbose] ELSE cli
    /\ UNCHANGED <<chain, pool, returned, pruned, paused, mgr, sent, rescan, calls, events>>

handleLoadTxFilter(c, r) ==
    /\ r \in serving[c] /\ r.method = "loadtxfilter"
    /\ serving' = [serving EXCEPT ![c] = @ \ {r}]
    /\ cli' = [cli EXCEPT ![c].filter =
                 IF r.verbose \/ ~@.loaded THEN newWSClientFilter(ToSet(r.addrs), ToSet(r.ops))
                 ELSE [@ EXCEPT !.addrs = @ \cup ToSet(r.addrs), !.unspent = @ \cup ToSet(r.ops)]]
    /\ UNCHANGED <<chain, pool, returned, pruned, paused, queue, mgr, sent, rescan, calls, events>>

Readable(b) == InChain(b) /\ b \notin pruned

(* One block after the other, each the child of the one before: what it    *)
(* found before an error is lost.                                          *)
handleRescanBlocks(c, r) ==
    LET linked == \A i \in DOMAIN r.list : i > 1 => Blocks[r.list[i]].prev = r.list[i - 1]
        Tx(acc, t) == [f |-> Filtered(acc.f, t),
                       txs |-> IF Concerns(acc.f, t) THEN Append(acc.txs, t) ELSE acc.txs]
        Block(acc, b) == Fold(Tx, acc, Blocks[b].txs)
        found == Fold(Block, [f |-> cli[c].filter, txs |-> <<>>], r.list)
    IN /\ r \in serving[c] /\ r.method = "rescanblocks"
       /\ serving' = [serving EXCEPT ![c] = @ \ {r}]
       /\ IF cli[c].filter.loaded /\ linked /\ \A i \in DOMAIN r.list : Readable(r.list[i])
          THEN /\ cli' = [cli EXCEPT ![c].filter = found.f]
               /\ sent' = [sent EXCEPT ![c] = IF cli[c].open THEN Append(@, Ntfn("rescanned", None, None, found.txs)) ELSE @]
          ELSE UNCHANGED <<cli, sent>>
       /\ UNCHANGED <<chain, pool, returned, pruned, paused, queue, mgr, rescan, calls, events>>

-----------------------------------------------------------------------------
(* handleRescan and scanBlockChunks.                                       *)

Idle == [at |-> "none", min |-> 0, max |-> 0, hashes |-> <<>>, i |-> 0,
         last |-> None, best |-> None, addrs |-> {}, unspent |-> {}, from |-> None]

Step(c, r) == rescan' = [rescan EXCEPT ![c] = r]

(* "ended": returned with the finished notification; "quiet": returned     *)
(* without one; "failed": returned an error.                               *)
Ending(c, last) == IF last = None THEN "quiet" ELSE "ended"

EndAt(c) ==
    /\ Step(c, [rescan[c] EXCEPT !.at = Ending(c, rescan[c].last)])
    /\ sent' = IF rescan[c].last = None THEN sent
               ELSE QueueNotification(State, c, Ntfn("finished", None, rescan[c].last, <<>>)).sent

handleRescan(c, r) ==
    /\ r \in serving[c] /\ r.method = "rescan" /\ rescan[c].at = "none"
    /\ serving' = [serving EXCEPT ![c] = @ \ {r}]
    /\ LET begun == [Idle EXCEPT !.addrs = ToSet(r.addrs), !.unspent = ToSet(r.ops), !.from = r.list[1]]
           max == IF Len(r.list) = 1 THEN Forever ELSE HeightOf(r.list[2])
       IN IF \E i \in DOMAIN r.list : ~InChain(r.list[i])
          THEN Step(c, [begun EXCEPT !.at = "failed"]) /\ UNCHANGED sent
          ELSE IF r.addrs # <<>> \/ r.ops # <<>>
          THEN Step(c, [begun EXCEPT !.at = "fetch", !.min = HeightOf(r.list[1]), !.max = max]) /\ UNCHANGED sent
          ELSE /\ Step(c, [begun EXCEPT !.at = "ended"])
               /\ sent' = QueueNotification(State, c, Ntfn("finished", None, Tip, <<>>)).sent
    /\ UNCHANGED <<chain, pool, returned, pruned, paused, queue, mgr, cli, calls, events>>

HeightRange(from, to) == SubSeq(chain, from + 1, IF to > Len(chain) THEN Len(chain) ELSE to)

FetchRange(c) ==
    LET r == rescan[c]
        hashes == HeightRange(r.min, IF r.max - r.min > MaxInvPerMsg THEN r.min + MaxInvPerMsg ELSE r.max)
    IN /\ r.at = "fetch"
       /\ IF r.min >= r.max \/ (hashes = <<>> /\ r.max # Forever) THEN EndAt(c)
          ELSE /\ Step(c, IF hashes = <<>> THEN [r EXCEPT !.at = "pause"]
                          ELSE [r EXCEPT !.at = "scan", !.hashes = hashes, !.i = 1])
               /\ UNCHANGED sent
       /\ UNCHANGED <<chain, pool, returned, pruned, paused, queue, mgr, cli, serving, calls, events>>


Pause(c) ==
    /\ rescan[c].at = "pause" /\ paused = None
    /\ paused' = c
    /\ Step(c, [rescan[c] EXCEPT !.at = "register", !.best = Tip])
    /\ UNCHANGED <<chain, pool, returned, pruned, queue, mgr, cli, sent, serving, calls, events>>

RegisterAtTip(c) ==
    LET r == rescan[c]
        register == <<[Msg("spent", c) EXCEPT !.ops = SetToSeq(r.unspent)],
                      [Msg("addr", c) EXCEPT !.addrs = SetToSeq(r.addrs)]>>
    IN /\ r.at = "register"
       /\ paused' = None
       /\ IF r.last \in {None, r.best}
          THEN queue' = queue \o register /\ EndAt(c)
          ELSE Step(c, [r EXCEPT !.at = "fetch"]) /\ UNCHANGED <<queue, sent>>
       /\ UNCHANGED <<chain, pool, returned, pruned, mgr, cli, serving, calls, events>>

(* The addresses the inputs' scripts reveal: of a hash, not of a bare key.  *)
Revealed(t) ==
    {a \in DOMAIN Encode : Encode[a] = a /\ \E i \in DOMAIN Txs[t].ins :
        LET op == Txs[t].ins[i] IN op[1] \in DOMAIN Txs /\ a \in Txs[op[1]].outs[op[2]]}

(* rescanBlock: each transaction tells of spends, then of payments.        *)
rescanBlock(s, c, r, b) ==
    LET Tx(acc, t) ==
            LET gone == {op \in acc.r.unspent : Spends(t, op)}
                paid == {<<t, i>> : i \in {j \in DOMAIN Txs[t].outs : \E a \in Txs[t].outs[j] : Encode[a] \in acc.r.addrs}}
                spend == IF gone = {} /\ Revealed(t) \cap acc.r.addrs = {} THEN acc.s
                         ELSE QueueNotification(acc.s, c, Ntfn("redeem", t, b, <<>>))
            IN [s |-> IF paid = {} THEN spend ELSE QueueNotification(spend, c, Ntfn("recv", t, b, <<>>)),
                r |-> [acc.r EXCEPT !.unspent = (@ \ gone) \cup paid]]
    IN Fold(Tx, [s |-> s, r |-> r], Blocks[b].txs)

(* The block's data is gone: the hashes are looked up again, and the first *)
(* one is read if a block was processed before.                            *)
recoverFromReorg(c, r) ==
    LET min == r.min + r.i - 1
        hashes == HeightRange(min, r.max)
    IN IF hashes = <<>> THEN EndAt(c)
       ELSE /\ Step(c, IF r.last # None /\ (hashes[1] \in pruned \/ Blocks[hashes[1]].prev # r.last)
                       THEN [r EXCEPT !.at = "failed"]
                       ELSE [r EXCEPT !.hashes = hashes, !.i = 1, !.min = min])
            /\ UNCHANGED sent

(* The progress notification depends on a timer.                           *)
Scanned(c, r, b) ==
    \E told \in {rescanBlock(State, c, r, b)} :
      /\ \E n \in {<<>>, <<Ntfn("progress", None, b, <<>>)>>} :
           sent' = [told.s.sent EXCEPT ![c] = @ \o n]
      /\ Step(c, IF r.i = Len(r.hashes)
                 THEN [told.r EXCEPT !.last = b, !.at = "fetch", !.min = @ + Len(r.hashes), !.hashes = <<>>]
                 ELSE [told.r EXCEPT !.last = b, !.i = @ + 1])

ScanBlock(c) ==
    LET r == rescan[c]
        b == r.hashes[r.i]
    IN /\ r.at = "scan"
       /\ IF ~InChain(b) \/ (b \in pruned /\ r.max # Forever)
          THEN Step(c, [r EXCEPT !.at = "failed"]) /\ UNCHANGED sent
          ELSE IF b \in pruned THEN recoverFromReorg(c, r)
          ELSE IF r.i = 1 /\ r.last # None /\ Blocks[b].prev # r.last
          THEN Step(c, [r EXCEPT !.at = "failed"]) /\ UNCHANGED sent
          ELSE IF ~cli[c].open THEN Step(c, [r EXCEPT !.at = "quiet"]) /\ UNCHANGED sent
          ELSE Scanned(c, r, b)
       /\ UNCHANGED <<chain, pool, returned, pruned, paused, queue, mgr, cli, serving, calls, events>>

-----------------------------------------------------------------------------
(* The rest of the node, as its script says.  Blocks are connected and     *)
(* disconnected by the sync manager, which tells the manager as it goes.   *)

Event(kind) == events # <<>> /\ Head(events).kind = kind /\ events' = Tail(events)

Conflicts(t, ts) == \E u \in ts : u # t /\ \E i \in DOMAIN Txs[u].ins : Spends(t, Txs[u].ins[i])

ConnectBlock ==
    /\ Event("connect") /\ paused = None
    /\ LET b == Head(events).what
           mined == ToSet(Blocks[b].txs)
       IN /\ chain' = Append(chain, b)
          /\ pool' = {t \in pool \ mined : ~Conflicts(t, mined)}
          /\ queue' = Append(queue, [Msg("connected", None) EXCEPT !.block = b])
    /\ UNCHANGED <<returned, pruned, paused, mgr, cli, sent, serving, rescan, calls>>

DisconnectBlock ==
    /\ Event("disconnect") /\ paused = None
    /\ chain' = SubSeq(chain, 1, Len(chain) - 1)
    /\ pool' = pool \cup ToSet(Blocks[Tip].txs)
    /\ returned' = returned \cup ToSet(Blocks[Tip].txs)
    /\ queue' = Append(queue, [Msg("disconnected", None) EXCEPT !.block = Tip])
    /\ UNCHANGED <<pruned, paused, mgr, cli, sent, serving, rescan, calls>>

AcceptTx ==
    /\ Event("accept")
    /\ pool' = pool \cup {Head(events).what}
    /\ UNCHANGED <<chain, returned, pruned, paused, queue, mgr, cli, sent, serving, rescan, calls>>

NotifyMempoolTx ==
    /\ Event("announce")
    /\ queue' = Append(queue, [Msg("accepted", None) EXCEPT !.tx = Head(events).what])
    /\ UNCHANGED <<chain, pool, returned, pruned, paused, mgr, cli, sent, serving, rescan, calls>>

Disconnect ==
    /\ Event("close") /\ cli[Head(events).what].phase = "served"
    /\ cli' = [cli EXCEPT ![Head(events).what].open = FALSE]
    /\ UNCHANGED <<chain, pool, returned, pruned, paused, queue, mgr, sent, serving, rescan, calls>>

WsInit ==
    \E script \in Scripts :
      /\ chain = script.chain /\ pool = {} /\ returned = {} /\ pruned = script.pruned
      /\ calls = script.calls /\ events = script.events
      /\ paused = None /\ queue = <<>>
      /\ mgr = [max |-> script.max, ops |-> <<>>, addrs |-> <<>>, clients |-> {}, blocks |-> {}, txs |-> {}]
      /\ cli = [c \in Clients |->
                  [phase |-> "dialled", open |-> FALSE, spentRequests |-> {}, addrRequests |-> {},
                   filter |-> NoFilter, verboseTxUpdates |-> FALSE]]
      /\ sent = [c \in Clients |-> <<>>] /\ serving = [c \in Clients |-> {}]
      /\ rescan = [c \in Clients |-> Idle]

RescanStep(c) == FetchRange(c) \/ Pause(c) \/ RegisterAtTip(c) \/ ScanBlock(c)

WsNext ==
    \/ notificationHandler
    \/ ConnectBlock \/ DisconnectBlock \/ AcceptTx \/ NotifyMempoolTx \/ Disconnect
    \/ \E c \in Clients :
         \/ CountClients(c) \/ AddClient(c) \/ RemoveClient(c) \/ ReadRequest(c)
         \/ \E r \in serving[c] : Serve(c, r) \/ handleLoadTxFilter(c, r) \/ handleRescanBlocks(c, r) \/ handleRescan(c, r)
         \/ RescanStep(c)

(* The goroutine of a rescan keeps running.                                *)
WsSpec == WsInit /\ [][WsNext]_wsVars /\ WF_wsVars(\E c \in Clients : RescanStep(c))

-----------------------------------------------------------------------------
(* Properties.                                                             *)

Rescanning(c) == rescan[c].at \in {"fetch", "scan", "pause", "register"}
Drained == queue = <<>> /\ \A c \in Clients : ~Rescanning(c)

Told(c, kind, t, b) == \E i \in DOMAIN sent[c] : sent[c][i].kind = kind /\ sent[c][i].tx = t /\ sent[c][i].block = b

(* The manager's tables and the lists its clients keep of their own        *)
(* requests say the same, and a table holds no outpoint or address nobody  *)
(* watches (addSpentRequests, removeSpentRequest, addAddrRequests,         *)
(* removeAddrRequest).                                                     *)
TablesAgree ==
    /\ \A c \in Clients :
         /\ cli[c].spentRequests = {op \in DOMAIN mgr.ops : c \in mgr.ops[op]}
         /\ cli[c].addrRequests = {a \in DOMAIN mgr.addrs : c \in mgr.addrs[a]}
    /\ \A op \in DOMAIN mgr.ops : mgr.ops[op] # {}
    /\ \A a \in DOMAIN mgr.addrs : mgr.addrs[a] # {}

(* A client that follows blocks and transactions hears of a block after it *)
(* has heard of every transaction of the block (docs/json_rpc_api.md,      *)
(* notifyblocks).                                                          *)
BlockAfterTxs ==
    \A c \in Clients : rescan[c].from = None =>
        \A i, j \in DOMAIN sent[c] :
            (i < j /\ sent[c][i].kind = "block+" /\ sent[c][j].kind \in {"recv", "redeem"})
                => sent[c][i].block # sent[c][j].block

(* The blocks a client is told of, connected and disconnected, are steps   *)
(* along the tree of blocks, none left out, and lead to the tip of the     *)
(* chain once the queue is empty.                                          *)
BlocksInOrder ==
    \A c \in Clients :
        LET told == SelectSeq(sent[c], LAMBDA n : n.kind \in {"block+", "block-"})
            After(n) == IF n.kind = "block+" THEN n.block ELSE Blocks[n.block].prev
        IN /\ \A i \in 1 .. Len(told) - 1 :
                IF told[i + 1].kind = "block+" THEN Blocks[told[i + 1].block].prev = After(told[i])
                ELSE told[i + 1].block = After(told[i])
           /\ (queue = <<>> /\ cli[c].open /\ c \in mgr.blocks /\ told # <<>>) => After(told[Len(told)]) = Tip

(* A rescan through the tip hands over to the manager without a gap: once  *)
(* it has ended, the client has been told of every payment to its          *)
(* addresses in the chain, in the block it is in now, and no output it     *)
(* owns is spent in the chain without a redeeming transaction having been  *)
(* reported (scanBlockChunks, notifyForTx).                                *)
PaymentsSeen ==
    \A c \in Clients :
        (Drained /\ cli[c].open /\ rescan[c].at = "ended" /\ rescan[c].max = Forever) =>
            \A i \in DOMAIN chain : \A k \in DOMAIN Blocks[chain[i]].txs :
                LET t == Blocks[chain[i]].txs[k]
                    Own(op) == op[1] \in DOMAIN Txs /\ \E a \in Txs[op[1]].outs[op[2]] : Encode[a] \in rescan[c].addrs
                IN /\ (\E op \in Outpoints(t) : Own(op)) => Told(c, "recv", t, chain[i])
                   /\ \A op \in ToSet(Txs[t].ins) : Own(op) =>
                        \E n \in DOMAIN sent[c] : sent[c][n].kind = "redeem" /\ Spends(sent[c][n].tx, op)

(* Whoever watches an outpoint has heard of the transaction in the memory  *)
(* pool that spends it, whichever came first, unless that transaction came *)
(* back from a disconnected block (addSpentRequests).                      *)
PoolSpendsSeen ==
    (queue = <<>> /\ (events = <<>> \/ Head(events).kind # "announce")) =>
        \A t \in pool \ returned : \A op \in DOMAIN mgr.ops : Spends(t, op) =>
            \A c \in mgr.ops[op] : cli[c].open => Told(c, "redeem", t, None)

RescansPending == pruned = {} /\ \E c \in Clients : Rescanning(c)
RescansOver == returned # {} \/ \A c \in Clients : ~Rescanning(c)


=============================================================================
