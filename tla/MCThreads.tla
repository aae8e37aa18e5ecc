------------------------------ MODULE MCThreads ------------------------------
(***************************************************************************)
(* Goroutines and channels.  A behaviour is one of the sync manager with   *)
(* its peers, of the relay of transactions, of the goroutines of a peer,   *)
(* of its handshake, of the rescans of the RPC server, of one of its       *)
(* websocket clients, of the RPC client, of the indexer of the utreexo     *)
(* proofs or of the CPU miner: "machine" says which; the sync manager      *)
(* keeps its initial values and the variables of the others are 0 while    *)
(* another machine runs.                                                   *)
(***************************************************************************)
EXTENDS SyncManager

VARIABLES machine, submitted, pool, mined, relayInv, notify, pendingInvs,
          resending, fired, told, disconnect, inH, queueH, outH, stallH,
          inQuit, queueQuit, outQuit, ioStopped, stallControl, callers,
          outputQueue, outputInvChan, waiting, pendingMsgs, invSendQueue,
          sendQueue, sendDoneQueue, knownInventory, released, written, reads,
          lists, pointers, budget, config, self, slow, end, wires, open,
          downgrade, attempts, chain, mempool, returned, pruned, paused,
          queue, mgr, cli, sent, serving, rescan, calls, events, disconnected,
          incoming, auth, inHandler, ntfnH, outHandler, worker, sender,
          results, ntfnChan, pendingNtfns, ntfnWaiting, ntfnSent, sendChan,
          writing, notifier, read, replies, announced, script, shut, disc,
          flushing, wsConn, link, registered, requestList, ntfnState,
          sendQueued, answers, call, cin, cout, recon, resend, verLock, post,
          batch, callbacks, mineplan, height, minerLock, mining,
          discreteMining, numWorkers, minerQuit, controller, runningWorkers,
          monitor, submitBlockLock, miners, minerUsers, plan, db, disk, kept,
          files, forest, saved, acc, phase, job, refused, manager, pipe

RelayVars == <<submitted, pool, mined, relayInv, notify, pendingInvs,
               resending, fired, told>>
PeerVars == <<disconnect, inH, queueH, outH, stallH, inQuit, queueQuit,
              outQuit, ioStopped, stallControl, callers,
              outputQueue, outputInvChan, waiting, pendingMsgs,
              invSendQueue, sendQueue, sendDoneQueue,
              knownInventory, released, written, reads, lists,
              pointers, budget>>
HandshakeVars == <<config, self, slow, end, wires, open, downgrade, attempts>>
RescanVars == <<chain, mempool, returned, pruned, paused, queue, mgr, cli,
                sent, serving, rescan, calls, events>>
ClientVars == <<disconnected, incoming, auth, inHandler, ntfnH, outHandler,
                worker, sender, results, ntfnChan, pendingNtfns,
                ntfnWaiting, ntfnSent, sendChan, writing,
                notifier, read, replies, announced>>
RpcclientVars == <<script, shut, disc, flushing, wsConn, link, registered,
                   requestList, ntfnState, sendQueued,
                   answers, call, cin, cout, recon, resend,
                   verLock, post, batch, callbacks>>
MinerVars == <<mineplan, height, minerLock, mining, discreteMining,
               numWorkers, minerQuit, controller, runningWorkers,
               monitor, submitBlockLock, miners, minerUsers>>
IndexVars == <<plan, db, disk, kept, files, forest, saved, acc, phase, job,
               refused, manager, pipe>>

-----------------------------------------------------------------------------
(* The sync manager: a full peer that serves proofs, one that is behind.   *)

MCHas == [a |-> 2, b |-> 1]
MCServices == [a |-> "full", b |-> "limited"]
Plain == [utreexo |-> FALSE, ttlTop |-> 0, assume |-> 0, checkpoint |-> 1, maxInvs |-> 1]
Compact == [utreexo |-> TRUE, ttlTop |-> 0, assume |-> 0, checkpoint |-> 0, maxInvs |-> 0]
Swift == [Compact EXCEPT !.ttlTop = 1]
Assumed == [Compact EXCEPT !.assume = 1]
MCConfigs == {Plain, Compact, Swift, Assumed}

-----------------------------------------------------------------------------
(* Relay and rebroadcast of transactions and blocks.                       *)

RelayTxs == {"t1", "t2"}
FeeRates == [t \in RelayTxs |-> IF t = "t1" THEN 1 ELSE 2]
Remote(off, fee, m, u, h) == [relayOff |-> off, feeFilter |-> fee, matches |-> m, utreexo |-> u, headers |-> h]
Remotes == <<Remote(FALSE, 2, TRUE, FALSE, TRUE), Remote(FALSE, 0, TRUE, TRUE, FALSE), Remote(TRUE, 0, TRUE, FALSE, FALSE)>>

Relay == INSTANCE Relay
    WITH Txs <- RelayTxs, FeeRate <- FeeRates, RelayPeers <- Remotes,
         RelayCap <- 1, Rebroadcasts <- 1

-----------------------------------------------------------------------------
(* The goroutines of a connection.                                         *)

Vector(t, h) == [type |-> t, hash |-> h]
VectorLists == {<<Vector("tx", 1)>>, <<Vector("block", 2)>>, <<Vector("utreexotx", 3), Vector("proof", 3)>>}
CallerBudgets == {[msgs |-> <<2, 1>>, invs |-> 0, reads |-> 0], [msgs |-> <<1, 1>>, invs |-> 0, reads |-> 1],
                  [msgs |-> <<0, 0>>, invs |-> 2, reads |-> 0]}

Peer == INSTANCE Peer
    WITH Callers <- {1, 2}, Waits <- {2}, InvLists <- VectorLists,
         outputBufferSize <- 1, maxInvTrickleSize <- 1, Budgets <-
         CallerBudgets, invs <- lists

-----------------------------------------------------------------------------
(* The negotiation of a connection.                                        *)

Version(p, v, u) == [pver |-> p, v2 |-> v, utreexo |-> u, needsUtreexo |-> u]
Versions == {Version(p, v, u) : p \in 1 .. 3, v \in BOOLEAN, u \in BOOLEAN}

Handshake == INSTANCE Handshake
    WITH EndConfigs <- Versions, MinAcceptable <- 2, AddrV2Version <- 3


-----------------------------------------------------------------------------
(* Rescans of websocket clients while blocks are connected.                *)

WsClients == {"c1", "c2"}
WsTx(ins, outs) == [ins |-> ins, outs |-> outs]
WsTxs == [t \in {"t1", "t2", "t3", "cb"} |->
            CASE t = "t1" -> WsTx(<<<<"old", 1>>>>, <<{"k"}, {"z"}>>)
              [] t = "t2" -> WsTx(<<<<"t1", 1>>>>, <<{"z"}, {"h"}>>)
              [] t = "t3" -> WsTx(<<<<"t1", 1>>, <<"old", 2>>>>, <<{"z"}>>)
              [] t = "cb" -> WsTx(<<<<"none", 1>>>>, <<{"z"}>>)]
Encoding == [a \in {"h", "k", "z"} |-> IF a = "k" THEN "h" ELSE a]
WsBlock(prev, txs) == [prev |-> prev, txs |-> txs]
WsBlocks == [b \in {"g", "b1", "b2", "d1", "d2"} |->
               CASE b = "g" -> WsBlock("none", <<"cb">>) [] b = "b1" -> WsBlock("g", <<"t1">>) [] b = "b2" -> WsBlock("b1", <<"t2">>)
                 [] b = "d1" -> WsBlock("g", <<"t1", "t3">>) [] b = "d2" -> WsBlock("b1", <<"t3">>)]

Order(method, addrs, ops, list, verbose) == [method |-> method, addrs |-> addrs, ops |-> ops, list |-> list, verbose |-> verbose]
Event(kind, what) == [kind |-> kind, what |-> what]
Session(start, pr, x, y, ev) ==
    [chain |-> start, pruned |-> pr, max |-> 2, calls |-> [c \in WsClients |-> IF c = "c1" THEN x ELSE y], events |-> ev]

Rescan == Order("rescan", <<"h">>, <<>>, <<"g">>, FALSE)
Grow == <<Event("connect", "b1"), Event("connect", "b2")>>
WsScripts ==
    {Session(<<"g">>, {}, <<Rescan>>, <<>>, Grow),
     Session(<<"g", "b1">>, {}, <<Order("rescan", <<"h">>, <<>>, <<"g", "b1">>, FALSE)>>,
             <<Order("rescan", <<>>, <<>>, <<"g">>, FALSE)>>, <<Event("disconnect", "none")>>)}

Ws == INSTANCE Websocket
    WITH Clients <- WsClients, Txs <- WsTxs, Blocks <- WsBlocks, Genesis
         <- "g", Encode <- Encoding, MaxInvPerMsg <- 2, Scripts <-
         WsScripts, pool <- mempool

-----------------------------------------------------------------------------
(* The goroutines of a websocket client.                                   *)

Msg(form, by, limited, id, joined) == [form |-> form, by |-> by, limited |-> limited, id |-> id, batch |-> joined]
One(form, id) == <<Msg(form, "limited", id % 2 = 0, id, FALSE)>>
Talk(ms, a, n) == [messages |-> ms, auth |-> a, ntfns |-> n]
LoggedOut == [authenticated |-> FALSE, isAdmin |-> FALSE]
LoggedIn == [authenticated |-> TRUE, isAdmin |-> FALSE]
Dialogues ==
    {Talk(<<One("auth", 1), One("cmd", 2), One("cmd", 3), One("malformed", 4), One("garbled", 5)>>, LoggedOut, 1),
     Talk(<<<<Msg("auth", "admin", FALSE, 1, TRUE), Msg("cmd", "", FALSE, 2, TRUE), Msg("badparams", "", FALSE, 3, TRUE), Msg("noid", "", FALSE, 4, TRUE)>>, One("noid", 5)>>, LoggedOut, 1),
     Talk(<<One("malformed", 1), One("cmd", 2)>>, LoggedOut, 2),
     Talk(<<One("badparams", 1), <<Msg("cmd", "", TRUE, 2, TRUE), Msg("auth", "admin", TRUE, 3, TRUE)>>>>, LoggedIn, 1),
     Talk(<<<<Msg("auth", "nobody", FALSE, 1, FALSE)>>>>, LoggedOut, 1),
     Talk(<<One("cmd", 2)>>, LoggedIn, 3)}

Wsc == INSTANCE WsClient
    WITH Conversations <- Dialogues, Workers <- {"w1"}, SendBufferSize <-
         3, Notifiers <- {"m"}, inH <- inHandler, outH <- outHandler,
         waiting <- ntfnWaiting, written <- replies, told <- announced

\* A websocket client gets its notifications one at a time and in order, and
\* one answer to every request.
ClientServed == machine = "client" => Wsc!ClientServed

-----------------------------------------------------------------------------
(* The RPC client.                                                         *)

Events == <<"blockconnected", "blockdisconnected", "filteredblockconnected", "filteredblockdisconnected",
          "recvtx", "redeemingtx", "relevanttxaccepted", "rescanfinished", "rescanprogress",
          "txaccepted", "txacceptedverbose", "btcdconnected", "accountbalance", "walletlockstate", "newtx">>
AllHandlers == {Events[i] : i \in DOMAIN Events} \cup {"unknown"}
Caller(mode, asks, denied, drops, stops, handlers, tells) ==
  [mode |-> mode, calls |-> asks, refused |-> denied, drops |-> drops, stops |-> stops,
   handlers |-> handlers, events |-> tells]
ClientScripts ==
  {Caller("reconnect", {"notify"}, {}, 1, FALSE, {"txaccepted"}, <<"txaccepted">>),
   Caller("once", {"notify"}, {}, 1, FALSE, {"txaccepted", "unknown"}, <<"txaccepted", "recvtx", "newtx">>),
   Caller("reconnect", {"notify"}, {"notify"}, 1, FALSE, {"recvtx"}, <<>>),
   Caller("reconnect", {"rescan"}, {}, 1, FALSE, {"recvtx"}, <<>>),
   Caller("reconnect", {}, {}, 1, TRUE, {"recvtx"}, <<>>),
   Caller("reconnect", {"version"}, {}, 1, FALSE, {"recvtx"}, <<>>),
   Caller("once", {"notify"}, {}, 0, FALSE, AllHandlers, Events),
   Caller("once", {"cmd", "notify"}, {}, 1, TRUE, {"recvtx"}, <<>>),
   Caller("once", {"cmd", "notify"}, {}, 0, TRUE, {"nil"}, <<"recvtx">>),
   Caller("later", {"cmd"}, {}, 0, TRUE, {"recvtx"}, <<>>),
   Caller("post", {"cmd", "other", "notify"}, {}, 0, TRUE, {"nil"}, <<>>),
   Caller("batch", {"cmd", "other"}, {}, 0, TRUE, {"nil"}, <<>>)}

Cli == INSTANCE RpcClient
    WITH Notifies <- {"notify"}, Plain <- {"cmd", "other", "rescan",
         "version"}, Scripts <- ClientScripts, MaxConns <- 2,
         sendBufferSize <- 1, PostHandlers <- {1}, sendChan <- sendQueued


-----------------------------------------------------------------------------
(* The CPU miner.                                                          *)

Ask0(x) == [method |-> x, n |-> 0]
AskFor(x, k) == [method |-> x, n |-> k]
Callings(a, b) == [u \in {"a", "b"} |-> IF u = "a" THEN a ELSE b]
Mining(a, b, arr, sol, f) == [calls |-> Callings(a, b), arrivals |-> arr, solutions |-> sol, fails |-> f, connected |-> TRUE, collides |-> FALSE]
CalmPlans == {Mining(<<Ask0("start"), Ask0("stop"), AskFor("set", 1)>>, <<AskFor("set", 2), Ask0("hashes"), AskFor("set", 1)>>, 1, 1, 0)
            , Mining(<<Ask0("start"), AskFor("set", 2), AskFor("set", 0), Ask0("start")>>, <<Ask0("hashes"), Ask0("stop")>>, 1, 1, 1),
          Mining(<<AskFor("generate", 2), Ask0("start")>>, <<Ask0("start"), AskFor("generate", 1), Ask0("stop")>>, 2, 1, 1)}
MiningPlans == CalmPlans \cup {[Mining(<<Ask0("start"), AskFor("set", 0)>>, <<Ask0("start")>>, 0, 0, 0) EXCEPT !.collides = TRUE],
  [Mining(<<AskFor("generate", 2)>>, <<AskFor("set", 2)>>, 0, 0, 0) EXCEPT !.collides = TRUE]}

Miner == INSTANCE CpuMiner
    WITH Users <- {"a", "b"}, MaxWorkers <- 4, MinePlans <- MiningPlans,
         tip <- height, lock <- minerLock, started <- mining, quit <-
         minerQuit, worker <- miners, user <- minerUsers

\* A miner that is stopped is quiet, one that runs has the workers that were
\* asked for, and one of them submits at a time (cpuminer.go:395).
MinerSound == machine = "miner" => Miner!MinerSound

-----------------------------------------------------------------------------
(* The flat utreexo proof index, its forest and its pipeline.              *)

IndexBlocks == {"a", "b", "c", "d", "x", "y"}
Parents == [a |-> "g", b |-> "a", c |-> "b", d |-> "c", x |-> "a", y |-> "x"]
Spending == [a |-> {}, b |-> {"a"}, c |-> {}, d |-> {"b"}, x |-> {}, y |-> {"a"}]
Start == [blocks |-> {"a", "b", "c"}, chain |-> <<>>, tip |-> <<>>, plain |-> <<>>, pruned |-> FALSE, forks |-> 0, kills |-> 0,
         killsClosing |-> FALSE, fails |-> 0, stops |-> 0, interrupts |-> 0,
         dbFlushes |-> {}, periodic |-> TRUE, labelled |-> TRUE, broken |-> ""]
OneBranch == <<"a", "b", "c">>
OtherBranch == <<"a", "x">>
IndexPlans == {
   [Start EXCEPT !.kills = 2, !.stops = 1, !.dbFlushes = {"running", "starting"}],
   [Start EXCEPT !.kills = 1, !.fails = 1, !.periodic = FALSE, !.dbFlushes = {"running"}],
   [Start EXCEPT !.blocks = IndexBlocks, !.forks = 2, !.stops = 1, !.dbFlushes = {"running"}],
   [Start EXCEPT !.kills = 2, !.pruned = TRUE, !.dbFlushes = {"running"}],
   [Start EXCEPT !.chain = OneBranch, !.labelled = FALSE, !.interrupts = 2],
   [Start EXCEPT !.chain = OneBranch, !.fails = 1, !.interrupts = 1],
   [Start EXCEPT !.chain = OneBranch, !.tip = OneBranch, !.interrupts = 1, !.kills = 1],
   [Start EXCEPT !.chain = OneBranch, !.tip = OneBranch, !.plain = OtherBranch, !.interrupts = 1]}

Index == INSTANCE ProofIndex
    WITH Blocks <- IndexBlocks, Parent <- Parents, Spends <- Spending,
         Root <- "g", IndexScripts <- IndexPlans, BatchSize <- 2,
         PipelineBuffer <- 1



-----------------------------------------------------------------------------
Machines == {"sync", "relay", "peer", "handshake", "rescan", "client",
             "rpcclient", "miner", "index"}

RelayIdle ==
    submitted = 0 /\ pool = 0 /\ mined = 0 /\ relayInv = 0 /\ notify = 0
    /\ pendingInvs = 0 /\ resending = 0 /\ fired = 0 /\ told = 0

PeerIdle ==
    disconnect = 0 /\ inH = 0 /\ queueH = 0 /\ outH = 0 /\ stallH = 0
    /\ inQuit = 0 /\ queueQuit = 0 /\ outQuit = 0 /\ ioStopped = 0
    /\ stallControl = 0 /\ callers = 0 /\ outputQueue = 0 /\ outputInvChan = 0
    /\ waiting = 0 /\ pendingMsgs = 0 /\ invSendQueue = 0 /\ sendQueue = 0
    /\ sendDoneQueue = 0 /\ knownInventory = 0 /\ released = 0 /\ written = 0
    /\ reads = 0 /\ lists = 0 /\ pointers = 0 /\ budget = 0

HandshakeIdle ==
    config = 0 /\ self = 0 /\ slow = 0 /\ end = 0 /\ wires = 0 /\ open = 0
    /\ downgrade = 0 /\ attempts = 0

RescanIdle ==
    chain = 0 /\ mempool = 0 /\ returned = 0 /\ pruned = 0 /\ paused = 0
    /\ queue = 0 /\ mgr = 0 /\ cli = 0 /\ sent = 0 /\ serving = 0
    /\ rescan = 0 /\ calls = 0 /\ events = 0

ClientIdle ==
    disconnected = 0 /\ incoming = 0 /\ auth = 0 /\ inHandler = 0 /\ ntfnH = 0
    /\ outHandler = 0 /\ worker = 0 /\ sender = 0 /\ results = 0
    /\ ntfnChan = 0 /\ pendingNtfns = 0 /\ ntfnWaiting = 0 /\ ntfnSent = 0
    /\ sendChan = 0 /\ writing = 0 /\ notifier = 0 /\ read = 0 /\ replies = 0
    /\ announced = 0

RpcclientIdle ==
    script = 0 /\ shut = 0 /\ disc = 0 /\ flushing = 0 /\ wsConn = 0
    /\ link = 0 /\ registered = 0 /\ requestList = 0 /\ ntfnState = 0
    /\ sendQueued = 0 /\ answers = 0 /\ call = 0 /\ cin = 0 /\ cout = 0
    /\ recon = 0 /\ resend = 0 /\ verLock = 0 /\ post = 0 /\ batch = 0
    /\ callbacks = 0

MinerIdle ==
    mineplan = 0 /\ height = 0 /\ minerLock = 0 /\ mining = 0
    /\ discreteMining = 0 /\ numWorkers = 0 /\ minerQuit = 0 /\ controller = 0
    /\ runningWorkers = 0 /\ monitor = 0 /\ submitBlockLock = 0 /\ miners = 0
    /\ minerUsers = 0

IndexIdle ==
    plan = 0 /\ db = 0 /\ disk = 0 /\ kept = 0 /\ files = 0 /\ forest = 0
    /\ saved = 0 /\ acc = 0 /\ phase = 0 /\ job = 0 /\ refused = 0
    /\ manager = 0 /\ pipe = 0

MCInit ==
    /\ machine \in Machines
    /\ machine # "sync" => conf = Plain
    /\ Init
    /\ IF machine = "relay" THEN Relay!Init ELSE RelayIdle
    /\ IF machine = "peer" THEN Peer!Init ELSE PeerIdle
    /\ IF machine = "handshake" THEN Handshake!Init ELSE HandshakeIdle
    /\ IF machine = "rescan" THEN Ws!WsInit ELSE RescanIdle
    /\ IF machine = "client" THEN Wsc!ClientInit ELSE ClientIdle
    /\ IF machine = "rpcclient" THEN Cli!CliInit ELSE RpcclientIdle
    /\ IF machine = "miner" THEN Miner!MineInit ELSE MinerIdle
    /\ IF machine = "index" THEN Index!IndexInit ELSE IndexIdle

SyncStep ==
    /\ machine = "sync" /\ Next
    /\ UNCHANGED <<machine, RelayVars, PeerVars, HandshakeVars, RescanVars, ClientVars, RpcclientVars, MinerVars, IndexVars>>

RelayStep ==
    /\ machine = "relay" /\ Relay!Next
    /\ UNCHANGED <<machine, vars, PeerVars, HandshakeVars, RescanVars, ClientVars, RpcclientVars, MinerVars, IndexVars>>

PeerStep ==
    /\ machine = "peer" /\ Peer!Next
    /\ UNCHANGED <<machine, vars, RelayVars, HandshakeVars, RescanVars, ClientVars, RpcclientVars, MinerVars, IndexVars>>

HandshakeStep ==
    /\ machine = "handshake" /\ Handshake!Next
    /\ UNCHANGED <<machine, vars, RelayVars, PeerVars, RescanVars, ClientVars, RpcclientVars, MinerVars, IndexVars>>

RescanStep ==
    /\ machine = "rescan" /\ Ws!WsNext
    /\ UNCHANGED <<machine, vars, RelayVars, PeerVars, HandshakeVars, ClientVars, RpcclientVars, MinerVars, IndexVars>>

ClientStep ==
    /\ machine = "client" /\ Wsc!ClientNext
    /\ UNCHANGED <<machine, vars, RelayVars, PeerVars, HandshakeVars, RescanVars, RpcclientVars, MinerVars, IndexVars>>

RpcclientStep ==
    /\ machine = "rpcclient" /\ Cli!CliNext
    /\ UNCHANGED <<machine, vars, RelayVars, PeerVars, HandshakeVars, RescanVars, ClientVars, MinerVars, IndexVars>>

MinerStep ==
    /\ machine = "miner" /\ Miner!MineNext
    /\ UNCHANGED <<machine, vars, RelayVars, PeerVars, HandshakeVars, RescanVars, ClientVars, RpcclientVars, IndexVars>>

IndexStep ==
    /\ machine = "index" /\ Index!IndexNext
    /\ UNCHANGED <<machine, vars, RelayVars, PeerVars, HandshakeVars, RescanVars, ClientVars, RpcclientVars, MinerVars>>

MCNext ==
    SyncStep \/ RelayStep \/ PeerStep \/ HandshakeStep \/ RescanStep
    \/ ClientStep \/ RpcclientStep \/ MinerStep \/ IndexStep

all == <<machine, vars, RelayVars, PeerVars, HandshakeVars, RescanVars, ClientVars, RpcclientVars, MinerVars, IndexVars>>

Active ==
    CASE machine = "relay" -> RelayVars
      [] machine = "peer" -> PeerVars
      [] machine = "handshake" -> HandshakeVars
      [] machine = "rescan" -> RescanVars
      [] machine = "client" -> ClientVars
      [] machine = "rpcclient" -> RpcclientVars
      [] machine = "miner" -> MinerVars
      [] machine = "index" -> IndexVars
      [] OTHER -> vars

Goes ==
    /\ UNCHANGED machine
    /\ \/ machine = "relay" /\ Relay!Goroutines
       \/ machine = "peer" /\ Peer!Handlers /\ UNCHANGED budget
       \/ machine = "handshake" /\ Handshake!Ongoing
       \/ machine = "rescan" /\ (\E c \in WsClients : Ws!RescanStep(c))
       \/ machine = "client" /\ Wsc!ClientNext
       \/ machine = "rpcclient" /\ Cli!GoroutineStep
       \/ machine = "miner" /\ Miner!MinerStep
       \/ machine = "index" /\ Index!ProcessStep

\* While a goroutine of the machine can go on, one does.
MCSpec == MCInit /\ [][MCNext]_all /\ WF_Active(Goes)
          /\ WF_vars(machine = "sync" /\ HandlerStep) /\ WF_vars(machine = "sync" /\ TimePasses)
          /\ WF_vars(machine = "sync" /\ StallSample)
          /\ \A p \in Peers :
               /\ WF_vars(machine = "sync" /\ NewPeer(p)) /\ WF_vars(machine = "sync" /\ DonePeer(p))
               /\ WF_vars(machine = "sync" /\ \E r \in sm.asked[p] : Answer(p, r))
=============================================================================
