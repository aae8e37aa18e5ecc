------------------------------- MODULE MCStore -------------------------------
(***************************************************************************)
(* The block store, the indexes and the RPC server that reads the chain.   *)
(* A behaviour is one of the block store over the tree g - a1 - a2 - a3    *)
(* with the branch b2 - b3 from a1, of a flat file of an index, of the     *)
(* address and transaction indexes, of the RPC server, of the notification *)
(* manager of its websocket clients or of the metadata database: "machine" *)
(* says which; the store keeps its initial values and the variables of the *)
(* others are 0 while another machine runs.                                *)
(***************************************************************************)
EXTENDS FlatStore, TLC

VARIABLES machine, offsetFile, dataFile, state, todo, allowed, faults, course,
          ledger, idByHash, hashByID, txEntries, curBlockID, levels,
          txnsByAddr, addrsByTx, unconfirmed, bucket, dropper, indexed, best,
          snap, move, pool, past, moves, arrivals, ticks, clock, lastUpdated,
          work, lock, notes, miner, query, conn, numClients, chain, mempool,
          returned, pruned, paused, queue, mgr, cli, sent, serving, rescan,
          calls, events, dbPlan, treap, leveldb, dbCache, dbTx, writeLock,
          dbClosed, dbCommits

FileVars == <<offsetFile, dataFile, state, todo, allowed, faults>>
AddrindexVars == <<course, ledger, idByHash, hashByID, txEntries, curBlockID,
                   levels, txnsByAddr, addrsByTx,
                   unconfirmed, bucket, dropper>>
RpcVars == <<indexed, best, snap, move, pool, past, moves, arrivals, ticks,
             clock, lastUpdated, work, lock, notes, miner, query,
             conn, numClients>>
NotifierVars == <<chain, mempool, returned, pruned, paused, queue, mgr, cli,
                  sent, serving, rescan, calls, events>>
DatabaseVars == <<dbPlan, treap, leveldb, dbCache, dbTx, writeLock, dbClosed,
                  dbCommits>>

-----------------------------------------------------------------------------
(* The block store.                                                        *)

MCBlocks == {"g", "a1", "a2", "a3", "b2", "b3"}

MCParent == [b \in MCBlocks \ {"g"} |->
               CASE b = "a1" -> "g"
                 [] b \in {"a2", "b2"} -> "a1"
                 [] b = "a3" -> "a2"
                 [] b = "b3" -> "b2"]

MCHeight == [b \in MCBlocks |-> CASE b = "g" -> 0
                                  [] b = "a1" -> 1
                                  [] b \in {"a2", "b2"} -> 2
                                  [] OTHER -> 3]

MCAnc[b \in MCBlocks] ==
    IF b = "g" THEN {b} ELSE MCAnc[MCParent[b]] \cup {b}

\* Two blocks fill a file; the journals of these never do.
MCMaxBlockFileSize == [k \in Kinds |-> IF k = "blk" THEN 2 ELSE 9]

-----------------------------------------------------------------------------
(* A flat file of an index.                                                *)

File == INSTANCE FlatFile
    WITH Payloads <- {<<>>, <<1>>, <<2, 3>>}, MaxHeight <- 3, MaxKills <-
         2, MaxFailures <- 1, CallersGoOn <- FALSE

\* Between calls a reader finds every entry whose call returned, at its height
\* and as it was last written; only the call that a kill cut short may or may
\* not have happened (flatfile.go:70, 305).  With it goes the invariant that its
\* proof is by.
EntriesKept == machine = "file" => File!EntriesKept /\ File!FileInv

-----------------------------------------------------------------------------
(* The address and transaction indexes.                                    *)

Involves == [k1 |-> << {"p"} >>, k2 |-> << {"p", "q"}, {"q"}, {"p"} >>,
               k5 |-> << {}, {"p"}, {"p"}, {"p", "q"}, {"p"}, {"p"} >>]
PoolOutputs == [u |-> << {"p"}, {"q"} >>, v |-> << {"p"}, {}, {"p"} >>, w |-> << {"q"} >>, z |-> <<>>]
Course == [part |-> "chain", rollbacks |-> 0, restarts |-> 1, drops |-> 0, kills |-> 0, killsLate |-> FALSE]
Courses == {Course, [Course EXCEPT !.rollbacks = 2, !.restarts = 0], [Course EXCEPT !.part = "pool"], [Course EXCEPT !.part = "drop", !.drops = 2, !.kills = 2]}

Addrs == INSTANCE AddrIndex
    WITH Addresses <- {"p", "q"}, Involved <- Involves, PoolScripts <-
         PoolOutputs, level0MaxEntries <- 2, ScanIncrement <- 2, MaxBlocks
         <- 5, MaxLevel <- 4, OldEntries <- 3, maxDeletions <- 2, Plans <-
         Courses


-----------------------------------------------------------------------------
(* The RPC server over a chain of two branches.                            *)

ChainTree == ("g" :> "g") @@ ("a1" :> "g") @@ ("a2" :> "a1") @@ ("b2" :> "a1") @@ ("b3" :> "b2")
Contents == ("g" :> "-") @@ ("a1" :> "t") @@ ("a2" :> "u") @@ ("b2" :> "u") @@ ("b3" :> "-")

To(b) == [to |-> b, accepted |-> TRUE, side |-> FALSE]
Quiet(b) == [to |-> b, accepted |-> FALSE, side |-> FALSE]
Ask == [poll |-> FALSE, txn |-> FALSE]
AskTxn == [poll |-> FALSE, txn |-> TRUE]
Poll == [poll |-> TRUE, txn |-> FALSE]
Quietly == [moves |-> <<>>, txs |-> <<>>, ticks |-> 0, templates |-> [m \in {"m", "n"} |-> <<>>],
         queries |-> [c \in {"c"} |-> <<>>],
         bodies |-> [c \in {"x", "y"} |-> [user |-> "absent", body |-> [batch |-> FALSE, parses |-> FALSE, reqs |-> <<>>]]]]

(* Templates and long polls while the chain grows and reorganizes.         *)
Mining(mv, t, n, m1, m2) ==
    [Quietly EXCEPT !.moves = mv, !.txs = t, !.ticks = n, !.templates = ("m" :> m1) @@ ("n" :> m2)]
Templates ==
    {Mining(<<To("a1"), To("a2")>>, <<>>, 0, <<Ask, Poll>>, <<AskTxn>>),
     Mining(<<To("a1"), To("a2"), To("b3")>>, <<>>, 0, <<Ask, Poll>>, <<>>),
     Mining(<<To("a1")>>, <<"u">>, 2, <<Ask, Poll>>, <<AskTxn>>)}

Get(method, b) == [method |-> method, block |-> b, tx |-> "-"]
GetTx(method, t) == [method |-> method, block |-> "g", tx |-> t]

Queries ==
    {[Quietly EXCEPT !.moves = mv, !.txs = <<"u">>, !.queries = ("c" :> <<q>>)] :
        mv \in {<<Quiet("a1"), Quiet("a2"), Quiet("b3")>>},
        q \in {Get(k, b) : k \in {"getblock", "getblockheader", "proposal"}, b \in {"a1", "a2"}}
              \cup {GetTx(k, t) : k \in {"getrawtransaction", "gettxout"}, t \in {"t", "u"}}
              \cup {Get(k, "g") : k \in {"verifychain", "getnetworkhashps"}}}

Request(form, id, version, method) == [form |-> form, id |-> id, version |-> version, method |-> method]
Requests == {Request("ok", "1", "2.0", "limited"), Request("ok", "nil", "2.0", "limited"),
             Request("ok", "nil", "", "full"), Request("ok", "2", "", "full"), Request("ok", "3", "2.0", "unknown"),
             Request("empty", "4", "2.0", ""), Request("bad", "nil", "", "")}
Bodies ==
    {[batch |-> FALSE, parses |-> TRUE, reqs |-> <<r>>] : r \in {q \in Requests : q.form # "bad"}}
    \cup {[batch |-> TRUE, parses |-> TRUE, reqs |-> s] : s \in {<<>>} \cup [1 .. 2 -> Requests]}
    \cup {[batch |-> k, parses |-> FALSE, reqs |-> <<>>] : k \in BOOLEAN}
Posts ==
    {[Quietly EXCEPT !.bodies = ("x" :> [user |-> u, body |-> b]) @@ ("y" :> [user |-> v, body |-> d])] :
        u \in {"admin", "limited"}, b \in Bodies, v \in {"nobody", "limited"},
        d \in {[batch |-> FALSE, parses |-> FALSE, reqs |-> <<>>]}}

RpcScripts == Templates \cup Queries \cup Posts

Rpc == INSTANCE Rpc
    WITH Tree <- ChainTree, Genesis <- "g", TxOf <- Contents, NoTx <- "-",
         Miners <- {"m", "n"}, Queriers <- {"c"}, Conns <- {"x", "y"},
         RegenerateSeconds <- 0, RPCMaxClients <- 1, RPCQuirks <- TRUE,
         Scripts <- RpcScripts, txs <- arrivals

\* What the RPC server answers is true of the chain at some time of the
\* request: templates are current and pay their coinbase, long polls wake up, a
\* transaction that is there is found, and batches are answered in order within
\* the limit on clients.
AnswersSound == machine = "rpc" => Rpc!AnswersSound

-----------------------------------------------------------------------------
(* The notification manager and its clients.                               *)

WsClients == {"c1", "c2"}
WsTx(ins, outs) == [ins |-> ins, outs |-> outs]
WsTxs == [t \in {"t1", "t2", "t3", "cb"} |->
            CASE t = "t1" -> WsTx(<<<<"old", 1>>>>, <<{"k"}, {"z"}>>)
              [] t = "t2" -> WsTx(<<<<"t1", 1>>>>, <<{"z"}, {"h"}>>)
              [] t = "t3" -> WsTx(<<<<"t1", 1>>, <<"old", 2>>>>, <<{"z"}>>)
              [] t = "cb" -> WsTx(<<<<"none", 1>>>>, <<{"z"}>>)]
Encoding == [a \in {"h", "k", "z"} |-> IF a = "k" THEN "h" ELSE a]
WsBlock(prev, txs) == [prev |-> prev, txs |-> txs]
WsBlocks == [b \in {"g", "b1", "b2", "d1", "d2"} |->
               CASE b = "g" -> WsBlock("none", <<"cb">>) [] b = "b1" -> WsBlock("g", <<"t1">>) [] b = "b2" -> WsBlock("b1", <<"t2">>)
                 [] b = "d1" -> WsBlock("g", <<"t1", "t3">>) [] b = "d2" -> WsBlock("b1", <<"t3">>)]

Order(method, addrs, ops, list, verbose) == [method |-> method, addrs |-> addrs, ops |-> ops, list |-> list, verbose |-> verbose]
Plainly(method) == Order(method, <<>>, <<>>, <<>>, FALSE)
Event(kind, what) == [kind |-> kind, what |-> what]
Session(start, pr, x, y, ev) ==
    [chain |-> start, pruned |-> pr, max |-> 2, calls |-> [c \in WsClients |-> IF c = "c1" THEN x ELSE y], events |-> ev]

RescanAll == Order("rescan", <<"h">>, <<>>, <<"g">>, FALSE)
Growth == <<Event("connect", "b1"), Event("connect", "b2")>>
Reorg == <<Event("connect", "b1"), Event("connect", "b2"), Event("disconnect", "none"), Event("connect", "d2")>>
Deep == <<Event("connect", "b1"), Event("disconnect", "none"), Event("connect", "d1")>>
Relayed == <<Event("accept", "t1"), Event("announce", "t1"), Event("accept", "t2"), Event("announce", "t2"), Event("connect", "b1"), Event("connect", "b2")>>
Sessions ==
    {Session(<<"g">>, {}, <<RescanAll>>, <<Plainly("notifyblocks")>>, Growth),
     Session(<<"g">>, {}, <<RescanAll>>, <<>>, Reorg),
     Session(<<"g", "b1">>, {}, <<RescanAll>>, <<>>, <<Event("accept", "t2"), Event("announce", "t2"), Event("disconnect", "none"), Event("connect", "d1"), Event("close", "c1")>>),
     Session(<<"g">>, {}, <<Order("notifyreceived", <<"h">>, <<>>, <<>>, FALSE)>>, <<Order("notifyspent", <<>>, <<<<"t1", 1>>>>, <<>>, FALSE)>>, Relayed),
     Session(<<"g">>, {}, <<Order("notifyreceived", <<"h">>, <<>>, <<>>, FALSE), Plainly("notifyblocks")>>, <<>>, Deep \o <<Event("close", "c1")>>),
     Session(<<"g">>, {}, <<Order("notifyreceived", <<"h", "z">>, <<>>, <<>>, FALSE), Order("stopnotifyreceived", <<"z">>, <<>>, <<>>, FALSE)>>,
            <<Order("notifyspent", <<>>, <<<<"t1", 1>>, <<"old", 1>>>>, <<>>, FALSE), Order("stopnotifyspent", <<>>, <<<<"old", 1>>>>, <<>>, FALSE)>>,
            <<Event("connect", "b1"), Event("close", "c2")>>),
     Session(<<"g">>, {}, <<Order("loadtxfilter", <<"h">>, <<>>, <<>>, FALSE), Order("rescanblocks", <<>>, <<>>, <<"g", "b1">>, FALSE)>>,
            <<Order("notifynewtransactions", <<>>, <<>>, <<>>, TRUE), Plainly("stopnotifynewtransactions")>>,
            <<Event("accept", "t1"), Event("announce", "t1"), Event("connect", "b1")>>),
     Session(<<"g", "b1">>, {}, <<Order("rescan", <<"h">>, <<>>, <<"g", "b1">>, FALSE)>>, <<Order("rescan", <<>>, <<>>, <<"g">>, FALSE)>>, <<Event("disconnect", "none")>>),
     Session(<<"g", "b1">>, {"b1"}, <<RescanAll>>, <<Order("rescan", <<"h">>, <<>>, <<"g", "b1">>, FALSE)>>, <<>>),
     Session(<<"g", "b1", "b2">>, {"b1"}, <<Order("rescan", <<"h">>, <<>>, <<"g", "b2">>, FALSE)>>, <<>>, <<>>),
     [Session(<<"g">>, {}, <<Plainly("notifyblocks")>>, <<Plainly("notifyblocks")>>, <<Event("connect", "b1")>>) EXCEPT !.max = 1],
     Session(<<"g">>, {}, <<Plainly("notifyblocks"), Plainly("stopnotifyblocks")>>, <<>>, Growth)}

Ws == INSTANCE Websocket
    WITH Clients <- WsClients, Txs <- WsTxs, Blocks <- WsBlocks, Genesis
         <- "g", Encode <- Encoding, MaxInvPerMsg <- 2, Scripts <-
         Sessions, pool <- mempool


-----------------------------------------------------------------------------
(* The metadata database.                                                  *)

Op(do, path, name) == [do |-> do, path |-> path, name |-> name, val |-> 7]
OpPut(path, name, val) == [do |-> "put", path |-> path, name |-> name, val |-> val]
CallOf(kind, ops, end) == [kind |-> kind, ops |-> ops, end |-> end]
TxPlan(race, failures, w, v, r, c) ==
    [part |-> "tx", race |-> race, faults |-> failures, calls |-> ("w" :> w) @@ ("v" :> v) @@ ("r" :> r) @@ ("c" :> c)]
Walking == <<Op("first", <<1>>, 0), Op("next", <<1>>, 0), Op("next", <<1>>, 0)>>
Backing == <<Op("last", <<1>>, 0), Op("prev", <<1>>, 0), Op("prev", <<1>>, 0)>>
W1 == CallOf("update", <<OpPut(<<1>>, 3, 8), Op("delete", <<1>>, 5), Op("get", <<1>>, 5)>>, "ok")
W2 == CallOf("update", <<OpPut(<<1>>, 5, 9), Op("get", <<1>>, 2)>>, "ok")
W3 == CallOf("beginw", <<OpPut(<<1>>, 4, 6), OpPut(<<1>>, 2, 5), Op("delete", <<1>>, 3)>> \o Walking \o <<Op("foreach", <<1>>, 0)>>, "commit")
RView == CallOf("view", Walking, "ok")
RBack == CallOf("view", Backing \o <<Op("seek", <<1>>, 3), Op("next", <<1>>, 0)>>, "err")
Nest == CallOf("update", <<Op("create", <<1>>, 1), OpPut(<<1, 1>>, 1, 4), OpPut(<<1, 1>>, 2, 4), OpPut(<<1>>, 5, 3), Op("buckets", <<1>>, 0), Op("drop", <<>>, 1),
                         Op("create", <<>>, 2), Op("foreach", <<2>>, 0)>>, "ok")
Nest2 == CallOf("update", <<Op("create", <<>>, 3), Op("foreach", <<3>>, 0), Op("buckets", <<>>, 0), Op("first", <<>>, 0), Op("next", <<>>, 0)>>, "ok")
CurDel == CallOf("update", <<OpPut(<<1>>, 3, 8), Op("first", <<1>>, 0), Op("remove", <<1>>, 0), Op("next", <<1>>, 0), Op("remove", <<1>>, 0), Op("next", <<1>>, 0), Op("next", <<1>>, 0)>>, "ok")
CloseDb == CallOf("close", <<>>, "ok")
FlushDb == CallOf("flush", <<>>, "ok")
Inside(k) == CallOf(k, <<OpPut(<<1>>, 3, 8)>>, "inside")
DbPlans ==
  { [part |-> "tree", race |-> FALSE, faults |-> 0, calls |-> [p \in {"w", "v", "r", "c"} |-> <<>>]],
    TxPlan(FALSE, 0, <<W1, W3>>, <<W2>>, <<RView>>, <<>>),
    TxPlan(FALSE, 1, <<W1, W2>>, <<>>, <<RView>>, <<FlushDb, CloseDb>>),
    TxPlan(FALSE, 0, <<W1>>, <<W3>>, <<RBack>>, <<FlushDb>>),
    TxPlan(FALSE, 1, <<Nest, Nest2>>, <<>>, <<>>, <<FlushDb>>),
    TxPlan(FALSE, 0, <<W1, CurDel>>, <<>>, <<>>, <<FlushDb, CloseDb>>),
    TxPlan(FALSE, 0, <<Inside("update"), W2>>, <<W1>>, <<CallOf("begin", <<>>, "commit")>>, <<CloseDb>>),
    TxPlan(FALSE, 0, <<CallOf("update", <<OpPut(<<1>>, 3, 8)>>, "panic"), W2>>, <<CallOf("beginw", <<Op("delete", <<1>>, 2)>>, "rollback")>>, <<CallOf("view", <<Op("get", <<1>>, 2)>>, "inside")>>, <<CloseDb>>),
    TxPlan(TRUE, 0, <<W1, W2>>, <<>>, <<RView>>, <<>>)}

Db == INSTANCE Database
    WITH Callers <- {"w", "v", "r", "c"}, Plans <- DbPlans, MaxCached <-
         3, TreeKeys <- {1, 2, 3}, Priorities <- {1, 2}, MaxTreeOps <- 4,
         plan <- dbPlan, tree <- treap, disk <- leveldb, cache <- dbCache,
         tx <- dbTx, closed <- dbClosed, commits <- dbCommits

\* The metadata database keeps its promises: treaps and their iterators are
\* exact, transactions isolated, commits kept and locks released once.
DatabaseSound == machine = "database" => Db!DatabaseSound

\* A transaction reads a state that was committed when it began.
SnapshotsWhole == machine = "database" => Db!SnapshotsWhole

-----------------------------------------------------------------------------
Machines == {"store", "file", "addrindex", "rpc", "notifier", "database"}

FileIdle ==
    offsetFile = 0 /\ dataFile = 0 /\ state = 0 /\ todo = 0 /\ allowed = 0
    /\ faults = 0

AddrindexIdle ==
    course = 0 /\ ledger = 0 /\ idByHash = 0 /\ hashByID = 0 /\ txEntries = 0
    /\ curBlockID = 0 /\ levels = 0 /\ txnsByAddr = 0 /\ addrsByTx = 0
    /\ unconfirmed = 0 /\ bucket = 0 /\ dropper = 0

RpcIdle ==
    indexed = 0 /\ best = 0 /\ snap = 0 /\ move = 0 /\ pool = 0 /\ past = 0
    /\ moves = 0 /\ arrivals = 0 /\ ticks = 0 /\ clock = 0 /\ lastUpdated = 0
    /\ work = 0 /\ lock = 0 /\ notes = 0 /\ miner = 0 /\ query = 0 /\ conn = 0
    /\ numClients = 0

NotifierIdle ==
    chain = 0 /\ mempool = 0 /\ returned = 0 /\ pruned = 0 /\ paused = 0
    /\ queue = 0 /\ mgr = 0 /\ cli = 0 /\ sent = 0 /\ serving = 0
    /\ rescan = 0 /\ calls = 0 /\ events = 0

DatabaseIdle ==
    dbPlan = 0 /\ treap = 0 /\ leveldb = 0 /\ dbCache = 0 /\ dbTx = 0
    /\ writeLock = 0 /\ dbClosed = 0 /\ dbCommits = 0

MCInit ==
    /\ machine \in Machines
    /\ Init
    /\ IF machine = "file" THEN File!FileInit ELSE FileIdle
    /\ IF machine = "addrindex" THEN Addrs!AddrInit ELSE AddrindexIdle
    /\ IF machine = "rpc" THEN Rpc!RpcInit ELSE RpcIdle
    /\ IF machine = "notifier" THEN Ws!WsInit ELSE NotifierIdle
    /\ IF machine = "database" THEN Db!DbInit ELSE DatabaseIdle

StoreStep ==
    /\ machine = "store" /\ Next
    /\ UNCHANGED <<machine, FileVars, AddrindexVars, RpcVars, NotifierVars, DatabaseVars>>

FileStep ==
    /\ machine = "file" /\ File!FileNext
    /\ UNCHANGED <<machine, vars, AddrindexVars, RpcVars, NotifierVars, DatabaseVars>>

AddrindexStep ==
    /\ machine = "addrindex" /\ Addrs!AddrNext
    /\ UNCHANGED <<machine, vars, FileVars, RpcVars, NotifierVars, DatabaseVars>>

RpcStep ==
    /\ machine = "rpc" /\ Rpc!RpcNext
    /\ UNCHANGED <<machine, vars, FileVars, AddrindexVars, NotifierVars, DatabaseVars>>

NotifierStep ==
    /\ machine = "notifier" /\ Ws!WsNext
    /\ UNCHANGED <<machine, vars, FileVars, AddrindexVars, RpcVars, DatabaseVars>>

DatabaseStep ==
    /\ machine = "database" /\ Db!DbNext
    /\ UNCHANGED <<machine, vars, FileVars, AddrindexVars, RpcVars, NotifierVars>>

MCNext ==
    StoreStep \/ FileStep \/ AddrindexStep \/ RpcStep \/ NotifierStep
    \/ DatabaseStep

all == <<machine, vars, FileVars, AddrindexVars, RpcVars, NotifierVars, DatabaseVars>>

MCSpec == MCInit /\ [][MCNext]_all
=============================================================================
