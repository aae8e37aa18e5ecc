-------------------------------- MODULE Rpc --------------------------------
(***************************************************************************)
(* The RPC server over a moving chain (rpcserver.go): the block templates  *)
(* of getblocktemplate and their long polls, the queries that read the     *)
(* chain, the indexes and the memory pool in several steps, and the HTTP   *)
(* requests, single or batched, that carry the calls.                      *)
(*                                                                         *)
(* The chain moves one block at a time: the indexes first, then the view   *)
(* of the best chain, then the snapshot; the chain lock is free only while *)
(* the block's notification runs.  Nothing holds that lock across the      *)
(* reads of a query.                                                       *)
(***************************************************************************)
EXTENDS Integers, Sequences, FiniteSets

CONSTANTS
    Tree,               \* block -> its parent; the first block is its own parent
    Genesis,
    TxOf,               \* block -> the transaction it contains, or NoTx
    NoTx,
    Miners,             \* callers of getblocktemplate
    Queriers,           \* callers of the other methods
    Conns,              \* HTTP connections
    RegenerateSeconds,  \* gbtRegenerateSeconds
    RPCMaxClients,
    RPCQuirks,
    Scripts             \* bound: [moves, txs, ticks, templates, queries, bodies] of a behaviour

VARIABLES
    indexed, best, snap,    \* tip of the indexes, of bestChain, of stateSnapshot
    move,                   \* the reorganization under way
    pool,                   \* transactions of the memory pool
    past,                   \* history: moves begun, and steps that took a block off the chain
    moves, txs, ticks,      \* what is still to happen to them
    clock, lastUpdated,     \* seconds; when the pool last changed, 0 at first
    work,                   \* gbtWorkState
    lock,                   \* the miner that holds its mutex
    notes,                  \* goroutines started by its Notify functions
    miner, query,
    conn, numClients        \* HTTP handlers and their count

chainVars == <<indexed, best, snap, move, pool, past, moves, txs>>
workVars == <<ticks, clock, lastUpdated, work, lock, notes, miner>>
httpVars == <<conn, numClients>>
rpcVars == <<chainVars, workVars, query, httpVars>>

TreeBlocks == DOMAIN Tree
NoMiner == "nobody"
NoMove == [to |-> Genesis, at |-> "done", accepted |-> FALSE, moved |-> Genesis]

(* Branch[b] is the chain that ends in b, from the first block.            *)
Branch ==
    [b \in TreeBlocks |->
        LET up[n \in 0 .. Cardinality(TreeBlocks)] == IF n = 0 THEN <<b>>
                                                  ELSE IF Head(up[n - 1]) = Genesis THEN up[n - 1]
                                                  ELSE <<Tree[Head(up[n - 1])]>> \o up[n - 1]
        IN up[Cardinality(TreeBlocks)]]
HeightOf(b) == Len(Branch[b]) - 1
OnBranch(b, tip) == \E i \in DOMAIN Branch[tip] : Branch[tip][i] = b
NextTo(tip, target) ==
    IF OnBranch(tip, target) THEN Branch[target][HeightOf(tip) + 2] ELSE Tree[tip]

-----------------------------------------------------------------------------
(* The chain.  A move takes it to another tip block by block; an accepted  *)
(* block is announced once its move is over, what invalidateblock and      *)
(* reconsiderblock do is not.                                              *)

chainLocked == move.at \in {"locked", "view", "snapshot"}

StartMove ==
    /\ move.at = "done" /\ moves # <<>>
    /\ moves' = Tail(moves)
    /\ move' = [to |-> Head(moves).to, accepted |-> Head(moves).accepted, moved |-> best,
                at |-> IF Head(moves).to = best \/ Head(moves).side THEN "accepted" ELSE "locked"]
    /\ past' = [past EXCEPT !.moves = @ + 1]
    /\ UNCHANGED <<indexed, best, snap, pool, txs, workVars, query, httpVars>>

MoveIndexes ==
    /\ move.at = "locked"
    /\ indexed' = NextTo(best, move.to)
    /\ move' = [move EXCEPT !.at = "view", !.moved = best]
    /\ past' = [past EXCEPT !.undone = IF OnBranch(best, move.to) THEN @ ELSE @ + 1]
    /\ UNCHANGED <<best, snap, pool, moves, txs, workVars, query, httpVars>>

MoveView ==
    /\ move.at = "view"
    /\ best' = indexed
    /\ move' = [move EXCEPT !.at = "snapshot"]
    /\ past' = [past EXCEPT !.undone = IF Tree[indexed] = best THEN @ ELSE @ + 1]
    /\ UNCHANGED <<indexed, snap, pool, moves, txs, workVars, query, httpVars>>

MoveSnapshot ==
    /\ move.at = "snapshot"
    /\ snap' = best
    /\ move' = [move EXCEPT !.at = "notify"]
    /\ past' = [past EXCEPT !.undone = IF Tree[best] = snap THEN @ ELSE @ + 1]
    /\ UNCHANGED <<indexed, best, pool, moves, txs, workVars, query, httpVars>>

(* The sync manager's part in the notification: a connected block takes    *)
(* its transaction out of the pool, a disconnected one puts it back.       *)
Notified ==
    /\ move.at = "notify"
    /\ pool' = IF Tree[best] = move.moved THEN pool \ {TxOf[best]}
               ELSE pool \cup ({TxOf[move.moved]} \ {NoTx})
    /\ move' = [move EXCEPT !.at = IF best = move.to THEN "accepted" ELSE "locked"]
    /\ UNCHANGED <<indexed, best, snap, past, moves, txs, workVars, query, httpVars>>

-----------------------------------------------------------------------------
(* gbtWorkState.  prevHash, lastGenerated and lastTxUpdate say what the    *)
(* template was made for; notifyMap holds the channels long polls wait on, *)
(* one per previous block and second of generation.                        *)

NoTemplate == [prev |-> "none", paid |-> FALSE]
newGbtWorkState == [template |-> NoTemplate, prevHash |-> "none", lastGenerated |-> 0,
                    lastTxUpdate |-> 0, notifyMap |-> {}]

(* Mutant: only channels of the same previous block are looked at.         *)
NotifySameBlock(w, latest, at) == {c \in w.notifyMap : c.prev = latest /\ at # 0 /\ c.at < at}

(* The channels notifyLongPollers closes.                                  *)
notifyLongPollers(w, latest, at) ==
    {c \in w.notifyMap : c.prev # latest \/ (at # 0 /\ c.at < at)}

Closed(w, channels) == [w EXCEPT !.notifyMap = @ \ channels]
Wake(ms, channels) ==
    [m \in Miners |-> IF ms[m].at = "waiting" /\ ms[m].poll \in channels
                      THEN [ms[m] EXCEPT !.at = "woken"] ELSE ms[m]]

NotifyBlockConnected ==
    /\ lock = NoMiner
    /\ \E n \in notes :
        /\ n.kind = "block"
        /\ notes' = notes \ {n}
        /\ \E c \in {notifyLongPollers(work, n.hash, work.lastTxUpdate)} :
            work' = Closed(work, c) /\ miner' = Wake(miner, c)
    /\ UNCHANGED <<chainVars, ticks, clock, lastUpdated, lock, query, httpVars>>

NotifyMempoolTx ==
    /\ lock = NoMiner
    /\ \E n \in notes :
        /\ n.kind = "tx"
        /\ notes' = notes \ {n}
        /\ IF work.prevHash # "none" /\ work.lastGenerated # 0
              /\ clock > work.lastGenerated + RegenerateSeconds
           THEN \E c \in {notifyLongPollers(work, work.prevHash, n.at)} :
                    work' = Closed(work, c) /\ miner' = Wake(miner, c)
           ELSE UNCHANGED <<work, miner>>
    /\ UNCHANGED <<chainVars, ticks, clock, lastUpdated, lock, query, httpVars>>

(* handleBlockchainNotification: only the acceptance of a block reaches    *)
(* the work state.                                                         *)
handleBlockchainNotification ==
    /\ move.at = "accepted"
    /\ notes' = notes \cup {n \in {[kind |-> "block", hash |-> move.to, at |-> 0]} : move.accepted}
    /\ move' = NoMove
    /\ UNCHANGED <<indexed, best, snap, pool, past, moves, txs, ticks, clock, lastUpdated, work, lock,
                   miner, query, httpVars>>

NotifyNewTransactions ==
    /\ txs # <<>>
    /\ txs' = Tail(txs)
    /\ pool' = pool \cup {Head(txs)}
    /\ lastUpdated' = clock
    /\ notes' = notes \cup {[kind |-> "tx", hash |-> Genesis, at |-> clock]}
    /\ UNCHANGED <<indexed, best, snap, move, past, moves, ticks, clock, work, lock, miner, query, httpVars>>

Tick ==
    /\ ticks > 0
    /\ ticks' = ticks - 1 /\ clock' = clock + 1
    /\ UNCHANGED <<chainVars, lastUpdated, work, lock, notes, miner, query, httpVars>>

-----------------------------------------------------------------------------
(* A call of getblocktemplate.  c.poll is the long poll id it carries, if  *)
(* any; c.txn whether it asks for a coinbase transaction.                  *)

NoPoll == [prev |-> "none", at |-> 0]
TxTime == IF lastUpdated = 0 THEN clock ELSE lastUpdated

(* Whether updateBlockTemplate makes a new template.                       *)
MustGenerate(w, latest, lastTx) ==
    \/ w.template = NoTemplate \/ w.prevHash = "none" \/ w.prevHash # latest
    \/ w.lastTxUpdate # lastTx /\ clock > w.lastGenerated + RegenerateSeconds

(* The template as it is returned: blockTemplateResult.                    *)
blockTemplateResult(w, c) ==
    [prev |-> w.template.prev, id |-> [prev |-> w.prevHash, at |-> w.lastGenerated],
     error |-> IF c.txn /\ ~w.template.paid THEN "unpaid" ELSE "none", poll |-> c.poll, tip |-> best,
     atRest |-> c.atRest /\ move.at = "done" /\ c.began = past.moves]

Answered(c, w) ==
    [c EXCEPT !.at = "idle", !.reply = blockTemplateResult(w, c)]

(* The end of a call that has its template: it answers, or registers a     *)
(* channel and waits.                                                      *)
handleGetBlockTemplateLongPoll(w, c) ==
    IF c.poll = NoPoll \/ c.after \/ c.poll.prev # w.template.prev \/ c.poll.at # w.lastGenerated
    THEN [work |-> w, call |-> Answered(c, w)]
    ELSE [work |-> [w EXCEPT !.notifyMap = @ \cup {c.poll}],
          call |-> [c EXCEPT !.at = "waiting"]]

(* The first half of updateBlockTemplate, under the work state's mutex.    *)
updateBlockTemplate(m, c) ==
    IF MustGenerate(work, c.latest, c.lastTx)
    THEN /\ work' = [work EXCEPT !.prevHash = "none"]
         /\ lock' = m
         /\ miner' = [miner EXCEPT ![m] = [c EXCEPT !.at = "generate"]]
    ELSE \E w \in {[work EXCEPT !.template.paid = @ \/ c.txn]} :
         \E r \in {handleGetBlockTemplateLongPoll(w, c)} :
            /\ work' = r.work
            /\ lock' = NoMiner
            /\ miner' = [miner EXCEPT ![m] = r.call]

handleGetBlockTemplateRequest(m) ==
    /\ lock = NoMiner
    /\ miner[m].at = "idle" /\ miner[m].left # <<>>
    /\ \E ask \in {Head(miner[m].left)} :
        updateBlockTemplate(m, [miner[m] EXCEPT !.left = Tail(@), !.txn = ask.txn, !.after = FALSE,
                                    !.poll = IF ask.poll THEN miner[m].reply.id ELSE NoPoll,
                                    !.latest = snap, !.lastTx = TxTime, !.atRest = move.at = "done",
                                    !.began = past.moves])
    /\ UNCHANGED <<chainVars, ticks, clock, lastUpdated, notes, query, httpVars>>

(* NewBlockTemplate makes a block on the tip and checks it under the chain *)
(* lock, which fails when the tip moved meanwhile.                         *)
GenerateTemplate(m) ==
    /\ miner[m].at = "generate" /\ ~chainLocked
    /\ \E w \in {[work EXCEPT !.template = [prev |-> best, paid |-> miner[m].txn],
                              !.lastGenerated = clock, !.lastTxUpdate = miner[m].lastTx,
                              !.prevHash = miner[m].latest]} :
       \E c \in {notifyLongPollers(w, miner[m].latest, miner[m].lastTx)} :
       \E r \in {handleGetBlockTemplateLongPoll(Closed(w, c), miner[m])} :
        /\ work' = r.work
        /\ miner' = Wake([miner EXCEPT ![m] = r.call], c)
    /\ lock' = NoMiner
    /\ UNCHANGED <<chainVars, ticks, clock, lastUpdated, notes, query, httpVars>>

GenerateFails(m) ==
    /\ miner[m].at = "generate"
    /\ best # miner[m].latest
    /\ miner' = [miner EXCEPT ![m] = [@ EXCEPT !.at = "idle", !.reply.error = "generate"]]
    /\ lock' = NoMiner
    /\ UNCHANGED <<chainVars, ticks, clock, lastUpdated, work, notes, query, httpVars>>

(* A closed channel, or the caller hanging up.                             *)
LongPollWakes(m) ==
    /\ lock = NoMiner /\ miner[m].at = "woken"
    /\ updateBlockTemplate(m, [miner[m] EXCEPT !.after = TRUE, !.latest = snap, !.lastTx = TxTime,
                                               !.atRest = move.at = "done", !.began = past.moves])
    /\ UNCHANGED <<chainVars, ticks, clock, lastUpdated, notes, query, httpVars>>

LongPollQuits(m) ==
    /\ miner[m].at = "waiting"
    /\ miner' = [miner EXCEPT ![m].at = "idle"]
    /\ UNCHANGED <<chainVars, ticks, clock, lastUpdated, work, lock, notes, query, httpVars>>

-----------------------------------------------------------------------------
(* The queries.  Each handler is the list of its reads, in order; a read   *)
(* fails the call, ends it with an answer, or fills in a field.            *)

handleGetBlock == <<"data", "height", "best", "next">>
handleGetBlockHeader == <<"header", "height", "best", "next">>
handleGetTxOut == <<"have", "fetch", "utxo", "best">>
verifyChain == <<"best", "walk">>
handleGetNetworkHashPS == <<"best", "climb">>
handleGetBlockTemplateProposal == <<"prevblock", "connect">>

handleGetRawTransaction == <<"pool", "region", "height", "header", "best">>

Reads(method) ==
    CASE method = "getblock" -> handleGetBlock
      [] method = "getblockheader" -> handleGetBlockHeader
      [] method = "getrawtransaction" -> handleGetRawTransaction
      [] method = "gettxout" -> handleGetTxOut
      [] method = "verifychain" -> verifyChain
      [] method = "getnetworkhashps" -> handleGetNetworkHashPS
      [] method = "proposal" -> handleGetBlockTemplateProposal

(* The block of the branch of tip that holds tx, if any.                   *)
Holding(tx, tip) == {b \in TreeBlocks : OnBranch(b, tip) /\ TxOf[b] = tx}
Known(tx) == tx \in pool \/ (Holding(tx, indexed) # {} /\ Holding(tx, best) # {})

Fails(q, why) == [q EXCEPT !.at = "replied", !.answer = why]
Next1(q) == [q EXCEPT !.pc = @ + 1]
NextHash(q) == IF q.height < q.bestHeight THEN q.height + 1 ELSE -1

(* One read of query q: its outcomes.  FetchUtxoEntry and the check of a   *)
(* proposal wait for the chain lock.                                       *)
BlockHeightByHash(q) ==
    IF OnBranch(q.block, best) THEN [Next1(q) EXCEPT !.height = HeightOf(q.block)] ELSE Fails(q, "error")
BestSnapshot(q) ==
    [Next1(q) EXCEPT !.bestHeight = HeightOf(snap), !.bestHash = snap,
                     !.cursor = IF q.method = "verifychain" THEN HeightOf(snap) ELSE 0]
BlockHashByHeight(q, h) ==
    IF h < 0 THEN Next1(q)
    ELSE IF h > HeightOf(best) THEN Fails(q, "error")
    ELSE [Next1(q) EXCEPT !.next = Branch[best][h + 1]]
TxFromPool(q) == IF q.tx \in pool THEN Fails(q, "unconfirmed") ELSE Next1(q)
TxBlockRegion(q) ==
    IF Holding(q.tx, indexed) = {} THEN Fails(q, "unknown")
    ELSE [Next1(q) EXCEPT !.block = CHOOSE b \in Holding(q.tx, indexed) : TRUE]
HaveThenFetch(q) ==
    CASE Reads(q.method)[q.pc] = "have" -> [Next1(q) EXCEPT !.pc = IF q.tx \in pool THEN 2 ELSE 3]
      [] OTHER -> IF q.tx \in pool THEN Fails(q, "unconfirmed") ELSE Fails(q, "unknown")
FetchUtxoEntry(q) ==
    IF Holding(q.tx, best) = {} THEN Fails(q, "unknown")
    ELSE [Next1(q) EXCEPT !.block = CHOOSE b \in Holding(q.tx, best) : TRUE,
                          !.height = HeightOf(CHOOSE b \in Holding(q.tx, best) : TRUE)]
(* One height of the loops of verifyChain, downwards, and of               *)
(* getnetworkhashps, upwards.                                              *)
Loop(q) ==
    LET finished == IF q.method = "verifychain" THEN q.cursor = 0 ELSE q.cursor > q.bestHeight IN
    IF finished THEN Next1(q)
    ELSE IF q.cursor > HeightOf(best) THEN Fails(q, "error")
    ELSE [q EXCEPT !.cursor = IF q.method = "verifychain" THEN @ - 1 ELSE @ + 1]

Read(q) ==
    LET step == Reads(q.method)[q.pc] IN
    CASE step \in {"data", "header"} -> Next1(q)
      [] step = "height" -> BlockHeightByHash(q)
      [] step = "best" -> BestSnapshot(q)
      [] step = "next" -> BlockHashByHeight(q, NextHash(q))
      [] step = "pool" -> TxFromPool(q)
      [] step = "region" -> TxBlockRegion(q)
      [] step \in {"have", "fetch"} -> HaveThenFetch(q)
      [] step = "utxo" -> FetchUtxoEntry(q)
      [] step \in {"walk", "climb"} -> Loop(q)
      [] step = "prevblock" -> IF Tree[q.block] = snap THEN Next1(q) ELSE Fails(q, "bad-prevblk")
      [] step = "connect" -> IF Tree[q.block] = best THEN Next1(q) ELSE Fails(q, "inconclusive-not-best-prvblk")

(* No block is being taken off the chain.                                  *)
Growing == OnBranch(snap, best) /\ OnBranch(best, indexed)

StartQuery(c) ==
    /\ query[c].at = "idle" /\ query[c].left # <<>>
    /\ \E ask \in {Head(query[c].left)} :
        query' = [query EXCEPT ![c] = [@ EXCEPT !.left = Tail(@), !.at = "reading", !.pc = 1, !.next = "none",
                    !.method = ask.method, !.block = ask.block, !.tx = ask.tx, !.answer = "none",
                    !.began = past.undone, !.known = Known(ask.tx) /\ Growing,
                    !.from = IF OnBranch(ask.block, snap) /\ Growing THEN HeightOf(snap) ELSE -1]]
    /\ UNCHANGED <<chainVars, workVars, httpVars>>

ReadStep(c) ==
    /\ query[c].at = "reading"
    /\ Reads(query[c].method)[query[c].pc] \in {"utxo", "connect"} => ~chainLocked
    /\ \E q \in {Read(query[c])} :
        query' = [query EXCEPT ![c] =
                    IF q.at = "reading" /\ q.pc > Len(Reads(q.method))
                    THEN [q EXCEPT !.at = "replied", !.answer = "result",
                                   !.confirmations = 1 + q.bestHeight - q.height]
                    ELSE q]
    /\ UNCHANGED <<chainVars, workVars, httpVars>>

EndQuery(c) ==
    /\ query[c].at = "replied"
    /\ query' = [query EXCEPT ![c] = [@ EXCEPT !.at = "idle", !.answer = "none"]]
    /\ UNCHANGED <<chainVars, workVars, httpVars>>

-----------------------------------------------------------------------------
(* The HTTP server.  A body is [batch, parses, reqs]; a request            *)
(* [form, id, version, method].  form "bad" is an entry that is no         *)
(* request object, "empty" one without method or parameters.               *)

NoReply == <<>>
One(kind, r) == <<[id |-> r.id, kind |-> kind]>>
NoId == [id |-> "nil", kind |-> "error"]

processRequest(r, isAdmin) ==
    IF ~isAdmin /\ r.method # "limited" THEN One("refused", r)
    ELSE IF r.form = "empty" THEN One("malformed", r)
    ELSE IF r.id = "nil" THEN NoReply
    ELSE IF r.method = "unknown" THEN One("notfound", r)
    ELSE One("served", r)

(* What a single request is answered: after a body that cannot be parsed   *)
(* err is that of the marshalled reply, and the request has no id.         *)
SingleReply(body, isAdmin) ==
    IF ~body.parses THEN NoReply
    ELSE LET r == body.reqs[1] IN
         IF r.id = "nil" /\ ~(RPCQuirks /\ r.version = "") THEN NoReply
         ELSE processRequest(r, isAdmin)

BatchReply(body, isAdmin) ==
    LET upto[i \in 0 .. Len(body.reqs)] ==
            IF i = 0 THEN <<>>
            ELSE upto[i - 1] \o (IF body.reqs[i].form = "bad" THEN <<NoId>>
                                 ELSE processRequest(body.reqs[i], isAdmin))
    IN IF ~body.parses \/ body.reqs = <<>> THEN <<NoId>> ELSE upto[Len(body.reqs)]

limitConnections(c) ==
    /\ conn[c].at = "arrived"
    /\ conn' = [conn EXCEPT ![c].at = IF numClients + 1 > RPCMaxClients THEN "busy" ELSE "admitted"]
    /\ UNCHANGED <<chainVars, workVars, query, numClients>>

incrementClients(c) ==
    /\ conn[c].at = "admitted"
    /\ numClients' = numClients + 1
    /\ conn' = [conn EXCEPT ![c].at = "counted"]
    /\ UNCHANGED <<chainVars, workVars, query>>

checkAuth(c) ==
    /\ conn[c].at = "counted"
    /\ conn' = [conn EXCEPT ![c].at = IF conn[c].user = "nobody" THEN "unauthorized" ELSE "authorized"]
    /\ UNCHANGED <<chainVars, workVars, query, numClients>>

(* jsonRPCRead, which a hang-up of the client may interrupt: the goroutine *)
(* that watches the connection assigns the same err the parsing does.      *)
jsonRPCRead(c) ==
    /\ conn[c].at = "authorized"
    /\ \E interrupted \in {FALSE, conn[c].gone} :
        conn' = [conn EXCEPT ![c].at = "replied",
                    ![c].reply = IF interrupted THEN NoReply
                                 ELSE IF conn[c].body.batch THEN BatchReply(conn[c].body, conn[c].user = "admin")
                                 ELSE SingleReply(conn[c].body, conn[c].user = "admin")]
    /\ UNCHANGED <<chainVars, workVars, query, numClients>>

decrementClients(c) ==
    /\ conn[c].at \in {"replied", "unauthorized"}
    /\ numClients' = numClients - 1
    /\ conn' = [conn EXCEPT ![c].at = "closed"]
    /\ UNCHANGED <<chainVars, workVars, query>>

HangUp(c) ==
    /\ conn[c].at \in {"authorized"} /\ ~conn[c].gone
    /\ conn' = [conn EXCEPT ![c].gone = TRUE]
    /\ UNCHANGED <<chainVars, workVars, query, numClients>>

-----------------------------------------------------------------------------
NoReplyYet == [prev |-> "none", id |-> NoPoll, error |-> "none", poll |-> NoPoll, tip |-> Genesis, atRest |-> FALSE]

RpcInit ==
    /\ indexed = Genesis /\ best = Genesis /\ snap = Genesis /\ move = NoMove
    /\ pool = {} /\ past = [moves |-> 0, undone |-> 0] /\ clock = 1 /\ lastUpdated = 0
    /\ work = newGbtWorkState /\ lock = NoMiner /\ notes = {} /\ numClients = 0
    /\ \E s \in Scripts :
        /\ moves = s.moves /\ txs = s.txs /\ ticks = s.ticks
        /\ miner = [m \in Miners |-> [at |-> "idle", left |-> s.templates[m], txn |-> FALSE, poll |-> NoPoll,
                                      after |-> FALSE, latest |-> Genesis, lastTx |-> 0, atRest |-> FALSE, began |-> 0,
                                      reply |-> NoReplyYet]]
        /\ query = [c \in Queriers |-> [at |-> "idle", left |-> s.queries[c], pc |-> 1, method |-> "getblock",
                                        block |-> Genesis, tx |-> NoTx, height |-> 0, bestHeight |-> 0,
                                        bestHash |-> Genesis, next |-> "none", cursor |-> 0, answer |-> "none",
                                        confirmations |-> 0, began |-> 0, known |-> FALSE, from |-> -1]]
        /\ conn = [c \in Conns |-> [at |-> IF s.bodies[c].user = "absent" THEN "closed" ELSE "arrived",
                                    user |-> s.bodies[c].user, body |-> s.bodies[c].body,
                                    gone |-> FALSE, reply |-> NoReply]]

RpcNext ==
    \/ StartMove \/ MoveIndexes \/ MoveView \/ MoveSnapshot \/ Notified
    \/ handleBlockchainNotification \/ NotifyNewTransactions \/ NotifyBlockConnected \/ NotifyMempoolTx \/ Tick
    \/ \E m \in Miners : \/ handleGetBlockTemplateRequest(m) \/ GenerateTemplate(m) \/ GenerateFails(m)
                         \/ LongPollWakes(m) \/ LongPollQuits(m)
    \/ \E c \in Queriers : StartQuery(c) \/ ReadStep(c) \/ EndQuery(c)
    \/ \E c \in Conns : \/ limitConnections(c) \/ incrementClients(c) \/ checkAuth(c) \/ jsonRPCRead(c)
                        \/ decrementClients(c) \/ HangUp(c)

RpcSpec == RpcInit /\ [][RpcNext]_rpcVars

-----------------------------------------------------------------------------
AtRest == move.at = "done" /\ notes = {} /\ lock = NoMiner

(* Once the notifications of accepted blocks have run, no long poll waits  *)
(* on a template whose previous block is no longer the tip: a block that   *)
(* arrives while a poll registers, or between its registration and its     *)
(* wait, is not missed.                                                    *)
StalePollersWoken ==
    AtRest => \A m \in Miners : miner[m].at = "waiting" => miner[m].poll.prev = best

(* A template that was returned while the chain stood still builds on its  *)
(* tip, whatever the template before it was made for.                      *)
TemplateCurrent ==
    \A m \in Miners :
        \E r \in {miner[m].reply} : r.error = "none" /\ r.atRest => r.prev = r.tip

(* A coinbase transaction that was asked for always pays an address, also  *)
(* in a template first made for a caller that builds its own.              *)
CoinbasePaid ==
    \A m \in Miners : miner[m].reply.error # "unpaid"

(* getrawtransaction finds a transaction that was in the pool or in the    *)
(* chain when it was asked for, though the transaction moves from one to   *)
(* the other between its reads.                                            *)
NeverLost ==
    \A c \in Queriers : \E q \in {query[c]} :
        q.at = "replied" /\ q.method = "getrawtransaction" /\ q.known /\ q.began = past.undone
            => q.answer \in {"unconfirmed", "result"}

(* While blocks are only added, a query about a block of the chain is      *)
(* answered, with a count of confirmations between the one at its begin    *)
(* and the one at its end, and with a next block that follows it; and the  *)
(* loops over heights reach their end.                                     *)
GrowthHarmless ==
    \A c \in Queriers : \E q \in {query[c]} :
        q.at = "replied" /\ q.began = past.undone /\ q.from >= 0 =>
            /\ q.method \in {"verifychain", "getnetworkhashps"} => q.answer = "result"
            /\ q.method \in {"getblock", "getblockheader"} =>
                /\ q.answer = "result"
                /\ q.confirmations \in 1 + q.from - q.height .. 1 + HeightOf(snap) - q.height
                /\ q.next # "none" => Tree[q.next] = q.block

Awaited(body) == SelectSeq(body.reqs, LAMBDA r : r.id # "nil" \/ r.form # "ok")

(* Every request of a parsed body that is no notification is answered      *)
(* once, in order, with its id; a limited user is served nothing else.     *)
AnsweredInOrder ==
    \A c \in Conns :
        conn[c].at = "replied" /\ ~conn[c].gone /\ conn[c].body.parses =>
            /\ conn[c].user = "admin" =>
                [i \in DOMAIN conn[c].reply |-> conn[c].reply[i].id] =
                    IF conn[c].body.reqs = <<>> THEN <<"nil">>
                    ELSE IF ~conn[c].body.batch /\ conn[c].body.reqs[1].id = "nil" THEN <<>>
                    ELSE [i \in DOMAIN Awaited(conn[c].body) |-> Awaited(conn[c].body)[i].id]
            /\ conn[c].user = "limited" =>
                \A i \in DOMAIN conn[c].reply : conn[c].reply[i].kind = "served" =>
                    \E j \in DOMAIN conn[c].body.reqs :
                        conn[c].body.reqs[j].method = "limited" /\ conn[c].body.reqs[j].id = conn[c].reply[i].id

(* The count of clients is that of the connections being served: none that *)
(* ended, refused or answered, stays counted against rpcmaxclients.        *)
ClientsCounted ==
    numClients = Cardinality({c \in Conns : conn[c].at \in {"counted", "authorized", "unauthorized", "replied"}})

\* What the RPC server answers is true of the chain at some time of the
\* request: templates are current and pay their coinbase, long polls wake up, a
\* transaction that is there is found, and batches are answered in order within
\* the limit on clients.
AnswersSound ==
    /\ StalePollersWoken /\ TemplateCurrent /\ CoinbasePaid /\ NeverLost
    /\ GrowthHarmless /\ AnsweredInOrder /\ ClientsCounted

=============================================================================
