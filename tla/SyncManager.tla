---------------------------- MODULE SyncManager ----------------------------
(***************************************************************************)
(* The sync manager (netsync/manager.go): one goroutine, blockHandler,     *)
(* takes messages of the peers from a channel, decides which headers,      *)
(* blocks, utreexo proofs and ttls to ask of whom, and hands blocks to the  *)
(* chain.  The peers are honest but may answer in any order, late, with    *)
(* notfound or never, and may leave.  The chain is one branch of blocks    *)
(* numbered by height; BlockChain models the choice between branches.      *)
(*                                                                         *)
(* A handler runs to its end between two receives, so it is one step.  It   *)
(* is an operator from the manager's state, a record, to the set of states *)
(* it may leave: startSync picks a peer at random, limitAdd an entry.      *)
(***************************************************************************)
EXTENDS Integers, Sequences, FiniteSets, FiniteSetsExt, SequencesExt

CONSTANTS
    Peers,          \* remote nodes
    NoPeer,         \* a nil *Peer
    MaxHeight,      \* the height of the best block of all peers
    Has,            \* [Peers -> Nat], the height of a peer's best block
    Services,       \* [Peers -> {"full", "limited", "none"}]
    Witness,        \* the peers that serve witness data
    Utreexo,        \* the peers that serve utreexo proofs
    Txs,            \* transactions announced by peers, as numbers
    Configs,        \* the ways the node is started
    CurrentFrom,    \* the height from which IsCurrent holds
    LimitedBlocks,  \* NodeNetworkLimitedBlockThreshold (288)
    MaxInvPerMsg,   \* blocks per getdata
    MaxTTLs,        \* MaxUtreexoTTLsPerMsg
    MaxRequested,   \* maxRequestedBlocks, maxRequestedTxns, maxRejectedTxns
    ChanCap,        \* capacity of msgChan
    MaxQueued,      \* bound on the messages of a peer in msgChan
    MaxFaults       \* bound on lost connections, refusals and slow answers

Heights == 1..MaxHeight

ASSUME SyncAssumption ==
    /\ MaxHeight \in Nat /\ Has \in [Peers -> 0..MaxHeight]
    /\ Services \in [Peers -> {"full", "limited", "none"}]
    /\ Witness \subseteq Peers /\ Utreexo \subseteq Peers
    /\ NoPeer \notin Peers
    /\ \A c \in Configs : c \in [utreexo : BOOLEAN, ttlTop : 0..MaxHeight,
                               assume : 0..MaxHeight, checkpoint : 0..MaxHeight,
                               maxInvs : Nat]
    /\ \A c \in Configs : ~c.utreexo => c.ttlTop = 0 /\ c.assume = 0

VARIABLES
    conf,       \* utreexo: a compact state node; ttlTop: the last height of
                \* committedTTLAcc, 0 for nil; assume: AssumeUtreexoHeight, 0
                \* for none; checkpoint: height of the last checkpoint; maxInvs:
                \* bound on the number of unsolicited messages
    sm,         \* the fields of SyncManager and what it asked of its peers
    chan,       \* msgChan
    life,       \* of blockHandler: "up", "exit" or "blocked"
    faults,     \* lost connections, refusals and slow answers so far
    invs        \* unsolicited messages so far

vars == <<conf, sm, chan, life, faults, invs>>

-----------------------------------------------------------------------------
(***************************************************************************)
(* The chain, as the manager uses it                                       *)
(***************************************************************************)
HaveBlock(s, h) == h <= s.tip \/ h \in s.orphans
IsCurrent(s) == s.tip >= CurrentFrom /\ s.tip >= conf.checkpoint

\* The highest block connected once the blocks of S are there
Connected(t, S) == Max({k \in t..MaxHeight : t + 1..k \subseteq S})

\* ProcessBlock: a block that is there already is an error, one without its
\* parent an orphan; otherwise it and the orphans above it are connected.
ProcessBlock(s, h) ==
    IF HaveBlock(s, h) THEN [s |-> s, err |-> TRUE, orphan |-> FALSE]
    ELSE IF h > s.tip + 1
    THEN [s |-> [s EXCEPT !.orphans = @ \cup {h}], err |-> FALSE, orphan |-> TRUE]
    ELSE LET top == Connected(s.tip, s.orphans \cup {h})
         IN  [s |-> [s EXCEPT !.tip = top, !.hdr = Max({@, top}),
                              !.orphans = {o \in @ : o > top}],
              err |-> FALSE, orphan |-> FALSE]

-----------------------------------------------------------------------------
(***************************************************************************)
(* Requests and the peers' states                                          *)
(***************************************************************************)
NewPeerState(cand) ==
    [cand |-> cand, blocks |-> {}, txns |-> {}, proofs |-> {}, ttls |-> {}]

Known(s) == DOMAIN s.peers

\* QueueMessage and the Push functions: a request reaches a connected peer
Ask(s, p, reqs) ==
    IF s.conn[p] = "on" THEN [s EXCEPT !.asked[p] = @ \cup reqs] ELSE s

\* Peer.Disconnect: the peer gets no further request
Disconnect(s, p) ==
    IF s.conn[p] = "on" THEN [s EXCEPT !.conn[p] = "closing", !.asked[p] = {}] ELSE s

\* limitAdd: a map at its limit loses some entry first
LimitAdd(S, x) ==
    IF Cardinality(S) + 1 > MaxRequested
    THEN {(S \ {y}) \cup {x} : y \in S} ELSE {S \cup {x}}

\* clearRequestedState: what p owes may be asked of another peer.  The global
\* map of blocks is left alone in headers-first mode.
ClearRequestedState(s, p) ==
    [s EXCEPT !.reqTxns = @ \ s.peers[p].txns,
              !.reqBlocks = IF s.headersFirst THEN @ ELSE @ \ s.peers[p].blocks]

\* isSyncCandidate, outside the regression test network
IsSyncCandidate(s, p) ==
    /\ p \in Witness
    /\ conf.utreexo => p \in Utreexo
    /\ \/ Services[p] = "full"
       \/ Services[p] = "limited" /\ s.tip + 1 > s.last[p] - LimitedBlocks

\* current
Current(s) ==
    /\ IsCurrent(s)
    /\ s.sync # NoPeer => s.tip >= s.last[s.sync]

\* fetchUtreexoTTLs: the ttls above the tip, unless they are asked for already
FetchUtreexoTTLs(s, p) ==
    LET from == s.tip + 1
    IN  IF from \in s.peers[p].ttls THEN s
        ELSE Ask([s EXCEPT !.peers[p].ttls = @ \cup {from}], p,
                 {[t |-> "ttls", h |-> from]})

\* fetchHeaderBlocks: asks p, or the sync peer, for the blocks between the tip
\* and the best header, and a utreexo node for their proofs.  Up to ttlTop the
\* ttls come first and limit how far it goes.
FetchHeaderBlocks(s, p0) ==
    LET p == IF p0 # NoPeer THEN p0 ELSE s.sync
        fork == Min({s.tip, s.hdr})
        underTTL(h) == conf.ttlTop # 0 /\ h <= conf.ttlTop
        reach(h) == ~underTTL(h) \/ h <= fork + Cardinality(s.ttls)
        missing(h) == /\ ~HaveBlock(s, h)
                      /\ h \notin s.peers[p].blocks
                      /\ s.headersFirst \/ h \notin s.reqBlocks
        open == {h \in fork + 1..s.hdr : /\ \A k \in fork + 1..h : reach(k)
                                         /\ missing(h)}
        want == {h \in open : Cardinality({k \in open : k < h}) < MaxInvPerMsg}
        proofs == IF conf.utreexo THEN want ELSE {}
        reqs == {[t |-> "block", h |-> h] : h \in want}
                  \cup {[t |-> "proof", h |-> h] : h \in proofs}
    IN  IF p = NoPeer \/ p \notin Known(s) THEN s
        ELSE IF underTTL(fork + 1) /\ s.ttls = {} THEN FetchUtreexoTTLs(s, p)
        ELSE Ask([s EXCEPT !.peers[p].blocks = @ \cup want,
                           !.peers[p].proofs = @ \cup proofs,
                           !.reqBlocks = IF s.headersFirst THEN @ ELSE @ \cup want],
                 p, reqs)

\* startSync: the states it may end in.  Peers behind the tip are no longer
\* candidates; a peer with headers the node lacks is asked for headers, any
\* other one for blocks.
StartSync(s) ==
    LET eligible == {p \in Known(s) : /\ s.peers[p].cand
                                      /\ p \in Witness
                                      /\ conf.utreexo => p \in Utreexo}
        marked == [s EXCEPT !.peers = [p \in Known(s) |->
                      [s.peers[p] EXCEPT !.cand = @ /\ ~(p \in eligible /\ s.last[p] < s.tip)]]]
        higher == {p \in eligible : s.last[p] > s.tip}
        equal == {p \in eligible : s.last[p] = s.tip}
        higherHeader == {p \in eligible : s.last[p] > s.hdr}
        from(p) == [marked EXCEPT !.headersFirst = TRUE, !.sync = p, !.fresh = TRUE]
        best == IF higher # {} THEN higher ELSE equal
    IN  IF s.sync # NoPeer THEN {s}
        ELSE IF IsCurrent(s) /\ higher = {} THEN {[marked EXCEPT !.headersFirst = FALSE]}
        ELSE IF higherHeader # {}
        THEN {Ask(from(p), p, {[t |-> "headers", h |-> s.hdr + 1, stop |-> 0]}) : p \in higherHeader}
        ELSE IF best = {} THEN {[marked EXCEPT !.headersFirst = TRUE]}
        ELSE {FetchHeaderBlocks(t, NoPeer) : t \in {from(p) : p \in best}}

\* shouldDCStalledSyncPeer: the peer says it has more than we do
ShouldDCStalledSyncPeer(s) == Max({s.last[s.sync], Has[s.sync]}) > s.tip

\* updateSyncPeer
UpdateSyncPeer(s, dc) ==
    UNION {StartSync([t EXCEPT !.sync = NoPeer]) :
           t \in {IF dc THEN Disconnect(s, s.sync) ELSE s}}

-----------------------------------------------------------------------------
(***************************************************************************)
(* Handlers                                                                *)
(***************************************************************************)
HandleNewPeerMsg(s, p) ==
    LET cand == IsSyncCandidate(s, p)
        added == {[s EXCEPT !.peers = [q \in Known(s) \cup {p} |->
                      IF q = p THEN NewPeerState(cand) ELSE s.peers[q]]]}
    IN  IF cand /\ s.sync = NoPeer THEN UNION {StartSync(t) : t \in added} ELSE added

\* Mutant of HandleDonePeerMsg: the sync peer is not replaced.
DonePeerKeepsSync(s, p) ==
    {[ClearRequestedState(s, p) EXCEPT !.peers = [q \in Known(s) \ {p} |-> s.peers[q]]]}

HandleDonePeerMsg(s, p) ==
    LET removed == {[ClearRequestedState(s, p) EXCEPT
                        !.peers = [q \in Known(s) \ {p} |-> s.peers[q]]]}
    IN  IF p \notin Known(s) THEN {s}
        ELSE IF p = s.sync THEN UNION {UpdateSyncPeer(t, FALSE) : t \in removed}
        ELSE removed

\* handleStallSample, once maxStallDuration has passed without progress
HandleStallSample(s) ==
    UNION {UpdateSyncPeer(t, ShouldDCStalledSyncPeer(s)) :
           t \in {ClearRequestedState(s, s.sync)}}

\* handleTxMsg: ok says whether the memory pool accepts the transaction
HandleTxMsg(s, p, x, ok) ==
    LET t == [s EXCEPT !.peers[p].txns = @ \ {x}, !.reqTxns = @ \ {x}]
    IN  IF p \notin Known(s) \/ x \in s.rejected THEN {s}
        ELSE IF ok THEN {[t EXCEPT !.pool = @ \cup {x}]}
        ELSE {[t EXCEPT !.rejected = R] : R \in LimitAdd(s.rejected, x)}

\* The state after ProcessBlock returned r for block h of peer p: an orphan's
\* parents are asked for; other blocks are progress and clear the rejections.
BlockProcessed(s, r, p, h) ==
    IF r.orphan
    THEN Ask([r.s EXCEPT !.last[p] = Max({@, h})], p, {[t |-> "inv", h |-> h]})
    ELSE [r.s EXCEPT !.fresh = @ \/ p = s.sync, !.rejected = {},
                     !.last[p] = Max({@, r.s.tip})]

\* In headers-first mode: ask for more, or notice the end of the download
MoreBlocks(u, p, h) ==
    IF ~u.headersFirst THEN u
    ELSE IF h < u.hdr /\ u.peers[p].blocks = {} THEN FetchHeaderBlocks(u, NoPeer)
    ELSE [u EXCEPT !.headersFirst = h < u.hdr]

\* handleBlockMsg.  A compact state node keeps a block that comes out of order
\* or before its proof and returns.  The entry of qBlocks is never removed.
HandleBlockMsg(s, p, h) ==
    LET taken == {[s EXCEPT !.peers[p].blocks = @ \ {h},
                            !.qProofs = @ \ {h},
                            !.ttls = IF h <= s.hdr THEN @ \ {h} ELSE @,
                            !.reqBlocks = IF s.headersFirst THEN @ ELSE @ \ {h}]}
        results == {ProcessBlock(t, h) : t \in taken}
    IN  IF p \notin Known(s) THEN {s}
        ELSE IF h \notin s.peers[p].blocks THEN {Disconnect(s, p)}
        ELSE IF conf.utreexo /\ (h # s.tip + 1 \/ h \notin s.qProofs)
        THEN {[s EXCEPT !.qBlocks[h] = p]}
        ELSE {r.s : r \in {r \in results : r.err}}
               \cup {MoreBlocks(u, p, h) :
                        u \in {BlockProcessed(s, r, p, h) : r \in {r \in results : ~r.err}}}

\* After the headers are in: ask p for the blocks, or for more headers
MoreFromHeaders(u, p) ==
    LET fetch == IF u.headersFirst THEN u.hdr >= u.last[u.sync] ELSE ~u.build
    IN  IF fetch THEN FetchHeaderBlocks(u, p)
        ELSE IF ~u.headersFirst THEN u
        ELSE Ask(u, p, {[t |-> "headers", h |-> u.hdr + 1,
                         stop |-> IF u.build THEN conf.assume ELSE 0]})

\* handleHeadersMsg for the headers from..to.  A header whose parent is unknown
\* fails.  Headers up to the assumed point make it the best state.
HandleHeadersMsg(s, p, from, to) ==
    LET taken == {[s EXCEPT !.hdr = Max({@, to}), !.fresh = @ \/ p = s.sync]}
        built(t) == IF t.build /\ t.hdr >= conf.assume
                    THEN [t EXCEPT !.build = FALSE, !.tip = conf.assume] ELSE t
    IN  IF p \notin Known(s) \/ to < from THEN {s}
        ELSE IF from > s.hdr + 1 THEN {Disconnect(s, p)}
        ELSE {MoreFromHeaders(u, p) : u \in {built(t) : t \in taken}}

\* Without a sync peer the headers-first branch of handleHeadersMsg has nil to ask.
HeadersNeedSyncPeer(s, p, from, to) ==
    /\ p \in Known(s) /\ to >= from /\ from <= s.hdr + 1
    /\ s.headersFirst /\ s.sync = NoPeer

\* The best header is past the assumed point: its hash is not the assumed one,
\* and the process exits.
HeadersPassAssumed(s, p, from, to) ==
    /\ p \in Known(s) /\ to >= from /\ from <= s.hdr + 1
    /\ s.build /\ Max({s.hdr, to}) > conf.assume

\* handleUtreexoTTLsMsg, for ttls that verify against committedTTLAcc
HandleUtreexoTTLsMsg(s, p, from) ==
    LET got == {h \in from..from + MaxTTLs - 1 : h <= conf.ttlTop}
    IN  IF p \notin Known(s) THEN {s}
        ELSE IF ~conf.utreexo \/ conf.ttlTop = 0 \/ from \notin s.peers[p].ttls
        THEN {Disconnect(s, p)}
        ELSE {FetchHeaderBlocks(t, NoPeer) :
              t \in {[s EXCEPT !.peers[p].ttls = @ \ {from}, !.ttls = @ \cup got]}}

\* handleNotFoundMsg
HandleNotFoundMsg(s, p, item) ==
    IF p \notin Known(s) THEN {s}
    ELSE IF item.t = "block" /\ item.h \in s.peers[p].blocks
    THEN {[s EXCEPT !.peers[p].blocks = @ \ {item.h},
                    !.reqBlocks = IF s.headersFirst THEN @ ELSE @ \ {item.h}]}
    ELSE IF item.t = "tx" /\ item.h \in s.peers[p].txns
    THEN {[s EXCEPT !.peers[p].txns = @ \ {item.h}, !.reqTxns = @ \ {item.h}]}
    ELSE {s}

\* haveInventory for a transaction
HaveTx(s, x) == x \in s.pool

\* handleInvMsg's request queue: what nobody was asked for is asked of p
RequestInv(t, p, item) ==
    LET h == item.h
    IN  IF item.t = "block"
        THEN IF h \in t.reqBlocks THEN {t}
             ELSE {Ask([t EXCEPT !.reqBlocks = R, !.peers[p].blocks = B], p, {item}) :
                   R \in LimitAdd(t.reqBlocks, h), B \in LimitAdd(t.peers[p].blocks, h)}
        ELSE IF h \in t.reqTxns THEN {t}
        ELSE {Ask([t EXCEPT !.reqTxns = R, !.peers[p].txns = B], p, {item}) :
              R \in LimitAdd(t.reqTxns, h), B \in LimitAdd(t.peers[p].txns, h)}

\* handleInvMsg, for a list of one item
HandleInvMsg(s, p, item) ==
    LET isBlock == item.t = "block"
        h == item.h
        t == IF isBlock /\ Current(s) /\ h <= s.tip THEN [s EXCEPT !.last[p] = Max({@, h})] ELSE s
    IN  IF \/ p \notin Known(s)
           \/ p # s.sync /\ ~Current(s)
           \/ conf.utreexo /\ p \notin Utreexo
           \/ s.build THEN {s}
        ELSE IF s.headersFirst \/ (~isBlock /\ ~Current(s)) THEN {t}
        ELSE IF isBlock /\ HaveBlock(s, h) THEN {Ask(t, p, {[t |-> "inv", h |-> h]})}
        ELSE IF \/ isBlock /\ p \notin Witness
                \/ ~isBlock /\ (HaveTx(s, h) \/ h \in s.rejected) THEN {t}
        ELSE RequestInv(t, p, item)

\* handleUtreexoProofMsg: the proof is kept; again says that its block waits
HandleUtreexoProofMsg(s, p, h) ==
    IF p \notin Known(s) THEN [s |-> s, again |-> FALSE]
    ELSE IF h \notin s.peers[p].proofs THEN [s |-> Disconnect(s, p), again |-> FALSE]
    ELSE [s |-> [s EXCEPT !.qProofs = @ \cup {h}], again |-> s.qBlocks[h] # NoPeer]

-----------------------------------------------------------------------------
(***************************************************************************)
(* The goroutines around the handler.  msgChan holds ChanCap messages; what *)
(* is queued beyond that are senders that wait for room, one message each.  *)
(* The goroutine that reads from a peer waits for the reply to a block or  *)
(* a transaction before it reads on.                                       *)
(***************************************************************************)
Init ==
    /\ conf \in Configs
    /\ sm = [tip |-> 0, hdr |-> 0, orphans |-> {}, pool |-> {},
             peers |-> [p \in {} |-> NewPeerState(FALSE)], sync |-> NoPeer,
             headersFirst |-> FALSE, build |-> conf.assume # 0, fresh |-> TRUE,
             reqBlocks |-> {}, reqTxns |-> {}, rejected |-> {}, ttls |-> {},
             qBlocks |-> [h \in Heights |-> NoPeer], qProofs |-> {},
             asked |-> [p \in Peers |-> {}], conn |-> [p \in Peers |-> "off"],
             last |-> [p \in Peers |-> 0]]
    /\ chan = <<>>
    /\ life = "up"
    /\ faults = 0 /\ invs = 0

Waiting(p) == \E i \in DOMAIN chan : i > ChanCap /\ chan[i].p = p
Queued(p) == Cardinality({i \in DOMAIN chan : chan[i].p = p})
AwaitsReply(p) == \E i \in DOMAIN chan : chan[i].p = p /\ chan[i].t \in {"block", "tx"}
CanSend(p) ==
    /\ life = "up" /\ sm.conn[p] = "on"
    /\ ~Waiting(p) /\ ~AwaitsReply(p) /\ Queued(p) < MaxQueued

Enqueue(m) == chan' = Append(chan, m)

\* NewPeer: the handshake is over; the version message told the peer's height
NewPeer(p) ==
    /\ life = "up" /\ sm.conn[p] = "off"
    /\ sm' = [sm EXCEPT !.conn[p] = "on", !.last[p] = Has[p]]
    /\ Enqueue([t |-> "new", p |-> p])
    /\ UNCHANGED <<conf, life, faults, invs>>

\* The connection is lost.
Leave(p) ==
    /\ sm.conn[p] = "on" /\ faults < MaxFaults
    /\ faults' = faults + 1
    /\ sm' = Disconnect(sm, p)
    /\ UNCHANGED <<conf, chan, life, invs>>

\* DonePeer, by the goroutine that waits for the disconnect
DonePeer(p) ==
    /\ life = "up" /\ sm.conn[p] = "closing" /\ ~Waiting(p)
    /\ sm' = [sm EXCEPT !.conn[p] = "done"]
    /\ Enqueue([t |-> "done", p |-> p])
    /\ UNCHANGED <<conf, life, faults, invs>>

Answers(p, r) ==
    CASE r.t = "headers" -> {[t |-> "headers", p |-> p, from |-> r.h, to |-> k] :
                                k \in {j \in r.h - 1..Has[p] : /\ j >= r.h \/ Has[p] < r.h
                                                               /\ r.stop # 0 => j <= r.stop}}
      [] r.t = "inv" -> {[t |-> "inv", p |-> p, item |-> [t |-> "block", h |-> k]] :
                                k \in {j \in Heights : j <= Has[p] /\ j = sm.tip + 1}}
      [] r.t \in {"block", "tx"} ->
            IF r.t = "tx" \/ r.h <= Has[p] THEN {[t |-> r.t, p |-> p, h |-> r.h]}
            ELSE {[t |-> "notfound", p |-> p, item |-> r]}
      [] r.t \in {"proof", "ttls"} -> {[t |-> r.t, p |-> p, h |-> r.h]}

\* QueueBlock, QueueHeaders, QueueUtreexoProof, QueueUtreexoTTLs, QueueTx,
\* QueueNotFound: the answer to a request
Answer(p, r) ==
    /\ CanSend(p) /\ r \in sm.asked[p]
    /\ sm' = [sm EXCEPT !.asked[p] = @ \ {r}]
    /\ \/ \E m \in Answers(p, r) : Enqueue(m)
       \/ Answers(p, r) = {} /\ UNCHANGED chan
    /\ UNCHANGED <<conf, life, faults, invs>>

\* QueueNotFound: the peer does not have what it is asked for, after all
Refuse(p, r) ==
    /\ CanSend(p) /\ r \in sm.asked[p] /\ r.t \in {"block", "tx"} /\ faults < MaxFaults
    /\ faults' = faults + 1
    /\ sm' = [sm EXCEPT !.asked[p] = @ \ {r}]
    /\ Enqueue([t |-> "notfound", p |-> p, item |-> r])
    /\ UNCHANGED <<conf, life, invs>>

\* QueueInv, QueueHeaders: a peer tells of its best block or of a transaction
Announce(p) ==
    /\ CanSend(p) /\ invs < conf.maxInvs
    /\ invs' = invs + 1
    /\ \/ Has[p] > 0 /\ Enqueue([t |-> "inv", p |-> p, item |-> [t |-> "block", h |-> Has[p]]])
       \/ \E x \in Txs : Enqueue([t |-> "inv", p |-> p, item |-> [t |-> "tx", h |-> x]])
       \/ Has[p] > 0 /\ Enqueue([t |-> "headers", p |-> p, from |-> Has[p], to |-> Has[p]])
    /\ UNCHANGED <<conf, sm, life, faults>>

\* ProcessBlock: a block of the miner or of an RPC client
SubmitBlock ==
    /\ life = "up" /\ invs < conf.maxInvs /\ ~conf.utreexo /\ sm.tip < MaxHeight
    /\ invs' = invs + 1
    /\ Enqueue([t |-> "process", p |-> NoPeer, h |-> sm.tip + 1])
    /\ UNCHANGED <<conf, sm, life, faults>>

\* One turn of blockHandler's loop
Receive(types) == life = "up" /\ chan # <<>> /\ Head(chan).t \in types

Handle ==
    LET m == Head(chan)
        p == m.p
    IN  /\ Receive({"new", "done", "block", "tx", "ttls", "notfound", "inv", "process"})
        /\ chan' = Tail(chan)
        /\ sm' \in CASE m.t = "new" -> HandleNewPeerMsg(sm, p)
                     [] m.t = "done" -> {[s EXCEPT !.conn[p] = "off"] : s \in HandleDonePeerMsg(sm, p)}
                     [] m.t = "block" -> HandleBlockMsg(sm, p, m.h)
                     [] m.t = "tx" -> HandleTxMsg(sm, p, m.h, TRUE) \cup HandleTxMsg(sm, p, m.h, FALSE)
                     [] m.t = "ttls" -> HandleUtreexoTTLsMsg(sm, p, m.h)
                     [] m.t = "notfound" -> HandleNotFoundMsg(sm, p, m.item)
                     [] m.t = "inv" -> HandleInvMsg(sm, p, m.item)
                     [] m.t = "process" -> {ProcessBlock(sm, m.h).s}
        /\ UNCHANGED <<conf, life, faults, invs>>

HandleHeaders ==
    LET m == Head(chan)
    IN  /\ Receive({"headers"})
        /\ chan' = Tail(chan)
        /\ IF HeadersNeedSyncPeer(sm, m.p, m.from, m.to) \/ HeadersPassAssumed(sm, m.p, m.from, m.to)
           THEN life' = "exit" /\ UNCHANGED sm
           ELSE sm' \in HandleHeadersMsg(sm, m.p, m.from, m.to) /\ UNCHANGED life
        /\ UNCHANGED <<conf, faults, invs>>

\* The handler itself sends the waiting block to msgChan, which it alone empties.
HandleProof ==
    LET m == Head(chan)
        r == HandleUtreexoProofMsg(sm, m.p, m.h)
    IN  /\ Receive({"proof"})
        /\ sm' = r.s
        /\ IF r.again
           THEN IF Len(Tail(chan)) >= ChanCap THEN life' = "blocked" /\ chan' = Tail(chan)
                ELSE chan' = Append(Tail(chan), [t |-> "again", p |-> sm.qBlocks[m.h], h |-> m.h])
                     /\ UNCHANGED life
           ELSE chan' = Tail(chan) /\ UNCHANGED life
        /\ UNCHANGED <<conf, faults, invs>>

\* A block that handleUtreexoProofMsg sent; nobody waits for its reply.
HandleAgain ==
    /\ Receive({"again"})
    /\ chan' = Tail(chan)
    /\ sm' \in HandleBlockMsg(sm, Head(chan).p, Head(chan).h)
    /\ UNCHANGED <<conf, life, faults, invs>>

\* maxStallDuration passes without progress: the sync peer owes nothing any
\* more, or it is slow.
TimePasses ==
    LET quiet == sm.asked[sm.sync] = {} /\ chan = <<>>
    IN  /\ life = "up" /\ sm.fresh /\ sm.sync # NoPeer
        /\ quiet \/ faults < MaxFaults
        /\ faults' = IF quiet THEN faults ELSE faults + 1
        /\ sm' = [sm EXCEPT !.fresh = FALSE]
        /\ UNCHANGED <<conf, chan, life, invs>>

StallSample ==
    /\ life = "up" /\ ~sm.fresh /\ sm.sync \in Known(sm)
    /\ sm' \in HandleStallSample(sm)
    /\ UNCHANGED <<conf, chan, life, faults, invs>>

HandlerStep == Handle \/ HandleHeaders \/ HandleProof \/ HandleAgain

Next ==
    \/ \E p \in Peers :
         \/ NewPeer(p) \/ Leave(p) \/ DonePeer(p) \/ Announce(p)
         \/ \E r \in sm.asked[p] : Answer(p, r) \/ Refuse(p, r)
    \/ SubmitBlock \/ HandlerStep \/ TimePasses \/ StallSample

Spec == Init /\ [][Next]_vars

\* The handler and the stall ticker are goroutines that are scheduled, and time
\* passes.  A connected peer answers, a lost connection is noticed, and the
\* connection manager dials again.
FairSpec ==
    /\ Spec
    /\ WF_vars(HandlerStep) /\ WF_vars(TimePasses) /\ WF_vars(StallSample)
    /\ \A p \in Peers : /\ WF_vars(NewPeer(p)) /\ WF_vars(DonePeer(p))
                        /\ WF_vars(\E r \in sm.asked[p] : Answer(p, r))

-----------------------------------------------------------------------------
(***************************************************************************)
(* Properties                                                              *)
(***************************************************************************)

\* The fields have their types.
TypeOK ==
    /\ conf \in Configs
    /\ sm.tip \in 0..MaxHeight /\ sm.hdr \in 0..MaxHeight
    /\ sm.sync \in Peers \cup {NoPeer}
    /\ Known(sm) \subseteq Peers
    /\ sm.reqBlocks \subseteq Heights /\ sm.qProofs \subseteq Heights
    /\ Len(chan) <= ChanCap + 2 * Cardinality(Peers) + conf.maxInvs
    /\ life \in {"up", "exit", "blocked"}

\* The sync peer is one the manager has a state for, so that every request
\* can be recorded and a stall of it is always noticed.
SyncPeerKnown == sm.sync # NoPeer => sm.sync \in Known(sm)

\* A transaction that is marked as requested is owed by some peer the manager
\* knows, so a peer that leaves or stalls cannot keep it from being fetched.
RequestedTxnsOwed ==
    \A x \in sm.reqTxns : \E p \in Known(sm) : x \in sm.peers[p].txns

Useful(p) == p \in Witness \cap Utreexo /\ Services[p] = "full"

\* The sync manager keeps account of its peers: the sync peer is one it knows,
\* and every transaction it waits for is owed by a peer it knows.
PeersAccounted ==
    /\ TypeOK /\ SyncPeerKnown /\ RequestedTxnsOwed

=============================================================================
