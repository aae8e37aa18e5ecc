------------------------------- MODULE Server -------------------------------
(***************************************************************************)
(* The peers of a node (server.go): connections come in and go out, finish *)
(* their handshake, misbehave, are added and removed on request, and leave;*)
(* peerHandler keeps the lists of peers, the sync manager is told of those *)
(* that come and go, and the connection manager replaces outbound          *)
(* connections.                                                            *)
(*                                                                         *)
(* The connection manager (connmgr/connmanager.go) keeps the requests for  *)
(* outbound connections, from the address they are given to the connection *)
(* that is established, lost, retried or replaced.  All of its state is    *)
(* owned by connHandler; the goroutines of NewConnReq and Connect meet it  *)
(* at an unbuffered channel, so each message is received and handled as it *)
(* is sent and one operator stands for both ends.  The delay before a      *)
(* retry is left out: a retry may come at any time.                        *)
(*                                                                         *)
(* The actors: peerHandler, one peerDoneHandler for every peer, the        *)
(* goroutine that reads from a peer, the sync manager, the goroutines of   *)
(* the connection manager and the callers of the query channel.            *)
(***************************************************************************)
EXTENDS Integers, Sequences, FiniteSets

CONSTANTS
    TargetOutbound,    \* connmgr.Config.TargetOutbound
    Hosts,             \* addresses of other nodes
    Group(_),          \* addrmgr.GroupKey of a host
    MaxPeers,          \* cfg.MaxPeers
    AddPeers,          \* values of cfg.AddPeers: hosts to stay connected to
    MaxConnections,    \* bound: connections made in one behaviour
    MaxRequests,       \* bound: connection requests made in one behaviour
    MaxCalls           \* bound: calls on the query channel

VARIABLES
    cm,         \* the connection manager
    peers,      \* peers[id]: every peer there has been
    lists,      \* peerState: inboundPeers, outboundPeers, persistentPeers, ...
    adding,     \* the peer handleAddPeerMsg is working on, or 0
    newPeers, donePeers, banPeers,   \* the channels of peerHandler
    syncQueue,  \* messages on the way to the sync manager
    syncPeers,  \* the peers the sync manager knows
    downgrade,  \* hosts p2pDowngrader has marked
    removed,    \* hosts whose persistent peer was removed and not added again
    calls       \* calls made on the query channel

serverVars == <<cm, peers, lists, adding, newPeers, donePeers, banPeers, syncQueue,
                syncPeers, downgrade, removed, calls>>
channels == <<newPeers, donePeers, banPeers>>
syncVars == <<syncQueue, syncPeers>>
limits == <<removed, calls>>

-----------------------------------------------------------------------------
(* The connection manager.                                                 *)

\* reqs[id] is the request with that id; fresh counts the NewConnReq
\* goroutines that are about to run, dialing and retrying hold the requests a
\* Connect goroutine and a retry timer work on.
NewManager(started) ==
    [reqs |-> <<>>, pending |-> {}, conns |-> {}, fresh |-> started,
     dialing |-> {}, retrying |-> {}, stop |-> FALSE]

Request(addr, permanent) == [addr |-> addr, permanent |-> permanent, state |-> "pending"]

registerPending(m, req) ==
    [m EXCEPT !.reqs = Append(@, req), !.pending = @ \cup {Len(m.reqs) + 1},
               !.dialing = @ \cup {Len(m.reqs) + 1}]

\* A permanent request is retried later, any other one is replaced.
handleFailedConn(m, id, triggerReconnect) ==
    IF m.stop THEN m
    ELSE IF m.reqs[id].permanent \/ triggerReconnect
    THEN [m EXCEPT !.retrying = @ \cup {id}]
    ELSE [m EXCEPT !.fresh = @ + 1]

\* NewConnReq: a request without an address, then GetNewAddress.  "none"
\* stands for the error of GetNewAddress.
NewConnReq(m, addr) ==
    LET id == Len(m.reqs) + 1
        r == registerPending([m EXCEPT !.fresh = @ - 1], Request(addr, FALSE))
    IN  IF addr = "none"
        THEN handleFailedConn([r EXCEPT !.dialing = @ \ {id}, !.reqs[id].state = "failing"],
                              id, FALSE)
        ELSE r

\* Connect of a request of the user, which has no id yet.
Connect(m, addr, permanent) == registerPending(m, Request(addr, permanent))

\* Connect of a request whose retry timer fires.
Reconnect(m, id) ==
    LET c == [m EXCEPT !.retrying = @ \ {id}]
    IN  IF m.reqs[id].state = "canceled" THEN c ELSE [c EXCEPT !.dialing = @ \cup {id}]

handleConnected(m, id) ==
    LET c == [m EXCEPT !.dialing = @ \ {id}]
    IN  IF id \notin m.pending THEN c
        ELSE [c EXCEPT !.reqs[id].state = "established", !.conns = @ \cup {id},
                       !.pending = @ \ {id}]

handleFailed(m, id) ==
    LET c == [m EXCEPT !.dialing = @ \ {id}]
    IN  IF id \notin m.pending THEN c
        ELSE handleFailedConn([c EXCEPT !.reqs[id].state = "failing"], id, FALSE)

handleDisconnected(m, id, retry, triggerReconnect) ==
    LET c == [m EXCEPT !.conns = @ \ {id}]
    IN  IF id \notin m.conns
        THEN IF id \notin m.pending THEN m
             ELSE [m EXCEPT !.reqs[id].state = "canceled", !.pending = @ \ {id}]
        ELSE IF ~retry THEN [c EXCEPT !.reqs[id].state = "disconnected"]
        ELSE IF Cardinality(c.conns) < TargetOutbound \/ m.reqs[id].permanent
        THEN handleFailedConn([c EXCEPT !.reqs[id].state = "pending", !.pending = @ \cup {id}],
                              id, triggerReconnect)
        ELSE c

Disconnect(m, id, triggerReconnect) ==
    IF m.stop THEN m ELSE handleDisconnected(m, id, TRUE, triggerReconnect)

Remove(m, id) ==
    IF m.stop THEN m ELSE handleDisconnected(m, id, FALSE, FALSE)

\* go NewConnReq()
Replace(m) == IF m.stop THEN m ELSE [m EXCEPT !.fresh = @ + 1]

\* The goroutines return when they find the manager stopped.
Stop(m) == [m EXCEPT !.stop = TRUE, !.fresh = 0, !.dialing = {}, !.retrying = {}]

-----------------------------------------------------------------------------
(* The peers.                                                              *)

Ids == 1 .. Len(peers)
Groups == {Group(h) : h \in Hosts}
NoPeer == 0

\* stage: "up" while connected; "down" until peerDoneHandler has run, then
\* "told" when peerHandler has been told and "gone" when the sync manager has.
NewPeer(dir, host, req, persistent) ==
    [dir |-> dir, host |-> host, req |-> req, persistent |-> persistent, v1 |-> FALSE,
     downgrade |-> FALSE, verack |-> FALSE, added |-> FALSE, stage |-> "up"]

Connected(p) == peers[p].stage = "up"
Count == Cardinality(lists.inbound) + Cardinality(lists.outbound) + Cardinality(lists.persistent)
Disconnected(ps, p) == IF ps[p].stage = "up" THEN [ps EXCEPT ![p].stage = "down"] ELSE ps

-----------------------------------------------------------------------------
(* Connections.                                                            *)

\* newAddressFunc: an address of a group there is no outbound peer of.
newAddressFunc == {h \in Hosts : lists.groups[Group(h)] = 0}

FreshRequest ==
    /\ cm.fresh > 0 /\ Len(cm.reqs) < MaxRequests
    /\ \E addr \in newAddressFunc \cup {"none"} : cm' = NewConnReq(cm, addr)
    /\ UNCHANGED <<peers, lists, adding, channels, syncVars, downgrade, limits>>

DialFails ==
    /\ \E id \in cm.dialing : cm' = handleFailed(cm, id)
    /\ UNCHANGED <<peers, lists, adding, channels, syncVars, downgrade, limits>>

RetryFires ==
    /\ \E id \in cm.retrying : cm' = Reconnect(cm, id)
    /\ UNCHANGED <<peers, lists, adding, channels, syncVars, downgrade, limits>>

\* The connection is established and a peer is made of it, or the peer cannot
\* be made.
outboundPeerConnected ==
    /\ Len(peers) < MaxConnections
    /\ \E id \in cm.dialing :
          LET c == handleConnected(cm, id)
              req == cm.reqs[id]
          IN  IF id \notin c.conns
              THEN cm' = c /\ UNCHANGED <<peers, downgrade>>
              ELSE \/ /\ cm' = c
                      /\ peers' = Append(peers, [NewPeer("out", req.addr, id, req.permanent)
                                                 EXCEPT !.v1 = req.addr \in downgrade])
                      /\ downgrade' = downgrade \ {req.addr}
                   \/ /\ cm' = IF req.permanent THEN Disconnect(c, id, FALSE)
                               ELSE Replace(Remove(c, id))
                      /\ downgrade' = downgrade \ {req.addr}
                      /\ UNCHANGED peers
    /\ UNCHANGED <<lists, adding, channels, syncVars, limits>>

inboundPeerConnected ==
    /\ ~cm.stop /\ Len(peers) < MaxConnections
    /\ \E h \in Hosts : peers' = Append(peers, NewPeer("in", h, 0, FALSE))
    /\ UNCHANGED <<cm, lists, adding, channels, syncVars, downgrade, limits>>

-----------------------------------------------------------------------------
(* The goroutine of a peer.  The verack is noted before OnVerAck runs.     *)

VerAckReceived(p) ==
    /\ Connected(p) /\ ~peers[p].verack
    /\ peers' = [peers EXCEPT ![p].verack = TRUE]
    /\ UNCHANGED <<cm, lists, adding, channels, syncVars, downgrade, limits>>

\* It runs to its end even when the peer is disconnected meanwhile.
OnVerAck(p) ==
    /\ peers[p].verack /\ ~peers[p].added /\ Len(newPeers) < MaxPeers
    /\ peers' = [peers EXCEPT ![p].added = TRUE]
    /\ newPeers' = Append(newPeers, p)
    /\ UNCHANGED <<cm, lists, adding, donePeers, banPeers, syncVars, downgrade, limits>>

\* addBanScore beyond the threshold.
addBanScore(p) ==
    /\ Connected(p) /\ Len(banPeers) < MaxPeers
    /\ banPeers' = Append(banPeers, p)
    /\ peers' = Disconnected(peers, p)
    /\ UNCHANGED <<cm, lists, adding, newPeers, donePeers, syncVars, downgrade, limits>>

\* A peer that does not speak the v2 transport is lost during the handshake.
ConnectionLost(p) ==
    /\ Connected(p)
    /\ \E v1 \in BOOLEAN :
          /\ v1 => peers[p].dir = "out" /\ ~peers[p].v1 /\ ~peers[p].verack
          /\ peers' = [Disconnected(peers, p) EXCEPT ![p].downgrade = v1]
    /\ UNCHANGED <<cm, lists, adding, channels, syncVars, downgrade, limits>>

peerDoneHandler(p) ==
    \/ /\ peers[p].stage = "down" /\ Len(donePeers) < MaxPeers
       /\ downgrade' = IF peers[p].downgrade THEN downgrade \cup {peers[p].host} ELSE downgrade
       /\ donePeers' = Append(donePeers, p)
       /\ peers' = [peers EXCEPT ![p].stage = "told"]
       /\ UNCHANGED <<cm, lists, adding, newPeers, banPeers, syncVars, limits>>
    \/ /\ peers[p].stage = "told"
       /\ peers' = [peers EXCEPT ![p].stage = "gone"]
       /\ syncQueue' = IF peers[p].verack THEN Append(syncQueue, <<"done", p>>) ELSE syncQueue
       /\ UNCHANGED <<cm, lists, adding, channels, syncPeers, downgrade, limits>>

-----------------------------------------------------------------------------
(* peerHandler.                                                            *)

Idle == adding = NoPeer /\ ~cm.stop

\* The lists with p among them.
Enlisted(ls, p) ==
    IF peers[p].dir = "in" THEN [ls EXCEPT !.inbound = @ \cup {p}]
    ELSE LET g == [ls EXCEPT !.groups[Group(peers[p].host)] = @ + 1]
         IN  IF peers[p].persistent THEN [g EXCEPT !.persistent = @ \cup {p}]
             ELSE [g EXCEPT !.outbound = @ \cup {p}]

\* Mutant: a peer that has left meanwhile is taken in.
StillThereUnasked(p) == TRUE

StillThere(p) == Connected(p)

\* A ban ends when BanDuration is over, which may be any time after it began.
handleAddPeerMsg ==
    /\ Idle /\ newPeers # <<>>
    /\ newPeers' = Tail(newPeers)
    /\ LET p == Head(newPeers)
           unbanned == [lists EXCEPT !.banned = @ \ {peers[p].host}]
       IN  \/ /\ ~StillThere(p)
              /\ UNCHANGED <<peers, lists, adding>>
           \/ /\ StillThere(p)      \* an undesired user agent, or still banned
              /\ peers' = Disconnected(peers, p)
              /\ UNCHANGED <<lists, adding>>
           \/ /\ StillThere(p) /\ Count >= MaxPeers
              /\ peers' = Disconnected(peers, p) /\ lists' = unbanned
              /\ UNCHANGED adding
           \/ /\ StillThere(p) /\ Count < MaxPeers
              /\ lists' = Enlisted(unbanned, p) /\ adding' = p
              /\ UNCHANGED peers
    /\ UNCHANGED <<cm, donePeers, banPeers, syncVars, downgrade, limits>>

\* The rest of handleAddPeerMsg: syncManager.NewPeer.
TellSyncManager ==
    /\ adding # NoPeer
    /\ syncQueue' = Append(syncQueue, <<"new", adding>>)
    /\ adding' = NoPeer
    /\ UNCHANGED <<cm, peers, lists, channels, syncPeers, downgrade, limits>>

\* The lists without p, which may not be in them.
Delisted(ls, p) ==
    LET name == CASE peers[p].persistent -> "persistent"
                  [] peers[p].dir = "in" -> "inbound"
                  [] OTHER -> "outbound"
    IN  IF p \notin ls[name] THEN ls
        ELSE LET out == [ls EXCEPT ![name] = @ \ {p}]
             IN  IF peers[p].dir = "in" THEN out
                 ELSE [out EXCEPT !.groups[Group(peers[p].host)] = @ - 1]

DonePeer(p) ==
    /\ lists' = Delisted(lists, p)
    /\ cm' = CASE peers[p].dir = "in" -> cm
               [] peers[p].persistent -> Disconnect(cm, peers[p].req, FALSE)
               [] peers[p].dir = "out" /\ ~peers[p].persistent /\ peers[p].downgrade ->
                     Disconnect(cm, peers[p].req, TRUE)
               [] OTHER -> Replace(Remove(cm, peers[p].req))

handleDonePeerMsg ==
    /\ Idle /\ donePeers # <<>>
    /\ donePeers' = Tail(donePeers)
    /\ DonePeer(Head(donePeers))
    /\ UNCHANGED <<peers, adding, newPeers, banPeers, syncVars, downgrade, limits>>

handleBanPeerMsg ==
    /\ Idle /\ banPeers # <<>>
    /\ banPeers' = Tail(banPeers)
    /\ lists' = [lists EXCEPT !.banned = @ \cup {peers[Head(banPeers)].host}]
    /\ UNCHANGED <<cm, peers, adding, newPeers, donePeers, syncVars, downgrade, limits>>

-----------------------------------------------------------------------------
(* The query channel (handleQuery).                                        *)

connectNode(host, permanent) ==
    /\ Idle /\ calls < MaxCalls /\ Count < MaxPeers /\ Len(cm.reqs) < MaxRequests
    /\ \A p \in lists.persistent : peers[p].host # host
    /\ cm' = Connect(cm, host, permanent)
    /\ removed' = IF permanent THEN removed \ {host} ELSE removed
    /\ calls' = calls + 1
    /\ UNCHANGED <<peers, lists, adding, channels, syncVars, downgrade>>

\* disconnectPeer, with the groups counted down for outbound peers.
disconnectPeer(ls, name, p) ==
    LET out == [ls EXCEPT ![name] = @ \ {p}]
    IN  IF name = "inbound" THEN out
        ELSE [out EXCEPT !.groups[Group(peers[p].host)] = @ - 1]

removeNode(host) ==
    /\ Idle /\ calls < MaxCalls
    /\ \E p \in lists.persistent :
          /\ peers[p].host = host
          /\ lists' = disconnectPeer(lists, "persistent", p)
          /\ peers' = Disconnected(peers, p)
    /\ removed' = removed \cup {host}
    /\ calls' = calls + 1
    /\ UNCHANGED <<cm, adding, channels, syncVars, downgrade>>

\* One inbound peer of the host, or else all the outbound ones.
disconnectNode(host) ==
    /\ Idle /\ calls < MaxCalls
    /\ LET ins == {p \in lists.inbound : peers[p].host = host}
           outs == {p \in lists.outbound : peers[p].host = host}
           drop[S \in SUBSET outs] ==
               IF S = {} THEN lists
               ELSE LET p == CHOOSE x \in S : TRUE
                    IN  disconnectPeer(drop[S \ {p}], "outbound", p)
       IN  \/ \E p \in ins : /\ lists' = disconnectPeer(lists, "inbound", p)
                             /\ peers' = Disconnected(peers, p)
           \/ /\ ins = {} /\ outs # {}
              /\ lists' = drop[outs]
              /\ peers' = [p \in Ids |-> IF p \in outs THEN Disconnected(peers, p)[p]
                                         ELSE peers[p]]
    /\ calls' = calls + 1
    /\ UNCHANGED <<cm, adding, channels, syncVars, downgrade, removed>>

\* peerHandler leaves its loop when the server stops: every peer of the lists
\* is disconnected and the channels are drained.
Shutdown ==
    /\ Idle
    /\ peers' = [p \in Ids |->
                    IF p \in lists.inbound \cup lists.outbound \cup lists.persistent
                    THEN Disconnected(peers, p)[p] ELSE peers[p]]
    /\ cm' = Stop(cm)
    /\ newPeers' = <<>> /\ donePeers' = <<>>
    /\ UNCHANGED <<lists, adding, banPeers, syncVars, downgrade, limits>>

-----------------------------------------------------------------------------
(* The sync manager (netsync/manager.go) keeps the peers it is told of.    *)

SyncManagerStep ==
    /\ syncQueue # <<>>
    /\ syncQueue' = Tail(syncQueue)
    /\ LET kind == Head(syncQueue)[1]
           p == Head(syncQueue)[2]
       IN  syncPeers' = IF kind = "new" THEN syncPeers \cup {p} ELSE syncPeers \ {p}
    /\ UNCHANGED <<cm, peers, lists, adding, channels, downgrade, limits>>

-----------------------------------------------------------------------------
\* newServer asks for the persistent peers, Start for as many more as make up
\* the target.
Init ==
    /\ \E persistent \in AddPeers :
          LET added[S \in SUBSET persistent] ==
                  IF S = {} THEN NewManager(TargetOutbound - Cardinality(persistent))
                  ELSE LET h == CHOOSE x \in S : TRUE IN Connect(added[S \ {h}], h, TRUE)
          IN  cm = added[persistent]
    /\ peers = <<>>
    /\ lists = [inbound |-> {}, outbound |-> {}, persistent |-> {}, banned |-> {},
                groups |-> [g \in Groups |-> 0]]
    /\ adding = NoPeer
    /\ newPeers = <<>> /\ donePeers = <<>> /\ banPeers = <<>>
    /\ syncQueue = <<>> /\ syncPeers = {}
    /\ downgrade = {} /\ removed = {} /\ calls = 0

Next ==
    \/ FreshRequest \/ DialFails \/ RetryFires
    \/ outboundPeerConnected \/ inboundPeerConnected
    \/ \E p \in Ids : \/ VerAckReceived(p) \/ OnVerAck(p) \/ addBanScore(p)
                      \/ ConnectionLost(p) \/ peerDoneHandler(p)
    \/ handleAddPeerMsg \/ TellSyncManager \/ handleDonePeerMsg \/ handleBanPeerMsg
    \/ \E h \in Hosts : \/ \E permanent \in BOOLEAN : connectNode(h, permanent)
                        \/ removeNode(h) \/ disconnectNode(h)
    \/ Shutdown
    \/ SyncManagerStep

Spec == Init /\ [][Next]_serverVars

-----------------------------------------------------------------------------
(* Properties.                                                             *)

Outbound == lists.outbound \cup lists.persistent

\* The number of outbound peers kept for every network group is the number of
\* such peers in the lists, through handshakes, disconnections by either side
\* and by request, bans and removals: newAddressFunc decides by this number.
GroupsExact ==
    \A g \in Groups :
        lists.groups[g] = Cardinality({p \in Outbound : Group(peers[p].host) = g})

\* No outbound slot is lost: the connections, the requests being dialled or
\* waiting for a retry and the requests about to be made are never fewer than
\* TargetOutbound while the server runs.
SlotsKept ==
    ~cm.stop => Cardinality(cm.conns \cup cm.dialing \cup cm.retrying) + cm.fresh
                    >= TargetOutbound

\* A connection the manager counts as established belongs to a peer that is
\* there or that peerHandler still has to take off its lists, so a lost
\* connection always comes to be replaced or retried.
ConnectionsWatched ==
    ~cm.stop => \A id \in cm.conns : \E p \in Ids :
        /\ peers[p].req = id
        /\ \/ peers[p].stage \in {"up", "down"}
           \/ \E i \in DOMAIN donePeers : donePeers[i] = p

\* Every message has been handled.
Quiet ==
    /\ ~cm.stop /\ adding = NoPeer /\ syncQueue = <<>>
    /\ newPeers = <<>> /\ donePeers = <<>>
    /\ \A p \in Ids : peers[p].stage \in {"up", "gone"} /\ peers[p].added = peers[p].verack

\* A peer that has left is in none of the lists once all messages have been
\* handled, whichever of its arrival and its departure peerHandler sees first.
GoneForgotten == Quiet => \A p \in Outbound \cup lists.inbound : Connected(p)

\* What the server and its connection manager keep about the peers agrees with
\* the connections: the outbound groups are counted once, no outbound slot is
\* lost, every connection has someone who will notice its end, and a peer that
\* left is in no list.
PeersExact ==
    /\ GroupsExact /\ SlotsKept /\ ConnectionsWatched /\ GoneForgotten

=============================================================================
