------------------------------- MODULE MCNode -------------------------------
(***************************************************************************)
(* The peers of the node and what it serves.  A behaviour is one of the    *)
(* server with its connection manager, of the address manager, of the      *)
(* handlers that serve blocks and filters, of the stall detection of a     *)
(* peer or of the listeners of the server: "machine" says which, and the   *)
(* variables of the others are 0.                                          *)
(***************************************************************************)
EXTENDS Serving

VARIABLES machine, cm, peers, lists, adding, newPeers, donePeers, banPeers,
          syncQueue, syncPeers, downgrade, removed, calls, am, clock,
          peersFile, local, stopped, now, requests, pendingResponses,
          handlerActive, handlersStartTime, deadlineOffset, ticked, stalled,
          owed, busy, server, sp, score, ticks, msgs, queued, passed

ServerVars == <<cm, peers, lists, adding, newPeers, donePeers, banPeers,
                syncQueue, syncPeers, downgrade, removed,
                calls>>
AddressesVars == <<am, clock, peersFile, local, stopped>>
StallVars == <<now, requests, pendingResponses, handlerActive,
               handlersStartTime, deadlineOffset, ticked,
               stalled, owed, busy>>
ListenersVars == <<server, sp, score, ticks, msgs, queued, passed>>

-----------------------------------------------------------------------------
(* The peers and the connection manager: one address, one peer at a time.  *)

OnlyGroup(h) == "g1"

Server == INSTANCE Server
    WITH TargetOutbound <- 1, Hosts <- {"h1"}, Group <- OnlyGroup,
         MaxPeers <- 1, AddPeers <- {{}, {"h1"}}, MaxConnections <- 2,
         MaxRequests <- 2, MaxCalls <- 1

\* What the server and its connection manager keep about the peers agrees with
\* the connections: the outbound groups are counted once, no outbound slot is
\* lost, every connection has someone who will notice its end, and a peer that
\* left is in no list.
PeersExact == machine = "server" => Server!PeersExact

-----------------------------------------------------------------------------
(* The address manager: three addresses, two buckets of one entry.         *)

Address(c, n, h) == [class |-> c, net |-> n, host |-> h]
a1 == Address("ipv4", 1, 1)
a2 == Address("ipv4", 2, 1)
a3 == Address("onioncat", 1, 1)
priv == Address("rfc1918", 1, 1)
Announce(a, s, g, v) == [addr |-> a, src |-> s, age |-> g, services |-> v]
Announced == {Announce(a1, a1, 0, {}), Announce(a1, a2, 0, {}), Announce(a2, a2, 3, {"w"}),
              Announce(a3, a1, 0, {}), Announce(priv, a1, 0, {})}
Own == {[addr |-> Address("ipv4", 3, 1), priority |-> 1], [addr |-> Address("torv3", 3, 1), priority |-> 0],
        [addr |-> Address("ipv4", 3, 1), priority |-> 3], [addr |-> Address("rfc3964", 3, 1), priority |-> 4],
        [addr |-> priv, priority |-> 4]}
Others == {Address(c, 5, 1) : c \in {"ipv4", "ipv6", "teredo", "onioncat", "torv3", "rfc1918"}}
NewBucket(k, a, s) == IF a.class = "ipv4" /\ <<a.class, a.net>> # <<s.class, s.net>> THEN 2 ELSE 1
TriedBucket(k, a) == 1

Addr == INSTANCE AddrManager
    WITH Announcements <- Announced, LocalAddresses <- Own, Remotes <-
         Others, Keys <- {1}, NewBucketOf <- NewBucket, TriedBucketOf <-
         TriedBucket, newBucketCount <- 2, triedBucketCount <- 1,
         newBucketSize <- 1, triedBucketSize <- 1, newBucketsPerAddress <-
         2, numMissingDays <- 1, minBadDays <- 1, numRetries <- 1,
         maxFailures <- 2, FutureLimit <- 1, MaxClock <- 1, MaxAttempts <-
         1, StrayFiles <- {}


-----------------------------------------------------------------------------
(* Getdata, getblocks and filters over a chain that moves.                 *)

\* Two branches, 1-2 and 3-4-5, from block 0.
ParentOf == [b \in 0 .. 5 |-> IF b \in {0, 1, 3} THEN 0 ELSE b - 1]
Entry(k, f, m, i) == [kind |-> k, found |-> f, matches |-> m, id |-> i]
Kinds == {<<"tx", TRUE, 0>>, <<"tx", FALSE, 0>>, <<"merkle", TRUE, 1>>, <<"merkle", TRUE, -1>>, <<"block", TRUE, 1>>,
          <<"unknown", TRUE, 0>>, <<"utreexotx", TRUE, 0>>, <<"position", TRUE, 0>>}
GetData == UNION {{[i \in 1 .. n |-> Entry(f[i][1], f[i][2], f[i][3], i)] : f \in [1 .. n -> Kinds]} : n \in 1 .. 4}


-----------------------------------------------------------------------------
(* Stall detection.                                                        *)

Stall == INSTANCE PeerStall
    WITH stallResponseTimeout <- 2, TickInterval <- 1, MaxTime <- 7,
         MaxRequests <- 2


-----------------------------------------------------------------------------
(* The ban score and the listeners of the server.                          *)

Serves(bloom, banning, bonly, white, inbound, v2) ==
    [bloom |-> bloom, banning |-> banning, blocksOnly |-> bonly, whitelisted |-> white,
     inbound |-> inbound, wantsV2 |-> v2, bip111 |-> TRUE]
Servers == {Serves(TRUE, TRUE, FALSE, FALSE, TRUE, FALSE), Serves(FALSE, TRUE, TRUE, FALSE, FALSE, FALSE),
            Serves(TRUE, FALSE, FALSE, FALSE, TRUE, TRUE), Serves(TRUE, TRUE, TRUE, TRUE, TRUE, FALSE)}
KnownAddr(k, t) == [key |-> k, torV3 |-> t]
Book == <<KnownAddr(1, FALSE), KnownAddr(2, TRUE), KnownAddr(3, FALSE), KnownAddr(4, FALSE)>>

Listeners == INSTANCE Listeners
    WITH Configs <- Servers, Unit <- 4, Lifetime <- 2, BanThreshold <- 60,
         MaxAddrPerMsg <- 2, MaxInvPerMsg <- 2, AddrBook <- Book, PoolTxs
         <- <<[matches |-> TRUE], [matches |-> FALSE], [matches |->
         TRUE]>>, MaxTicks <- 3, MaxMsgs <- 4, conf <- server

\* A peer cannot go on for ever with messages that cost it ban score, and no
\* answer of a listener exceeds what a message may hold.
ListenersBounded == machine = "listeners" => Listeners!ListenersBounded

-----------------------------------------------------------------------------
Machines == {"server", "addresses", "getdata", "download", "checkpoints",
             "stall", "listeners"}

ServerIdle ==
    cm = 0 /\ peers = 0 /\ lists = 0 /\ adding = 0 /\ newPeers = 0
    /\ donePeers = 0 /\ banPeers = 0 /\ syncQueue = 0 /\ syncPeers = 0
    /\ downgrade = 0 /\ removed = 0 /\ calls = 0

AddressesIdle ==
    am = 0 /\ clock = 0 /\ peersFile = 0 /\ local = 0 /\ stopped = 0

StallIdle ==
    now = 0 /\ requests = 0 /\ pendingResponses = 0 /\ handlerActive = 0
    /\ handlersStartTime = 0 /\ deadlineOffset = 0 /\ ticked = 0
    /\ stalled = 0 /\ owed = 0 /\ busy = 0

ListenersIdle ==
    server = 0 /\ sp = 0 /\ score = 0 /\ ticks = 0 /\ msgs = 0 /\ queued = 0
    /\ passed = 0

MCInit ==
    /\ machine \in Machines
    /\ IF machine = "server" THEN Server!Init ELSE ServerIdle
    /\ IF machine = "addresses" THEN Addr!Init ELSE AddressesIdle
    /\ ~(machine \in {"getdata", "download", "checkpoints"}) => tip = 2
    /\ Init
    /\ IF machine = "stall" THEN Stall!Init ELSE StallIdle
    /\ IF machine = "listeners" THEN Listeners!Init ELSE ListenersIdle

ServerStep ==
    /\ machine = "server" /\ Server!Next
    /\ UNCHANGED <<machine, AddressesVars, servingVars, StallVars, ListenersVars>>

AddressesStep ==
    /\ machine = "addresses" /\ Addr!Next
    /\ UNCHANGED <<machine, ServerVars, servingVars, StallVars, ListenersVars>>

ServingStep ==
    /\ \/ machine = "getdata" /\ GetDataNext
       \/ machine = "download" /\ DownloadNext
       \/ machine = "checkpoints" /\ CheckptNext
    /\ UNCHANGED <<machine, ServerVars, AddressesVars, StallVars, ListenersVars>>

StallStep ==
    /\ machine = "stall" /\ Stall!Next
    /\ UNCHANGED <<machine, ServerVars, AddressesVars, servingVars, ListenersVars>>

ListenersStep ==
    /\ machine = "listeners" /\ Listeners!Next
    /\ UNCHANGED <<machine, ServerVars, AddressesVars, servingVars, StallVars>>

MCNext ==
    ServerStep \/ AddressesStep \/ ServingStep \/ StallStep \/ ListenersStep

\* The messages of the server wait one at a time, bans and downgrades apart
\* from each other; times and saved tables of the address manager likewise.
Few ==
    /\ machine = "server" =>
         /\ Len(syncQueue) <= 1 /\ ~cm.stop /\ Len(banPeers) + Len(newPeers) + Len(donePeers) <= 2
         /\ calls > 0 => lists.banned = {} /\ downgrade = {} /\ banPeers = <<>>
         /\ lists.banned # {} \/ banPeers # <<>> => downgrade = {}
    /\ machine = "addresses" =>
         /\ clock = 1 => peersFile.kind # "whole"
         /\ local # <<>> => am.index = <<>>
         /\ peersFile.kind = "whole" =>
              LET saved == peersFile.tables[1].addresses
              IN  Cardinality(DOMAIN saved) = 2 /\ \A a \in DOMAIN saved : saved[a].attempts = 0

all == <<machine, ServerVars, AddressesVars, servingVars, StallVars, ListenersVars>>

MCSpec == MCInit /\ [][MCNext]_all
=============================================================================
