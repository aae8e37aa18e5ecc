---------------------------- MODULE AddrManager ----------------------------
(***************************************************************************)
(* The address manager (addrmgr/): the addresses the node has heard of,    *)
(* spread over the new and the tried buckets, the file they are saved in,  *)
(* and the local addresses the node may advertise.                         *)
(*                                                                         *)
(* An address is a record of its class (the part of the address space it   *)
(* belongs to), its network group and a host number.  The bucket an        *)
(* address falls into depends on a random key: NewBucketOf and             *)
(* TriedBucketOf stand for the hashes.  Time is counted in units in which  *)
(* the limits of the code are small numbers.                               *)
(***************************************************************************)
EXTENDS Integers, Sequences, FiniteSets

CONSTANTS
    Announcements,          \* records [addr, src, age, services]
    LocalAddresses,         \* records [addr, priority] of AddLocalAddress
    Remotes,                \* addresses GetBestLocalAddress is asked for
    Keys,                   \* values of the random key
    NewBucketOf(_, _, _),   \* key, address, source -> bucket
    TriedBucketOf(_, _),    \* key, address -> bucket
    newBucketCount, triedBucketCount,
    newBucketSize, triedBucketSize, newBucketsPerAddress,
    numMissingDays, minBadDays, numRetries, maxFailures,
    FutureLimit,            \* ten minutes
    MaxClock, MaxAttempts,  \* bounds of the model
    StrayFiles              \* saved tables an edited peers file may hold

VARIABLES
    am,        \* the tables of the address manager
    clock,
    peersFile, \* the saved tables, or NoFile or TornFile
    local,     \* localAddresses: address -> score
    stopped    \* the process is down: Start follows

addrVars == <<am, clock, peersFile, local, stopped>>

Never == -100

\* A peers file: absent, cut short by a crash, or one that parses.
NoFile == [kind |-> "none", tables |-> <<>>]
TornFile == [kind |-> "torn", tables |-> <<>>]
WholeFile(f) == [kind |-> "whole", tables |-> <<f>>]

NewBuckets == 1 .. newBucketCount
TriedBuckets == 1 .. triedBucketCount

Remove(f, x) == [y \in DOMAIN f \ {x} |-> f[y]]
Extend(f, x, v) == [y \in DOMAIN f \cup {x} |-> IF y = x THEN v ELSE f[y]]

-----------------------------------------------------------------------------
(* Address classes (network.go).  A class is named for the RFC that        *)
(* reserves the range; "ipv4" and "ipv6" are the ordinary addresses.       *)

IsTorV3(na) == na.class = "torv3"
IsOnionCatTor(na) == na.class = "onioncat"
IsIPv4(na) == na.class \in {"ipv4", "rfc1918", "local"}
IsRFC4380(na) == na.class = "teredo"
IsTunnelled(na) == na.class \in {"rfc3964", "rfc6052", "rfc6145"}
IsRoutable(na) == na.class \notin {"invalid", "rfc1918", "rfc4193", "local"}

Unreachable == 0
Default == 1
Teredo == 2
Ipv6Weak == 3
Ipv4 == 4
Ipv6Strong == 5
Private == 6

getReachabilityFrom(localAddr, remoteAddr) ==
    CASE ~IsRoutable(remoteAddr) -> Unreachable
      [] IsTorV3(remoteAddr) ->
            CASE IsTorV3(localAddr) -> Private
              [] IsOnionCatTor(localAddr) -> Unreachable
              [] IsRoutable(localAddr) /\ IsIPv4(localAddr) -> Ipv4
              [] OTHER -> Default
      [] IsTorV3(localAddr) -> Default
      [] IsOnionCatTor(remoteAddr) ->
            CASE IsOnionCatTor(localAddr) -> Private
              [] IsRoutable(localAddr) /\ IsIPv4(localAddr) -> Ipv4
              [] OTHER -> Default
      [] IsRFC4380(remoteAddr) ->
            CASE ~IsRoutable(localAddr) -> Default
              [] IsRFC4380(localAddr) -> Teredo
              [] IsIPv4(localAddr) -> Ipv4
              [] OTHER -> Ipv6Weak
      [] IsIPv4(remoteAddr) ->
            IF IsRoutable(localAddr) /\ IsIPv4(localAddr) THEN Ipv4 ELSE Unreachable
      [] OTHER ->
            CASE ~IsRoutable(localAddr) -> Default
              [] IsRFC4380(localAddr) -> Teredo
              [] IsIPv4(localAddr) -> Ipv4
              [] IsTunnelled(localAddr) -> Ipv6Weak
              [] OTHER -> Ipv6Strong

\* The test of GetBestLocalAddress's loop: la beats the best one so far.
Better(locals, la, best) ==
    \/ best.reach < la.reach
    \/ best.reach = la.reach /\ locals[la.addr] > best.score

\* The loop visits the map in any order: the set of its possible results.
\* "none" stands for the unspecified address returned when nothing is better.
GetBestLocalAddress(locals, remote) ==
    LET entry(a) == [addr |-> a, reach |-> getReachabilityFrom(a, remote)]
        step[S \in SUBSET DOMAIN locals] ==
            IF S = {} THEN {[addr |-> "none", reach |-> Unreachable, score |-> 0]}
            ELSE UNION {{IF Better(locals, entry(a), best)
                         THEN [addr |-> a, reach |-> entry(a).reach, score |-> locals[a]]
                         ELSE best : best \in step[S \ {a}]} : a \in S}
    IN  step[DOMAIN locals]

-----------------------------------------------------------------------------
(* Known addresses (knownaddress.go).                                      *)

isBad(ka) ==
    /\ ka.lastattempt < clock
    /\ \/ ka.ts > clock + FutureLimit
       \/ ka.ts < clock - numMissingDays
       \/ ka.lastsuccess = Never /\ ka.attempts >= numRetries
       \/ ka.lastsuccess <= clock - minBadDays /\ ka.attempts >= maxFailures

-----------------------------------------------------------------------------
(* The tables.  refs counts the new buckets an address is in.              *)

Empty(key) ==
    [key |-> key, index |-> <<>>,
     new |-> [b \in NewBuckets |-> {}], tried |-> [b \in TriedBuckets |-> <<>>],
     nNew |-> 0, nTried |-> 0]

find(a, na) == na \in DOMAIN a.index

\* Takes an address out of a new bucket; the last reference forgets it.
Drop(a, bucket, na) ==
    LET left == a.index[na].refs - 1
    IN  [a EXCEPT !.new[bucket] = @ \ {na},
                  !.nNew = IF left = 0 THEN @ - 1 ELSE @,
                  !.index = IF left = 0 THEN Remove(@, na) ELSE [@ EXCEPT ![na].refs = left]]

\* Every bad entry goes, and the oldest of the others goes as well.
expireNew(a, bucket) ==
    LET bad == {na \in a.new[bucket] : isBad(a.index[na])}
        rest == a.new[bucket] \ bad
        oldest == {na \in rest : \A nb \in rest : a.index[na].ts <= a.index[nb].ts}
        clean[S \in SUBSET bad] ==
            IF S = {} THEN a
            ELSE LET na == CHOOSE x \in S : TRUE IN Drop(clean[S \ {na}], bucket, na)
    IN  IF oldest = {} THEN {clean[bad]}
        ELSE {Drop(clean[bad], bucket, na) : na \in oldest}

\* The entry of a tried bucket that is evicted: the first of the eldest.
pickTried(a, bucket) ==
    LET s == a.tried[bucket]
    IN  CHOOSE i \in DOMAIN s :
            /\ \A j \in DOMAIN s : a.index[s[i]].ts <= a.index[s[j]].ts
            /\ \A j \in 1 .. i - 1 : a.index[s[j]].ts > a.index[s[i]].ts

\* An announcement: refresh what is known of the address, and put it into one
\* more new bucket unless it has been tried, is in enough of them, or the die
\* (one chance in 2 * refs) falls against it.
Refresh(ka, ann) ==
    LET ts == clock - ann.age
    IN  IF ts > ka.ts \/ ~(ann.services \subseteq ka.services)
        THEN [ka EXCEPT !.ts = ts, !.services = @ \cup ann.services]
        ELSE ka

AddTo(a, bucket, na) ==
    IF na \in a.new[bucket] THEN {a}
    ELSE {[b EXCEPT !.new[bucket] = @ \cup {na}, !.index[na].refs = @ + 1] :
            b \in IF Cardinality(a.new[bucket]) > newBucketSize
                  THEN expireNew(a, bucket) ELSE {a}}

updateAddress(a, ann) ==
    LET na == ann.addr
        bucket == NewBucketOf(a.key, na, ann.src)
        known == [a EXCEPT !.index[na] = Refresh(@, ann)]
        fresh == [a EXCEPT !.nNew = @ + 1,
                    !.index = Extend(@, na,
                        [ts |-> clock - ann.age, src |-> ann.src, attempts |-> 0,
                         lastattempt |-> Never, lastsuccess |-> Never, tried |-> FALSE,
                         refs |-> 0, services |-> ann.services])]
    IN  IF ~IsRoutable(na) THEN {a}
        ELSE IF ~find(a, na) THEN AddTo(fresh, bucket, na)
        ELSE IF a.index[na].tried \/ a.index[na].refs = newBucketsPerAddress THEN {known}
        ELSE {known} \cup AddTo(known, bucket, na)

Attempt(a, na) ==
    [a EXCEPT !.index[na].attempts = @ + 1, !.index[na].lastattempt = clock]

Connected(a, na) ==
    IF clock > a.index[na].ts THEN [a EXCEPT !.index[na].ts = clock] ELSE a

SetServices(a, na, services) == [a EXCEPT !.index[na].services = services]


\* na takes the place of entry i of a full tried bucket, which goes back to a
\* new bucket.
Displace(a, bucket, na, newBucket, i) ==
    LET rm == a.tried[bucket][i]
    IN  [a EXCEPT !.tried[bucket][i] = na, !.index[na].tried = TRUE, !.nNew = @ + 1,
                  !.index[rm].tried = FALSE, !.index[rm].refs = @ + 1,
                  !.new[newBucket] = @ \cup {rm}]

Good(a, na) ==
    LET holding == {b \in NewBuckets : na \in a.new[b]}
        oldBucket == CHOOSE b \in holding : \A c \in holding : b <= c
        met == [a EXCEPT !.index[na].lastsuccess = clock, !.index[na].lastattempt = clock,
                         !.index[na].attempts = 0]
        out == [met EXCEPT !.new = [b \in NewBuckets |-> @[b] \ {na}],
                           !.index[na].refs = @ - Cardinality(holding), !.nNew = @ - 1]
        bucket == TriedBucketOf(a.key, na)
        i == pickTried(out, bucket)
        rm == out.tried[bucket][i]
        home == NewBucketOf(a.key, rm, out.index[rm].src)
    IN  IF a.index[na].tried THEN met
        ELSE IF holding = {} THEN out
        ELSE IF Len(out.tried[bucket]) < triedBucketSize
        THEN [out EXCEPT !.index[na].tried = TRUE, !.nTried = @ + 1,
                         !.tried[bucket] = Append(@, na)]
        ELSE Displace(out, bucket, na,
                      IF Cardinality(out.new[home]) >= newBucketSize THEN oldBucket ELSE home,
                      i)

numAddresses(a) == a.nTried + a.nNew

\* GetAddress looks for an address in the tried or in the new buckets, and
\* goes on until it finds one: the addresses it may end with.
TriedEntries(a) == UNION {{a.tried[b][i] : i \in DOMAIN a.tried[b]} : b \in TriedBuckets}
NewEntries(a) == UNION {a.new[b] : b \in NewBuckets}

GetAddress(a) ==
    (IF a.nTried > 0 THEN {TriedEntries(a)} ELSE {})
        \cup (IF a.nNew > 0 THEN {NewEntries(a)} ELSE {})

-----------------------------------------------------------------------------
(* The peers file.  The time stamps are not read back: a loaded address    *)
(* counts as seen now.                                                     *)

savePeers(a) ==
    [key |-> a.key,
     addresses |-> [na \in DOMAIN a.index |->
        [src |-> a.index[na].src, attempts |-> a.index[na].attempts,
         lastattempt |-> a.index[na].lastattempt, lastsuccess |-> a.index[na].lastsuccess,
         services |-> a.index[na].services]],
     new |-> a.new, tried |-> a.tried]

\* The tables as far as they are read, and whether they are accepted: every
\* address is in new buckets or in a tried one.  (A bucket that names an
\* address the file does not describe, refused as well, is not modelled.)
deserializePeers(a, f) ==
    LET refs(na) == Cardinality({b \in NewBuckets : na \in f.new[b]})
        inTried(na) == \E b \in TriedBuckets : \E i \in DOMAIN f.tried[b] : f.tried[b][i] = na
        known == DOMAIN f.addresses
        listed == UNION {f.new[b] : b \in NewBuckets}
        loaded ==
            [a EXCEPT !.key = f.key,
                !.index = [na \in known |->
                    [ts |-> clock, src |-> f.addresses[na].src,
                     attempts |-> f.addresses[na].attempts,
                     lastattempt |-> f.addresses[na].lastattempt,
                     lastsuccess |-> f.addresses[na].lastsuccess,
                     services |-> f.addresses[na].services,
                     tried |-> inTried(na), refs |-> refs(na)]],
                !.new = f.new, !.tried = f.tried,
                !.nNew = @ + Cardinality(listed),
                !.nTried = @ + Cardinality({<<b, i>> \in TriedBuckets \X (1 .. triedBucketSize) :
                                            i \in DOMAIN f.tried[b]})]
    IN  [a |-> loaded,
         ok |-> \A na \in known : (refs(na) > 0) # inTried(na)]

\* Fresh buckets and a fresh key.
reset(a, key) ==
    [a EXCEPT !.key = key, !.index = <<>>, !.new = [b \in NewBuckets |-> {}],
              !.tried = [b \in TriedBuckets |-> <<>>]]

loadPeers(a, f, key) ==
    IF f.kind = "none" THEN [a |-> a, file |-> f]
    ELSE IF f.kind = "torn" THEN [a |-> reset(a, key), file |-> NoFile]
    ELSE LET r == deserializePeers(a, f.tables[1])
         IN  IF r.ok THEN [a |-> r.a, file |-> f]
             ELSE [a |-> reset(r.a, key), file |-> NoFile]

-----------------------------------------------------------------------------
(* Actions.  The methods hold the manager's mutex, so each is one step.    *)

Running == ~stopped

AddAddress(ann) ==
    /\ Running
    /\ am' \in updateAddress(am, ann)
    /\ UNCHANGED <<clock, peersFile, local, stopped>>

\* GetAddress picks a candidate for an outbound connection and the server
\* counts the attempt (server.go, newAddressFunc).
AttemptAddress ==
    /\ Running /\ numAddresses(am) > 0
    /\ \E from \in GetAddress(am) : \E na \in from :
          /\ am.index[na].attempts < MaxAttempts
          /\ am' = Attempt(am, na)
    /\ UNCHANGED <<clock, peersFile, local, stopped>>

\* A completed handshake (server.go, OnVersion and handleAddPeerMsg).
HandshakeDone(na, services) ==
    /\ Running /\ find(am, na)
    /\ am' = Good(Connected(SetServices(am, na, services), na), na)
    /\ UNCHANGED <<clock, peersFile, local, stopped>>

AddLocalAddress ==
    /\ Running
    /\ \E l \in LocalAddresses :
          /\ IsRoutable(l.addr)
          /\ LET known == l.addr \in DOMAIN local
             IN  /\ known => local[l.addr] < l.priority
                 /\ local' = Extend(local, l.addr,
                                    IF known THEN l.priority + 1 ELSE l.priority)
    /\ UNCHANGED <<am, clock, peersFile, stopped>>

Dump ==
    /\ Running
    /\ peersFile' = WholeFile(savePeers(am))
    /\ UNCHANGED <<am, clock, local, stopped>>

\* Stop saves before it returns; a crash loses what was not saved, and one in
\* the middle of a dump leaves half a file.
Stop ==
    /\ Running
    /\ peersFile' \in {WholeFile(savePeers(am)), peersFile, TornFile}
                        \cup {WholeFile(f) : f \in StrayFiles}
    /\ stopped' = TRUE
    /\ am' = Empty(am.key) /\ local' = <<>>
    /\ UNCHANGED clock

Start ==
    /\ stopped
    /\ \E key \in Keys :
          LET r == loadPeers(Empty(key), peersFile, key)
          IN  am' = r.a /\ peersFile' = r.file
    /\ stopped' = FALSE
    /\ UNCHANGED <<clock, local>>

Tick ==
    /\ clock < MaxClock
    /\ clock' = clock + 1
    /\ UNCHANGED <<am, peersFile, local, stopped>>

Init ==
    /\ \E key \in Keys : am = Empty(key)
    /\ clock = 0 /\ peersFile = NoFile /\ local = <<>> /\ stopped = TRUE

Next ==
    \/ \E ann \in Announcements : AddAddress(ann)
    \/ AttemptAddress
    \/ \E ann \in Announcements : HandshakeDone(ann.addr, ann.services)
    \/ AddLocalAddress
    \/ Dump
    \/ Stop
    \/ Start
    \/ Tick

Spec == Init /\ [][Next]_addrVars

-----------------------------------------------------------------------------
(* Properties.                                                             *)

\* Every entry of a bucket is an address of the table, the counters and the
\* reference counts of the address manager are what the buckets hold, and no
\* address is both new and tried, however addresses are announced, tried,
\* displaced, expired, saved and loaded.
TablesExact ==
    /\ NewEntries(am) \cup TriedEntries(am) = DOMAIN am.index
    /\ NewEntries(am) \cap TriedEntries(am) = {}
    /\ am.nNew = Cardinality(NewEntries(am))
    /\ am.nTried = Cardinality(TriedEntries(am))
    /\ \A na \in DOMAIN am.index :
          /\ am.index[na].refs = Cardinality({b \in NewBuckets : na \in am.new[b]})
          /\ am.index[na].tried = (na \in TriedEntries(am))

\* The buckets stay within their limits.  A new bucket may hold one address
\* more than newBucketSize, as the limit is tested before an address is added
\* and only a bucket above it is cleaned.
BucketsBounded ==
    /\ \A b \in NewBuckets : Cardinality(am.new[b]) <= newBucketSize + 1
    /\ \A b \in TriedBuckets : Len(am.tried[b]) <= triedBucketSize
    /\ \A na \in DOMAIN am.index : am.index[na].refs <= newBucketsPerAddress

\* The local address advertised to a peer is one that no other local address
\* beats in reachability, nor, at the same reachability, in score, whatever
\* the order in which the map is visited.
BestLocalAddress ==
    \A remote \in Remotes : \A best \in GetBestLocalAddress(local, remote) :
        \A a \in DOMAIN local :
            LET reach == getReachabilityFrom(a, remote)
            IN  reach < best.reach \/ (reach = best.reach /\ local[a] <= best.score)


=============================================================================
