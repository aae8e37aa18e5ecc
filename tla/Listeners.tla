----------------------------- MODULE Listeners -----------------------------
(***************************************************************************)
(* A serverPeer's message listeners (server.go) other than the ones that   *)
(* serve data: filters, addresses, mempool, inv, notfound, and the decaying *)
(* ban score (connmgr/dynamicbanscore.go) they feed.                       *)
(*                                                                         *)
(* The listeners of a peer run one at a time, in its input handler.  A     *)
(* tick of the clock is one half-life of the score; the transient part is  *)
(* kept in units of 1 / Unit, as the code keeps it as a float.             *)
(***************************************************************************)
EXTENDS Integers, Sequences, FiniteSets

CONSTANTS
    Configs,        \* set of [bloom, banning, blocksOnly, whitelisted, inbound, wantsV2, bip111]
    Unit,           \* resolution of the transient score
    Lifetime,       \* ticks after which it is forgotten
    BanThreshold,
    MaxAddrPerMsg,
    MaxInvPerMsg,
    AddrBook,       \* sequence of addresses the address manager offers
    PoolTxs,        \* sequence of [matches : BOOLEAN], the pool's transactions
    MaxTicks, MaxMsgs  \* bounds

VARIABLES
    conf,           \* configuration and negotiated facts
    sp,             \* the peer: [connected, banned, filter, relayOff, feeFilter, sentAddrs, known]
    score,          \* its DynamicBanScore [persistent, transient, lastUnix]
    ticks, msgs,
    queued,         \* messages queued to the peer
    passed          \* what was passed on to the sync manager and the address manager

listenerVars == <<conf, sp, score, ticks, msgs, queued, passed>>

-----------------------------------------------------------------------------
(* DynamicBanScore.                                                        *)

decayFactor(dt) == 2 ^ dt

int(s, t) ==
    LET dt == t - s.lastUnix
    IN  IF s.transient < Unit \/ Lifetime < dt THEN s.persistent
        ELSE s.persistent + (s.transient \div decayFactor(dt)) \div Unit

increase(s, persistent, transient, t) ==
    LET dt == t - s.lastUnix
        decayed == IF Lifetime < dt THEN 0
                   ELSE IF s.transient > Unit THEN s.transient \div decayFactor(dt)
                   ELSE s.transient
    IN  [persistent |-> s.persistent + persistent,
         transient |-> IF transient = 0 THEN s.transient ELSE decayed + transient * Unit,
         lastUnix |-> IF transient = 0 THEN s.lastUnix ELSE t]

\* What increase returns: the transient part as stored.
Returned(s) == s.persistent + s.transient \div Unit

-----------------------------------------------------------------------------
(* Results of a listener: the peer, its score, what it queued and passed on. *)

State == [sp |-> sp, score |-> score, queued |-> queued, passed |-> passed]

Drop(st) == [st EXCEPT !.sp.connected = FALSE]

Queue(st, m) == [st EXCEPT !.queued = Append(@, m)]

Pass(st, m) == [st EXCEPT !.passed = Append(@, m)]

\* Mutant: a peer at the warning threshold only is warned, never banned.
addBanScoreWarns(st, persistent, transient) ==
    IF ~conf.banning \/ conf.whitelisted THEN st
    ELSE [st EXCEPT !.score = increase(@, persistent, transient, ticks)]

addBanScore(st, persistent, transient) ==
    IF ~conf.banning \/ conf.whitelisted \/ (persistent = 0 /\ transient = 0) THEN st
    ELSE LET s == increase(st.score, persistent, transient, ticks)
             st1 == [st EXCEPT !.score = s]
         IN  IF Returned(s) > BanThreshold
             THEN [Drop(st1) EXCEPT !.sp.banned = TRUE]
             ELSE st1

enforceNodeBloomFlag(st) ==
    IF conf.bloom THEN st
    ELSE IF conf.bip111 /\ conf.banning THEN Drop(addBanScore(st, 100, 0))
    ELSE Drop(st)

-----------------------------------------------------------------------------
(* Filters.                                                                *)

OnFeeFilter(st, fee) == IF fee < 0 THEN Drop(st) ELSE [st EXCEPT !.sp.feeFilter = fee]

OnFilterAdd(st) ==
    IF ~conf.bloom THEN enforceNodeBloomFlag(st)
    ELSE IF ~st.sp.filter THEN Drop(st)
    ELSE st

OnFilterClear(st) ==
    IF ~conf.bloom THEN enforceNodeBloomFlag(st)
    ELSE IF ~st.sp.filter THEN Drop(st)
    ELSE [st EXCEPT !.sp.filter = FALSE]

OnFilterLoad(st) ==
    IF ~conf.bloom THEN enforceNodeBloomFlag(st)
    ELSE [st EXCEPT !.sp.relayOff = FALSE, !.sp.filter = TRUE]

MemPoolInv(st) ==
    LET wanted == SelectSeq(PoolTxs, LAMBDA tx : ~st.sp.filter \/ tx.matches)
    IN  SubSeq(wanted, 1, IF Len(wanted) > MaxInvPerMsg THEN MaxInvPerMsg ELSE Len(wanted))

OnMemPool(st) ==
    IF ~conf.bloom THEN Drop(st)
    ELSE LET st1 == addBanScore(st, 0, 33)
             inv == MemPoolInv(st1)
         IN  IF st1.sp.banned \/ inv = <<>> THEN st1
             ELSE Queue(st1, [kind |-> "inv", filtered |-> st1.sp.filter, list |-> inv])

-----------------------------------------------------------------------------
(* Addresses.                                                              *)

\* PushAddrMsg swaps entries into the first places; the function PushAddrV2Msg
\* gives to Shuffle copies an earlier entry over a later one and leaves both.
PushAddrMsg(addrs) ==
    IF Len(addrs) <= MaxAddrPerMsg THEN {addrs}
    ELSE {[i \in 1 .. MaxAddrPerMsg |-> addrs[pick[i]]] :
             pick \in {f \in [1 .. MaxAddrPerMsg -> 1 .. Len(addrs)] :
                          \A i, j \in DOMAIN f : i # j => f[i] # f[j]}}

PushAddrV2Msg(addrs) ==
    IF Len(addrs) <= MaxAddrPerMsg THEN {addrs}
    ELSE {[i \in 1 .. MaxAddrPerMsg |-> addrs[pick[i]]] :
             pick \in {f \in [1 .. MaxAddrPerMsg -> 1 .. Len(addrs)] : \A i \in DOMAIN f : f[i] <= i}}

UnknownTo(st, addrs) ==
    SelectSeq(addrs, LAMBDA a : a.key \notin st.sp.known /\ (conf.wantsV2 \/ ~a.torV3))

pushAddrMsg(st, addrs) ==
    LET new == UnknownTo(st, addrs)
        lists == IF conf.wantsV2 THEN PushAddrV2Msg(new) ELSE PushAddrMsg(new)
    IN  IF new = <<>> THEN {st}
        ELSE {[Queue(st, [kind |-> "addr", knew |-> st.sp.known, list |-> l])
                 EXCEPT !.sp.known = @ \cup {l[i].key : i \in DOMAIN l}] : l \in lists}

OnGetAddr(st) ==
    IF ~conf.inbound \/ st.sp.sentAddrs THEN {st}
    ELSE pushAddrMsg([st EXCEPT !.sp.sentAddrs = TRUE], AddrBook)

\* OnAddr and OnAddrV2.
OnAddr(st, keys) ==
    IF keys = {} THEN Drop(st)
    ELSE Pass([st EXCEPT !.sp.known = @ \cup keys], "addresses")

-----------------------------------------------------------------------------
(* Inventory.                                                              *)

\* With blocksonly a transaction in the list is a reason to disconnect.
OnInv(st, blocks, txs) ==
    IF ~conf.blocksOnly THEN IF blocks + txs > 0 THEN Pass(st, "inv") ELSE st
    ELSE IF txs > 0 THEN Drop(st)
    ELSE IF blocks > 0 THEN Pass(st, "inv")
    ELSE st

OnTx(st) == IF conf.blocksOnly THEN st ELSE Pass(st, "tx")

OnNotFound(st, blocks, txs, other) ==
    IF other THEN Drop(st)
    ELSE LET st1 == addBanScore(st, 20 * blocks, 0)
             st2 == addBanScore(st1, 0, 10 * txs)
         IN  IF st1.sp.banned THEN st1
             ELSE IF st2.sp.banned THEN st2
             ELSE Pass(st2, "notfound")

-----------------------------------------------------------------------------
Handled ==
    {OnFeeFilter(State, fee) : fee \in {-1, 1}}
    \cup {OnFilterAdd(State), OnFilterClear(State), OnFilterLoad(State), OnMemPool(State), OnTx(State)}
    \cup OnGetAddr(State)
    \cup {OnAddr(State, keys) : keys \in {{}, {AddrBook[1].key}}}
    \cup {OnInv(State, n[1], n[2]) : n \in (0 .. 1) \X (0 .. 1)}
    \cup {OnNotFound(State, n[1], n[2], n[3]) : n \in {<<1, 0, FALSE>>, <<2, 2, FALSE>>, <<0, 4, FALSE>>, <<1, 1, TRUE>>}}

\* The input handler reads a message and calls its listener.
Message ==
    /\ sp.connected /\ msgs < MaxMsgs
    /\ msgs' = msgs + 1
    /\ \E st \in Handled :
          sp' = st.sp /\ score' = st.score /\ queued' = st.queued /\ passed' = st.passed
    /\ UNCHANGED <<conf, ticks>>

Tick ==
    /\ ticks < MaxTicks /\ ticks' = ticks + 1
    /\ UNCHANGED <<conf, sp, score, msgs, queued, passed>>

Init ==
    /\ conf \in Configs
    /\ \E off \in BOOLEAN :
          sp = [connected |-> TRUE, banned |-> FALSE, filter |-> FALSE, relayOff |-> off,
                feeFilter |-> 0, sentAddrs |-> FALSE, known |-> {}]
    /\ score = [persistent |-> 0, transient |-> 0, lastUnix |-> 0]
    /\ ticks = 0 /\ msgs = 0 /\ queued = <<>> /\ passed = <<>>

Next == Message \/ Tick

Spec == Init /\ [][Next]_listenerVars

-----------------------------------------------------------------------------
(* Properties.                                                             *)

\* A peer whose score is above the threshold, where peers are banned and this
\* one is not whitelisted, is banned and disconnected: no sequence of messages
\* keeps a connection beyond it.
PatienceBounded ==
    sp.connected /\ conf.banning /\ ~conf.whitelisted => int(score, ticks) <= BanThreshold

\* The peer gets addresses once, none it told us of before, and no mempool
\* reply with a transaction its filter does not match or longer than allowed.
RepliesFit ==
    /\ Cardinality({i \in DOMAIN queued : queued[i].kind = "addr"}) <= 1
    /\ \A i \in DOMAIN queued : LET m == queued[i] IN
          CASE m.kind = "addr" -> /\ Len(m.list) <= MaxAddrPerMsg
                                  /\ \A j \in DOMAIN m.list : m.list[j].key \notin m.knew
            [] m.kind = "inv" -> /\ Len(m.list) <= MaxInvPerMsg
                                 /\ m.filtered => \A j \in DOMAIN m.list : m.list[j].matches

\* A peer cannot go on for ever with messages that cost it ban score, and no
\* answer of a listener exceeds what a message may hold.
ListenersBounded ==
    /\ PatienceBounded /\ RepliesFit

=============================================================================
