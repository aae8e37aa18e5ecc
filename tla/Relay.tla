------------------------------- MODULE Relay -------------------------------
(***************************************************************************)
(* Announcing inventory to the peers (server.go): transactions come from   *)
(* callers of sendrawtransaction (rpcserver.go, rpcProcessTx), blocks from *)
(* the sync manager's notifications, and rebroadcastHandler announces the  *)
(* callers' transactions again until they are in a block.                  *)
(*                                                                         *)
(* The actors: the callers, the sync manager, rebroadcastHandler and       *)
(* peerHandler.  relayInv is buffered, modifyRebroadcastInv is not: a      *)
(* message on it is received by an idle rebroadcastHandler as it is sent.  *)
(***************************************************************************)
EXTENDS Integers, Sequences, FiniteSets

CONSTANTS
    Txs,          \* transactions the callers submit
    FeeRate,      \* transaction -> fee per kilobyte
    RelayPeers,   \* peer -> [relayOff, feeFilter, matches, utreexo, headers]
    RelayCap,     \* capacity of relayInv (MaxPeers)
    Rebroadcasts  \* bound: how often the rebroadcast timer fires

VARIABLES
    submitted,    \* caller of a transaction: "none", "pooled", "relayed", "tracked"
    pool,         \* transactions of the memory pool
    mined,        \* transactions a block has confirmed
    relayInv,     \* the channel to peerHandler: transactions, or "block"
    notify,       \* what the sync manager still has to announce of a block
    pendingInvs,  \* inventory rebroadcastHandler keeps
    resending,    \* what it is relaying now
    fired,        \* how often its timer fired
    told          \* peer -> what has been queued to it

relayVars == <<submitted, pool, mined, relayInv, notify, pendingInvs, resending, fired, told>>

Block == "block"

-----------------------------------------------------------------------------
(* rpcProcessTx: the pool, then the peers, then the list to rebroadcast.   *)

SubmitTx(t) ==
    /\ submitted[t] = "none" /\ t \notin mined
    /\ pool' = pool \cup {t}
    /\ submitted' = [submitted EXCEPT ![t] = "pooled"]
    /\ UNCHANGED <<mined, relayInv, notify, pendingInvs, resending, fired, told>>

RelayTransactions(t) ==
    /\ submitted[t] = "pooled" /\ Len(relayInv) < RelayCap
    /\ relayInv' = Append(relayInv, t)
    /\ submitted' = [submitted EXCEPT ![t] = "relayed"]
    /\ UNCHANGED <<pool, mined, notify, pendingInvs, resending, fired, told>>

Listening == resending = {}

AddRebroadcastInventory(t) ==
    /\ submitted[t] = "relayed" /\ Listening
    /\ pendingInvs' = pendingInvs \cup {t}
    /\ submitted' = [submitted EXCEPT ![t] = "tracked"]
    /\ UNCHANGED <<pool, mined, relayInv, notify, resending, fired, told>>

-----------------------------------------------------------------------------
(* The sync manager: a block takes transactions out of the pool and is     *)
(* announced; every one of them is confirmed.                              *)

Notices(txs) ==
    LET order == CHOOSE s \in [1 .. Cardinality(txs) -> txs] :
                    \A i, j \in DOMAIN s : i # j => s[i] # s[j]
    IN  <<Block>> \o order

BlockConnected ==
    /\ notify = <<>>
    /\ \E txs \in SUBSET pool :
          /\ txs # {}
          /\ mined' = mined \cup txs /\ pool' = pool \ txs
          /\ notify' = Notices(txs)
    /\ UNCHANGED <<submitted, relayInv, pendingInvs, resending, fired, told>>

RelayBlock ==
    /\ notify # <<>> /\ Head(notify) = Block /\ Len(relayInv) < RelayCap
    /\ relayInv' = Append(relayInv, Block) /\ notify' = Tail(notify)
    /\ UNCHANGED <<submitted, pool, mined, pendingInvs, resending, fired, told>>

TransactionConfirmed ==
    /\ notify # <<>> /\ Head(notify) # Block /\ Listening
    /\ pendingInvs' = pendingInvs \ {Head(notify)} /\ notify' = Tail(notify)
    /\ UNCHANGED <<submitted, pool, mined, relayInv, resending, fired, told>>

-----------------------------------------------------------------------------
(* rebroadcastHandler.                                                     *)

RebroadcastTimer ==
    /\ Listening /\ pendingInvs # {} /\ fired < Rebroadcasts
    /\ resending' = pendingInvs /\ fired' = fired + 1
    /\ UNCHANGED <<submitted, pool, mined, relayInv, notify, pendingInvs, told>>

Resend ==
    /\ Len(relayInv) < RelayCap
    /\ \E t \in resending :
          relayInv' = Append(relayInv, t) /\ resending' = resending \ {t}
    /\ UNCHANGED <<submitted, pool, mined, notify, pendingInvs, fired, told>>

-----------------------------------------------------------------------------
(* peerHandler: what a peer is told of an inventory entry.                 *)

\* relayUtreexoTxInv needs the transaction to be in the pool still.
relayUtreexoTxInv(t) == IF t \in pool THEN {<<"utreexotx", t>>} ELSE {}

Announcement(p, x) ==
    LET peer == RelayPeers[p]
    IN  IF x = Block THEN IF peer.headers THEN {<<"headers", Block>>} ELSE {<<"inv", Block>>}
        ELSE IF peer.relayOff \/ FeeRate[x] < peer.feeFilter \/ ~peer.matches THEN {}
        ELSE IF peer.utreexo THEN relayUtreexoTxInv(x)
        ELSE {<<"inv", x>>}

handleRelayInvMsg ==
    /\ relayInv # <<>>
    /\ relayInv' = Tail(relayInv)
    /\ told' = [p \in DOMAIN told |-> told[p] \cup Announcement(p, Head(relayInv))]
    /\ UNCHANGED <<submitted, pool, mined, notify, pendingInvs, resending, fired>>

-----------------------------------------------------------------------------
Init ==
    /\ submitted = [t \in Txs |-> "none"] /\ pool = {} /\ mined = {}
    /\ relayInv = <<>> /\ notify = <<>> /\ pendingInvs = {} /\ resending = {} /\ fired = 0
    /\ told = [p \in DOMAIN RelayPeers |-> {}]

Next ==
    \/ \E t \in Txs : SubmitTx(t) \/ RelayTransactions(t) \/ AddRebroadcastInventory(t)
    \/ BlockConnected \/ RelayBlock \/ TransactionConfirmed
    \/ RebroadcastTimer \/ Resend
    \/ handleRelayInvMsg

\* The steps of the callers, the sync manager, rebroadcastHandler and
\* peerHandler once they have something to do
Goroutines ==
    \/ \E t \in Txs : RelayTransactions(t) \/ AddRebroadcastInventory(t)
    \/ RelayBlock \/ TransactionConfirmed \/ Resend \/ handleRelayInvMsg

\* While one of the goroutines can go on, one does; the timer and new work need
\* not come.
Spec == Init /\ [][Next]_relayVars /\ WF_relayVars(Goroutines)

-----------------------------------------------------------------------------
(* Properties.                                                             *)

Willing(p, t) ==
    /\ ~RelayPeers[p].relayOff /\ RelayPeers[p].matches
    /\ FeeRate[t] >= RelayPeers[p].feeFilter

AllTold ==
    /\ notify = <<>> /\ resending = {}
    /\ \A t \in Txs : submitted[t] # "none" =>
          /\ submitted[t] = "tracked"
          /\ \A p \in DOMAIN RelayPeers : Willing(p, t) =>
                (\E a \in told[p] : a[2] = t) \/ (RelayPeers[p].utreexo /\ t \in mined)

=============================================================================
