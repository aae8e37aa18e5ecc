-------------------------------- MODULE Peer --------------------------------
(***************************************************************************)
(* The goroutines of a connected peer (peer/peer.go): the input handler    *)
(* reads messages, the queue handler keeps what is to be written in order  *)
(* and hands the output handler one message at a time, the stall handler   *)
(* is told of every message, and any goroutine of the node queues messages *)
(* and inventory, some of them waiting until theirs has been written.      *)
(*                                                                         *)
(* One action per channel operation or per stretch between two of them.    *)
(***************************************************************************)
EXTENDS Integers, Sequences, FiniteSets

CONSTANTS
    Callers,            \* goroutines that queue messages
    Waits,              \* those of them that pass a doneChan and wait for it
    InvLists,           \* what may be queued at once: sequences of vectors [type, hash]
    outputBufferSize,
    maxInvTrickleSize,
    Budgets             \* bounds: [msgs: caller -> messages, invs: lists queued, reads: messages read]

VARIABLES
    disconnect,    \* Disconnect was called: quit and the connection are closed
    inH,           \* input handler: where it is
    queueH, outH, stallH,
    inQuit, queueQuit, outQuit, ioStopped,
    stallControl,  \* messages in this channel (of capacity 1)
    callers,       \* caller -> [at, sent]
    outputQueue, outputInvChan,
    waiting, pendingMsgs, invSendQueue,   \* the queue handler's locals
    sendQueue, sendDoneQueue,
    knownInventory,
    released,      \* callers whose doneChan was signalled
    written,       \* what was written to the connection
    reads, invs, pointers,
    budget         \* the bounds of this behaviour

chans == <<stallControl, outputQueue, outputInvChan, sendQueue, sendDoneQueue>>
queueLocals == <<waiting, pendingMsgs, invSendQueue, knownInventory>>
quits == <<inQuit, queueQuit, outQuit, ioStopped>>
peerVars == <<disconnect, inH, queueH, outH, stallH, quits, callers, chans, queueLocals,
              released, written, reads, invs, pointers, budget>>

Data(c, n) == [kind |-> "msg", from |-> c, n |-> n, inv |-> <<>>]
InvMsg(ivs) == [kind |-> "inv", from |-> 0, n |-> 0, inv |-> ivs]
Signal(msgs) == {msgs[i].from : i \in DOMAIN msgs} \cap Waits

Disconnect ==
    /\ ~disconnect /\ disconnect' = TRUE
    /\ UNCHANGED <<inH, queueH, outH, stallH, quits, callers, chans, queueLocals, released, written, reads, invs, pointers>>

-----------------------------------------------------------------------------
(* QueueMessage: Connected is read, then the message is sent to the queue. *)

QueueMessage(c) ==
    /\ callers[c].at = "idle" /\ callers[c].sent < budget.msgs[c]
    /\ callers' = [callers EXCEPT ![c].at =
          IF ~disconnect THEN "send" ELSE IF c \in Waits THEN "wait" ELSE "idle",
          ![c].sent = @ + 1]
    /\ released' = IF disconnect THEN released \cup ({c} \cap Waits) ELSE released
    /\ UNCHANGED <<disconnect, inH, queueH, outH, stallH, quits, chans, queueLocals, written, reads, invs, pointers>>

SendToQueue(c) ==
    /\ callers[c].at = "send" /\ Len(outputQueue) < outputBufferSize
    /\ outputQueue' = Append(outputQueue, Data(c, callers[c].sent))
    /\ callers' = [callers EXCEPT ![c].at = IF c \in Waits THEN "wait" ELSE "idle"]
    /\ UNCHANGED <<disconnect, inH, queueH, outH, stallH, quits, stallControl, outputInvChan,
                   sendQueue, sendDoneQueue, queueLocals, released, written, reads, invs, pointers>>

Released(c) ==
    /\ callers[c].at = "wait" /\ c \in released
    /\ callers' = [callers EXCEPT ![c].at = "idle"]
    /\ released' = released \ {c}
    /\ UNCHANGED <<disconnect, inH, queueH, outH, stallH, quits, chans, queueLocals, written, reads, invs, pointers>>

\* The cache of known inventory holds pointers; QueueInventory looks for a value.
Pointer(iv) == <<"pointer", iv.ptr>>
Value(iv) == <<"value", iv.hash>>

IsTx(iv) == iv.type \in {"tx", "utreexotx"}

\* Inventory that is known is left out, and with a transaction its proof hashes.
Unknown(ivs) ==
    LET tx == {i \in DOMAIN ivs : ivs[i].type # "proof" /\ Value(ivs[i]) \in knownInventory}
        left(i) == i \in tx \/ (ivs[i].type = "proof" /\ \E j \in tx : j < i /\ IsTx(ivs[j]))
        keep == {i \in DOMAIN ivs : ~left(i)}
    IN  IF keep = DOMAIN ivs THEN ivs ELSE SelectSeq(ivs, LAMBDA iv : \E i \in keep : ivs[i] = iv)

QueueInventory(ivs) ==
    /\ invs < budget.invs /\ invs' = invs + 1
    /\ pointers' = pointers + Len(ivs)
    /\ LET new == [i \in DOMAIN ivs |-> [type |-> ivs[i].type, hash |-> ivs[i].hash, ptr |-> pointers + i]]
           list == Unknown(new)
       IN  /\ Len(outputInvChan) < outputBufferSize
           /\ outputInvChan' = IF list = <<>> \/ disconnect THEN outputInvChan ELSE Append(outputInvChan, list)
    /\ UNCHANGED <<disconnect, inH, queueH, outH, stallH, quits, stallControl, outputQueue, sendQueue,
                   sendDoneQueue, queueLocals, callers, released, written, reads>>

-----------------------------------------------------------------------------
(* The queue handler.                                                      *)


queuePacket(q, msg) ==
    [q EXCEPT !.send = IF ~q.waiting THEN Append(@, msg) ELSE @,
              !.pending = IF q.waiting THEN Append(@, msg) ELSE @,
              !.waiting = TRUE]

Queue == [send |-> sendQueue, pending |-> pendingMsgs, waiting |-> waiting,
          invs |-> invSendQueue, known |-> knownInventory]

Becomes(q) ==
    /\ sendQueue' = q.send /\ pendingMsgs' = q.pending /\ waiting' = q.waiting
    /\ invSendQueue' = q.invs /\ knownInventory' = q.known

QueueReceives ==
    /\ queueH = "run" /\ outputQueue # <<>>
    /\ outputQueue' = Tail(outputQueue)
    /\ Becomes(queuePacket(Queue, Head(outputQueue)))
    /\ UNCHANGED <<disconnect, inH, queueH, outH, stallH, quits, callers, stallControl, outputInvChan,
                   sendDoneQueue, released, written, reads, invs, pointers>>

NextPending(q) ==
    IF q.pending = <<>> THEN [q EXCEPT !.waiting = FALSE]
    ELSE [q EXCEPT !.send = Append(@, Head(q.pending)), !.pending = Tail(@)]

QueueSendDone ==
    /\ queueH = "run" /\ sendDoneQueue = 1
    /\ sendDoneQueue' = 0
    /\ Becomes(NextPending(Queue))
    /\ UNCHANGED <<disconnect, inH, queueH, outH, stallH, quits, callers, stallControl, outputQueue,
                   outputInvChan, released, written, reads, invs, pointers>>

\* Several vectors at once are sent without delay: transactions and the proof
\* hashes that follow them.  A single block is too; the others are trickled.
Batch(q, ivs) ==
    LET sent == SelectSeq(ivs, LAMBDA iv : Pointer(iv) \notin q.known /\ iv.type # "block")
        known == q.known \cup {Pointer(ivs[i]) : i \in {j \in DOMAIN ivs : IsTx(ivs[j])}}
    IN  [queuePacket(q, InvMsg(sent)) EXCEPT !.known = known]

QueueInvs ==
    /\ queueH = "run" /\ outputInvChan # <<>>
    /\ outputInvChan' = Tail(outputInvChan)
    /\ LET ivs == Head(outputInvChan)
       IN  Becomes(IF Len(ivs) > 1 THEN IF disconnect THEN Queue ELSE Batch(Queue, ivs)
                   ELSE IF ivs[1].type = "block" THEN queuePacket(Queue, InvMsg(ivs))
                   ELSE [Queue EXCEPT !.invs = @ \o ivs])
    /\ UNCHANGED <<disconnect, inH, queueH, outH, stallH, quits, callers, stallControl, outputQueue,
                   sendDoneQueue, released, written, reads, invs, pointers>>

\* The trickle queue goes out in messages of at most maxInvTrickleSize.
Trickled(q) ==
    LET fresh == SelectSeq(q.invs, LAMBDA iv : Pointer(iv) \notin q.known)
        size == maxInvTrickleSize
        count == (Len(fresh) + size - 1) \div size
        chunk(i) == SubSeq(fresh, (i - 1) * size + 1, IF i * size < Len(fresh) THEN i * size ELSE Len(fresh))
        after[i \in 0 .. count] == IF i = 0 THEN q ELSE queuePacket(after[i - 1], InvMsg(chunk(i)))
    IN  [after[count] EXCEPT !.invs = <<>>,
            !.known = @ \cup {Pointer(fresh[i]) : i \in DOMAIN fresh}]

Trickle ==
    /\ queueH = "run" /\ ~disconnect /\ invSendQueue # <<>>
    /\ Becomes(Trickled(Queue))
    /\ UNCHANGED <<disconnect, inH, queueH, outH, stallH, quits, callers, stallControl, outputQueue,
                   outputInvChan, sendDoneQueue, released, written, reads, invs, pointers>>

QuitSignals == Signal(pendingMsgs) \cup Signal(outputQueue)


\* On quit every waiter of a queued message is released and queueQuit closed.
QueueQuits ==
    /\ queueH = "run" /\ disconnect
    /\ queueH' = "done" /\ queueQuit' = TRUE
    /\ released' = released \cup QuitSignals
    /\ outputQueue' = <<>> /\ outputInvChan' = <<>> /\ pendingMsgs' = <<>>
    /\ UNCHANGED <<disconnect, inH, outH, stallH, inQuit, outQuit, ioStopped, callers, stallControl,
                   sendQueue, sendDoneQueue, waiting, invSendQueue, knownInventory, written, reads, invs, pointers>>

-----------------------------------------------------------------------------
(* The output handler.                                                     *)

OutReceives ==
    /\ outH.at = "run" /\ sendQueue # <<>>
    /\ outH' = [at |-> "stall", msg |-> Head(sendQueue)]
    /\ sendQueue' = Tail(sendQueue)
    /\ UNCHANGED <<disconnect, inH, queueH, stallH, quits, callers, stallControl, outputQueue, outputInvChan,
                   sendDoneQueue, queueLocals, released, written, reads, invs, pointers>>

OutTellsStall ==
    /\ outH.at = "stall" /\ stallControl = 0
    /\ stallControl' = 1 /\ outH' = [outH EXCEPT !.at = "write"]
    /\ UNCHANGED <<disconnect, inH, queueH, stallH, quits, callers, outputQueue, outputInvChan, sendQueue,
                   sendDoneQueue, queueLocals, released, written, reads, invs, pointers>>

\* A failed write disconnects; the waiter is released either way.
OutWrites ==
    /\ outH.at = "write"
    /\ outH' = [outH EXCEPT !.at = "run"]
    /\ released' = released \cup Signal(<<outH.msg>>)
    /\ \/ /\ ~disconnect
          /\ written' = Append(written, outH.msg) /\ sendDoneQueue' = sendDoneQueue + 1
          /\ UNCHANGED disconnect
       \/ disconnect' = TRUE /\ UNCHANGED <<written, sendDoneQueue>>
    /\ UNCHANGED <<inH, queueH, stallH, quits, callers, stallControl, outputQueue, outputInvChan, sendQueue,
                   queueLocals, reads, invs, pointers>>

OutQuits ==
    /\ outH.at = "run" /\ disconnect
    /\ outH' = [outH EXCEPT !.at = "drain"]
    /\ UNCHANGED <<disconnect, inH, queueH, stallH, quits, callers, chans, queueLocals, released, written,
                   reads, invs, pointers>>

OutDrains ==
    /\ outH.at = "drain" /\ queueQuit
    /\ released' = released \cup Signal(sendQueue) /\ sendQueue' = <<>>
    /\ outH' = [outH EXCEPT !.at = "done"] /\ outQuit' = TRUE
    /\ UNCHANGED <<disconnect, inH, queueH, stallH, inQuit, queueQuit, ioStopped, callers, stallControl,
                   outputQueue, outputInvChan, sendDoneQueue, queueLocals, written, reads, invs, pointers>>

-----------------------------------------------------------------------------
(* The input handler: a message is told to the stall handler when it has   *)
(* been read, when its listener starts and when it is done.                *)

InReads ==
    /\ inH = "read" /\ ~disconnect /\ reads < budget.reads
    /\ reads' = reads + 1
    /\ inH' \in {"receive", "exit"}
    /\ UNCHANGED <<disconnect, queueH, outH, stallH, quits, callers, chans, queueLocals, released, written, invs, pointers>>

InAfter == [receive |-> "start", start |-> "finish", finish |-> "read"]

InTellsStall ==
    /\ inH \in DOMAIN InAfter /\ stallControl = 0
    /\ stallControl' = 1 /\ inH' = InAfter[inH]
    /\ UNCHANGED <<disconnect, queueH, outH, stallH, quits, callers, outputQueue, outputInvChan, sendQueue,
                   sendDoneQueue, queueLocals, released, written, reads, invs, pointers>>

InExits ==
    /\ inH = "exit" \/ (inH = "read" /\ disconnect)
    /\ inH' = "done" /\ disconnect' = TRUE /\ inQuit' = TRUE
    /\ UNCHANGED <<queueH, outH, stallH, queueQuit, outQuit, ioStopped, callers, chans, queueLocals, released,
                   written, reads, invs, pointers>>

-----------------------------------------------------------------------------
(* The stall handler: what it keeps of the messages is in PeerStall.       *)

StallReceives ==
    /\ stallH = "run" /\ stallControl = 1
    /\ stallControl' = 0
    /\ UNCHANGED <<disconnect, inH, queueH, outH, stallH, quits, callers, outputQueue, outputInvChan, sendQueue,
                   sendDoneQueue, queueLocals, released, written, reads, invs, pointers>>

\* A closed channel can be received from again.
StallSeesQuit ==
    /\ stallH = "run"
    /\ inQuit \/ outQuit
    /\ IF ioStopped THEN stallH' = "done" /\ stallControl' = 0 /\ UNCHANGED ioStopped
       ELSE ioStopped' = TRUE /\ UNCHANGED <<stallH, stallControl>>
    /\ UNCHANGED <<disconnect, inH, queueH, outH, inQuit, queueQuit, outQuit, callers, outputQueue,
                   outputInvChan, sendQueue, sendDoneQueue, queueLocals, released, written, reads, invs, pointers>>

-----------------------------------------------------------------------------
Init ==
    /\ budget \in Budgets
    /\ disconnect = FALSE /\ inH = "read" /\ queueH = "run" /\ stallH = "run"
    /\ outH = [at |-> "run", msg |-> InvMsg(<<>>)]
    /\ inQuit = FALSE /\ queueQuit = FALSE /\ outQuit = FALSE /\ ioStopped = FALSE
    /\ stallControl = 0 /\ callers = [c \in Callers |-> [at |-> "idle", sent |-> 0]]
    /\ outputQueue = <<>> /\ outputInvChan = <<>>
    /\ waiting = FALSE /\ pendingMsgs = <<>> /\ invSendQueue = <<>> /\ knownInventory = {}
    /\ sendQueue = <<>> /\ sendDoneQueue = 0
    /\ released = {} /\ written = <<>> /\ reads = 0 /\ invs = 0 /\ pointers = 0

Handlers ==
    \/ QueueReceives \/ QueueSendDone \/ QueueInvs \/ QueueQuits
    \/ OutReceives \/ OutTellsStall \/ OutWrites \/ OutQuits \/ OutDrains
    \/ InTellsStall \/ InExits
    \/ StallReceives \/ StallSeesQuit

Next ==
    /\ UNCHANGED budget
    /\ \/ \E c \in Callers : QueueMessage(c) \/ SendToQueue(c) \/ Released(c)
       \/ \E ivs \in InvLists : QueueInventory(ivs)
       \/ Handlers
       \/ Trickle \/ InReads \/ Disconnect

\* Goroutines are scheduled: while one of the handlers can go on, one does.
Spec == Init /\ [][Next]_peerVars /\ WF_peerVars(UNCHANGED budget /\ Handlers)

-----------------------------------------------------------------------------
(* Properties.                                                             *)

\* The queue handler never blocks on the output handler: at most one message
\* is on its way between them, so that neither channel needs room for two.
OneInFlight ==
    /\ Len(sendQueue) <= 1 /\ sendDoneQueue <= 1
    /\ (outH.at \in {"stall", "write"} => sendQueue = <<>> \/ disconnect)
    /\ (~waiting /\ queueH = "run" => sendQueue = <<>> /\ outH.at \notin {"stall", "write"} /\ pendingMsgs = <<>>)

\* The messages of a caller are written in the order it queued them, none
\* twice and none left out in between.
WrittenInOrder ==
    \A c \in Callers :
        LET mine == SelectSeq(written, LAMBDA m : m.from = c)
        IN  \A i \in DOMAIN mine : mine[i].n = i

\* Nobody is left waiting for a message that the handlers had taken: a waiter
\* whose message is nowhere any more was released.
NoWaiterLost ==
    \A c \in Waits : callers[c].at = "wait" =>
        \/ c \in released
        \/ \E i \in DOMAIN outputQueue : outputQueue[i].from = c
        \/ \E i \in DOMAIN pendingMsgs : pendingMsgs[i].from = c
        \/ \E i \in DOMAIN sendQueue : sendQueue[i].from = c
        \/ outH.at \in {"stall", "write"} /\ outH.msg.from = c

Ended == queueH = "done" /\ outH.at = "done" /\ stallH = "done"

\* After a disconnect the queue, output and stall handlers end, whatever they
\* were doing and whatever the other goroutines still try.
HandlersEnd == disconnect ~> Ended

\* The goroutines of a peer write the queued messages one at a time and in
\* order, and whoever waits for a message to be written is told, also when the
\* peer is disconnected meanwhile.
MessagesInOrder ==
    /\ OneInFlight /\ WrittenInOrder /\ NoWaiterLost

=============================================================================
