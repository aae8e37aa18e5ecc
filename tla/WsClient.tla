------------------------------ MODULE WsClient ------------------------------
(***************************************************************************)
(* One websocket client's goroutines (rpcwebsocket.go): inHandler reads    *)
(* requests, singly or in batches, and starts a goroutine per request;     *)
(* notificationQueueHandler keeps one notification at a time in front of   *)
(* outHandler, which writes to the connection.  Other goroutines, the      *)
(* notification manager and rescans, queue notifications.                  *)
(*                                                                         *)
(* Everyone sends with SendMessage or QueueNotification: a check that the  *)
(* client is connected, then a send on a channel that may be full.         *)
(***************************************************************************)
EXTENDS Integers, Sequences, FiniteSets

CONSTANTS
    Conversations,      \* bound: [messages, auth, ntfns]: what the client sends, whether it
                        \* is logged in, notifications each notifier queues
    Workers,            \* RPCMaxConcurrentReqs, one worker per slot
    SendBufferSize,     \* websocketSendBufferSize
    Notifiers           \* goroutines that queue notifications

VARIABLES
    disconnected,       \* Disconnect has run
    incoming,           \* messages still to be read
    auth,               \* [authenticated, isAdmin]
    inH, ntfnH, outH,   \* the handlers: "run" or "done"; outH also "write"
    worker,             \* slot -> "free" or the request being served
    sender,             \* goroutine -> [at |-> "none", "check", "push", what]
    results,            \* entries of the batch being replied to
    ntfnChan, pendingNtfns, waiting, ntfnSent,
    sendChan, writing,
    notifier,           \* notifier -> [at |-> "idle", "push", left]
    read, written, told \* history: requests read, messages written, notifications queued

clientVars == <<disconnected, incoming, auth, inH, ntfnH, outH, worker, sender, results, ntfnChan,
                pendingNtfns, waiting, ntfnSent, sendChan, writing, notifier, read, written, told>>

Senders == {"in", "ntfn"} \cup Workers
Quiet == [at |-> "none", what |-> <<>>]

(* A message on its way: the ids it answers, or one notification.          *)
Reply(ids) == [ntfn |-> FALSE, what |-> ids]
Notification(n, i) == [ntfn |-> TRUE, what |-> <<n, i>>]

-----------------------------------------------------------------------------
(* What inHandler does with one request: end the connection, say nothing,  *)
(* answer with an error, log in, or serve it.                              *)

Gate(a, m) ==
    CASE m.form = "malformed" -> "reply"
      [] ~a.authenticated /\ m.form # "auth" -> "quit"
      [] m.form \in {"garbled", "badparams"} -> "reply"
      [] m.form = "noid" -> "skip"
      [] m.form = "auth" -> IF a.authenticated \/ m.by = "nobody" THEN "quit" ELSE "login"
      [] m.form = "cmd" -> IF a.isAdmin \/ m.limited THEN "serve" ELSE "reply"

Login(a, m) == IF Gate(a, m) = "login" THEN [authenticated |-> TRUE, isAdmin |-> m.by = "admin"] ELSE a

(* A batch: [quits, auth, ids answered], entry after entry.                *)
Entries(a, ms, unanswered) ==
    LET after[i \in 0 .. Len(ms)] ==
            IF i = 0 THEN [quits |-> FALSE, auth |-> a, ids |-> <<>>]
            ELSE IF after[i - 1].quits THEN after[i - 1]
            ELSE LET b == after[i - 1]
                     g == Gate(b.auth, ms[i])
                 IN [quits |-> g = "quit", auth |-> Login(b.auth, ms[i]),
                     ids |-> IF g \in unanswered THEN b.ids ELSE Append(b.ids, ms[i].id)]
    IN after[Len(ms)]

Batch(a, ms) == Entries(a, ms, {"quit", "skip"})

(* The requests of a batch that are owed an answer.                        *)
Owed(ms) == LET named == SelectSeq(ms, LAMBDA m : m.form # "noid") IN [i \in DOMAIN named |-> named[i].id]

Disconnect == disconnected' = TRUE

InQuits ==
    /\ Disconnect /\ inH' = "done"
    /\ UNCHANGED <<auth, worker, sender, read>>

Send(g, ids) == sender' = [sender EXCEPT ![g] = [at |-> "check", what |-> Reply(ids)]]

(* A free slot is taken for a request that is served.                      *)
ReadSingle ==
    /\ inH = "run" /\ sender["in"].at = "none" /\ results = <<>>
    /\ incoming # <<>> /\ Len(Head(incoming)) = 1 /\ ~Head(incoming)[1].batch
    /\ incoming' = Tail(incoming)
    /\ LET m == Head(incoming)[1]
           g == Gate(auth, m)
       IN \/ g = "quit" /\ InQuits
          \/ g = "skip" /\ UNCHANGED <<disconnected, inH, auth, worker, sender, read>>
          \/ /\ g \in {"reply", "login"}
             /\ auth' = Login(auth, m) /\ read' = Append(read, m.id) /\ Send("in", <<m.id>>)
             /\ UNCHANGED <<disconnected, inH, worker>>
          \/ /\ g = "serve"
             /\ \E w \in Workers : worker[w] = 0 /\ worker' = [worker EXCEPT ![w] = m.id]
             /\ read' = Append(read, m.id)
             /\ UNCHANGED <<disconnected, inH, auth, sender>>
    /\ UNCHANGED <<ntfnH, outH, results, ntfnChan, pendingNtfns, waiting, ntfnSent, sendChan, writing, notifier, written, told>>

(* A batch holds a slot until its reply is sent, or for good if it ends    *)
(* the connection.                                                         *)
ReadBatch ==
    /\ inH = "run" /\ sender["in"].at = "none"
    /\ incoming # <<>> /\ Head(incoming)[1].batch
    /\ incoming' = Tail(incoming)
    /\ \E w \in Workers :
         /\ worker[w] = 0
         /\ LET b == Batch(auth, Head(incoming))
            IN IF b.quits
               THEN /\ Disconnect /\ inH' = "done" /\ auth' = b.auth
                    /\ worker' = [worker EXCEPT ![w] = -1]
                    /\ UNCHANGED <<sender, read, results>>
               ELSE /\ auth' = b.auth /\ Send("in", b.ids)
                    /\ worker' = [worker EXCEPT ![w] = -1] /\ results' = <<w>>
                    /\ read' = read \o Owed(Head(incoming))
                    /\ UNCHANGED <<disconnected, inH>>
    /\ UNCHANGED <<ntfnH, outH, ntfnChan, pendingNtfns, waiting, ntfnSent, sendChan, writing, notifier, written, told>>

(* The connection was closed: by the client, or by Disconnect.             *)
ReadFails ==
    /\ inH = "run" /\ sender["in"].at = "none" /\ (disconnected \/ incoming = <<>>)
    /\ InQuits
    /\ UNCHANGED <<incoming, ntfnH, outH, results, ntfnChan, pendingNtfns, waiting, ntfnSent, sendChan, writing, notifier, written, told>>

(* serviceRequest: the command has run, its reply is to be sent.           *)
ServiceRequest(w) ==
    /\ worker[w] > 0 /\ sender[w].at = "none"
    /\ Send(w, <<worker[w]>>)
    /\ UNCHANGED <<disconnected, incoming, auth, inH, ntfnH, outH, worker, results, ntfnChan, pendingNtfns,
                   waiting, ntfnSent, sendChan, writing, notifier, read, written, told>>

-----------------------------------------------------------------------------
(* SendMessage.                                                            *)

Released(g) ==
    /\ worker' = IF g \in Workers THEN [worker EXCEPT ![g] = 0]
                 ELSE IF g = "in" /\ results # <<>> THEN [worker EXCEPT ![results[1]] = 0] ELSE worker
    /\ results' = IF g = "in" THEN <<>> ELSE results

SendChecks(g) ==
    /\ sender[g].at = "check"
    /\ IF disconnected
       THEN /\ sender' = [sender EXCEPT ![g] = Quiet]
            /\ ntfnSent' = (ntfnSent \/ sender[g].what.ntfn)
            /\ Released(g)
       ELSE sender' = [sender EXCEPT ![g].at = "push"] /\ UNCHANGED <<worker, results, ntfnSent>>
    /\ UNCHANGED <<disconnected, incoming, auth, inH, ntfnH, outH, ntfnChan, pendingNtfns, waiting, sendChan, writing, notifier, read, written, told>>

SendPushes(g) ==
    /\ sender[g].at = "push" /\ Len(sendChan) < SendBufferSize
    /\ sendChan' = Append(sendChan, sender[g].what)
    /\ sender' = [sender EXCEPT ![g] = Quiet]
    /\ Released(g)
    /\ UNCHANGED <<disconnected, incoming, auth, inH, ntfnH, outH, ntfnChan, pendingNtfns, waiting, ntfnSent, writing, notifier, read, written, told>>

-----------------------------------------------------------------------------
(* QueueNotification, by any notifier.                                     *)

QueueChecks(n) ==
    /\ notifier[n].at = "idle" /\ notifier[n].left > 0
    /\ notifier' = [notifier EXCEPT ![n].left = @ - 1, ![n].at = IF disconnected THEN "idle" ELSE "push"]
    /\ UNCHANGED <<disconnected, incoming, auth, inH, ntfnH, outH, worker, sender, results, ntfnChan,
                   pendingNtfns, waiting, ntfnSent, sendChan, writing, read, written, told>>

QueuePushes(n) ==
    /\ notifier[n].at = "push" /\ ntfnChan = <<>>
    /\ ntfnChan' = <<Notification(n, notifier[n].left)>>
    /\ told' = Append(told, <<n, notifier[n].left>>)
    /\ notifier' = [notifier EXCEPT ![n].at = "idle"]
    /\ UNCHANGED <<disconnected, incoming, auth, inH, ntfnH, outH, worker, sender, results,
                   pendingNtfns, waiting, ntfnSent, sendChan, writing, read, written>>

-----------------------------------------------------------------------------
(* notificationQueueHandler.                                               *)

NtfnReady == ntfnH = "run" /\ sender["ntfn"].at = "none"
SendNtfn(m) == sender' = [sender EXCEPT !["ntfn"] = [at |-> "check", what |-> m]]

(* Mutant: sent at once, whatever is in progress.                          *)
TakeNtfnEagerly ==
    /\ NtfnReady /\ ntfnChan # <<>>
    /\ ntfnChan' = <<>> /\ waiting' = TRUE
    /\ SendNtfn(ntfnChan[1])
    /\ UNCHANGED <<disconnected, incoming, auth, inH, ntfnH, outH, worker, results, pendingNtfns, ntfnSent,
                   sendChan, writing, notifier, read, written, told>>

TakeNtfn ==
    /\ NtfnReady /\ ntfnChan # <<>>
    /\ ntfnChan' = <<>> /\ waiting' = TRUE
    /\ IF waiting THEN pendingNtfns' = Append(pendingNtfns, ntfnChan[1]) /\ UNCHANGED sender
       ELSE SendNtfn(ntfnChan[1]) /\ UNCHANGED pendingNtfns
    /\ UNCHANGED <<disconnected, incoming, auth, inH, ntfnH, outH, worker, results, ntfnSent, sendChan,
                   writing, notifier, read, written, told>>

NextNtfn ==
    /\ NtfnReady /\ ntfnSent
    /\ ntfnSent' = FALSE /\ waiting' = (pendingNtfns # <<>>)
    /\ IF pendingNtfns = <<>> THEN UNCHANGED <<pendingNtfns, sender>>
       ELSE SendNtfn(Head(pendingNtfns)) /\ pendingNtfns' = Tail(pendingNtfns)
    /\ UNCHANGED <<disconnected, incoming, auth, inH, ntfnH, outH, worker, results, ntfnChan, sendChan,
                   writing, notifier, read, written, told>>

NtfnQuits ==
    /\ NtfnReady /\ disconnected
    /\ ntfnH' = "done" /\ ntfnChan' = <<>> /\ ntfnSent' = FALSE
    /\ UNCHANGED <<disconnected, incoming, auth, inH, outH, worker, sender, results, pendingNtfns, waiting,
                   sendChan, writing, notifier, read, written, told>>

-----------------------------------------------------------------------------
(* outHandler.                                                             *)

TakeMessage ==
    /\ outH = "run" /\ sendChan # <<>>
    /\ outH' = "write" /\ writing' = Head(sendChan) /\ sendChan' = Tail(sendChan)
    /\ UNCHANGED <<disconnected, incoming, auth, inH, ntfnH, worker, sender, results, ntfnChan, pendingNtfns,
                   waiting, ntfnSent, notifier, read, written, told>>

(* Once the connection is closed a write fails; it may fail before.        *)
WriteMessage ==
    /\ outH = "write"
    /\ \/ /\ ~disconnected /\ outH' = "run"
          /\ written' = Append(written, writing)
          /\ ntfnSent' = (ntfnSent \/ writing.ntfn)
          /\ UNCHANGED <<disconnected, sendChan>>
       \/ /\ Disconnect /\ outH' = "done" /\ sendChan' = <<>>
          /\ ntfnSent' = (ntfnSent \/ \E i \in DOMAIN sendChan : sendChan[i].ntfn)
          /\ UNCHANGED written
    /\ UNCHANGED <<incoming, auth, inH, ntfnH, worker, sender, results, ntfnChan, pendingNtfns, waiting,
                   writing, notifier, read, told>>

OutQuits ==
    /\ outH = "run" /\ disconnected
    /\ outH' = "done" /\ sendChan' = <<>>
    /\ ntfnSent' = (ntfnSent \/ \E i \in DOMAIN sendChan : sendChan[i].ntfn)
    /\ UNCHANGED <<disconnected, incoming, auth, inH, ntfnH, worker, sender, results, ntfnChan, pendingNtfns,
                   waiting, writing, notifier, read, written, told>>

ClientInit ==
    /\ \E talk \in Conversations :
         /\ incoming = talk.messages /\ auth = talk.auth
         /\ notifier = [n \in Notifiers |-> [at |-> "idle", left |-> talk.ntfns]]
    /\ disconnected = FALSE /\ inH = "run" /\ ntfnH = "run" /\ outH = "run"
    /\ worker = [w \in Workers |-> 0] /\ sender = [g \in Senders |-> Quiet]
    /\ results = <<>> /\ ntfnChan = <<>> /\ pendingNtfns = <<>> /\ waiting = FALSE /\ ntfnSent = FALSE
    /\ sendChan = <<>> /\ writing = Reply(<<>>)
    /\ read = <<>> /\ written = <<>> /\ told = <<>>

InStep == ReadSingle \/ ReadBatch \/ ReadFails
NtfnStep == TakeNtfn \/ NextNtfn \/ NtfnQuits
OutStep == TakeMessage \/ WriteMessage \/ OutQuits
SendStep(g) == SendChecks(g) \/ SendPushes(g)
QueueStep(n) == QueueChecks(n) \/ QueuePushes(n)

ClientNext ==
    \/ InStep \/ NtfnStep \/ OutStep
    \/ \E g \in Senders : SendStep(g)
    \/ \E w \in Workers : ServiceRequest(w)
    \/ \E n \in Notifiers : QueueStep(n)

(* While one of the goroutines can go on, one does: commands return, writes *)
(* end.                                                                    *)
ClientSpec == ClientInit /\ [][ClientNext]_clientVars /\ WF_clientVars(ClientNext)

-----------------------------------------------------------------------------
(* Properties.                                                             *)

InFlight ==
    {i \in DOMAIN sendChan : sendChan[i].ntfn}

(* notificationQueueHandler has at most one notification with outHandler,  *)
(* so replies are never queued behind a backlog of notifications.          *)
OneNotification ==
    Cardinality(InFlight) + (IF outH = "write" /\ writing.ntfn THEN 1 ELSE 0)
      + (IF sender["ntfn"].at # "none" THEN 1 ELSE 0) + (IF ntfnSent THEN 1 ELSE 0) <= 1

Prefix(s, t) == Len(s) <= Len(t) /\ SubSeq(t, 1, Len(s)) = s

(* Notifications reach the connection in the order they were queued, and   *)
(* none is left out.                                                       *)
NotificationsInOrder ==
    LET out == SelectSeq(written, LAMBDA m : m.ntfn)
    IN Prefix([i \in DOMAIN out |-> out[i].what], told)

Answers(id) == Cardinality({<<i, k>> \in (DOMAIN written) \X (1 .. 4) :
                    ~written[i].ntfn /\ k \in DOMAIN written[i].what /\ written[i].what[k] = id})

(* Every request read is answered at most once, and, if the connection     *)
(* stays and all is quiet, exactly once.                                   *)
AnsweredOnce ==
    \A i \in DOMAIN read :
        /\ Answers(read[i]) <= 1
        /\ (~disconnected /\ outH = "run" /\ sendChan = <<>> /\ \A g \in Senders : sender[g].at = "none"
             /\ \A w \in Workers : worker[w] = 0) => Answers(read[i]) = 1

Ended == inH = "done" /\ ntfnH = "done" /\ outH = "done" /\ \A w \in Workers : worker[w] <= 0

(* Once the client is disconnected its three handlers end, and every       *)
(* request being served gives its slot back.                               *)
HandlersEnd == disconnected ~> Ended

\* A websocket client gets its notifications one at a time and in order, and
\* one answer to every request.
ClientServed ==
    /\ OneNotification /\ NotificationsInOrder /\ AnsweredOnce

=============================================================================
