----------------------------- MODULE PeerStall -----------------------------
(***************************************************************************)
(* stallHandler (peer/peer.go): the answers a peer owes us, by when, and    *)
(* the time its message listeners took.  Time passes in ticks; the stall    *)
(* ticker fires every TickInterval of them.                                *)
(***************************************************************************)
EXTENDS Integers, FiniteSets

CONSTANTS
    stallResponseTimeout, TickInterval,
    MaxTime,                \* bound on the clock
    MaxRequests             \* bound on the messages sent

VARIABLES
    now, requests,
    pendingResponses,       \* command -> deadline, for the answers owed
    handlerActive, handlersStartTime, deadlineOffset,
    ticked,                 \* when the ticker fired last
    stalled,                \* the peer was disconnected for stalling
    owed,                   \* answer -> [at, time, busy]: when its request was written, the time it has, and busy then
    busy                    \* the time the listeners were active

stallVars == <<now, requests, pendingResponses, handlerActive, handlersStartTime, deadlineOffset,
               ticked, stalled, owed, busy>>

DataAnswers == {"block", "merkleblock", "tx", "utreexotx", "notfound"}

\* What a message makes the peer owe, and how long it has.
Answers == [version |-> {"verack"}, mempool |-> {"inv"}, getblocks |-> {"inv"},
            getdata |-> DataAnswers, getheaders |-> {"headers"}]
Patience(cmd) == IF cmd = "getheaders" THEN 3 * stallResponseTimeout ELSE stallResponseTimeout

\* A function with the given values added, or without some arguments.
With(f, S, v) == [x \in DOMAIN f \cup S |-> IF x \in S THEN v ELSE f[x]]
Without(f, S) == [x \in DOMAIN f \ S |-> f[x]]

maybeAddDeadline(cmd) == With(pendingResponses, Answers[cmd], now + Patience(cmd))

Sent(cmd) ==
    /\ ~stalled /\ requests < MaxRequests /\ requests' = requests + 1
    /\ pendingResponses' = maybeAddDeadline(cmd)
    /\ owed' = With(owed, Answers[cmd], [at |-> now, time |-> Patience(cmd), busy |-> busy])
    /\ UNCHANGED <<now, handlerActive, handlersStartTime, deadlineOffset, ticked, stalled, busy>>


SettledBy(cmd) == IF cmd \in DataAnswers THEN DataAnswers ELSE {cmd}

\* sccReceiveMessage and sccHandlerStart come from the input handler in a row.
Received(cmd) ==
    /\ ~stalled /\ ~handlerActive
    /\ pendingResponses' = Without(pendingResponses, SettledBy(cmd))
    /\ owed' = Without(owed, IF cmd \in DataAnswers THEN DataAnswers ELSE {cmd})
    /\ handlerActive' = TRUE /\ handlersStartTime' = now
    /\ UNCHANGED <<now, requests, deadlineOffset, ticked, stalled, busy>>

HandlerDone ==
    /\ ~stalled /\ handlerActive
    /\ handlerActive' = FALSE /\ deadlineOffset' = deadlineOffset + (now - handlersStartTime)
    /\ UNCHANGED <<now, requests, pendingResponses, handlersStartTime, ticked, stalled, owed, busy>>

Late(cmd, offset) == now >= pendingResponses[cmd] + offset

StallTick ==
    /\ ~stalled /\ now = ticked + TickInterval
    /\ LET offset == deadlineOffset + (IF handlerActive THEN now - handlersStartTime ELSE 0)
       IN  stalled' = \E cmd \in DOMAIN pendingResponses : Late(cmd, offset)
    /\ deadlineOffset' = 0 /\ ticked' = now
    /\ UNCHANGED <<now, requests, pendingResponses, handlerActive, handlersStartTime, owed, busy>>

TimePasses ==
    /\ now < MaxTime /\ now < ticked + TickInterval
    /\ now' = now + 1
    /\ busy' = IF handlerActive THEN busy + 1 ELSE busy
    /\ UNCHANGED <<requests, pendingResponses, handlerActive, handlersStartTime, deadlineOffset, ticked, stalled, owed>>

Init ==
    /\ now = 0 /\ requests = 0 /\ ticked = 0
    /\ pendingResponses = <<>> /\ owed = <<>> /\ busy = 0
    /\ handlerActive = FALSE /\ handlersStartTime = 0 /\ deadlineOffset = 0 /\ stalled = FALSE

Next ==
    \/ \E cmd \in DOMAIN Answers : Sent(cmd)
    \/ \E cmd \in {"inv", "block", "tx", "headers", "verack", "ping"} : Received(cmd)
    \/ HandlerDone \/ StallTick \/ TimePasses

Spec == Init /\ [][Next]_stallVars

-----------------------------------------------------------------------------
(* Properties.                                                             *)

\* A peer that owes nothing is not disconnected, and one that was had its full
\* time for some answer: answers that came in time are all it takes.
StalledOwes ==
    stalled => \E cmd \in DOMAIN owed : now >= owed[cmd].at + owed[cmd].time

Since(o) == busy - o.busy

\* A peer that stays silent is found out: an answer is never overdue by more
\* than a tick beyond the time the listeners took since the request.
SilenceNoticed ==
    ~stalled => \A cmd \in DOMAIN owed :
        now < owed[cmd].at + owed[cmd].time + Since(owed[cmd]) + TickInterval + 1


=============================================================================
