------------------------------ MODULE RpcClient ------------------------------
(* The JSON-RPC client of rpcclient/infrastructure.go: the requests it keeps   *)
(* track of, the goroutines of a websocket connection, reconnection with the   *)
(* registrations and the requests sent again, the POST handler and batches,    *)
(* and the notifications of rpcclient/notify.go.                               *)
(* The connection and the server behind it are external: what is written on a  *)
(* connection that stands is answered in order, a lost connection takes what   *)
(* was under way with it. A request is named <<0, method>> when a caller       *)
(* issues it and <<g, method>> when the client issues it for connection g.     *)
EXTENDS Integers, Sequences, FiniteSets, SequencesExt

CONSTANTS
  Notifies,        \* the methods that register for notifications
  Plain,           \* the other methods
  Scripts,         \* [mode, calls, refused, drops, stops, handlers, events]: what happens in a behaviour
  MaxConns,        \* bound on the connections made
  sendBufferSize,  \* of sendChan (50) and sendPostChan (100)
  PostHandlers     \* the POST handlers of a client

VARIABLES
  script,          \* the behaviour's configuration and what is left of its events
  shut,            \* the channel shutdown is closed
  disc,            \* disconnected, the channel disconnect, the channels closed
  flushing,        \* Disconnect is about to answer the pending requests
  wsConn,          \* the connection in use, 0: none yet
  link,            \* of each connection: stands, requests and replies under way
  registered,      \* what the server registered for each connection
  requestList,     \* the requests awaiting their reply, or of the batch
  ntfnState,       \* the registrations to establish again
  sendChan,        \* requests on their way to an output handler
  answers,         \* what was sent to the channel of each request
  call,            \* the goroutine that issues each request
  cin,             \* wsInHandler of each connection
  cout,            \* wsOutHandler of each connection
  recon,           \* wsReconnectHandler
  resend,          \* resendRequests of each connection
  verLock,         \* backendVersionMu is held
  post,            \* the POST handlers
  batch,           \* Send
  callbacks        \* of each connection: the notifications told and the handlers called

callVars == <<answers, call, verLock>>
connVars == <<disc, flushing, wsConn, link, registered>>
listVars == <<requestList, ntfnState>>
cliVars == <<script, shut, connVars, listVars, sendChan, callVars, cin, cout, recon, resend, post,
             batch, callbacks>>

Conns == 1 .. MaxConns
Methods == Notifies \cup Plain
Bulk == <<1, "bulk">>
Ids == ({0} \X Methods) \cup ((2 .. MaxConns) \X Notifies) \cup {Bulk}
PostMode == script.mode \in {"post", "batch"}
AutoReconnect == script.mode # "once"
Elements(s) == {s[i] : i \in DOMAIN s}

(* A channel of capacity one: whoever sends waits for the last answer to be    *)
(* taken.                                                                      *)
Free(id) == Len(answers[id]) = IF call[id].at = "returned" THEN 1 ELSE 0
Answer(ids, r) == answers' = [i \in Ids |-> IF i \in ids THEN Append(answers[i], r) ELSE answers[i]]

(* ---- requests ---- *)

addRequest(id) ==
  /\ requestList' = IF shut THEN requestList ELSE Append(requestList, id)
  /\ call' = [call EXCEPT ![id].at = IF shut THEN "wait" ELSE "enter"]
  /\ IF shut THEN Answer({id}, "shutdown") ELSE UNCHANGED answers

removeRequest(id) == requestList' = Remove(requestList, id)

(* A client that has no notification handlers subscribes to nothing, and one   *)
(* without a websocket cannot: the call is answered and nothing is sent.       *)
NoHandlers == {"nil"}
Subscribes(id) == id[2] \in Notifies \cup {"rescan"}
Unsent(id) == Subscribes(id) /\ (PostMode \/ script.handlers = NoHandlers)

NotifyAsync(id) ==
  /\ call[id].at = "issue" /\ Unsent(id)
  /\ Answer({id}, IF PostMode THEN "websocket" ELSE "ok")
  /\ call' = [call EXCEPT ![id].at = "wait"]
  /\ UNCHANGED <<script, shut, connVars, listVars, sendChan, verLock, cin, cout, recon, resend, post,
                 batch, callbacks>>

(* SendCmd over a websocket: without a connection yet the call fails.          *)
SendCmd(id) ==
  /\ ~PostMode
  /\ ~Unsent(id)
  /\ call[id].at = "issue"
  /\ IF wsConn = 0 /\ ~(\E g \in Conns : cin[g].at # "none")
     THEN /\ Answer({id}, "notconnected")
          /\ call' = [call EXCEPT ![id].at = "wait"]
          /\ UNCHANGED requestList
     ELSE addRequest(id)
  /\ UNCHANGED <<script, shut, connVars, ntfnState, sendChan, verLock, cin, cout, recon, resend, post,
                 batch, callbacks>>

(* sendMessage: the channel of the moment is the one waited on.                *)
sendMessage(id) ==
  /\ call[id].at = "enter"
  /\ call' = [call EXCEPT ![id] = [at |-> "select", ch |-> disc.chan]]
  /\ UNCHANGED <<script, shut, connVars, listVars, sendChan, answers, verLock, cin, cout, recon,
                 resend, post, batch, callbacks>>

Sent(id) ==
  /\ call[id].at = "select"
  /\ \/ /\ Len(sendChan) < sendBufferSize
        /\ sendChan' = Append(sendChan, id)
     \/ /\ call[id].ch \in disc.closed
        /\ UNCHANGED sendChan
  /\ call' = [call EXCEPT ![id].at = "wait"]
  /\ UNCHANGED <<script, shut, connVars, listVars, answers, verLock, cin, cout, recon, resend, post,
                 batch, callbacks>>

(* ReceiveFuture; BackendVersion releases its lock when it returns.            *)
ReceiveFuture(id) ==
  /\ call[id].at = "wait"
  /\ answers[id] # <<>>
  /\ call' = [call EXCEPT ![id].at = "returned"]
  /\ verLock' = (verLock /\ id # <<0, "version">>)
  /\ UNCHANGED <<script, shut, connVars, listVars, sendChan, answers, cin, cout, recon, resend, post,
                 batch, callbacks>>

(* A caller starts. BackendVersion takes its lock and holds it for the call.   *)
Issue(m) ==
  /\ m \in script.calls
  /\ m = "version" => ~verLock
  /\ script' = [script EXCEPT !.calls = @ \ {m}]
  /\ call' = [call EXCEPT ![<<0, m>>].at = "issue"]
  /\ verLock' = (verLock \/ m = "version")
  /\ UNCHANGED <<shut, connVars, listVars, sendChan, answers, cin, cout, recon, resend, post, batch, callbacks>>

(* ---- disconnect and shutdown ---- *)

Closed == [disc EXCEPT !.flag = TRUE, !.closed = @ \cup {disc.chan}]
Dead == [up |-> FALSE, out |-> <<>>, in |-> <<>>]
CloseConn == link' = IF wsConn = 0 THEN link ELSE [link EXCEPT ![wsConn] = Dead]

doDisconnect ==
  IF disc.flag THEN UNCHANGED <<disc, link>> ELSE disc' = Closed /\ CloseConn

(* Disconnect, first half; without automatic reconnection the requests that    *)
(* wait are answered next.                                                     *)
Disconnect ==
  /\ doDisconnect
  /\ flushing' = (flushing \/ (~disc.flag /\ ~AutoReconnect))

(* Disconnect, second half, under the request lock.                            *)
Flush ==
  /\ flushing
  /\ flushing' = FALSE
  /\ Answer(Elements(requestList), "disconnected")
  /\ requestList' = <<>>
  /\ shut' = TRUE
  /\ UNCHANGED <<script, disc, wsConn, link, registered, ntfnState, sendChan, call, verLock, cin, cout,
                 recon, resend, post, batch, callbacks>>

Shutdown ==
  /\ script.stops
  /\ script' = [script EXCEPT !.stops = FALSE]
  /\ IF shut THEN UNCHANGED <<shut, answers, requestList, disc, link>>
     ELSE /\ shut' = TRUE
          /\ IF PostMode THEN UNCHANGED <<answers, disc, link>>
             ELSE Answer(Elements(requestList), "shutdown") /\ doDisconnect
          /\ requestList' = IF PostMode THEN requestList ELSE <<>>
  /\ UNCHANGED <<flushing, wsConn, registered, ntfnState, sendChan, call, verLock, cin, cout, recon,
                 resend, post, batch, callbacks>>

(* ---- notifications ---- *)

(* A parameter is a value of a kind: what its JSON stands for. What each type  *)
(* of the client takes: an object any object, a number for an amount any       *)
(* number, a string any string, decoded where the client decodes it.           *)
Decodes(kind, as) ==
  CASE as = "amount" -> kind \in {"amount", "int"}
    [] as = "account" -> kind \in {"account", "hash", "header", "tx"}
    [] as = "hex" -> kind \in {"tx", "header", "hash"}
    [] as \in {"details", "rawtx"} -> kind \in {"details", "rawtx"}
    [] OTHER -> kind = as

(* The values when every parameter can be taken, or nothing.                   *)
Parsed(params, types) ==
  IF Len(params) = Len(types) /\ \A i \in DOMAIN types : Decodes(params[i].kind, types[i])
  THEN <<[i \in DOMAIN types |-> params[i].val]>> ELSE <<>>
FirstOf(params, n) == SubSeq(params, 1, IF Len(params) < n THEN Len(params) ELSE n)

parseChainNtfnParams(params) == Parsed(params, <<"hash", "int", "int">>)
parseFilteredBlockConnectedParams(params) == Parsed(FirstOf(params, 3), <<"int", "header", "txs">>)
parseFilteredBlockDisconnectedParams(params) == Parsed(FirstOf(params, 2), <<"int", "header">>)
parseRelevantTxAcceptedParams(params) == Parsed(FirstOf(params, 1), <<"hex">>)
parseChainTxNtfnParams(params) == Parsed(params, IF Len(params) = 1 THEN <<"tx">> ELSE <<"tx", "details">>)
parseRescanProgressParams(params) == Parsed(params, <<"hash", "int", "int">>)
parseTxAcceptedNtfnParams(params) == Parsed(params, <<"hash", "amount">>)
parseTxAcceptedVerboseNtfnParams(params) == Parsed(params, <<"rawtx">>)
parseBtcdConnectedNtfnParams(params) == Parsed(params, <<"bool">>)
parseAccountBalanceNtfnParams(params) == Parsed(params, <<"account", "amount", "bool">>)
parseWalletLockStateNtfnParams(params) == Parsed(params, <<"account", "bool">>)

NtfnMethods == {"blockconnected", "blockdisconnected", "filteredblockconnected", "filteredblockdisconnected",
                "recvtx", "redeemingtx", "relevanttxaccepted", "rescanfinished", "rescanprogress",
                "txaccepted", "txacceptedverbose", "btcdconnected", "accountbalance", "walletlockstate"}
HandlerOf(method) == IF method \in NtfnMethods THEN method ELSE "unknown"

ParsedFor(n) ==
  CASE n.method \in {"blockconnected", "blockdisconnected"} -> parseChainNtfnParams(n.params)
    [] n.method = "filteredblockconnected" -> parseFilteredBlockConnectedParams(n.params)
    [] n.method = "filteredblockdisconnected" -> parseFilteredBlockDisconnectedParams(n.params)
    [] n.method \in {"recvtx", "redeemingtx"} -> parseChainTxNtfnParams(n.params)
    [] n.method = "relevanttxaccepted" -> parseRelevantTxAcceptedParams(n.params)
    [] n.method \in {"rescanfinished", "rescanprogress"} -> parseRescanProgressParams(n.params)
    [] n.method = "txaccepted" -> parseTxAcceptedNtfnParams(n.params)
    [] n.method = "txacceptedverbose" -> parseTxAcceptedVerboseNtfnParams(n.params)
    [] n.method = "btcdconnected" -> parseBtcdConnectedNtfnParams(n.params)
    [] n.method = "accountbalance" -> parseAccountBalanceNtfnParams(n.params)
    [] n.method = "walletlockstate" -> parseWalletLockStateNtfnParams(n.params)
    [] OTHER -> <<[i \in DOMAIN n.params |-> n.params[i].val]>>

(* The handler called for a notification, if one is: the client has it and     *)
(* the parameters can be taken.  The account of a lock state is not passed on. *)
handleNotification(n) ==
  IF script.handlers = NoHandlers \/ HandlerOf(n.method) \notin script.handlers \/ ParsedFor(n) = <<>> THEN <<>>
  ELSE <<[on |-> HandlerOf(n.method),
          args |-> IF n.method = "walletlockstate" THEN Tail(ParsedFor(n)[1]) ELSE ParsedFor(n)[1]]>>

(* ---- the handlers of a connection ---- *)

InTo(g, at, conn, id, ok) == cin' = [cin EXCEPT ![g] = [at |-> at, conn |-> conn, id |-> id, ok |-> ok]]

BeginRead(g) ==
  /\ cin[g].at = "top"
  /\ IF shut THEN InTo(g, "leave", 0, Bulk, TRUE) ELSE InTo(g, "read", wsConn, Bulk, TRUE)
  /\ UNCHANGED <<script, shut, connVars, listVars, sendChan, callVars, cout, recon, resend, post, batch, callbacks>>

(* handleMessage: a notification goes to its handler, a reply nobody waits for *)
(* is dropped.                                                                 *)
ReadMessage(g) ==
  /\ cin[g].at = "read"
  /\ LET c == cin[g].conn IN
     \/ /\ ~link[c].up
        /\ InTo(g, "leave", 0, Bulk, TRUE)
        /\ UNCHANGED <<link, requestList, callbacks>>
     \/ /\ link[c].up
        /\ link[c].in # <<>>
        /\ LET r == Head(link[c].in) IN
           /\ link' = [link EXCEPT ![c].in = Tail(@)]
           /\ IF Contains(requestList, r.id)
              THEN removeRequest(r.id) /\ InTo(g, "deliver", c, r.id, r.ok)
              ELSE InTo(g, "top", 0, Bulk, TRUE) /\ UNCHANGED requestList
           /\ callbacks' = IF r.ntfn = <<>> THEN callbacks
                           ELSE [callbacks EXCEPT ![c].called = @ \o handleNotification(r.ntfn[1])]
  /\ UNCHANGED <<script, shut, disc, flushing, wsConn, registered, ntfnState, sendChan, callVars, cout,
                 recon, resend, post, batch>>

(* The registration is remembered, whatever the reply says, and delivered.     *)
trackRegisteredNtfns(g) ==
  /\ cin[g].at = "deliver"
  /\ Free(cin[g].id)
  /\ ntfnState' = ntfnState \cup ({cin[g].id[2]} \cap Notifies)
  /\ Answer({cin[g].id}, IF cin[g].ok THEN "ok" ELSE "error")
  /\ InTo(g, "top", 0, Bulk, TRUE)
  /\ UNCHANGED <<script, shut, connVars, requestList, sendChan, call, verLock, cout, recon, resend, post,
                 batch, callbacks>>

InLeaves(g) ==
  /\ cin[g].at = "leave"
  /\ Disconnect
  /\ InTo(g, "done", 0, Bulk, TRUE)
  /\ UNCHANGED <<script, shut, wsConn, registered, listVars, sendChan, callVars, cout, recon, resend,
                 post, batch, callbacks>>

OutTo(g, at, ch, id) == cout' = [cout EXCEPT ![g] = [at |-> at, ch |-> ch, id |-> id]]
OutRest == <<script, shut, wsConn, registered, listVars, callVars, cin, recon, resend, post, batch, callbacks>>

OutSelects(g) ==
  /\ cout[g].at = "top"
  /\ OutTo(g, "select", disc.chan, Bulk)
  /\ UNCHANGED <<disc, flushing, link, sendChan, OutRest>>

OutTakes(g) ==
  /\ cout[g].at = "select"
  /\ \/ /\ sendChan # <<>>
        /\ OutTo(g, "write", 0, Head(sendChan))
        /\ sendChan' = Tail(sendChan)
     \/ /\ cout[g].ch \in disc.closed
        /\ OutTo(g, "drain", 0, Bulk)
        /\ UNCHANGED sendChan
  /\ UNCHANGED <<disc, flushing, link, OutRest>>

WriteMessage(g) ==
  /\ cout[g].at = "write"
  /\ IF link[wsConn].up
     THEN /\ link' = [link EXCEPT ![wsConn].out = Append(@, cout[g].id)]
          /\ OutTo(g, "top", 0, Bulk)
          /\ UNCHANGED <<disc, flushing>>
     ELSE Disconnect /\ OutTo(g, "drain", 0, Bulk)
  /\ UNCHANGED <<sendChan, OutRest>>

OutDrains(g) ==
  /\ cout[g].at = "drain"
  /\ IF sendChan = <<>> THEN OutTo(g, "done", 0, Bulk) /\ UNCHANGED sendChan
     ELSE sendChan' = Tail(sendChan) /\ UNCHANGED cout
  /\ UNCHANGED <<disc, flushing, link, OutRest>>

Started(hs, g, idle) == [hs EXCEPT ![g] = [idle EXCEPT !.at = "top"]]
NoIn == [at |-> "none", conn |-> 0, id |-> Bulk, ok |-> TRUE]
NoOut == [at |-> "none", ch |-> 0, id |-> Bulk]
NoResend == [at |-> "none", kinds |-> {}, list |-> <<>>, ch |-> 0]
Up == [up |-> TRUE, out |-> <<>>, in |-> <<>>]

(* Connect, for a client made without a connection.                            *)
Connect ==
  /\ wsConn = 0
  /\ wsConn' = 1
  /\ link' = [link EXCEPT ![1] = Up]
  /\ cin' = Started(cin, 1, NoIn)
  /\ cout' = Started(cout, 1, NoOut)
  /\ recon' = [recon EXCEPT !.at = "top"]
  /\ UNCHANGED <<script, shut, disc, flushing, registered, listVars, sendChan, callVars, resend, post,
                 batch, callbacks>>

(* ---- wsReconnectHandler ---- *)

ReconRest == <<script, shut, flushing, registered, listVars, sendChan, callVars, post, batch, callbacks>>

AwaitDisconnect ==
  /\ recon.at = "top"
  /\ recon' = [recon EXCEPT !.at = "wait", !.ch = disc.chan]
  /\ UNCHANGED <<disc, wsConn, link, cin, cout, resend, ReconRest>>

Disconnected ==
  /\ recon.at = "wait"
  /\ \/ recon.ch \in disc.closed /\ recon' = [recon EXCEPT !.at = "check"]
     \/ shut /\ recon' = [recon EXCEPT !.at = "done"]
  /\ UNCHANGED <<disc, wsConn, link, cin, cout, resend, ReconRest>>

BeginDial ==
  /\ recon.at = "check"
  /\ recon' = [recon EXCEPT !.at = IF shut THEN "done" ELSE "dial"]
  /\ UNCHANGED <<disc, wsConn, link, cin, cout, resend, ReconRest>>

(* The dial fails and is tried again, or gives connection number recon.conn.   *)
Dial ==
  /\ recon.at = "dial"
  /\ \/ /\ recon.conn < MaxConns
        /\ recon' = [recon EXCEPT !.at = "version", !.conn = @ + 1]
        /\ link' = [link EXCEPT ![recon.conn + 1] = Up]
     \/ /\ shut
        /\ recon' = [recon EXCEPT !.at = "check"]
        /\ UNCHANGED link
  /\ UNCHANGED <<disc, wsConn, cin, cout, resend, ReconRest>>

(* The backend's version is forgotten, then the new connection put in place.   *)
ResetVersion ==
  /\ recon.at = "version"
  /\ ~verLock
  /\ wsConn' = recon.conn
  /\ recon' = [recon EXCEPT !.at = "reset"]
  /\ UNCHANGED <<disc, link, cin, cout, resend, ReconRest>>

ResetState ==
  /\ recon.at = "reset"
  /\ disc' = [disc EXCEPT !.flag = FALSE, !.chan = recon.conn]
  /\ recon' = [recon EXCEPT !.at = "start"]
  /\ UNCHANGED <<wsConn, link, cin, cout, resend, ReconRest>>

StartAgain ==
  /\ recon.at = "start"
  /\ cin' = Started(cin, recon.conn, NoIn)
  /\ cout' = Started(cout, recon.conn, NoOut)
  /\ resend' = Started(resend, recon.conn, NoResend)
  /\ recon' = [recon EXCEPT !.at = "top"]
  /\ UNCHANGED <<disc, wsConn, link, ReconRest>>

(* ---- resendRequests ---- *)

ResendTo(g, at) == resend' = [resend EXCEPT ![g].at = at]
ResendRest == <<script, shut, wsConn, registered, ntfnState, verLock, cin, cout, recon, post, batch, callbacks>>

(* reregisterNtfns works on a copy of the state, one blocking call at a time.  *)
CopyState(g) ==
  /\ resend[g].at = "top"
  /\ resend' = [resend EXCEPT ![g].at = "register", ![g].kinds = ntfnState]
  /\ UNCHANGED <<disc, flushing, link, requestList, sendChan, answers, call, ResendRest>>

Unregistered(g) == {m \in resend[g].kinds : call[<<g, m>>].at # "returned"}
Failed(g) == {m \in resend[g].kinds : call[<<g, m>>].at = "returned" /\ answers[<<g, m>>][1] # "ok"}

Reregister(g) ==
  /\ resend[g].at = "register"
  /\ Failed(g) = {}
  /\ \A m \in resend[g].kinds : call[<<g, m>>].at \in {"none", "returned"}
  /\ \E m \in Unregistered(g) : call' = [call EXCEPT ![<<g, m>>].at = "issue"]
  /\ UNCHANGED <<disc, flushing, link, requestList, sendChan, answers, resend, ResendRest>>

RegisterFails(g) ==
  /\ resend[g].at = "register"
  /\ Failed(g) # {}
  /\ Disconnect
  /\ ResendTo(g, "done")
  /\ UNCHANGED <<requestList, sendChan, answers, call, ResendRest>>

(* The requests to send again; a rescan is removed, nobody answers it.         *)
Resendable(id) == id[2] # "rescan"

Collect(g) ==
  /\ resend[g].at = "register"
  /\ Unregistered(g) = {}
  /\ Failed(g) = {}
  /\ requestList' = SelectSeq(requestList, Resendable)
  /\ resend' = [resend EXCEPT ![g].at = "next", ![g].list = SelectSeq(requestList, Resendable)]
  /\ UNCHANGED <<disc, flushing, link, sendChan, answers, call, ResendRest>>

ResendNext(g) ==
  /\ resend[g].at = "next"
  /\ resend' = IF resend[g].list = <<>> \/ disc.flag THEN [resend EXCEPT ![g].at = "done"]
               ELSE [resend EXCEPT ![g].at = "select", ![g].ch = disc.chan]
  /\ UNCHANGED <<disc, flushing, link, requestList, sendChan, answers, call, ResendRest>>

Resent(g) ==
  /\ resend[g].at = "select"
  /\ \/ Len(sendChan) < sendBufferSize /\ sendChan' = Append(sendChan, Head(resend[g].list))
     \/ resend[g].ch \in disc.closed /\ UNCHANGED sendChan
  /\ resend' = [resend EXCEPT ![g].at = "next", ![g].list = Tail(@)]
  /\ UNCHANGED <<disc, flushing, link, requestList, answers, call, ResendRest>>

(* ---- HTTP POST mode; sendChan stands for sendPostChan ---- *)

PostRest == <<shut, connVars, ntfnState, cin, cout, recon, resend, callbacks>>

(* sendPost: in shutdown the caller is answered, and the request sent on.      *)
sendPost(id) ==
  /\ PostMode
  /\ (script.mode = "post" /\ ~Unsent(id)) \/ id = Bulk
  /\ call[id].at = "issue"
  /\ IF shut THEN Answer({id}, "shutdown") ELSE UNCHANGED answers
  /\ call' = [call EXCEPT ![id].at = "push"]
  /\ UNCHANGED <<script, requestList, sendChan, verLock, post, batch, PostRest>>

sendPostRequest(id) ==
  /\ call[id].at = "push"
  /\ Len(sendChan) < sendBufferSize
  /\ sendChan' = Append(sendChan, id)
  /\ call' = [call EXCEPT ![id].at = "wait"]
  /\ UNCHANGED <<script, requestList, answers, verLock, post, batch, PostRest>>

PostTakes(h) ==
  /\ post[h].at = "run"
  /\ \/ /\ sendChan # <<>>
        /\ post' = [post EXCEPT ![h] = [at |-> "do", id |-> Head(sendChan)]]
        /\ sendChan' = Tail(sendChan)
     \/ /\ shut
        /\ post' = [post EXCEPT ![h].at = "drain"]
        /\ UNCHANGED sendChan
  /\ UNCHANGED <<script, requestList, callVars, batch, PostRest>>

(* The server answers, or the exchange fails.                                  *)
handleSendPostMessage(h) ==
  /\ post[h].at = "do"
  /\ Free(post[h].id)
  /\ \E r \in {"ok", "error"} : Answer({post[h].id}, r)
  /\ post' = [post EXCEPT ![h].at = "run"]
  /\ UNCHANGED <<script, requestList, sendChan, call, verLock, batch, PostRest>>

PostDrains(h) ==
  /\ post[h].at = "drain"
  /\ IF sendChan = <<>>
     THEN post' = [post EXCEPT ![h].at = "done"] /\ UNCHANGED <<sendChan, answers>>
     ELSE /\ Free(Head(sendChan))
          /\ Answer({Head(sendChan)}, "shutdown")
          /\ sendChan' = Tail(sendChan)
          /\ UNCHANGED post
  /\ UNCHANGED <<script, requestList, call, verLock, batch, PostRest>>

(* In a batch the request waits for Send; in shutdown it is not even answered. *)
AddToBatch(id) ==
  /\ script.mode = "batch"
  /\ id # Bulk /\ ~Unsent(id)
  /\ call[id].at = "issue"
  /\ requestList' = IF shut THEN requestList ELSE Append(requestList, id)
  /\ call' = [call EXCEPT ![id].at = "wait"]
  /\ UNCHANGED <<script, sendChan, answers, verLock, post, batch, PostRest>>

sendAsync ==
  /\ script.mode = "batch"
  /\ batch.at = "idle"
  /\ requestList # <<>>
  /\ batch' = [at |-> "sent", list |-> requestList]
  /\ call' = [call EXCEPT ![Bulk].at = "issue"]
  /\ UNCHANGED <<script, requestList, sendChan, answers, verLock, post, PostRest>>

(* What the reply says of the request at place i: its own result, or, when it  *)
(* was added after the batch left, a zero result.                              *)
ResultOf(i) == IF Contains(batch.list, requestList[i]) THEN requestList[i][2] ELSE "null"

Send ==
  /\ batch.at = "sent"
  /\ call[Bulk].at = "returned"
  /\ answers' = IF answers[Bulk][1] # "ok" THEN answers
                ELSE [id \in Ids |-> IF ~Contains(requestList, id) THEN answers[id] ELSE
                        Append(answers[id], ResultOf(CHOOSE i \in DOMAIN requestList : requestList[i] = id))]
  /\ requestList' = <<>>
  /\ batch' = [batch EXCEPT !.at = "done"]
  /\ UNCHANGED <<script, sendChan, call, verLock, post, PostRest>>

(* ---- the server and the network ---- *)

Reply(g) ==
  /\ link[g].up
  /\ link[g].out # <<>>
  /\ LET id == Head(link[g].out)
         ok == id[2] \notin script.refused IN
     /\ link' = [link EXCEPT ![g].out = Tail(@), ![g].in = Append(@, [id |-> id, ok |-> ok, ntfn |-> <<>>])]
     /\ registered' = [registered EXCEPT ![g] = IF ok THEN @ \cup ({id[2]} \cap Notifies) ELSE @]
  /\ UNCHANGED <<script, shut, disc, flushing, wsConn, listVars, sendChan, callVars, cin, cout, recon,
                 resend, post, batch, callbacks>>

(* The parameters that the server gives each notification; the last four kinds  *)
(* are those of a wallet.                                                      *)
NtfnParams(method) ==
  CASE method \in {"blockconnected", "blockdisconnected", "rescanfinished", "rescanprogress"} ->
         {<<"hash", "int", "int">>}
    [] method = "filteredblockconnected" -> {<<"int", "header", "txs">>}
    [] method = "filteredblockdisconnected" -> {<<"int", "header">>}
    [] method \in {"recvtx", "redeemingtx"} -> {<<"tx">>, <<"tx", "details">>}
    [] method = "relevanttxaccepted" -> {<<"tx">>}
    [] method = "txaccepted" -> {<<"hash", "amount">>}
    [] method = "txacceptedverbose" -> {<<"rawtx">>}
    [] method = "accountbalance" -> {<<"account", "amount", "bool">>}
    [] method \in {"btcdconnected", "walletlockstate"} -> {<<"bool">>}
    [] method = "newtx" -> {<<"account", "details">>}

(* A client that registered is told of an event.                               *)
Notify(g) ==
  /\ script.events # <<>>
  /\ link[g].up /\ registered[g] # {}
  /\ \E kinds \in NtfnParams(Head(script.events)) :
     LET n == [method |-> Head(script.events),
               params |-> [i \in DOMAIN kinds |-> [kind |-> kinds[i], val |-> i]]] IN
     /\ link' = [link EXCEPT ![g].in = Append(@, [id |-> Bulk, ok |-> TRUE, ntfn |-> <<n>>])]
     /\ callbacks' = [callbacks EXCEPT ![g].told = Append(@, n)]
  /\ script' = [script EXCEPT !.events = Tail(@)]
  /\ UNCHANGED <<shut, disc, flushing, wsConn, registered, listVars, sendChan, callVars, cin, cout, recon,
                 resend, post, batch>>

Drop(g) ==
  /\ script.drops > 0
  /\ link[g].up
  /\ link' = [link EXCEPT ![g] = Dead]
  /\ script' = [script EXCEPT !.drops = @ - 1]
  /\ UNCHANGED <<shut, disc, flushing, wsConn, registered, listVars, sendChan, callVars, cin, cout,
                 recon, resend, post, batch, callbacks>>

(* New: a websocket client is connected at once unless told otherwise.         *)
CliInit ==
  /\ script \in Scripts
  /\ shut = FALSE /\ flushing = FALSE /\ verLock = FALSE
  /\ disc = [flag |-> FALSE, chan |-> 1, closed |-> {}]
  /\ LET now == script.mode \in {"reconnect", "once"} IN
     /\ wsConn = IF now THEN 1 ELSE 0
     /\ link = [g \in Conns |-> IF now /\ g = 1 THEN Up ELSE Dead]
     /\ cin = [g \in Conns |-> IF now /\ g = 1 THEN [NoIn EXCEPT !.at = "top"] ELSE NoIn]
     /\ cout = [g \in Conns |-> IF now /\ g = 1 THEN [NoOut EXCEPT !.at = "top"] ELSE NoOut]
  /\ recon = [at |-> IF script.mode = "reconnect" THEN "top" ELSE "none", ch |-> 0, conn |-> 1]
  /\ resend = [g \in Conns |-> NoResend]
  /\ registered = [g \in Conns |-> {}]
  /\ requestList = <<>> /\ ntfnState = {} /\ sendChan = <<>>
  /\ answers = [id \in Ids |-> <<>>]
  /\ call = [id \in Ids |-> [at |-> "none", ch |-> 0]]
  /\ post = [h \in PostHandlers |-> [at |-> IF script.mode \in {"post", "batch"} THEN "run" ELSE "none",
                                     id |-> Bulk]]
  /\ batch = [at |-> "idle", list |-> <<>>]
  /\ callbacks = [g \in Conns |-> [told |-> <<>>, called |-> <<>>]]

InStep(g) == BeginRead(g) \/ ReadMessage(g) \/ trackRegisteredNtfns(g) \/ InLeaves(g)
OutStep(g) == OutSelects(g) \/ OutTakes(g) \/ WriteMessage(g) \/ OutDrains(g)
CallStep(id) == NotifyAsync(id) \/ SendCmd(id) \/ sendMessage(id) \/ Sent(id) \/ ReceiveFuture(id) \/ sendPost(id)
                  \/ sendPostRequest(id) \/ AddToBatch(id)
ReconStep == AwaitDisconnect \/ Disconnected \/ BeginDial \/ Dial \/ ResetVersion \/ ResetState \/ StartAgain
ResendStep(g) == CopyState(g) \/ Reregister(g) \/ RegisterFails(g) \/ Collect(g) \/ ResendNext(g) \/ Resent(g)
PostStep(h) == PostTakes(h) \/ handleSendPostMessage(h) \/ PostDrains(h)

(* The Go scheduler runs a goroutine whenever one can go on, and the server    *)
(* answers what it receives. Every behaviour has finitely many such steps, so  *)
(* this is fairness to each goroutine.                                         *)
GoroutineStep ==
  \/ \E id \in Ids : CallStep(id)
  \/ \E g \in Conns : InStep(g) \/ OutStep(g) \/ Reply(g) \/ ResendStep(g)
  \/ ReconStep
  \/ Flush
  \/ \E h \in PostHandlers : PostStep(h)
  \/ Send
CliNext ==
  \/ \E m \in Methods : Issue(m)
  \/ GoroutineStep
  \/ \E g \in Conns : Drop(g) \/ Notify(g)
  \/ Shutdown
  \/ script.mode = "later" /\ Connect
  \/ sendAsync
CliSpec == CliInit /\ [][CliNext]_cliVars /\ WF_cliVars(GoroutineStep)

(* ---- properties ---- *)

(* Over a websocket a request gets one answer, and one that waits has none: a  *)
(* second answer would block its sender, which holds the request lock.         *)
AnsweredOnce ==
  ~PostMode => \A id \in Ids : Len(answers[id]) <= 1 /\ (Contains(requestList, id) => answers[id] = <<>>)

(* Over a websocket no request is forgotten: once it is issued it is in the    *)
(* list and the client still runs, or its answer is given or being given;      *)
(* only a rescan may be dropped.                                               *)
NoneForgotten ==
  ~PostMode => \A id \in Ids :
    call[id].at \in {"enter", "select", "wait"} =>
      \/ Contains(requestList, id) /\ ~shut
      \/ answers[id] # <<>>
      \/ \E g \in Conns : cin[g].at = "deliver" /\ cin[g].id = id
      \/ id[2] = "rescan"

(* When the requests have been sent again over a connection that still stands, *)
(* the server has every registration the client knew of at the reconnection.   *)
Reregistered ==
  \A g \in Conns : resend[g].at \in {"next", "select", "done"} /\ link[g].up => resend[g].kinds \subseteq registered[g]

(* The calls of a batch are answered with their own results, or as calls the   *)
(* server never saw.                                                           *)
BatchMatched ==
  script.mode = "batch" => \A id \in Ids \ {Bulk} : answers[id] \in {<<>>, <<id[2]>>, <<"null">>} \/ Unsent(id)

(* What the server tells a client reaches the handler of its kind, if the      *)
(* client has one, once, with the values it was sent with and in the order of  *)
(* the events, until the connection is lost. The lock state of a wallet is     *)
(* sent without the account that the client expects, and reaches none.         *)
NtfnsDelivered ==
  \A g \in Conns :
    LET told == callbacks[g].told
        Due(n) == HandlerOf(n.method) \in script.handlers /\ n.method # "walletlockstate"
        late == Len(SelectSeq(link[g].in, LAMBDA r : r.ntfn # <<>>))
    IN /\ \A i \in DOMAIN callbacks[g].called :
             LET due == SelectSeq(told, Due)[i] IN
             /\ callbacks[g].called[i].on = HandlerOf(due.method)
             /\ callbacks[g].called[i].args = [j \in DOMAIN due.params |-> due.params[j].val]
       /\ link[g].up => Len(callbacks[g].called) = Len(SelectSeq(SubSeq(told, 1, Len(told) - late), Due))

Ended ==
  /\ \A g \in Conns : cin[g].at \in {"none", "done"} /\ cout[g].at \in {"none", "done"}
  /\ recon.at \in {"none", "done"}
  /\ \A h \in PostHandlers : post[h].at \in {"none", "done"}


=============================================================================
