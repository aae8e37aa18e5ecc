----------------------------- MODULE Handshake -----------------------------
(***************************************************************************)
(* Two peers negotiating (peer/peer.go): the outbound end "o" dialled the  *)
(* inbound end "i".  Both run this code; the connection keeps the order of *)
(* messages and may be cut by either end's negotiation timeout.  The v2    *)
(* transport is external: what its handshake reports depends on whether    *)
(* the other end speaks it.                                                *)
(***************************************************************************)
EXTENDS Integers, Sequences, FiniteSets

CONSTANTS
    EndConfigs,                \* set of [pver, v2, utreexo, needsUtreexo]
    MinAcceptable, AddrV2Version

Ends == {"o", "i"}
Other(e) == IF e = "o" THEN "i" ELSE "o"

VARIABLES
    config,      \* end -> its configuration
    self,        \* the node dialled itself
    slow,        \* the connection is so slow that the negotiation may time out
    end,         \* end -> [at, v2, proto, versionKnown, wantsV2, verAck, utreexo]
    wires,       \* end -> messages on their way to it
    open,        \* the connection
    downgrade,   \* the address is marked for a v1 connection (P2PDowngrader)
    attempts     \* connections made

handshakeVars == <<config, self, slow, end, wires, open, downgrade, attempts>>

M(kind, version, utreexo) == [kind |-> kind, pver |-> version, utreexo |-> utreexo]
Simple(kind) == M(kind, 0, FALSE)

Fresh(e, usesV2) ==
    [at |-> "transport", v2 |-> usesV2, proto |-> config[e].pver, versionKnown |-> FALSE,
     wantsV2 |-> FALSE, verAck |-> FALSE, utreexo |-> FALSE]

\* Disconnect closes the connection: what is on its way is lost.
Fail(e) ==
    /\ end' = [end EXCEPT ![e].at = "failed"]
    /\ open' = FALSE /\ wires' = [w \in Ends |-> <<>>]

Goto(e, at) == end' = [end EXCEPT ![e].at = at] /\ UNCHANGED <<wires, open>>

Write(e, m, at) ==
    /\ end' = [end EXCEPT ![e].at = at]
    /\ wires' = [wires EXCEPT ![Other(e)] = Append(@, m)] /\ UNCHANGED open

-----------------------------------------------------------------------------
(* The v2 transport's handshake, as far as the peers see it.               *)

AfterTransport(e) == IF e = "o" THEN "writeVersion" ELSE "readVersion"

\* The responder recognises a v1 version message; the initiator is told to
\* come back with v1 when the other end closed on it.
Transport(e) ==
    /\ open /\ end[e].at = "transport"
    /\ IF ~end[e].v2 THEN
          \* A v1 end reads the keys of a v2 initiator as a message and refuses.
          IF e = "i" /\ end["o"].v2 THEN Fail(e) /\ UNCHANGED downgrade
          ELSE Goto(e, AfterTransport(e)) /\ UNCHANGED downgrade
       ELSE IF e = "i" /\ ~end["o"].v2 THEN
          /\ end' = [end EXCEPT !["i"].v2 = FALSE, !["i"].at = AfterTransport("i")]
          /\ UNCHANGED <<wires, open, downgrade>>
       ELSE IF end[Other(e)].v2 THEN Goto(e, AfterTransport(e)) /\ UNCHANGED downgrade
       ELSE FALSE
    /\ UNCHANGED <<config, self, slow, attempts>>

\* ErrShouldDowngradeToV1, and what peerDoneHandler of the server does with it.
TransportRefused ==
    /\ ~open /\ end["o"].at = "transport" /\ end["o"].v2 /\ end["i"].at = "failed"
    /\ end' = [end EXCEPT !["o"].at = "failed"] /\ downgrade' = TRUE
    /\ UNCHANGED <<config, self, slow, wires, open, attempts>>

-----------------------------------------------------------------------------
(* negotiateInboundProtocol and negotiateOutboundProtocol.                 *)

writeLocalVersionMsg(e) ==
    /\ open /\ end[e].at = "writeVersion"
    /\ Write(e, M("version", config[e].pver, config[e].utreexo), IF e = "o" THEN "readVersion" ELSE "writeSendAddrV2")
    /\ UNCHANGED <<config, self, slow, downgrade, attempts>>

Negotiated(e, m) == IF m.pver < end[e].proto THEN m.pver ELSE end[e].proto

\* The nonce of a version message we sent ourselves, the services the listener
\* OnVersion asks of an outbound peer, and the least version are checked.
Refused(e, m) ==
    \/ m.kind # "version" \/ self
    \/ e = "o" /\ config[e].needsUtreexo /\ ~m.utreexo
    \/ m.pver < MinAcceptable

readRemoteVersionMsg(e) ==
    /\ open /\ end[e].at = "readVersion" /\ wires[e] # <<>>
    /\ LET m == Head(wires[e])
       IN  IF Refused(e, m) THEN Fail(e)
           ELSE /\ end' = [end EXCEPT ![e].proto = Negotiated(e, m), ![e].versionKnown = TRUE,
                              ![e].utreexo = m.utreexo,
                              ![e].at = IF e = "o" THEN "writeSendAddrV2" ELSE "writeVersion"]
                /\ wires' = [wires EXCEPT ![e] = Tail(@)] /\ UNCHANGED open
    /\ UNCHANGED <<config, self, slow, downgrade, attempts>>

writeSendAddrV2Msg(e) ==
    /\ open /\ end[e].at = "writeSendAddrV2"
    /\ IF end[e].proto < AddrV2Version THEN Goto(e, "writeVerAck")
       ELSE Write(e, Simple("sendaddrv2"), "writeVerAck")
    /\ UNCHANGED <<config, self, slow, downgrade, attempts>>

writeVerAck(e) ==
    /\ open /\ end[e].at = "writeVerAck"
    /\ Write(e, Simple("verack"), "wait")
    /\ UNCHANGED <<config, self, slow, downgrade, attempts>>

waitToFinishNegotiation(e) ==
    /\ open /\ end[e].at = "wait" /\ wires[e] # <<>>
    /\ LET m == Head(wires[e]) IN
       IF m.kind \notin {"sendaddrv2", "verack"} THEN Fail(e)
       ELSE /\ end' = [end EXCEPT
                 ![e].wantsV2 = @ \/ (m.kind = "sendaddrv2" /\ end[e].proto >= AddrV2Version),
                 ![e].verAck = m.kind = "verack",
                 ![e].at = IF m.kind = "verack" THEN "done" ELSE @]
            /\ wires' = [wires EXCEPT ![e] = Tail(@)] /\ UNCHANGED open
    /\ UNCHANGED <<config, self, slow, downgrade, attempts>>

\* Once started, the handlers send (OnVerAck queues sendheaders) and read; the
\* input handler gives up on a handshake message.
Talk(e) ==
    /\ open /\ end[e].at = "done"
    /\ Write(e, Simple("sendheaders"), "talking")
    /\ UNCHANGED <<config, self, slow, downgrade, attempts>>

Listen(e) ==
    /\ open /\ end[e].at \in {"done", "talking"} /\ wires[e] # <<>>
    /\ IF Head(wires[e]).kind \in {"version", "verack", "sendaddrv2"} THEN Fail(e)
       ELSE wires' = [wires EXCEPT ![e] = Tail(@)] /\ UNCHANGED <<end, open>>
    /\ UNCHANGED <<config, self, slow, downgrade, attempts>>

\* start: the negotiation took too long; or the other end closed the connection.
NegotiationEnds(e) ==
    /\ end[e].at \notin {"done", "talking", "failed"}
    /\ \/ ~open /\ ~(e = "o" /\ end[e].at = "transport" /\ end[e].v2 /\ end["i"].at = "failed")
       \/ open /\ slow
    /\ Fail(e)
    /\ UNCHANGED <<config, self, slow, downgrade, attempts>>

\* The server dials again, with v1 if the address was marked; the mark is used up.
Reconnect ==
    /\ \A e \in Ends : end[e].at = "failed"
    /\ downgrade /\ attempts < 2
    /\ attempts' = attempts + 1 /\ downgrade' = FALSE /\ open' = TRUE
    /\ end' = [e \in Ends |-> Fresh(e, config[e].v2 /\ e = "i")]
    /\ UNCHANGED <<config, self, slow, wires>>

-----------------------------------------------------------------------------
Init ==
    /\ config \in [Ends -> EndConfigs]
    /\ slow \in BOOLEAN /\ self \in BOOLEAN /\ (self => config["o"] = config["i"])
    /\ end = [e \in Ends |-> Fresh(e, config[e].v2)]
    /\ wires = [e \in Ends |-> <<>>] /\ open = TRUE /\ downgrade = FALSE /\ attempts = 1

Step(e) ==
    \/ Transport(e) \/ writeLocalVersionMsg(e) \/ readRemoteVersionMsg(e) \/ writeSendAddrV2Msg(e)
    \/ writeVerAck(e) \/ waitToFinishNegotiation(e) \/ Talk(e) \/ Listen(e)

Next == (\E e \in Ends : Step(e) \/ NegotiationEnds(e)) \/ TransportRefused \/ Reconnect

\* The ends keep running; neither has to be slow.
Ongoing == (\E e \in Ends : Step(e)) \/ TransportRefused \/ Reconnect

Spec == Init /\ [][Next]_handshakeVars /\ WF_handshakeVars(Ongoing)

-----------------------------------------------------------------------------
(* Properties.                                                             *)

Settled(e) == end[e].at \in {"done", "talking"}
Connected == \A e \in Ends : Settled(e)

\* Two ends that finished the negotiation agree: on the version, which both
\* speak, on addrv2 addresses and on the transport.
EndsAgree ==
    (\A e \in Ends : Settled(e)) =>
        /\ end["o"].proto = end["i"].proto /\ end["o"].proto >= MinAcceptable
        /\ \A e \in Ends : end[e].proto <= config[e].pver
        /\ end["o"].wantsV2 = end["i"].wantsV2
        /\ end["o"].v2 = end["i"].v2
        /\ \A e \in Ends : end[e].utreexo = config[Other(e)].utreexo

Compatible ==
    /\ ~self /\ ~slow
    /\ \A e \in Ends : config[e].pver >= MinAcceptable
    /\ config["o"].needsUtreexo => config["i"].utreexo

\* A node never stays connected to itself.
NeverSelf == self => \A e \in Ends : ~Settled(e)

\* Two ends that finish the handshake have agreed on the same protocol, and a
\* node never stays connected to itself.
EndsSound ==
    /\ EndsAgree /\ NeverSelf

=============================================================================
