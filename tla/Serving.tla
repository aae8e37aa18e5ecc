------------------------------- MODULE Serving -------------------------------
(***************************************************************************)
(* What the node serves to a peer that asks for chain data (server.go and  *)
(* the lookups of blockchain/chain.go and indexers/cfindex.go behind it):  *)
(* inventory and blocks, headers, compact filters, filter checkpoints and  *)
(* utreexo proofs.  The best chain moves while requests are answered.      *)
(*                                                                         *)
(* Three conversations share the chain: the getdata handler with the       *)
(* channels it waits on, a peer that downloads the chain with getblocks,   *)
(* and requests for filter checkpoints, which are answered from a cache.   *)
(***************************************************************************)
EXTENDS Integers, Sequences, FiniteSets

CONSTANTS
    Parent,             \* block -> its parent; the genesis block is 0
    Tips,               \* blocks the best chain may end with at the start
    Requests,           \* getdata messages: sequences of entries
    MaxBlocksPerMsg,    \* inventory entries answering one getblocks
    MaxRange,           \* MaxGetCFiltersReqRange, MaxCFHeadersPerMsg
    Askers,             \* requests for checkpoints made at the same time
    MaxMoves            \* bound: changes of the best chain

VARIABLES
    tip,        \* the end of the best chain
    moves,      \* how often it moved
    getdata,    \* the getdata handler
    outq,       \* messages queued to the peer: [item, chan]
    tokens,     \* channels that hold a value
    sent,       \* messages sent to the peer
    client,     \* the peer that downloads blocks
    cache,      \* cfCheckptCaches
    torn,       \* a failed request has written into the cache
    asked       \* requests for checkpoints

getDataVars == <<getdata, outq, tokens, sent>>
servingVars == <<tip, moves, getDataVars, client, cache, torn, asked>>

Blocks == DOMAIN Parent

HeightOf == [b \in Blocks |->
    LET up[x \in Blocks, n \in 0 .. Cardinality(Blocks)] ==
            IF x = 0 \/ n = 0 THEN 0 ELSE 1 + up[Parent[x], n - 1]
    IN  up[b, Cardinality(Blocks)]]

\* Ancestor: the block of that height on the branch of b.
Branch == [b \in Blocks |-> [h \in 0 .. HeightOf[b] |->
    LET up[x \in Blocks] == IF HeightOf[x] = h THEN x ELSE up[Parent[x]] IN up[b]]]

InChain(b) == b \in Blocks /\ HeightOf[b] <= HeightOf[tip] /\ Branch[tip][HeightOf[b]] = b

-----------------------------------------------------------------------------
(* Lookups in the chain.                                                   *)

\* The heights [first, last] that answer a locator; NoHash stops nowhere.
NoHash == -1

locateInventory(locator, hashStop, maxEntries) ==
    LET known == {i \in DOMAIN locator : InChain(locator[i])}
        first == IF known = {} THEN 1
                 ELSE HeightOf[locator[CHOOSE i \in known : \A j \in known : i <= j]] + 1
        last == IF InChain(hashStop) /\ HeightOf[hashStop] >= first
                THEN HeightOf[hashStop] ELSE HeightOf[tip]
    IN  IF locator = <<>> THEN <<>>
        ELSE [i \in 1 .. (IF last - first + 1 > maxEntries THEN maxEntries
                          ELSE last - first + 1) |-> Branch[tip][first + i - 1]]

\* Without a locator the stop block alone is meant, if it is known.
LocateBlocks(locator, hashStop, max) ==
    IF locator = <<>> THEN IF hashStop \in Blocks THEN <<hashStop>> ELSE <<>>
    ELSE locateInventory(locator, hashStop, max)

\* The hashes from a height to a block; {} when the range is refused.
HeightToHashRange(startHeight, endHash, maxResults) ==
    IF startHeight > HeightOf[endHash] \/ HeightOf[endHash] - startHeight + 1 > maxResults
    THEN <<>>
    ELSE [i \in 1 .. HeightOf[endHash] - startHeight + 1 |->
            Branch[endHash][startHeight + i - 1]]

\* Every block of the branch, as a checkpoint interval of one block has it.
IntervalBlockHashes(endHash) == [i \in 1 .. HeightOf[endHash] |-> Branch[endHash][i]]

\* The filter index holds the blocks of the best chain; the header of a block
\* commits to those before it and is written as the block itself.
FilterEntries(hashes) == [i \in DOMAIN hashes |-> IF InChain(hashes[i]) THEN hashes[i] ELSE NoHash]

\* OnGetCFHeaders: the header before the range and the hashes of the range.
\* <<>> when nothing is answered.
OnGetCFHeaders(start, stop) ==
    LET before == start > 0
        hashes == HeightToHashRange(IF before THEN start - 1 ELSE start, stop,
                                    IF before THEN MaxRange + 1 ELSE MaxRange)
        entries == FilterEntries(hashes)
    IN  IF hashes = <<>> \/ (before /\ Len(hashes) = 1) \/ \E i \in DOMAIN entries : entries[i] = NoHash
        THEN <<>>
        ELSE <<[prev |-> IF before THEN entries[1] ELSE NoHash,
                hashes |-> IF before THEN Tail(entries) ELSE entries]>>

\* OnGetCFilters: one message for every block up to the first without filter.
OnGetCFilters(start, stop) ==
    LET hashes == HeightToHashRange(start, stop, MaxRange)
        entries == FilterEntries(hashes)
        missing == {i \in DOMAIN entries : entries[i] = NoHash}
    IN  IF missing = {} THEN entries
        ELSE SubSeq(entries, 1, (CHOOSE i \in missing : \A j \in missing : i <= j) - 1)

\* The chain grows or loses its last block.
MoveTip ==
    /\ moves < MaxMoves /\ moves' = moves + 1
    /\ tip' \in ({b \in Blocks : Parent[b] = tip} \cup {Parent[tip]}) \ {tip}
    /\ UNCHANGED <<getDataVars, client, cache, torn, asked>>

-----------------------------------------------------------------------------
(* OnGetData.  Channel 0 is nil and channel 1 is doneChan.  An entry is a  *)
(* record [kind, found, matches]: matches counts the transactions sent     *)
(* after a filtered block, and is negative when no filter is loaded.       *)

NoRequest == [list |-> <<>>, i |-> 0, wait |-> 0, added |-> 0, notFound |-> <<>>, pc |-> "idle",
              asked |-> <<>>]

NewChan(i) == i + 1

\* The channel entry i of the list is to signal.
ChanOf(list, i, notFound) ==
    IF i = Len(list) /\ notFound = <<>> THEN 1
    ELSE IF i % 3 = 0 THEN NewChan(i) ELSE 0

\* A utreexo transaction takes the positions that follow it off the list.
Positions(list, i) ==
    IF list[i].kind # "utreexotx" THEN 0
    ELSE LET after == {j \in i + 1 .. Len(list) : list[j].kind # "position"}
         IN  IF after = {} THEN Len(list) - i
             ELSE (CHOOSE j \in after : \A k \in after : j <= k) - i - 1

WithoutPositions(list, i) ==
    LET n == Positions(list, i)
    IN  SubSeq(list, 1, i) \o SubSeq(list, i + n + 1, Len(list))

Known(kind) == kind \in {"tx", "utreexotx", "block", "merkle"}

\* The messages an entry is answered with: only the last one signals c.  The
\* block that ends a batch of getblocks is followed by the best block.
Answer(e, i, c) ==
    CASE e.kind = "merkle" ->
            [k \in 1 .. e.matches + 1 |->
                [item |-> i, part |-> k, chan |-> IF k = e.matches + 1 THEN c ELSE 0]]
      [] e.kind = "block" /\ e.matches > 0 ->
            <<[item |-> i, part |-> 1, chan |-> 0], [item |-> i, part |-> 2, chan |-> c]>>
      [] OTHER -> <<[item |-> i, part |-> 1, chan |-> c]>>

\* The channels belong to one call, so one call is looked at.
BeginGetData ==
    /\ getdata = NoRequest
    /\ \E r \in Requests :
          getdata' = [NoRequest EXCEPT !.list = r, !.i = 1, !.pc = "next", !.asked = r]
    /\ UNCHANGED <<outq, tokens, sent, tip, moves, client, cache, torn, asked>>


\* A push that fails signals its channel at once.
FailSignals(toks, c) == IF c = 0 THEN toks ELSE toks \cup {c}

\* The entry is looked up: an unknown kind is skipped, a missing one noted,
\* one without filter signals at once, any other waits for its turn.
LookUp ==
    /\ getdata.pc = "next" /\ getdata.i <= Len(getdata.list)
    /\ LET list == WithoutPositions(getdata.list, getdata.i)
           i == getdata.i
           e == list[i]
           c == ChanOf(list, i, getdata.notFound)
           more == [getdata EXCEPT !.list = list, !.i = i + 1]
           failed == FailSignals(tokens, c)
       IN  \/ /\ ~Known(e.kind)
              /\ getdata' = more /\ UNCHANGED tokens
           \/ /\ Known(e.kind) /\ ~e.found
              /\ i = Len(list) /\ c # 0 => c \in failed
              /\ getdata' = [more EXCEPT !.notFound = Append(@, e.id), !.added = @ + 1, !.wait = c]
              /\ tokens' = IF i = Len(list) /\ c # 0 THEN failed \ {c} ELSE failed
           \/ /\ Known(e.kind) /\ e.found /\ e.kind = "merkle" /\ e.matches < 0
              /\ getdata' = [more EXCEPT !.added = @ + 1, !.wait = c]
              /\ tokens' = FailSignals(tokens, c)
           \/ /\ Known(e.kind) /\ e.found /\ (e.kind = "merkle" => e.matches >= 0)
              /\ getdata' = [getdata EXCEPT !.list = list, !.pc = "turn"]
              /\ UNCHANGED tokens
    /\ UNCHANGED <<outq, sent, tip, moves, client, cache, torn, asked>>

\* The entry is queued when the channel of the one before it is signalled.
Push ==
    /\ getdata.pc = "turn"
    /\ getdata.wait # 0 => getdata.wait \in tokens
    /\ LET i == getdata.i
           e == getdata.list[i]
           c == ChanOf(getdata.list, i, getdata.notFound)
       IN  /\ outq' = outq \o Answer(e, e.id, c)
           /\ getdata' = [getdata EXCEPT !.i = i + 1, !.added = @ + 1, !.wait = c, !.pc = "next"]
           /\ tokens' = tokens \ {getdata.wait}
    /\ UNCHANGED <<sent, tip, moves, client, cache, torn, asked>>

\* After the last entry: the missing ones are listed, and the handler waits
\* until everything has been sent.
EndOfList ==
    /\ getdata.pc = "next" /\ getdata.i > Len(getdata.list)
    /\ outq' = IF getdata.notFound = <<>> THEN outq
               ELSE Append(outq, [item |-> 0, part |-> 1, chan |-> 1])
    /\ getdata' = [getdata EXCEPT !.pc = IF getdata.added > 0 THEN "wait" ELSE "idle"]
    /\ UNCHANGED <<tokens, sent, tip, moves, client, cache, torn, asked>>

AllSent ==
    /\ getdata.pc = "wait" /\ 1 \in tokens
    /\ tokens' = tokens \ {1}
    /\ getdata' = [getdata EXCEPT !.pc = "idle"]
    /\ UNCHANGED <<outq, sent, tip, moves, client, cache, torn, asked>>

\* The peer's output handler; a full channel would stop it.
SendNext ==
    /\ outq # <<>> /\ Head(outq).chan \notin tokens
    /\ sent' = Append(sent, [item |-> Head(outq).item, part |-> Head(outq).part])
    /\ tokens' = IF Head(outq).chan = 0 THEN tokens ELSE tokens \cup {Head(outq).chan}
    /\ outq' = Tail(outq)
    /\ UNCHANGED <<getdata, tip, moves, client, cache, torn, asked>>

-----------------------------------------------------------------------------
(* A peer that downloads the chain in batches.  It asks for the blocks it  *)
(* is told of, and for more when it is told of one it cannot attach.       *)

ClientStart == [have |-> {0}, inv |-> <<>>, continueHash |-> NoHash, asking |-> FALSE]

Newest(have) == CHOOSE b \in have : \A c \in have : HeightOf[c] <= HeightOf[b]

\* OnGetBlocks: a full answer is continued when its last block is fetched.
OnGetBlocks ==
    /\ client.inv = <<>> /\ client.asking
    /\ LET hashes == LocateBlocks(<<Newest(client.have)>>, NoHash, MaxBlocksPerMsg)
       IN  client' = [client EXCEPT
                !.inv = hashes, !.asking = FALSE,
                !.continueHash = IF Len(hashes) = MaxBlocksPerMsg THEN hashes[Len(hashes)] ELSE @]
    /\ UNCHANGED <<tip, moves, getDataVars, cache, torn, asked>>

Continue(inv, continued) == IF continued THEN Append(inv, tip) ELSE inv

\* The next block of the inventory is fetched (pushBlockMsg) and taken in, or
\* makes the peer ask again when its parent is missing.
FetchBlock ==
    /\ client.inv # <<>>
    /\ LET b == Head(client.inv)
           continued == client.continueHash = b
           attaches == Parent[b] \in client.have
       IN  client' = [client EXCEPT
                !.have = IF attaches THEN @ \cup {b} ELSE @,
                !.asking = @ \/ ~attaches,
                !.inv = Continue(Tail(@), continued),
                !.continueHash = IF continued THEN NoHash ELSE @]
    /\ UNCHANGED <<tip, moves, getDataVars, cache, torn, asked>>

StartDownload ==
    /\ client = ClientStart
    /\ client' = [client EXCEPT !.asking = TRUE]
    /\ UNCHANGED <<tip, moves, getDataVars, cache, torn, asked>>

-----------------------------------------------------------------------------
(* OnGetCFCheckpt.  The hashes are read first; the cache and the index     *)
(* later, under the lock of the cache.                                     *)

NoAsk == [pc |-> "idle", hashes |-> <<>>, answer |-> <<>>]

CheckptHashes(a) ==
    /\ asked[a].pc = "idle"
    /\ \E stop \in Blocks : asked' = [asked EXCEPT ![a] =
            [pc |-> "hashes", hashes |-> IntervalBlockHashes(stop), answer |-> <<>>]]
    /\ UNCHANGED <<tip, moves, getDataVars, client, cache, torn>>

\* The part of the cache that belongs to the branch asked for.
forkIdx(c, hashes) ==
    LET good == {i \in DOMAIN hashes : i <= Len(c) /\ c[i].blockHash = hashes[i]}
    IN  IF good = {} THEN 0 ELSE CHOOSE i \in good : \A j \in good : j <= i

\* A longer answer grows the cache.  When an entry is missing the handler
\* returns, having written the entries before it into the grown cache, which
\* may or may not share its array with the old one.
CheckptAnswer(a) ==
    /\ asked[a].pc = "hashes"
    /\ LET hashes == asked[a].hashes
           n == Len(hashes)
           fork == forkIdx(cache, hashes)
           entries == FilterEntries(SubSeq(hashes, fork + 1, n))
           missing == {i \in DOMAIN entries : entries[i] = NoHash}
           read == IF missing = {} THEN Len(entries)
                   ELSE (CHOOSE i \in missing : \A j \in missing : i <= j) - 1
           written == [i \in 1 .. n |->
                          IF i \in fork + 1 .. fork + read
                          THEN [blockHash |-> hashes[i], filterHeader |-> entries[i - fork]]
                          ELSE IF i <= Len(cache) THEN cache[i]
                          ELSE [blockHash |-> NoHash, filterHeader |-> NoHash]]
           grow == n > Len(cache)
       IN  /\ cache' \in IF ~grow THEN {cache}
                         ELSE IF missing = {} THEN {written}
                         ELSE {cache, SubSeq(written, 1, Len(cache))}
           /\ torn' = (torn \/ (grow /\ missing # {} /\ cache' # cache))
           /\ asked' = [asked EXCEPT ![a] =
                [@ EXCEPT !.pc = "done",
                          !.answer = IF missing # {} THEN <<>>
                                     ELSE [i \in 1 .. n |-> IF i <= fork THEN cache[i].filterHeader
                                                            ELSE entries[i - fork]]]]
    /\ UNCHANGED <<tip, moves, getDataVars, client>>

AskAgain(a) ==
    /\ asked[a].pc = "done"
    /\ asked' = [asked EXCEPT ![a] = NoAsk]
    /\ UNCHANGED <<tip, moves, getDataVars, client, cache, torn>>

-----------------------------------------------------------------------------
Init ==
    /\ tip \in Tips /\ moves = 0
    /\ getdata = NoRequest /\ outq = <<>> /\ tokens = {} /\ sent = <<>>
    /\ client = ClientStart
    /\ cache = <<>> /\ torn = FALSE /\ asked = [a \in Askers |-> NoAsk]

GetDataNext == BeginGetData \/ LookUp \/ Push \/ EndOfList \/ AllSent \/ SendNext

DownloadNext == StartDownload \/ OnGetBlocks \/ FetchBlock

CheckptNext ==
    \/ MoveTip
    \/ \E a \in Askers : CheckptHashes(a) \/ CheckptAnswer(a) \/ AskAgain(a)

Next == GetDataNext \/ DownloadNext \/ CheckptNext

Spec == Init /\ [][Next]_servingVars

-----------------------------------------------------------------------------
(* Properties.                                                             *)

\* Whenever the getdata handler waits, the channel it waits on is signalled
\* or will be by a message that is queued, and the output handler never finds
\* a channel full, so the handler always comes to its end.  The exception is a
\* request that ends with an entry of a kind the handler does not know: it is
\* passed over together with the channel it was to signal.
GetDataReturns ==
    LET waitsFor == CASE getdata.pc = "turn" -> getdata.wait
                      [] getdata.pc = "wait" -> 1
                      [] OTHER -> 0
    IN  /\ waitsFor # 0 => \/ waitsFor \in tokens
                           \/ \E i \in DOMAIN outq : outq[i].chan = waitsFor
                           \/ ~Known(getdata.list[Len(getdata.list)].kind)
        /\ outq # <<>> /\ Head(outq).chan # 0 => Head(outq).chan \notin tokens

\* When the getdata handler has come to its end, the peer was sent every entry
\* the node has, in the order asked for, and then the list of the others.
GetDataAnswered ==
    getdata.pc = "idle" /\ outq = <<>> /\ getdata.asked # <<>> =>
        LET entries == getdata.asked
            due == {i \in DOMAIN entries : Known(entries[i].kind) /\ entries[i].found
                                            /\ (entries[i].kind = "merkle" => entries[i].matches >= 0)}
            missed == {entries[i].id : i \in {j \in DOMAIN entries :
                            Known(entries[j].kind) /\ ~entries[j].found}}
            items == {sent[i].item : i \in DOMAIN sent}
        IN  /\ items \ {0} = {entries[i].id : i \in due}
            /\ (0 \in items) = (missed # {})
            /\ {getdata.notFound[i] : i \in DOMAIN getdata.notFound} = missed
            /\ \A i, j \in DOMAIN sent :
                  i < j /\ sent[i].item # 0 /\ sent[j].item # 0 =>
                     sent[i].item <= sent[j].item

\* A peer that downloads the chain is never left waiting before it has the
\* block that was best when it last asked: every full batch is continued.
DownloadContinues ==
    client # ClientStart /\ client.inv = <<>> /\ ~client.asking /\ moves = 0 =>
        tip \in client.have

\* A complete answer to a request for filter checkpoints has the headers of
\* the branch that was asked for, whatever branches the cache was filled from,
\* as long as no request has failed half way through growing the cache.
CheckpointsOfBranch ==
    \A a \in Askers :
        asked[a].pc = "done" /\ asked[a].answer # <<>> /\ ~torn => asked[a].answer = asked[a].hashes

\* The filter headers sent for a range begin with the header of the block just
\* before it and follow the branch of the stop block.
RangeAttaches ==
    \A stop \in Blocks : \A start \in 0 .. HeightOf[stop] :
        \A r \in {OnGetCFHeaders(start, stop)} : r # <<>> =>
            /\ Len(r[1].hashes) = HeightOf[stop] - start + 1
            /\ r[1].hashes[Len(r[1].hashes)] = stop
            /\ start > 0 => r[1].prev = Parent[r[1].hashes[1]]
            /\ \A f \in {OnGetCFilters(start, stop)} : Len(f) > 0 => f = r[1].hashes

\* Requests are served although the chain moves meanwhile: a getdata message is
\* answered item by item and its handler comes back, a download by getblocks
\* goes on, and checkpoints and filter headers are those of the branch that was
\* asked for.
RequestsServed ==
    /\ GetDataReturns /\ GetDataAnswered /\ DownloadContinues
    /\ CheckpointsOfBranch /\ RangeAttaches

=============================================================================
