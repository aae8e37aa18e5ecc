------------------------------ MODULE FlatFile ------------------------------
(***************************************************************************)
(* The pair of files in which the utreexo proof index keeps one entry per  *)
(* block height (blockchain/indexers/flatfile.go): an offset file with one *)
(* offset per height, and a data file with the entries, each behind a      *)
(* header of magic bytes and a size.  Writes reach the files one after the *)
(* other; the process may be killed between two of them or in the middle   *)
(* of one, and Init repairs what it finds.                                 *)
(*                                                                         *)
(* A file is a sequence of cells.  The eight bytes of an offset are one    *)
(* cell and a torn flag; the header is two cells (magic, size); a byte of  *)
(* data is one cell.                                                       *)
(***************************************************************************)
EXTENDS Integers, Sequences

CONSTANTS Payloads,     \* the entries that callers store: sequences of numbers
          MaxHeight,    \* bound: heights stored
          MaxKills,     \* bound: how often the process is killed
          MaxFailures,  \* bound: how many writes return an error
          CallersGoOn   \* whether callers use the file after an error

VARIABLES offsetFile,   \* [entries, torn]: the offset file
          dataFile,     \* the data file: a sequence of cells
          state,        \* FlatFileState in memory, and whether it is usable
          todo,         \* the writes the running call has yet to make
          allowed,      \* the contents a reader may find: ghost
          faults        \* [kills, failures] so far

fileVars == <<offsetFile, dataFile, state, todo, allowed, faults>>

Magic == [kind |-> "magic", v |-> 0]
Size(n) == [kind |-> "size", v |-> n]
Byte(x) == [kind |-> "data", v |-> x]
Zero == [kind |-> "zero", v |-> 0]

Cells(payload) == [i \in 1 .. Len(payload) |-> Byte(payload[i])]

(* WriteAt: what lies beyond the end of the file up to the offset reads as *)
(* zeros.                                                                  *)
WriteAt(file, offset, cells) ==
    [i \in 1 .. IF Len(file) > offset + Len(cells) THEN Len(file) ELSE offset + Len(cells) |->
        IF i > offset /\ i <= offset + Len(cells) THEN cells[i - offset]
        ELSE IF i <= Len(file) THEN file[i] ELSE Zero]

Truncate(file, n) == SubSeq(file, 1, n)

DropLast(s) == Truncate(s, Len(s) - 1)

Offset(s, height) == s.offsets[height + 1]

(* What FetchData reads at an offset: the payload, or the failure.         *)
ReadFailed == <<-1>>

EntryAt(file, offset) ==
    IF \/ Len(file) < offset + 2
       \/ file[offset + 1] # Magic
       \/ Len(file) < offset + 2 + file[offset + 2].v
    THEN ReadFailed
    ELSE [i \in 1 .. file[offset + 2].v |-> file[offset + 2 + i].v]

(* FetchData of a height above the latest, or of the genesis block, returns *)
(* nothing and no error.                                                   *)
FetchData(s, height) ==
    IF height > s.currentHeight \/ height <= 0 THEN <<>>
    ELSE EntryAt(dataFile, Offset(s, height))

Contents == [h \in 1 .. state.currentHeight |-> FetchData(state, h)]

Idle == state.mode = "up" /\ todo = <<>>

-----------------------------------------------------------------------------
(* Calls.  A call is the list of the writes it makes; what it changes in   *)
(* memory before the first and after the last of them is done with them.   *)

StoreWrites(height, offset, payload) ==
    <<[file |-> "offset", at |-> height, cells |-> <<Size(offset)>>],
      [file |-> "data", at |-> offset, cells |-> <<Magic, Size(Len(payload))>>],
      [file |-> "data", at |-> offset + 2, cells |-> Cells(payload)],
      [file |-> "stored", at |-> Len(payload) + 2, cells |-> <<>>]>>

(* StoreData appends the offset in memory, then writes the offset, the     *)
(* header and the data.                                                    *)
StoreData(payload) ==
    /\ Idle
    /\ state.currentHeight + 1 \in 1 .. MaxHeight
    /\ state' = [state EXCEPT !.offsets = Append(@, state.currentOffset)]
    /\ todo' = StoreWrites(state.currentHeight + 1, state.currentOffset, payload)
    /\ allowed' = {Contents, Append(Contents, payload)}
    /\ UNCHANGED <<offsetFile, dataFile, faults>>

OverWrites(offset, x) ==
    <<[file |-> "data", at |-> offset, cells |-> <<Byte(x)>>],
      [file |-> "overwritten", at |-> 0, cells |-> <<>>]>>

(* OverWrite replaces a byte inside an entry that is already there.        *)
OverWrite(height, i, x) ==
    /\ Idle
    /\ height \in 1 .. state.currentHeight
    /\ FetchData(state, height) # ReadFailed
    /\ i \in 1 .. Len(FetchData(state, height))
    /\ todo' = OverWrites(Offset(state, height) + 1 + i, x)
    /\ allowed' = {Contents, [Contents EXCEPT ![height][i] = x]}
    /\ UNCHANGED <<offsetFile, dataFile, state, faults>>

(* Mutant: the offset goes before the data does.                           *)
RemovalOffsetFirst(bytes) ==
    <<[file |-> "offsetEnd", at |-> Len(offsetFile.entries) - 1, cells |-> <<>>],
      [file |-> "dataEnd", at |-> Len(dataFile) - bytes, cells |-> <<>>],
      [file |-> "removed", at |-> 0, cells |-> <<>>]>>

RemoveWrites(length, heights) ==
    <<[file |-> "dataEnd", at |-> length, cells |-> <<>>],
      [file |-> "offsetEnd", at |-> heights, cells |-> <<>>],
      [file |-> "removed", at |-> 0, cells |-> <<>>]>>

Removal(bytes) == RemoveWrites(Len(dataFile) - bytes, Len(offsetFile.entries) - 1)

(* DisconnectBlock removes the last entry: as many cells as its size says  *)
(* from the end of the data file, then one offset.                         *)
DisconnectBlock ==
    /\ Idle
    /\ state.currentHeight > 0
    /\ FetchData(state, state.currentHeight) # ReadFailed
    /\ todo' = Removal(Len(FetchData(state, state.currentHeight)) + 2)
    /\ allowed' = {Contents, DropLast(Contents)}
    /\ UNCHANGED <<offsetFile, dataFile, state, faults>>

(* How a call ends in memory.                                              *)
Finished(s, write) ==
    CASE write.file = "stored" -> [s EXCEPT !.currentOffset = @ + write.at,
                                            !.currentHeight = @ + 1]
      [] write.file = "removed" -> [s EXCEPT !.currentOffset = s.offsets[Len(s.offsets)],
                                             !.offsets = DropLast(@),
                                             !.currentHeight = @ - 1]
      [] OTHER -> s

(* A write, of which the first n cells reach the file.                     *)
Wrote(write, n) ==
    CASE write.file = "offset" ->
            /\ offsetFile' = [entries |-> IF n = 0 THEN offsetFile.entries
                                          ELSE Append(Truncate(offsetFile.entries, write.at), write.cells[1].v),
                              torn |-> FALSE]
            /\ UNCHANGED dataFile
      [] write.file = "offsetEnd" ->
            /\ offsetFile' = [offsetFile EXCEPT !.entries = Truncate(@, write.at)]
            /\ UNCHANGED dataFile
      [] write.file = "data" ->
            /\ dataFile' = WriteAt(dataFile, write.at, SubSeq(write.cells, 1, n))
            /\ UNCHANGED offsetFile
      [] write.file = "dataEnd" ->
            /\ dataFile' = Truncate(dataFile, write.at)
            /\ UNCHANGED offsetFile
      [] OTHER -> UNCHANGED <<offsetFile, dataFile>>

IsEnd(write) == write.file \in {"stored", "overwritten", "removed"}

(* The call makes its next write, or returns.                              *)
Write ==
    /\ state.mode = "up" /\ todo # <<>>
    /\ Wrote(Head(todo), Len(Head(todo).cells))
    /\ todo' = Tail(todo)
    /\ state' = IF IsEnd(Head(todo)) THEN Finished(state, Head(todo)) ELSE state
    /\ UNCHANGED <<allowed, faults>>

(* A write of data fails and the call returns the error: the file has some *)
(* of the cells, memory is as the call left it.  During the catch-up the   *)
(* error ends the process; a node that is running goes on.                 *)
WriteFails ==
    /\ state.mode = "up" /\ todo # <<>>
    /\ faults.failures < MaxFailures
    /\ Head(todo).file = "data"
    /\ \E n \in 0 .. Len(Head(todo).cells) : Wrote(Head(todo), n)
    /\ todo' = <<>>
    /\ state' = IF CallersGoOn THEN state ELSE [state EXCEPT !.mode = "abandoned"]
    /\ faults' = [faults EXCEPT !.failures = @ + 1]
    /\ UNCHANGED allowed

Down == [mode |-> "down", currentHeight |-> 0, currentOffset |-> 0, offsets |-> <<>>]

(* The process is killed, with the write under way cut anywhere.           *)
Kill ==
    /\ state.mode # "down"
    /\ faults.kills < MaxKills
    /\ \/ UNCHANGED <<offsetFile, dataFile>>
       \/ /\ todo # <<>> /\ Head(todo).file = "data"
          /\ \E n \in 1 .. Len(Head(todo).cells) - 1 : Wrote(Head(todo), n)
       \/ /\ todo # <<>> /\ Head(todo).file = "offset"
          /\ offsetFile' = [offsetFile EXCEPT !.torn = TRUE]
          /\ UNCHANGED dataFile
    /\ state' = Down
    /\ todo' = <<>>
    /\ faults' = [faults EXCEPT !.kills = @ + 1]
    /\ UNCHANGED allowed

-----------------------------------------------------------------------------
(* Init.                                                                   *)

(* recoverOffsetFile drops an incomplete offset.                           *)
recoverOffsetFile(file) == [file EXCEPT !.torn = FALSE]

(* A new offset file gets the offset of the genesis block.  Otherwise the  *)
(* offsets are read and the next entry goes to the end of the data file.   *)
(* Then the last entry is read to see whether the files need repair.       *)
Open ==
    /\ state.mode = "down"
    /\ IF offsetFile.entries = <<>> /\ ~offsetFile.torn
       THEN /\ offsetFile' = [entries |-> <<0>>, torn |-> FALSE]
            /\ state' = [mode |-> "up", currentHeight |-> 0, currentOffset |-> 0, offsets |-> <<0>>]
       ELSE /\ offsetFile' = recoverOffsetFile(offsetFile)
            /\ LET height == Len(offsetFile.entries) - 1
                   readable == height <= 0 \/ EntryAt(dataFile, offsetFile.entries[Len(offsetFile.entries)]) # ReadFailed
               IN state' = [mode |-> IF readable THEN "up" ELSE "recover",
                            currentHeight |-> height,
                            currentOffset |-> Len(dataFile),
                            offsets |-> offsetFile.entries]
    /\ UNCHANGED <<dataFile, todo, allowed, faults>>

DropEntry(file, offset) == IF offset < Len(file) THEN Truncate(file, offset) ELSE file

(* recover drops entries from the end until one can be read, or none is    *)
(* left.                                                                   *)
Recover ==
    /\ state.mode = "recover"
    /\ LET offset == Offset(state, state.currentHeight) IN
       IF state.currentHeight <= 0 \/ EntryAt(dataFile, offset) # ReadFailed
       THEN /\ state' = [state EXCEPT !.mode = "up"]
            /\ UNCHANGED <<offsetFile, dataFile>>
       ELSE /\ dataFile' = DropEntry(dataFile, offset)
            /\ offsetFile' = [offsetFile EXCEPT !.entries = DropLast(@)]
            /\ state' = [state EXCEPT !.currentOffset = state.offsets[Len(state.offsets)],
                                      !.offsets = DropLast(@),
                                      !.currentHeight = @ - 1]
    /\ UNCHANGED <<todo, allowed, faults>>

FileInit ==
    /\ offsetFile = [entries |-> <<>>, torn |-> FALSE]
    /\ dataFile = <<>>
    /\ state = Down
    /\ todo = <<>>
    /\ allowed = {<<>>}
    /\ faults = [kills |-> 0, failures |-> 0]

FileNext ==
    \/ \E payload \in Payloads : StoreData(payload)
    \/ \E height \in 1 .. MaxHeight, i \in 1 .. 2 : OverWrite(height, i, 9)
    \/ DisconnectBlock
    \/ Write
    \/ WriteFails
    \/ Kill
    \/ Open
    \/ Recover

FileSpec == FileInit /\ [][FileNext]_fileVars

-----------------------------------------------------------------------------
(* The inductive invariant.                                                *)

Cell == [kind : {"magic", "size", "data", "zero"}, v : Nat]

(* The data file has the entry of a payload at an offset.                  *)
Holds(d, offset, payload) ==
    /\ offset + 2 + Len(payload) <= Len(d)
    /\ d[offset + 1] = Magic /\ d[offset + 2].v = Len(payload)
    /\ \A i \in 1 .. Len(payload) : d[offset + 2 + i].v = payload[i]

(* Where the entry of a height ends, for offsets o and contents c.         *)
End(o, c, h) == IF h = 0 THEN 0 ELSE o[h + 1] + 2 + Len(c[h])

(* The first offsets and the data up to the end of the last entry of c     *)
(* hold c, entry after entry.                                              *)
Laid(o, d, c) ==
    /\ c \in Seq(Seq(Nat)) /\ Len(o) >= Len(c) + 1
    /\ \A h \in 1 .. Len(c) : Holds(d, o[h + 1], c[h]) /\ o[h + 1] = End(o, c, h - 1)
    /\ \A h, k \in 1 .. Len(c) : h < k => End(o, c, h) <= o[k + 1]

(* The files hold c and nothing else.                                      *)
Whole(o, d, c) ==
    /\ Laid(o, d, c)
    /\ Len(o) = Len(c) + 1 /\ Len(d) = End(o, c, Len(c))

(* The files hold c, and what a call left of one entry more.               *)
Partly(o, d, c) ==
    /\ Laid(o, d, c)
    /\ Len(o) = Len(c) + 2 /\ o[Len(o)] = End(o, c, Len(c))
    /\ Len(d) >= o[Len(o)] /\ EntryAt(d, o[Len(o)]) = ReadFailed

(* What StoreData has written of an entry so far, from an offset on.       *)
CellOf(payload, j) ==
    IF j = 1 THEN Magic ELSE IF j = 2 THEN Size(Len(payload)) ELSE Byte(payload[j - 2])
Written(d, offset, payload) ==
    /\ Len(d) \in offset .. offset + 2 + Len(payload)
    /\ \A i \in offset + 1 .. Len(d) : d[i] = CellOf(payload, i - offset)

(* The state in memory is that of files that hold c.                       *)
InMemory(c) ==
    /\ state.offsets = offsetFile.entries
    /\ state.currentHeight = Len(c) /\ state.currentOffset = Len(dataFile)

(* The offsets in memory have one more, for an entry behind the last one.  *)
OneAhead(offsets, o, c) ==
    /\ Len(offsets) = Len(c) + 2 /\ offsets[Len(c) + 2] = End(o, c, Len(c))
    /\ \A h \in 1 .. Len(c) + 1 : offsets[h] = o[h]

(* StoreData, before each of its writes.                                   *)
Storing(c, payload) ==
    LET o == offsetFile.entries
        end == End(o, c, Len(c))
        writes == StoreWrites(Len(c) + 1, end, payload)
    IN /\ Append(c, payload) \in allowed
       /\ OneAhead(state.offsets, o, c)
       /\ state.currentHeight = Len(c) /\ state.currentOffset = end
       /\ \/ todo = writes /\ Whole(o, dataFile, c)
          \/ /\ Laid(o, dataFile, c) /\ Len(o) = Len(c) + 2 /\ o[Len(o)] = end
             /\ Written(dataFile, end, payload)
             /\ \/ todo = Tail(writes) /\ Len(dataFile) = end
                \/ todo = Tail(Tail(writes)) /\ Len(dataFile) = end + 2
                \/ todo = <<writes[4]>> /\ Len(dataFile) = end + 2 + Len(payload)

(* OverWrite, before its write and after it.                               *)
Overwriting(c) ==
    /\ Whole(offsetFile.entries, dataFile, c) /\ InMemory(c)
    /\ \/ /\ Head(todo).file = "data"
          /\ \E h \in 1 .. Len(c) : \E i \in 1 .. Len(c[h]) :
            LET x == todo[1].cells[1].v IN
            /\ x \in Nat /\ todo = OverWrites(offsetFile.entries[h + 1] + 1 + i, x)
            /\ [c EXCEPT ![h][i] = x] \in allowed
       \/ todo = Tail(OverWrites(0, 0))

(* DisconnectBlock, before each of its writes; c is without the last entry. *)
Removing(c) ==
    LET o == offsetFile.entries
        n == Len(c)
        last == EntryAt(dataFile, o[n + 2])
        writes == RemoveWrites(End(o, c, n), n + 1)
    IN /\ state.currentHeight = n + 1 /\ OneAhead(state.offsets, o, c)
       /\ \/ /\ todo = writes
             /\ Laid(o, dataFile, c) /\ Len(o) = n + 2 /\ o[n + 2] = End(o, c, n)
             /\ Append(c, last) \in allowed /\ Whole(o, dataFile, Append(c, last))
          \/ /\ todo = Tail(writes)
             /\ Partly(o, dataFile, c) /\ Len(dataFile) = End(o, c, n)
          \/ todo = <<writes[3]>> /\ Whole(o, dataFile, c)

(* Where the process and its call are, with the contents c that a reader   *)
(* may find.                                                               *)
Phase(c) ==
    LET o == offsetFile.entries IN
    \/ /\ state.mode \in {"down", "abandoned"} /\ todo = <<>>
       /\ \/ Whole(o, dataFile, c)
          \/ Partly(o, dataFile, c)
          \/ state.mode = "down" /\ o = <<>> /\ ~offsetFile.torn /\ dataFile = <<>> /\ c = <<>>
    \/ /\ state.mode = "recover" /\ todo = <<>>
       /\ state.offsets = o /\ state.currentHeight = Len(o) - 1
       /\ Partly(o, dataFile, c) \/ (Whole(o, dataFile, c) /\ InMemory(c))
    \/ state.mode = "up" /\ todo = <<>> /\ Whole(o, dataFile, c) /\ InMemory(c)
    \/ /\ state.mode = "up"
       /\ (\E payload \in Payloads : Storing(c, payload)) \/ Overwriting(c) \/ Removing(c)

FileInv ==
    /\ offsetFile \in [entries : Seq(Nat), torn : BOOLEAN]
    /\ dataFile \in Seq(Cell)
    /\ state \in [mode : {"down", "abandoned", "recover", "up"}, currentHeight : Int,
                  currentOffset : Nat, offsets : Seq(Nat)]
    /\ state.mode # "down" => ~offsetFile.torn
    /\ \E c \in allowed : Phase(c)

(* Between calls a reader finds every entry whose call returned, at its    *)
(* height and as it was last written; only the call that a kill cut short  *)
(* may or may not have happened (flatfile.go:70, 305).                     *)
EntriesKept == Idle => Contents \in allowed

=============================================================================
