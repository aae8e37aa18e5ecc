-------------------------- MODULE UtxoCacheLemmas --------------------------
(***************************************************************************)
(* What the operations on the cache, the database and a view return, for   *)
(* every ledger.                                                           *)
(***************************************************************************)
EXTENDS UtxoCache

Utxos == [Outpoints -> Int]

\* Typing of the ledger.
LEMMA LedgerTypes ==
    /\ \A b \in Blocks : /\ Spends[b] \subseteq Outpoints
                         /\ Creates[b] \subseteq Outpoints
                         /\ Transient[b] \subseteq Outpoints
                         /\ UtxoAt[b] \in Utxos
    /\ UtxoAt[Genesis] = EmptyUtxos
BY LedgerAssumption DEF LedgerShape, Utxos

\* What a block does to each output, and why its outputs are new on its branch.
LEMMA LedgerStep ==
    ASSUME NEW b \in NonGenesis, NEW o \in Outpoints
    PROVE  /\ o \in Creates[b] => /\ UtxoAt[b][o] = Height[b]
                                  /\ o \notin Spends[b]
                                  /\ o \notin Transient[b]
           /\ o \in Transient[b] => /\ o \notin Spends[b]
                                    /\ o \notin Creates[b]
           /\ o \in Spends[b] => /\ UtxoAt[b][o] = Absent
                                 /\ UtxoAt[Parent[b]][o] # Absent
           /\ o \notin Creates[b] \cup Spends[b] => UtxoAt[b][o] = UtxoAt[Parent[b]][o]
           /\ o \in Creates[b] \cup Transient[b] =>
                 \A a \in Anc[Parent[b]] : UtxoAt[a][o] = Absent
<1>1. /\ Creates[b] \cap Spends[b] = {}
      /\ Transient[b] \cap (Spends[b] \cup Creates[b]) = {}
      /\ \A x \in Spends[b] : UtxoAt[Parent[b]][x] # Absent
      /\ \A a \in Anc[Parent[b]] :
            \A x \in Creates[b] \cup Transient[b] : UtxoAt[a][x] = Absent
  BY LedgerAssumption DEF LedgerShape
<1>2. UtxoAt[b] = ApplyBlock(UtxoAt[Parent[b]], b)
  BY LedgerAssumption DEF LedgerShape
<1>3. UtxoAt[b][o] = IF o \in Creates[b] THEN Height[b]
                     ELSE IF o \in Spends[b] THEN Absent
                     ELSE UtxoAt[Parent[b]][o]
  BY <1>2 DEF ApplyBlock
<1> QED
  BY <1>1, <1>3

\* An empty cache answers with the database.
LEMMA EmptyCache ==
    ASSUME NEW u \in Utxos
    PROVE  /\ NoSlots \in [Outpoints -> Slots]
           /\ SlotsOK(NoSlots, u)
           /\ Lookup(NoSlots, u) = u
<1>1. NoSlots \in [Outpoints -> Slots]
  BY DEF NoSlots, Slots, Missing, Absent
<1>2. SlotsOK(NoSlots, u)
  BY DEF NoSlots, SlotsOK, Missing, IsFresh
<1>3. Lookup(NoSlots, u) = u
  <2>1. Lookup(NoSlots, u) = [o \in Outpoints |-> u[o]]
    BY DEF NoSlots, Lookup, Resolve, Missing
  <2> QED
    BY <2>1 DEF Utxos
<1> QED
  BY <1>1, <1>2, <1>3

\* Loading entries changes no answer.
LEMMA FetchKeeps ==
    ASSUME NEW c \in [Outpoints -> Slots], NEW u \in Utxos, NEW S, SlotsOK(c, u)
    PROVE  /\ FetchEntries(c, u, S) \in [Outpoints -> Slots]
           /\ SlotsOK(FetchEntries(c, u, S), u)
           /\ Lookup(FetchEntries(c, u, S), u) = Lookup(c, u)
<1> DEFINE l == FetchEntries(c, u, S)
<1>0. \A o \in Outpoints : FromDb(u[o]) \in Slots
  BY DEF FromDb, Nil, Entry, Slots, Absent, Utxos, Flags
<1>1. l \in [Outpoints -> Slots]
  BY <1>0 DEF FetchEntries
<1>2. \A o \in Outpoints : l[o] = IF o \in S /\ c[o].kind = "missing"
                                  THEN FromDb(u[o]) ELSE c[o]
  BY DEF FetchEntries
<1>3. ASSUME NEW o \in Outpoints
      PROVE  /\ l[o].kind # "entry" => l[o].flags = {}
             /\ (l[o].kind = "entry" /\ ~IsSpent(l[o]) /\ ~IsModified(l[o]))
                  => l[o].height = u[o]
             /\ IsFresh(l[o]) => u[o] = Absent
             /\ Resolve(l[o], u[o]) = Resolve(c[o], u[o])
  <2>1. CASE ~(o \in S /\ c[o].kind = "missing")
    <3>1. l[o] = c[o]
      BY <2>1, <1>2
    <3> QED
      BY <3>1 DEF SlotsOK
  <2>2. CASE o \in S /\ c[o].kind = "missing" /\ u[o] = Absent
    <3>1. l[o] = Nil /\ Resolve(c[o], u[o]) = Absent
      BY <2>2, <1>2 DEF FromDb, Resolve
    <3> QED
      BY <3>1, <2>2 DEF Nil, IsFresh, Resolve
  <2>3. CASE o \in S /\ c[o].kind = "missing" /\ u[o] # Absent
    <3>1. l[o] = Entry(u[o], {}) /\ Resolve(c[o], u[o]) = u[o]
      BY <2>3, <1>2 DEF FromDb, Resolve
    <3>2. l[o].kind = "entry" /\ l[o].height = u[o] /\ l[o].flags = {}
      BY <3>1 DEF Entry
    <3> QED
      BY <3>1, <3>2 DEF IsFresh, IsSpent, Resolve
  <2> QED
    BY <2>1, <2>2, <2>3
<1>4. SlotsOK(l, u)
  BY <1>3 DEF SlotsOK
<1>5. Lookup(l, u) = Lookup(c, u)
  BY <1>3 DEF Lookup
<1> QED
  BY <1>1, <1>4, <1>5

\* A flush writes what lookups answered.
LEMMA WrittenIsLookup ==
    ASSUME NEW c \in [Outpoints -> Slots], NEW u \in Utxos, SlotsOK(c, u)
    PROVE  WrittenUtxos(c, u) = Lookup(c, u)
<1>1. ASSUME NEW o \in Outpoints
      PROVE  (IF c[o].kind = "nil" \/ IsSpent(c[o]) THEN Absent
              ELSE IF IsModified(c[o]) THEN c[o].height
              ELSE u[o]) = Resolve(c[o], u[o])
  <2>1. c[o].kind \in {"missing", "nil", "entry"}
    BY DEF Slots
  <2>2. c[o].kind # "entry" => ~IsSpent(c[o]) /\ ~IsModified(c[o])
    BY DEF SlotsOK, IsSpent, IsModified
  <2>3. (c[o].kind = "entry" /\ ~IsSpent(c[o]) /\ ~IsModified(c[o])) => c[o].height = u[o]
    BY DEF SlotsOK
  <2> QED
    BY <2>1, <2>2, <2>3 DEF Resolve
<1> QED
  BY <1>1 DEF WrittenUtxos, Lookup

\* The inputs of a block that extends the looked up set are found, unspent.
LEMMA InputsFound ==
    ASSUME NEW c \in [Outpoints -> Slots], NEW u \in Utxos, SlotsOK(c, u),
           NEW b \in NonGenesis, Lookup(c, u) = UtxoAt[Parent[b]],
           NEW o \in Spends[b]
    PROVE  LET l == FetchEntries(c, u, Spends[b])
           IN  /\ l[o] \in Slots
               /\ l[o].kind = "entry"
               /\ ~IsSpent(l[o])
               /\ l[o].height = UtxoAt[Parent[b]][o]
<1> DEFINE l == FetchEntries(c, u, Spends[b])
<1>1. o \in Outpoints /\ b \in Blocks
  BY LedgerTypes, TreeTypes
<1>2. l \in [Outpoints -> Slots] /\ Lookup(l, u) = UtxoAt[Parent[b]]
  BY FetchKeeps
<1>3. Resolve(l[o], u[o]) = UtxoAt[Parent[b]][o]
  BY <1>1, <1>2 DEF Lookup
<1>4. UtxoAt[Parent[b]][o] # Absent
  BY <1>1, LedgerStep
<1>5. l[o].kind # "missing"
  BY <1>1 DEF FetchEntries, FromDb, Nil, Entry
<1>6. l[o].kind \in {"missing", "nil", "entry"}
  BY <1>1, <1>2 DEF Slots
<1>7. l[o].kind = "entry"
  BY <1>3, <1>4, <1>5, <1>6 DEF Resolve
<1> QED
  BY <1>1, <1>2, <1>3, <1>4, <1>7 DEF Resolve

\* Connecting a block to the cache moves lookups to the set of the block.
LEMMA ConnectLookup ==
    ASSUME NEW c \in [Outpoints -> Slots], NEW u \in Utxos, SlotsOK(c, u),
           NEW b \in NonGenesis, Lookup(c, u) = UtxoAt[Parent[b]],
           NEW f \in Anc[Parent[b]], u = UtxoAt[f]
    PROVE  /\ ConnectTransactions(c, u, b) \in [Outpoints -> Slots]
           /\ SlotsOK(ConnectTransactions(c, u, b), u)
           /\ Lookup(ConnectTransactions(c, u, b), u) = UtxoAt[b]
<1> DEFINE l == FetchEntries(c, u, Spends[b])
           d == ConnectTransactions(c, u, b)
<1>b. b \in Blocks /\ Height[b] \in Int /\ UtxoAt[b] \in Utxos /\ Absent \in Int
  BY TreeTypes, LedgerTypes DEF Absent
<1>l. l \in [Outpoints -> Slots] /\ SlotsOK(l, u)
  BY FetchKeeps
<1>1. ASSUME NEW o \in Outpoints
      PROVE  /\ d[o] \in Slots
             /\ d[o].kind # "entry" => d[o].flags = {}
             /\ (d[o].kind = "entry" /\ ~IsSpent(d[o]) /\ ~IsModified(d[o]))
                  => d[o].height = u[o]
             /\ IsFresh(d[o]) => u[o] = Absent
             /\ Resolve(d[o], u[o]) = UtxoAt[b][o]
  <2>1. CASE o \in Creates[b]
    <3>1. d[o] = AddTxOut(b) /\ u[o] = Absent /\ UtxoAt[b][o] = Height[b]
      BY <2>1, LedgerStep DEF ConnectTransactions
    <3>2. /\ d[o].kind = "entry" /\ d[o].height = Height[b]
          /\ d[o].flags = {"tfFresh", "tfModified"}
      BY <3>1 DEF AddTxOut, Entry
    <3>3. d[o] \in Slots
      BY <3>1, <1>b DEF AddTxOut, Entry, Slots, Flags
    <3> QED
      BY <3>1, <3>2, <3>3 DEF IsSpent, IsModified, IsFresh, Resolve
  <2>2. CASE o \in Transient[b]
    <3>1. d[o] = AddTxIn(AddTxOut(b)) /\ u[o] = Absent /\ UtxoAt[b][o] = Absent
      <4>1. UtxoAt[b][o] = UtxoAt[Parent[b]][o] /\ Parent[b] \in Anc[Parent[b]]
        BY <2>2, LedgerStep, TreeTypes
      <4> QED
        BY <4>1, <2>2, LedgerStep DEF ConnectTransactions
    <3>2. d[o] = Missing
      BY <3>1 DEF AddTxIn, AddTxOut, Entry, IsFresh
    <3> QED
      BY <3>1, <3>2, <1>b DEF Missing, IsSpent, IsModified, IsFresh, Resolve, Slots
  <2>3. CASE o \in Spends[b]
    <3>1. d[o] = AddTxIn(l[o]) /\ UtxoAt[b][o] = Absent
      BY <2>3, LedgerStep DEF ConnectTransactions
    <3>2. l[o] \in Slots /\ l[o].kind = "entry" /\ (IsFresh(l[o]) => u[o] = Absent)
      BY <2>3, InputsFound, <1>l DEF SlotsOK
    <3>3. CASE IsFresh(l[o])
      <4>1. d[o] = Missing /\ u[o] = Absent
        BY <3>1, <3>2, <3>3 DEF AddTxIn
      <4> QED
        BY <3>1, <4>1, <1>b DEF Missing, IsSpent, IsModified, IsFresh, Resolve, Slots
    <3>4. CASE ~IsFresh(l[o])
      <4>1. d[o] = Spend(l[o])
        BY <3>1, <3>4 DEF AddTxIn
      <4>2. /\ d[o].kind = "entry"
            /\ d[o].flags = l[o].flags \cup {"tfSpent", "tfModified"}
            /\ d[o] \in Slots
        BY <4>1, <3>2 DEF Spend, Slots, Flags
      <4> QED
        BY <4>2, <3>1, <3>4 DEF IsSpent, IsModified, IsFresh, Resolve
    <3> QED
      BY <3>3, <3>4
  <2>4. CASE o \notin Creates[b] \cup Transient[b] \cup Spends[b]
    <3>1. d[o] = c[o] /\ UtxoAt[b][o] = UtxoAt[Parent[b]][o]
      BY <2>4, LedgerStep DEF ConnectTransactions
    <3>2. Resolve(c[o], u[o]) = UtxoAt[Parent[b]][o]
      BY DEF Lookup
    <3> QED
      BY <3>1, <3>2 DEF SlotsOK
  <2> QED
    BY <2>1, <2>2, <2>3, <2>4
<1>2. d \in [Outpoints -> Slots]
  BY <1>1 DEF ConnectTransactions
<1>3. SlotsOK(d, u)
  BY <1>1 DEF SlotsOK
<1>4. Lookup(d, u) = UtxoAt[b]
  BY <1>1, <1>b DEF Lookup, Utxos
<1> QED
  BY <1>2, <1>3, <1>4

\* A spent slot is marked, and nothing else of it changes.
LEMMA SpendMarks ==
    ASSUME NEW s \in Slots
    PROVE  /\ Spend(s) \in Slots
           /\ Spend(s).kind = s.kind
           /\ IsSpent(Spend(s))
           /\ IsModified(Spend(s))
BY DEF Spend, Slots, Flags, IsSpent, IsModified

\* Loading the inputs of the next block leaves a view of its parent.
LEMMA FetchedView ==
    ASSUME NEW c \in [Outpoints -> Slots], NEW u \in Utxos, SlotsOK(c, u),
           NEW n \in NonGenesis, Lookup(c, u) = UtxoAt[Parent[n]],
           NEW v \in [Outpoints -> Slots], ViewOK(v, Parent[n])
    PROVE  LET w == FetchInputUtxos(v, c, u, n)
           IN  /\ w \in [Outpoints -> Slots]
               /\ ViewOK(w, Parent[n])
               /\ \A o \in Spends[n] : w[o].kind = "entry"
<1> DEFINE w == FetchInputUtxos(v, c, u, n)
           l == FetchEntries(c, u, Spends[n])
<1>0. Spends[n] \subseteq Outpoints /\ l \in [Outpoints -> Slots]
  BY TreeTypes, LedgerTypes, FetchKeeps
<1>1. \A o \in Outpoints : w[o] = IF o \in Spends[n] /\ v[o].kind = "missing"
                                  THEN l[o] ELSE v[o]
  BY DEF FetchInputUtxos, InputsToFetch
<1>2. w \in [Outpoints -> Slots]
  BY <1>0 DEF FetchInputUtxos
<1>3. ASSUME NEW o \in Outpoints
      PROVE  /\ IF w[o].kind = "entry"
                THEN ~IsSpent(w[o]) /\ w[o].height = UtxoAt[Parent[n]][o]
                ELSE w[o].kind = "missing" /\ w[o].flags = {}
             /\ o \in Spends[n] => w[o].kind = "entry"
  <2>1. CASE o \in Spends[n] /\ v[o].kind = "missing"
    <3>1. /\ l[o].kind = "entry" /\ ~IsSpent(l[o])
          /\ l[o].height = UtxoAt[Parent[n]][o]
      BY <2>1, InputsFound
    <3>2. w[o] = l[o]
      BY <2>1, <1>1
    <3> HIDE DEF w, l
    <3> QED
      BY <3>1, <3>2
  <2>2. CASE ~(o \in Spends[n] /\ v[o].kind = "missing")
    BY <2>2, <1>1 DEF ViewOK
  <2> QED
    BY <2>1, <2>2
<1> QED
  BY <1>0, <1>2, <1>3 DEF ViewOK

\* Commit drops what is spent and keeps the rest, whatever it makes of the
\* modified flag.
LEMMA CommitKeeps ==
    ASSUME NEW v \in [Outpoints -> Slots], NEW o \in Outpoints,
           IsSpent(v[o]) => IsModified(v[o])
    PROVE  /\ Commit(v)[o] \in Slots
           /\ Commit(v)[o].kind = "entry" => /\ v[o].kind = "entry"
                                              /\ ~IsSpent(v[o])
                                              /\ ~IsSpent(Commit(v)[o])
                                              /\ Commit(v)[o].height = v[o].height
           /\ Commit(v)[o].kind # "entry" => Commit(v)[o] = Missing
<1>1. CASE v[o].kind # "entry" \/ (IsModified(v[o]) /\ IsSpent(v[o]))
  <2>1. Commit(v)[o] = Missing
    BY <1>1 DEF Commit
  <2> QED
    BY <2>1 DEF Missing, Slots, Absent
<1>2. CASE ~(v[o].kind # "entry" \/ (IsModified(v[o]) /\ IsSpent(v[o])))
  <2>1. v[o] \in Slots /\ v[o].kind = "entry" /\ ~IsSpent(v[o])
    BY <1>2
  <2> DEFINE fl == IF "tfModified" \in v[o].flags THEN v[o].flags \ {"tfModified"}
                   ELSE v[o].flags \cup {"tfModified"}
  <2>2. Commit(v)[o] = [v[o] EXCEPT !.flags = fl]
    BY <1>2 DEF Commit
  <2>3. fl \in SUBSET Flags /\ "tfSpent" \notin fl
    BY <2>1 DEF Slots, Flags, IsSpent
  <2> QED
    BY <2>1, <2>2, <2>3 DEF Slots, IsSpent
<1> QED
  BY <1>1, <1>2

\* A committed view shows the set of a block when its unspent entries did.
LEMMA CommittedView ==
    ASSUME NEW w \in [Outpoints -> Slots], NEW b,
           \A o \in Outpoints : IsSpent(w[o]) => IsModified(w[o]),
           \A o \in Outpoints : w[o].kind = "entry" /\ ~IsSpent(w[o]) => w[o].height = UtxoAt[b][o]
    PROVE  ViewOK(Commit(w), b)
<1> SUFFICES ASSUME NEW o \in Outpoints
             PROVE  IF Commit(w)[o].kind = "entry"
                    THEN ~IsSpent(Commit(w)[o]) /\ Commit(w)[o].height = UtxoAt[b][o]
                    ELSE Commit(w)[o].kind = "missing" /\ Commit(w)[o].flags = {}
  BY DEF ViewOK
<1> DEFINE s == Commit(w)[o]
<1>1. /\ s.kind = "entry" => /\ w[o].kind = "entry" /\ ~IsSpent(w[o])
                             /\ ~IsSpent(s) /\ s.height = w[o].height
      /\ s.kind # "entry" => s = Missing
  BY CommitKeeps
<1> HIDE DEF s
<1>2. s.kind = "entry" => ~IsSpent(s) /\ s.height = UtxoAt[b][o]
  BY <1>1
<1>3. s.kind # "entry" => s.kind = "missing" /\ s.flags = {}
  BY <1>1 DEF Missing
<1>4. IF s.kind = "entry" THEN ~IsSpent(s) /\ s.height = UtxoAt[b][o]
      ELSE s.kind = "missing" /\ s.flags = {}
  BY <1>2, <1>3
<1> QED
  BY <1>4 DEF s

\* Disconnecting a block in the view takes both the database and the view back
\* to the parent.
LEMMA DisconnectView ==
    ASSUME NEW n \in NonGenesis, NEW v \in [Outpoints -> Slots],
           \A o \in Outpoints \ Spends[n] :
               IF v[o].kind = "entry"
               THEN ~IsSpent(v[o]) /\ v[o].height = UtxoAt[n][o]
               ELSE v[o].kind = "missing" /\ v[o].flags = {},
           NEW stxos \in Utxos,
           \A o \in Spends[n] : stxos[o] = UtxoAt[Parent[n]][o]
    PROVE  LET w == ViewDisconnect(v, n, stxos)
           IN  /\ PutUtxoView(w, UtxoAt[n]) = UtxoAt[Parent[n]]
               /\ Commit(w) \in [Outpoints -> Slots]
               /\ ViewOK(Commit(w), Parent[n])
<1> DEFINE w == ViewDisconnect(v, n, stxos)
<1>0. /\ n \in Blocks /\ Parent[n] \in Blocks /\ Height[n] \in Int
      /\ UtxoAt[n] \in Utxos /\ UtxoAt[Parent[n]] \in Utxos
      /\ Parent[n] \in Anc[Parent[n]]
  BY TreeTypes, LedgerTypes
<1>1. ASSUME NEW o \in Outpoints
      PROVE  /\ w[o] \in Slots
             /\ IsSpent(w[o]) => IsModified(w[o])
             /\ w[o].kind = "entry" /\ ~IsSpent(w[o]) => w[o].height = UtxoAt[Parent[n]][o]
             /\ (IF w[o].kind # "entry" \/ ~IsModified(w[o]) THEN UtxoAt[n][o]
                 ELSE IF IsSpent(w[o]) THEN Absent
                 ELSE w[o].height) = UtxoAt[Parent[n]][o]
  <2>1. CASE o \in Creates[n] \cup Transient[n]
    <3> DEFINE e == IF v[o].kind = "entry" THEN v[o] ELSE Entry(Height[n], {})
    <3>1. w[o] = Spend(e)
      BY <2>1 DEF ViewDisconnect
    <3>2. e \in Slots /\ e.kind = "entry"
      BY <1>0 DEF Entry, Slots
    <3>3. UtxoAt[Parent[n]][o] = Absent
      BY <2>1, <1>0, LedgerStep
    <3> QED
      BY <3>1, <3>2, <3>3, SpendMarks
  <2>2. CASE o \in Spends[n]
    <3>1. w[o] = Entry(stxos[o], {"tfModified"})
      BY <2>2, LedgerStep DEF ViewDisconnect
    <3>2. /\ w[o].kind = "entry" /\ w[o].height = stxos[o]
          /\ w[o].flags = {"tfModified"} /\ w[o] \in Slots
      BY <3>1 DEF Entry, Slots, Flags, Utxos
    <3> QED
      BY <3>2, <2>2 DEF IsSpent, IsModified
  <2>3. CASE o \notin Creates[n] \cup Transient[n] \cup Spends[n]
    <3>1. w[o] = v[o] /\ UtxoAt[n][o] = UtxoAt[Parent[n]][o]
      BY <2>3, LedgerStep DEF ViewDisconnect
    <3>2. IF v[o].kind = "entry"
          THEN ~IsSpent(v[o]) /\ v[o].height = UtxoAt[n][o]
          ELSE v[o].kind = "missing" /\ v[o].flags = {}
      BY <2>3
    <3>3. ~IsSpent(v[o])
      BY <3>2 DEF IsSpent
    <3> QED
      BY <3>1, <3>2, <3>3
  <2> QED
    BY <2>1, <2>2, <2>3
<1>2. w \in [Outpoints -> Slots]
  BY <1>1, Zenon DEF ViewDisconnect
<1> DEFINE before == UtxoAt[Parent[n]]
           after == UtxoAt[n]
<1> HIDE DEF w
<1>3. PutUtxoView(w, after) = before
  <2>1. before \in Utxos
    BY <1>0
  <2> HIDE DEF after
  <2>2. \A o \in Outpoints : PutUtxoView(w, after)[o] = before[o]
    BY <1>1 DEF PutUtxoView, after
  <2>3. PutUtxoView(w, after) = [o \in Outpoints |-> PutUtxoView(w, after)[o]]
    BY DEF PutUtxoView
  <2> HIDE DEF before
  <2>4. before = [o \in Outpoints |-> before[o]]
    BY <2>1 DEF Utxos
  <2> QED
    BY <2>2, <2>3, <2>4
<1>4. \A o \in Outpoints : Commit(w)[o] \in Slots
  BY <1>1, <1>2, CommitKeeps
<1>5. Commit(w) \in [Outpoints -> Slots]
  BY <1>4 DEF Commit
<1>6. ViewOK(Commit(w), Parent[n])
  BY <1>1, <1>2, CommittedView
<1> QED
  BY <1>3, <1>5, <1>6 DEF w

\* Connecting a block in the view takes both the database and the view forward,
\* and records what the block spent.
LEMMA ConnectView ==
    ASSUME NEW n \in NonGenesis, NEW v \in [Outpoints -> Slots],
           ViewOK(v, Parent[n]), \A o \in Spends[n] : v[o].kind = "entry"
    PROVE  LET w == ViewConnect(v, n)
           IN  /\ PutUtxoView(w, UtxoAt[Parent[n]]) = UtxoAt[n]
               /\ Commit(w) \in [Outpoints -> Slots]
               /\ ViewOK(Commit(w), n)
               /\ SpentTxOuts(v, n) \in Utxos
               /\ \A o \in Spends[n] : SpentTxOuts(v, n)[o] = UtxoAt[Parent[n]][o]
<1> DEFINE w == ViewConnect(v, n)
<1>0. /\ n \in Blocks /\ Parent[n] \in Blocks /\ Height[n] \in Int
      /\ UtxoAt[n] \in Utxos /\ UtxoAt[Parent[n]] \in Utxos
      /\ Parent[n] \in Anc[Parent[n]] /\ Spends[n] \subseteq Outpoints
  BY TreeTypes, LedgerTypes
<1>a. /\ AddTxOut(n) \in Slots /\ AddTxOut(n).kind = "entry"
      /\ AddTxOut(n).height = Height[n] /\ ~IsSpent(AddTxOut(n))
      /\ IsModified(AddTxOut(n))
  BY <1>0 DEF AddTxOut, Entry, Slots, Flags, IsSpent, IsModified
<1>1. ASSUME NEW o \in Outpoints
      PROVE  /\ w[o] \in Slots
             /\ IsSpent(w[o]) => IsModified(w[o])
             /\ w[o].kind = "entry" /\ ~IsSpent(w[o]) => w[o].height = UtxoAt[n][o]
             /\ (IF w[o].kind # "entry" \/ ~IsModified(w[o]) THEN UtxoAt[Parent[n]][o]
                 ELSE IF IsSpent(w[o]) THEN Absent
                 ELSE w[o].height) = UtxoAt[n][o]
  <2>1. CASE o \in Creates[n]
    <3>1. w[o] = AddTxOut(n) /\ UtxoAt[n][o] = Height[n]
      BY <2>1, LedgerStep DEF ViewConnect
    <3> QED
      BY <3>1, <1>a
  <2>2. CASE o \in Transient[n]
    <3>1. w[o] = Spend(AddTxOut(n)) /\ UtxoAt[n][o] = Absent
      BY <2>2, <1>0, LedgerStep DEF ViewConnect
    <3> QED
      BY <3>1, <1>a, SpendMarks
  <2>3. CASE o \in Spends[n]
    <3>1. w[o] = Spend(v[o]) /\ UtxoAt[n][o] = Absent /\ v[o].kind = "entry"
      BY <2>3, LedgerStep DEF ViewConnect
    <3> QED
      BY <3>1, SpendMarks
  <2>4. CASE o \notin Creates[n] \cup Transient[n] \cup Spends[n]
    <3>1. w[o] = v[o] /\ UtxoAt[n][o] = UtxoAt[Parent[n]][o]
      BY <2>4, LedgerStep DEF ViewConnect
    <3>2. ~IsSpent(v[o]) /\ (v[o].kind = "entry" => v[o].height = UtxoAt[Parent[n]][o])
      BY DEF ViewOK, IsSpent
    <3> QED
      BY <3>1, <3>2
  <2> QED
    BY <2>1, <2>2, <2>3, <2>4
<1>2. w \in [Outpoints -> Slots]
  BY <1>1 DEF ViewConnect
<1>3. PutUtxoView(w, UtxoAt[Parent[n]]) = UtxoAt[n]
  BY <1>0, <1>1 DEF PutUtxoView, Utxos
<1>4. \A o \in Outpoints : Commit(w)[o] \in Slots
  BY <1>1, <1>2, CommitKeeps
<1>5. Commit(w) \in [Outpoints -> Slots]
  BY <1>4 DEF Commit
<1>6. ViewOK(Commit(w), n)
  <2> HIDE DEF w
  <2> QED
    BY <1>1, <1>2, CommittedView
<1>7. /\ SpentTxOuts(v, n) \in Utxos
      /\ \A o \in Spends[n] : SpentTxOuts(v, n)[o] = UtxoAt[Parent[n]][o]
  BY <1>0 DEF SpentTxOuts, Utxos, Slots, ViewOK, Absent
<1> QED
  BY <1>3, <1>5, <1>6, <1>7

\* The typed parts of the database and of the memory, for the leaves.
LEMMA StateTypes ==
    ASSUME InductiveInv
    PROVE  /\ disk \in DiskStates /\ durable \in DiskStates
           /\ disk.utxo \in Utxos /\ disk.best \in Blocks /\ disk.status \in Blocks
           /\ disk.blocks \subseteq Blocks
           /\ disk.journal \in [Blocks -> Utxos]
           /\ files \subseteq Blocks
           /\ cache \in [Outpoints -> Slots]
           /\ job \in [Procs -> Jobs]
           /\ view \in [Procs -> [Outpoints -> Slots]]
BY DEF InductiveInv, TypeOK, DiskStates, Utxos

\* A goroutine that is not inside connectBlock keeps what is known of its
\* reorganisation while the others work.
LEMMA OthersKeep ==
    ASSUME NEW q \in Procs, JobOK(q), job[q].op \notin {"accept", "attach"},
           job'[q] = job[q], view'[q] = view[q], disk.blocks \subseteq disk'.blocks
    PROVE  JobOK(q)'
<1>1. ReorgOK(q)'
  BY DEF JobOK, ReorgOK, OnBranches
<1>2. AcceptOK(q)' /\ AttachOK(q)'
  BY DEF AcceptOK, AttachOK
<1> QED
  BY <1>1, <1>2 DEF JobOK

\* Only the holder of chainLock is inside connectBlock.
LEMMA LockExcludes ==
    ASSUME InductiveInv, NEW p, NEW q \in Procs, q # p, MayLock(p)
    PROVE  job[q].op \notin {"accept", "attach"}
BY ProcAssumption DEF InductiveInv, JobOK, MayLock

\* An idle goroutine satisfies its part.
LEMMA IdleOK ==
    ASSUME NEW p \in Procs, job'[p] = Idle
    PROVE  JobOK(p)'
<1>1. job'[p].op = "idle" /\ job'[p].detach = {} /\ job'[p].attach = {}
  BY DEF Idle, Job
<1>2. AcceptOK(p)' /\ AttachOK(p)' /\ ReorgOK(p)'
  BY <1>1 DEF AcceptOK, ReorgOK, AttachOK
<1> QED
  BY <1>1, <1>2 DEF JobOK

\* Initially the set of the genesis block is stored and served.
LEMMA InitInv == Init => InductiveInv
<1> SUFFICES ASSUME Init
             PROVE  InductiveInv
  OBVIOUS
<1> USE DEF Init
<1>0. EmptyUtxos \in Utxos /\ Genesis \in Blocks
  BY TreeTypes, LedgerTypes
<1>1. TypeOK
  <2>1. disk \in DiskStates
    BY <1>0 DEF DiskStates, Utxos
  <2>2. Idle \in Jobs
    BY DEF Idle, Job, Jobs
  <2>3. NoSlots \in [Outpoints -> Slots]
    BY <1>0, EmptyCache
  <2> QED
    BY <1>0, <2>1, <2>2, <2>3 DEF TypeOK
<1>2. StoreOK(disk)
  <2>1. Anc[Genesis] = {Genesis}
    BY TreeAssumption DEF TreeShape
  <2>2. FindFork(Genesis, Genesis) = Genesis
    BY ForkOfAncestor, TreeTypes
  <2> QED
    BY <2>1, <2>2, LedgerTypes DEF StoreOK, ConsistentAtStatus
<1>3. SlotsOK(cache, disk.utxo) /\ Consistent
  BY <1>0, EmptyCache, LedgerTypes DEF Consistent
<1>4. \A p \in Procs : JobOK(p)
  BY DEF JobOK, AcceptOK, ReorgOK, AttachOK, Idle, Job
<1> QED
  BY <1>1, <1>2, <1>3, <1>4 DEF InductiveInv, ReplayOK, StoppedOK, Running

\* Storing a block changes neither the best block nor the set.
LEMMA MaybeAcceptBlockInv ==
    ASSUME InductiveInv, NEW b \in NonGenesis, MaybeAcceptBlock(b)
    PROVE  InductiveInv'
<1> USE DEF MaybeAcceptBlock
<1>t. b \in Blocks /\ NetSync \in Procs
  BY TreeTypes, ProcAssumption
<1>d. /\ disk'.blocks = disk.blocks \cup {b}
      /\ disk'.utxo = disk.utxo /\ disk'.best = disk.best
      /\ disk'.status = disk.status /\ disk'.journal = disk.journal
      /\ disk' \in DiskStates
  BY StateTypes, <1>t, Zenon DEF DiskStates
<1>1. TypeOK'
  <2>1. job' \in [Procs -> Jobs]
    BY StateTypes, <1>t DEF Job, Jobs
  <2>2. lock' \in Procs \cup {NoProc}
    BY <1>t DEF InductiveInv, TypeOK
  <2> QED
    BY <1>d, <1>t, <2>1, <2>2 DEF InductiveInv, TypeOK
<1>2. StoreOK(disk)'
  <2>1. Anc[b] = Anc[Parent[b]] \cup {b}
    BY ChildFacts
  <2> QED
    BY <1>d, <2>1 DEF InductiveInv, StoreOK, ConsistentAtStatus
<1>3. StoreOK(durable)' /\ SlotsOK(cache, disk.utxo)' /\ Consistent' /\ ReplayOK' /\ StoppedOK'
  BY <1>d DEF InductiveInv, StoreOK, ConsistentAtStatus, Consistent, ReplayOK, StoppedOK,
              Running
<1>4. \A p \in Procs : JobOK(p)'
  <2> SUFFICES ASSUME NEW p \in Procs
               PROVE  JobOK(p)'
    OBVIOUS
  <2>0. job[p].op \notin {"accept", "attach"} /\ JobOK(p)
    BY ProcAssumption DEF InductiveInv, JobOK
  <2>1. CASE job'[p] = job[p]
    BY <2>0, <2>1, <1>d, OthersKeep
  <2>2. CASE job'[p] # job[p]
    <3>1. p = NetSync /\ Parent[b] = disk.best
      BY <2>2, StateTypes
    <3>2. job'[p] = Job("accept", {}, {b}) /\ lock' = p
      BY <3>1, <1>t, StateTypes
    <3>3. b \notin Anc[disk.status]
      BY DEF InductiveInv, StoreOK
    <3>4. AcceptOK(p)'
      BY <3>1, <3>2, <3>3, <1>d, Zenon DEF AcceptOK, NonGenesis
    <3> QED
      BY <3>2, <3>4 DEF JobOK, ReorgOK, AttachOK, Job
  <2> QED
    BY <2>1, <2>2
<1> QED
  BY <1>1, <1>2, <1>3, <1>4 DEF InductiveInv

\* A goroutine inside a call belongs to a running node.
LEMMA BusyRuns ==
    ASSUME InductiveInv, NEW p \in Procs, job[p].op # "idle"
    PROVE  Running
<1>1. Idle.op = "idle"
  BY DEF Idle, Job
<1>2. job[p] # Idle
  BY <1>1
<1> QED
  BY <1>2 DEF InductiveInv, StoppedOK

=============================================================================
