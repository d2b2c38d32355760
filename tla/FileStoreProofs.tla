--------------------------- MODULE FileStoreProofs ----------------------------
(***************************************************************************)
(* Theorems about FileStore: its types, the soundness of the RAM index     *)
(* under every fault and, when no append is torn and no two scopes share   *)
(* a directory, durability and the refinement of DurableStore.             *)
(***************************************************************************)
EXTENDS FileStore, SequenceTheorems, WellFoundedInduction, TLAPS

EntryRec == [id: Id, val: Val]

\* An index: what scopeIndex.entries and byID of one scope must be.
IndexOK(es, ids) ==
  /\ es \in Seq(EntryRec) /\ ids \in [Id -> Nat]
  /\ \A i \in Id : ids[i] # 0 => ids[i] <= Len(es) /\ es[ids[i]].id = i

Look(es, ids, i) == IF ids[i] = 0 THEN None ELSE es[ids[i]].val

\* TypeOK and IndexSound together are inductive.
IndexInv == TypeOK /\ IndexSound

LEMMA ScopeIndexOK ==
  ASSUME IndexInv, NEW s \in Scope
  PROVE  IndexOK(entries[s], byID[s])
BY DEF IndexInv, TypeOK, IndexSound, IndexOK, EntryRec

\* The upsert keeps an index sound, shows the new value under its id and changes
\* nothing else.
LEMMA IndexedOK ==
  ASSUME NEW s \in Scope, NEW i \in Id, NEW v \in Val, IndexOK(entries[s], byID[s])
  PROVE  LET idx == Indexed(s, i, v) IN
           /\ IndexOK(idx.entries, idx.byID)
           /\ idx.byID[i] # 0
           /\ Look(idx.entries, idx.byID, i) = v
           /\ \A j \in Id \ {i} : Look(idx.entries, idx.byID, j) = Look(entries[s], byID[s], j)
<1> DEFINE e == [id |-> i, val |-> v]
           es == entries[s]
           ids == byID[s]
<1>e. e \in EntryRec /\ e.id = i /\ e.val = v BY DEF EntryRec
<1>t. /\ es \in Seq(EntryRec) /\ ids \in [Id -> Nat]
      /\ \A j \in Id : ids[j] # 0 => ids[j] \in 1..Len(es) /\ es[ids[j]].id = j
  BY DEF IndexOK
<1>l. Len(es) \in Nat BY <1>t
<1>1. CASE ids[i] # 0
  <2> DEFINE p == ids[i]
             fs == [es EXCEPT ![p] = e]
  <2>0. Indexed(s, i, v) = [entries |-> fs, byID |-> ids] BY <1>1 DEF Indexed
  <2>1. p \in 1..Len(es) /\ p # 0 BY <1>1, <1>t
  <2>2. fs \in Seq(EntryRec) /\ Len(fs) = Len(es) BY <1>t, <1>e, <2>1
  <2>3. fs[p] = e BY <1>t, <2>1
  <2>4. \A j \in Id \ {i} : ids[j] # 0 => ids[j] # p BY <1>t, <2>1
  <2>5. \A j \in Id \ {i} : ids[j] # 0 => fs[ids[j]] = es[ids[j]] BY <1>t, <2>4, <2>1
  <2> HIDE DEF fs, p
  <2>6. IndexOK(fs, ids) BY <1>t, <1>e, <2>2, <2>3, <2>5 DEF IndexOK, p
  <2>7. Look(fs, ids, i) = v BY <2>1, <2>3, <1>e DEF Look, p
  <2>8. \A j \in Id \ {i} : Look(fs, ids, j) = Look(es, ids, j) BY <2>5 DEF Look
  <2> QED BY <2>0, <2>1, <2>6, <2>7, <2>8 DEF p
<1>2. CASE ids[i] = 0
  <2> DEFINE n == Len(es) + 1
             fs == Append(es, e)
             new == [ids EXCEPT ![i] = n]
  <2>0. Indexed(s, i, v) = [entries |-> fs, byID |-> new] BY <1>2 DEF Indexed
  <2>1. n \in Nat /\ n # 0 BY <1>l
  <2>2. /\ fs \in Seq(EntryRec) /\ Len(fs) = n /\ fs[n] = e
        /\ \A q \in 1..Len(es) : fs[q] = es[q]
    BY <1>t, <1>e, <1>l, AppendProperties
  <2>3. new \in [Id -> Nat] /\ new[i] = n /\ \A j \in Id \ {i} : new[j] = ids[j] BY <1>t, <2>1
  <2>4. \A j \in Id \ {i} : new[j] # 0 => new[j] \in 1..Len(es) /\ fs[new[j]] = es[new[j]]
    BY <1>t, <2>2, <2>3
  <2> HIDE DEF fs, new
  <2>5. \A j \in Id : new[j] # 0 => new[j] <= Len(fs) /\ fs[new[j]].id = j
    <3> SUFFICES ASSUME NEW j \in Id, new[j] # 0 PROVE new[j] <= Len(fs) /\ fs[new[j]].id = j OBVIOUS
    <3>1. CASE j = i BY <3>1, <2>1, <2>2, <2>3, <1>e
    <3>2. CASE j # i
      <4>1. new[j] \in 1..Len(es) /\ fs[new[j]] = es[new[j]] /\ new[j] = ids[j] BY <3>2, <2>3, <2>4
      <4>2. es[ids[j]].id = j BY <4>1, <1>t
      <4> QED BY <4>1, <4>2, <2>2, <1>l
    <3> QED BY <3>1, <3>2
  <2>6. IndexOK(fs, new) BY <2>2, <2>3, <2>5 DEF IndexOK
  <2>7. Look(fs, new, i) = v BY <2>1, <2>2, <2>3, <1>e DEF Look
  <2>8. \A j \in Id \ {i} : Look(fs, new, j) = Look(es, ids, j) BY <2>3, <2>4 DEF Look
  <2> QED BY <2>0, <2>1, <2>3, <2>6, <2>7, <2>8
<1> QED BY <1>1, <1>2

\* A roll-back keeps an index sound and changes nothing but its own id.
LEMMA RolledBackOK ==
  ASSUME NEW es, NEW ids, IndexOK(es, ids), NEW i \in Id, ids[i] # 0
  PROVE  LET idx == RolledBack([entries |-> es, byID |-> ids], i) IN
           /\ IndexOK(idx.entries, idx.byID)
           /\ \A j \in Id \ {i} : Look(idx.entries, idx.byID, j) = Look(es, ids, j)
<1>t. /\ es \in Seq(EntryRec) /\ ids \in [Id -> Nat]
      /\ \A j \in Id : ids[j] # 0 => ids[j] \in 1..Len(es) /\ es[ids[j]].id = j
  BY DEF IndexOK
<1>1. CASE ids[i] = Len(es)
  <2> DEFINE n == Len(es)
             fs == SubSeq(es, 1, n - 1)
             new == [ids EXCEPT ![i] = 0]
  <2>0. RolledBack([entries |-> es, byID |-> ids], i) = [entries |-> fs, byID |-> new]
    BY <1>1 DEF RolledBack
  <2>1. n \in Nat /\ n >= 1 BY <1>t, <1>1
  <2>2. fs \in Seq(EntryRec) /\ Len(fs) = n - 1 /\ \A q \in 1..(n - 1) : fs[q] = es[q]
    <3>1. fs \in Seq(EntryRec) BY <1>t, <2>1, SubSeqProperties
    <3>0. \A q \in 1..(n - 1) : es[q] \in EntryRec
      <4> SUFFICES ASSUME NEW q \in 1..(n - 1) PROVE es[q] \in EntryRec OBVIOUS
      <4>1. q \in 1..Len(es) BY <2>1
      <4> QED BY <1>t, <4>1, ElementOfSeq
    <3>2. Len(fs) = n - 1
      <4>0. \A m \in Nat : m >= 1 => m - 1 \in Int /\ (1 <= m - 1 \/ m - 1 = 0) OBVIOUS
      <4> HIDE DEF n
      <4>1. n - 1 \in Int /\ (1 <= n - 1 \/ n - 1 = 0) BY <2>1, <4>0
      <4>2. Len(SubSeq(es, 1, n - 1)) = IF 1 <= n - 1 THEN n - 1 - 1 + 1 ELSE 0
        BY <3>0, <4>1, SubSeqProperties
      <4> QED BY <2>1, <4>1, <4>2
    <3>3. \A q \in 1..(n - 1) : fs[q] = es[q] BY <1>t, <2>1, SubSeqProperties
    <3> QED BY <3>1, <3>2, <3>3
  <2>3. new \in [Id -> Nat] /\ new[i] = 0 /\ \A j \in Id \ {i} : new[j] = ids[j] BY <1>t
  <2>4. \A j \in Id \ {i} : ids[j] # 0 => ids[j] \in 1..(n - 1) BY <1>t, <1>1, <2>1
  <2> HIDE DEF fs, new, n
  <2>5. \A j \in Id : new[j] # 0 => new[j] \in 1..(n - 1) /\ fs[new[j]] = es[new[j]] /\ new[j] = ids[j]
    BY <2>2, <2>3, <2>4
  <2>6. IndexOK(fs, new)
    <3>1. \A j \in Id : new[j] # 0 => new[j] <= Len(fs) /\ fs[new[j]].id = j
      BY <2>1, <2>2, <2>3, <2>5, <1>t
    <3> QED BY <3>1, <2>2, <2>3 DEF IndexOK
  <2>7. \A j \in Id \ {i} : Look(fs, new, j) = Look(es, ids, j) BY <2>3, <2>5 DEF Look
  <2> QED BY <2>0, <2>6, <2>7
<1>2. CASE ids[i] # Len(es)
  <2>1. RolledBack([entries |-> es, byID |-> ids], i) = [entries |-> es, byID |-> ids]
    BY <1>2 DEF RolledBack
  <2> QED BY <2>1
<1> QED BY <1>1, <1>2

------------------------------------------------------------------------------
(* The index after each action. *)

LEMMA InitIndexInv == Init => IndexInv
<1> SUFFICES ASSUME Init PROVE IndexInv OBVIOUS
<1>1. <<>> \in Seq([id: Id, val: Val]) /\ <<>> \in Seq(Line) OBVIOUS
<1>2. NDirs \in Nat BY DirsAssumption
<1>3. TypeOK BY <1>1, <1>2 DEF Init, InitWith, TypeOK
<1>4. IndexSound BY DEF Init, InitWith, IndexSound
<1> QED BY <1>3, <1>4 DEF IndexInv

\* What AppendLine does to the files: nothing, or one line more, or the last line
\* turned bad.
LEMMA AppendType ==
  ASSUME TypeOK, NEW d \in Dir, NEW l \in Line, NEW o, AppendLine(d, l, o)
  PROVE  file' \in [Dir -> Seq(Line)] /\ cut' \in [Dir -> BOOLEAN]
<1> DEFINE last == file[d][Len(file[d])]
           new == IF o = "torn" THEN Bad(l.long) ELSE l
           body == IF cut[d] THEN [file[d] EXCEPT ![Len(file[d])] = Bad(last.long \/ l.long)]
                             ELSE Append(file[d], new)
<1>t. file \in [Dir -> Seq(Line)] /\ cut \in [Dir -> BOOLEAN] BY DEF TypeOK
<1>b. \A x \in BOOLEAN : Bad(x) \in Line BY DEF Bad, Line
<1>l. l.long \in BOOLEAN BY DEF Line
<1>1. CASE o = "append" BY <1>1, <1>t DEF AppendLine
<1>2. CASE o # "append"
  <2>1. file' = [file EXCEPT ![d] = body] /\ cut' = [cut EXCEPT ![d] = o \in {"torn", "whole"}]
    BY <1>2 DEF AppendLine
  <2>2. new \in Line BY <1>b, <1>l
  <2>3. (last.long \/ l.long) \in BOOLEAN OBVIOUS
  <2>4. body \in Seq(Line)
    <3>1. file[d] \in Seq(Line) BY <1>t
    <3>2. CASE cut[d]
      <4>1. Bad(last.long \/ l.long) \in Line BY <2>3, <1>b
      <4>2. [file[d] EXCEPT ![Len(file[d])] = Bad(last.long \/ l.long)] \in Seq(Line)
        <5>1. CASE Len(file[d]) \in 1..Len(file[d]) BY <3>1, <4>1, <5>1, ExceptSeq
        <5>2. CASE Len(file[d]) = 0
          <6>1. [file[d] EXCEPT ![Len(file[d])] = Bad(last.long \/ l.long)] = file[d]
            BY <3>1, <5>2
          <6> QED BY <6>1, <3>1
        <5> QED BY <5>1, <5>2, <3>1
      <4> QED BY <4>2, <3>2
    <3>3. CASE ~cut[d] BY <3>1, <3>3, <2>2, AppendProperties
    <3> QED BY <3>2, <3>3
  <2> HIDE DEF body
  <2> QED BY <2>1, <2>4, <1>t
<1> QED BY <1>1, <1>2

\* The part of TypeOK and IndexSound about the RAM index.
RamOK ==
  /\ entries \in [Scope -> Seq([id: Id, val: Val])] /\ byID \in [Scope -> [Id -> Nat]]
  /\ corrupt \in [Scope -> Nat] /\ dirty \in [Scope -> BOOLEAN]
  /\ IndexSound
DiskOK ==
  /\ file \in [Dir -> Seq(Line)] /\ cut \in [Dir -> BOOLEAN]
  /\ meta \in [Dir -> [scope: Scope \cup {None}, corrupt: Nat]]
ToldOK == acked \in [Scope -> [Id -> Val \cup {None, Unknown}]] /\ gone \in SUBSET (Scope \X Id)
CtrlOK ==
  /\ pc \in {"down", "load", "open"} /\ dir \in 1..(NDirs + 1) /\ row \in Nat \ {0}
  /\ result \in {"none", "ok", "err"}

LEMMA Parts == IndexInv <=> RamOK /\ DiskOK /\ ToldOK /\ CtrlOK
BY DEF IndexInv, TypeOK, RamOK, DiskOK, ToldOK, CtrlOK

LEMMA PartsNext == RamOK' /\ DiskOK' /\ ToldOK' /\ CtrlOK' => IndexInv'
BY DEF IndexInv, TypeOK, RamOK, DiskOK, ToldOK, CtrlOK

LEMMA Dirs ==
  /\ NDirs \in Nat /\ 1 \in 1..(NDirs + 1) /\ \A s \in Scope : DirName[s] \in Dir
  /\ \A d \in Dir : d + 1 \in 1..(NDirs + 1)
BY DirsAssumption DEF Dir

LEMMA ScopeOfType == ASSUME DiskOK, NEW d \in Dir PROVE ScopeOf(d) \in Scope
BY DirsAssumption DEF DiskOK, ScopeOf

LEMMA LinesType ==
  /\ \A i \in Id, v \in Val : PutLine(i, v) \in Line
  /\ \A i \in Id : Tombstone(i) \in Line
BY DEF PutLine, Tombstone, Line

LEMMA SetIndexRam ==
  ASSUME RamOK, NEW s \in Scope, NEW idx, IndexOK(idx.entries, idx.byID), SetIndex(s, idx),
         corrupt' \in [Scope -> Nat], dirty' \in [Scope -> BOOLEAN]
  PROVE  RamOK'
<1>1. idx.entries \in Seq([id: Id, val: Val]) /\ idx.byID \in [Id -> Nat] BY DEF IndexOK, EntryRec
<1>2. /\ entries' = [entries EXCEPT ![s] = idx.entries] /\ byID' = [byID EXCEPT ![s] = idx.byID]
  BY DEF SetIndex
<1>3. entries' \in [Scope -> Seq([id: Id, val: Val])] /\ byID' \in [Scope -> [Id -> Nat]]
  BY <1>1, <1>2 DEF RamOK
<1>4. IndexSound'
  <2> SUFFICES ASSUME NEW t \in Scope, NEW i \in Id, byID'[t][i] # 0
               PROVE  byID'[t][i] <= Len(entries'[t]) /\ entries'[t][byID'[t][i]].id = i
    BY DEF IndexSound
  <2>1. CASE t = s
    <3>1. entries'[t] = idx.entries /\ byID'[t] = idx.byID BY <2>1, <1>2 DEF RamOK
    <3> QED BY <3>1 DEF IndexOK
  <2>2. CASE t # s
    <3>1. entries'[t] = entries[t] /\ byID'[t] = byID[t] BY <2>2, <1>2 DEF RamOK
    <3> QED BY <3>1 DEF RamOK, IndexSound
  <2> QED BY <2>1, <2>2
<1> QED BY <1>3, <1>4 DEF RamOK

LEMMA DropIndexRam ==
  ASSUME RamOK, NEW s \in Scope, NEW i \in Id, byID' = [byID EXCEPT ![s][i] = 0],
         entries' = entries, corrupt' \in [Scope -> Nat], dirty' \in [Scope -> BOOLEAN]
  PROVE  RamOK'
<1>1. byID' \in [Scope -> [Id -> Nat]] BY DEF RamOK
<1>2. \A t \in Scope, j \in Id : byID'[t][j] # 0 => byID'[t][j] = byID[t][j] BY DEF RamOK
<1>3. IndexSound'
  <2> SUFFICES ASSUME NEW t \in Scope, NEW j \in Id, byID'[t][j] # 0
               PROVE  byID'[t][j] <= Len(entries'[t]) /\ entries'[t][byID'[t][j]].id = j
    BY DEF IndexSound
  <2>1. byID'[t][j] = byID[t][j] /\ byID[t][j] # 0 BY <1>2
  <2>2. byID[t][j] <= Len(entries[t]) /\ entries[t][byID[t][j]].id = j BY <2>1 DEF RamOK, IndexSound
  <2> QED BY <2>1, <2>2
<1> QED BY <1>1, <1>3 DEF RamOK

LEMMA DownOK == ASSUME Down, result' \in {"none", "ok", "err"} PROVE RamOK' /\ CtrlOK'
<1>1. <<>> \in Seq([id: Id, val: Val]) OBVIOUS
<1>2. CtrlOK' BY Dirs DEF Down, CtrlOK
<1>3. RamOK' BY <1>1 DEF Down, EmptyRam, RamOK, IndexSound
<1> QED BY <1>2, <1>3

LEMMA WriteMetaOK ==
  ASSUME DiskOK, RamOK, NEW s \in Scope, WriteMeta(s)
  PROVE  meta' \in [Dir -> [scope: Scope \cup {None}, corrupt: Nat]]
<1>1. corrupt[s] \in Nat /\ DirName[s] \in Dir BY Dirs DEF RamOK
<1>2. [scope |-> s, corrupt |-> corrupt[s]] \in [scope: Scope \cup {None}, corrupt: Nat] BY <1>1
<1> QED BY <1>1, <1>2 DEF WriteMeta, DiskOK

LEMMA ToldTyped ==
  ASSUME ToldOK, NEW s \in Scope, NEW i \in Id, NEW v \in Val \cup {None, Unknown}, Told(s, i, v)
  PROVE  ToldOK'
BY DEF ToldOK, Told

LEMMA AppendDisk ==
  ASSUME IndexInv, NEW s \in Scope, NEW l \in Line, NEW o, AppendLine(DirName[s], l, o),
         meta' \in [Dir -> [scope: Scope \cup {None}, corrupt: Nat]]
  PROVE  DiskOK'
BY AppendType, Dirs DEF IndexInv, DiskOK

LEMMA DirtyOK ==
  ASSUME RamOK, NEW s \in Scope, NEW x \in BOOLEAN, dirty' = [dirty EXCEPT ![s] = x]
  PROVE  dirty' \in [Scope -> BOOLEAN]
BY DEF RamOK

LEMMA PutStep ==
  ASSUME IndexInv, NEW s \in Scope, NEW i \in Id, NEW v \in Val,
         PutOk(s, i, v) \/ PutAppendErr(s, i, v) \/ PutMetaErr(s, i, v)
  PROVE  IndexInv'
<1> DEFINE idx == Indexed(s, i, v)
<1>p. RamOK /\ DiskOK /\ ToldOK /\ CtrlOK BY Parts
<1>i. IndexOK(idx.entries, idx.byID) /\ idx.byID[i] # 0 BY ScopeIndexOK, IndexedOK
<1>r. IndexOK(RolledBack(idx, i).entries, RolledBack(idx, i).byID)
  <2>1. idx = [entries |-> idx.entries, byID |-> idx.byID] BY DEF Indexed
  <2> QED BY <1>i, <2>1, RolledBackOK
<1> HIDE DEF idx
<1>l. PutLine(i, v) \in Line BY LinesType
<1>1. CASE PutOk(s, i, v)
  <2>1. RamOK'
    <3>1. SetIndex(s, idx) /\ dirty' = [dirty EXCEPT ![s] = FALSE] /\ corrupt' = corrupt
      BY <1>1 DEF PutOk, idx
    <3> QED BY <3>1, <1>p, <1>i, SetIndexRam, DirtyOK DEF RamOK
  <2>2. DiskOK'
    <3>1. AppendLine(DirName[s], PutLine(i, v), "ok") /\ WriteMeta(s) BY <1>1 DEF PutOk
    <3> QED BY <3>1, <1>p, <1>l, WriteMetaOK, AppendDisk
  <2>3. ToldOK' BY <1>1, <1>p, ToldTyped DEF PutOk
  <2>4. CtrlOK' BY <1>1, <1>p DEF PutOk, CtrlOK
  <2> QED BY <2>1, <2>2, <2>3, <2>4, PartsNext
<1>2. CASE PutAppendErr(s, i, v)
  <2>1. RamOK'
    <3>1. SetIndex(s, RolledBack(idx, i)) /\ dirty' = [dirty EXCEPT ![s] = TRUE] /\ corrupt' = corrupt
      BY <1>2 DEF PutAppendErr, idx
    <3> QED BY <3>1, <1>p, <1>r, SetIndexRam, DirtyOK DEF RamOK
  <2>2. DiskOK'
    <3>1. PICK o \in Appends \ {"ok"} : AppendLine(DirName[s], PutLine(i, v), o) BY <1>2 DEF PutAppendErr
    <3>2. meta' = meta BY <1>2 DEF PutAppendErr
    <3>3. meta' \in [Dir -> [scope: Scope \cup {None}, corrupt: Nat]] BY <3>2, <1>p DEF DiskOK
    <3> QED BY <3>1, <3>3, <1>l, AppendDisk
  <2>3. ToldOK' BY <1>2, <1>p, ToldTyped DEF PutAppendErr
  <2>4. CtrlOK' BY <1>2, <1>p DEF PutAppendErr, CtrlOK
  <2> QED BY <2>1, <2>2, <2>3, <2>4, PartsNext
<1>3. CASE PutMetaErr(s, i, v)
  <2>1. RamOK'
    <3>1. SetIndex(s, idx) /\ dirty' = [dirty EXCEPT ![s] = TRUE] /\ corrupt' = corrupt
      BY <1>3 DEF PutMetaErr, idx
    <3> QED BY <3>1, <1>p, <1>i, SetIndexRam, DirtyOK DEF RamOK
  <2>2. DiskOK'
    <3>1. AppendLine(DirName[s], PutLine(i, v), "ok") BY <1>3 DEF PutMetaErr
    <3>2. meta' = meta BY <1>3 DEF PutMetaErr
    <3>3. meta' \in [Dir -> [scope: Scope \cup {None}, corrupt: Nat]] BY <3>2, <1>p DEF DiskOK
    <3> QED BY <3>1, <3>3, <1>l, AppendDisk
  <2>3. ToldOK' BY <1>3, <1>p, ToldTyped DEF PutMetaErr
  <2>4. CtrlOK' BY <1>3, <1>p DEF PutMetaErr, CtrlOK
  <2> QED BY <2>1, <2>2, <2>3, <2>4, PartsNext
<1> QED BY <1>1, <1>2, <1>3

LEMMA DeleteStep ==
  ASSUME IndexInv, NEW s \in Scope, NEW i \in Id,
         DeleteOk(s, i) \/ DeleteUnknown(s, i) \/ DeleteAppendErr(s, i) \/ DeleteMetaErr(s, i)
  PROVE  IndexInv'
<1>p. RamOK /\ DiskOK /\ ToldOK /\ CtrlOK BY Parts
<1>l. Tombstone(i) \in Line BY LinesType
<1>1. CASE DeleteOk(s, i)
  <2>1. RamOK'
    <3>1. /\ byID' = [byID EXCEPT ![s][i] = 0] /\ entries' = entries
          /\ dirty' = [dirty EXCEPT ![s] = FALSE] /\ corrupt' = corrupt
      BY <1>1 DEF DeleteOk
    <3>2. dirty' \in [Scope -> BOOLEAN] /\ corrupt' \in [Scope -> Nat] BY <3>1, <1>p, DirtyOK DEF RamOK
    <3> QED BY <3>1, <3>2, <1>p, DropIndexRam
  <2>2. DiskOK'
    <3>1. AppendLine(DirName[s], Tombstone(i), "ok") /\ WriteMeta(s) BY <1>1 DEF DeleteOk
    <3> QED BY <3>1, <1>p, <1>l, WriteMetaOK, AppendDisk
  <2>3. ToldOK' BY <1>1, <1>p, ToldTyped DEF DeleteOk
  <2>4. CtrlOK' BY <1>1, <1>p DEF DeleteOk, CtrlOK
  <2> QED BY <2>1, <2>2, <2>3, <2>4, PartsNext
<1>2. CASE DeleteUnknown(s, i)
  <2>1. UNCHANGED <<pc, dir, row, entries, byID, corrupt, dirty, file, cut, meta, acked>>
    BY <1>2 DEF DeleteUnknown, ram, disk
  <2>2. RamOK' BY <2>1, <1>p DEF RamOK, IndexSound
  <2>3. DiskOK' BY <2>1, <1>p DEF DiskOK
  <2>4. ToldOK' BY <2>1, <1>2, <1>p DEF ToldOK, DeleteUnknown
  <2>5. CtrlOK' BY <2>1, <1>2, <1>p DEF CtrlOK, DeleteUnknown
  <2> QED BY <2>2, <2>3, <2>4, <2>5, PartsNext
<1>3. CASE DeleteAppendErr(s, i)
  <2>1. RamOK'
    <3>1. UNCHANGED <<entries, byID, corrupt>> /\ dirty' = [dirty EXCEPT ![s] = TRUE]
      BY <1>3 DEF DeleteAppendErr
    <3> QED BY <3>1, <1>p, DirtyOK DEF RamOK, IndexSound
  <2>2. DiskOK'
    <3>1. PICK o \in Appends \ {"ok"} : AppendLine(DirName[s], Tombstone(i), o) BY <1>3 DEF DeleteAppendErr
    <3>2. meta' = meta BY <1>3 DEF DeleteAppendErr
    <3>3. meta' \in [Dir -> [scope: Scope \cup {None}, corrupt: Nat]] BY <3>2, <1>p DEF DiskOK
    <3> QED BY <3>1, <3>3, <1>l, AppendDisk
  <2>3. ToldOK' BY <1>3, <1>p, ToldTyped DEF DeleteAppendErr
  <2>4. CtrlOK' BY <1>3, <1>p DEF DeleteAppendErr, CtrlOK
  <2> QED BY <2>1, <2>2, <2>3, <2>4, PartsNext
<1>4. CASE DeleteMetaErr(s, i)
  <2>1. RamOK'
    <3>1. /\ byID' = [byID EXCEPT ![s][i] = 0] /\ entries' = entries
          /\ dirty' = [dirty EXCEPT ![s] = TRUE] /\ corrupt' = corrupt
      BY <1>4 DEF DeleteMetaErr
    <3>2. dirty' \in [Scope -> BOOLEAN] /\ corrupt' \in [Scope -> Nat] BY <3>1, <1>p, DirtyOK DEF RamOK
    <3> QED BY <3>1, <3>2, <1>p, DropIndexRam
  <2>2. DiskOK'
    <3>1. AppendLine(DirName[s], Tombstone(i), "ok") /\ meta' = meta BY <1>4 DEF DeleteMetaErr
    <3>3. meta' \in [Dir -> [scope: Scope \cup {None}, corrupt: Nat]] BY <3>1, <1>p DEF DiskOK
    <3> QED BY <3>1, <3>3, <1>l, AppendDisk
  <2>3. ToldOK' BY <1>4, <1>p, ToldTyped DEF DeleteMetaErr
  <2>4. CtrlOK' BY <1>4, <1>p DEF DeleteMetaErr, CtrlOK
  <2> QED BY <2>1, <2>2, <2>3, <2>4, PartsNext
<1> QED BY <1>1, <1>2, <1>3, <1>4

LEMMA StopStep ==
  ASSUME IndexInv,
         Close \/ Crash \/ \E s \in Scope, i \in Id :
                             CrashInDelete(s, i) \/ \E v \in Val : CrashInPut(s, i, v)
  PROVE  IndexInv'
<1>p. RamOK /\ DiskOK /\ ToldOK /\ CtrlOK BY Parts
<1>1. CASE Close
  <2>1. RamOK' /\ CtrlOK' BY <1>1, DownOK DEF Close
  <2>2. ToldOK' BY <1>1, <1>p DEF Close, told, ToldOK
  <2>3. DiskOK'
    <3>1. PICK done \in SUBSET {s \in Scope : dirty[s]}, w \in [Dir -> Scope] :
            meta' = [d \in Dir |-> IF \E s \in done : DirName[s] = d
                                   THEN [scope |-> w[d], corrupt |-> corrupt[w[d]]] ELSE meta[d]]
      BY <1>1 DEF Close
    <3>2. \A d \in Dir : [scope |-> w[d], corrupt |-> corrupt[w[d]]] \in [scope: Scope \cup {None}, corrupt: Nat]
      BY <1>p DEF RamOK
    <3>3. meta' \in [Dir -> [scope: Scope \cup {None}, corrupt: Nat]] BY <3>1, <3>2, <1>p DEF DiskOK
    <3> QED BY <3>3, <1>1, <1>p DEF Close, DiskOK
  <2> QED BY <2>1, <2>2, <2>3, PartsNext
<1>2. CASE Crash
  <2>1. RamOK' /\ CtrlOK' BY <1>2, DownOK DEF Crash
  <2>2. ToldOK' /\ DiskOK' BY <1>2, <1>p DEF Crash, disk, told, ToldOK, DiskOK
  <2> QED BY <2>1, <2>2, PartsNext
<1>3. ASSUME NEW s \in Scope, NEW i \in Id, NEW l \in Line, DieInCall(s, i, l) PROVE IndexInv'
  <2>1. RamOK' /\ CtrlOK' BY <1>3, DownOK DEF DieInCall
  <2>2. ToldOK' BY <1>3, <1>p, ToldTyped DEF DieInCall
  <2>3. PICK o \in Appends : /\ AppendLine(DirName[s], l, o)
                             /\ meta' = meta \/ WriteMeta(s)
    BY <1>3 DEF DieInCall
  <2>4. meta' \in [Dir -> [scope: Scope \cup {None}, corrupt: Nat]]
    BY <2>3, <1>p, WriteMetaOK DEF DiskOK
  <2>5. DiskOK' BY <2>3, <2>4, AppendDisk
  <2> QED BY <2>1, <2>2, <2>5, PartsNext
<1> QED BY <1>1, <1>2, <1>3, LinesType DEF CrashInPut, CrashInDelete

LEMMA OpenStep == ASSUME IndexInv, OpenFileStore \/ Open PROVE IndexInv'
<1>p. RamOK /\ DiskOK /\ ToldOK /\ CtrlOK BY Parts
<1> DEFINE sc == ScopeOf(dir)
<1>s. dir \in Dir => sc \in Scope BY <1>p, ScopeOfType
<1> HIDE DEF sc
<1>1. CASE OpenFileStore
  BY <1>1, <1>p, PartsNext DEF OpenFileStore, ram, disk, told, RamOK, IndexSound, DiskOK, ToldOK, CtrlOK
<1>2. CASE LoadPut
  <2> DEFINE l == file[dir][row]
             idx == Indexed(sc, l.id, l.val)
  <2>1. dir \in Dir /\ row \in 1..Len(file[dir]) /\ l.op = "put" BY <1>2, <1>p DEF LoadPut, CtrlOK
  <2>2. l \in Line BY <2>1, <1>p DEF DiskOK
  <2>3. l.id \in Id /\ l.val \in Val BY <2>1, <2>2 DEF Line
  <2>4. IndexOK(idx.entries, idx.byID) BY <2>1, <2>3, <1>s, ScopeIndexOK, IndexedOK
  <2>5. SetIndex(sc, idx) /\ UNCHANGED <<corrupt, dirty>> BY <1>2 DEF LoadPut, sc
  <2> HIDE DEF idx, l
  <2>6. RamOK' BY <2>1, <2>4, <2>5, <1>s, <1>p, SetIndexRam DEF RamOK
  <2>7. DiskOK' /\ ToldOK' BY <1>2, <1>p DEF LoadPut, disk, told, DiskOK, ToldOK
  <2>8. CtrlOK' BY <1>2, <1>p DEF LoadPut, CtrlOK
  <2> QED BY <2>6, <2>7, <2>8, PartsNext
<1>3. CASE LoadTombstone
  <2> DEFINE l == file[dir][row]
  <2>1. dir \in Dir /\ row \in 1..Len(file[dir]) /\ l.op = "del" BY <1>3, <1>p DEF LoadTombstone, CtrlOK
  <2>2. l \in Line BY <2>1, <1>p DEF DiskOK
  <2>3. l.id \in Id BY <2>1, <2>2 DEF Line
  <2>4. byID' = [byID EXCEPT ![sc][l.id] = 0] /\ UNCHANGED <<entries, corrupt, dirty>>
    BY <1>3 DEF LoadTombstone, sc
  <2> HIDE DEF l
  <2>5. RamOK' BY <2>1, <2>3, <2>4, <1>s, <1>p, DropIndexRam DEF RamOK
  <2>6. DiskOK' /\ ToldOK' BY <1>3, <1>p DEF LoadTombstone, disk, told, DiskOK, ToldOK
  <2>7. CtrlOK' BY <1>3, <1>p DEF LoadTombstone, CtrlOK
  <2> QED BY <2>5, <2>6, <2>7, PartsNext
<1>4. CASE LoadBad
  <2>1. UNCHANGED <<entries, byID>> /\ corrupt' = [corrupt EXCEPT ![sc] = @ + 1]
        /\ dirty' = [dirty EXCEPT ![sc] = TRUE] /\ sc \in Scope
    BY <1>4, <1>s DEF LoadBad, sc
  <2>2. corrupt' \in [Scope -> Nat] /\ dirty' \in [Scope -> BOOLEAN] BY <2>1, <1>p DEF RamOK
  <2>3. RamOK' BY <2>1, <2>2, <1>p DEF RamOK, IndexSound
  <2>4. DiskOK' /\ ToldOK' BY <1>4, <1>p DEF LoadBad, disk, told, DiskOK, ToldOK
  <2>5. CtrlOK' BY <1>4, <1>p DEF LoadBad, CtrlOK
  <2> QED BY <2>3, <2>4, <2>5, PartsNext
<1>5. CASE LoadTooLong \/ LoadMetaErr
  <2>1. RamOK' /\ CtrlOK' BY <1>5, DownOK DEF LoadTooLong, LoadMetaErr
  <2>2. ToldOK' /\ DiskOK' BY <1>5, <1>p DEF LoadTooLong, LoadMetaErr, disk, told, ToldOK, DiskOK
  <2> QED BY <2>1, <2>2, PartsNext
<1>6. CASE LoadDone
  <2> DEFINE n == corrupt[sc] + meta[dir].corrupt
  <2>1. /\ dir \in Dir /\ sc \in Scope /\ dir' = dir + 1 /\ row' = 1
        /\ corrupt' = [corrupt EXCEPT ![sc] = n] /\ dirty' = [dirty EXCEPT ![sc] = FALSE]
        /\ meta' = IF dirty[sc] THEN [meta EXCEPT ![dir] = [scope |-> sc, corrupt |-> n]] ELSE meta
        /\ UNCHANGED <<pc, entries, byID, file, cut, result, told>>
    BY <1>6, <1>s DEF LoadDone, sc
  <2>2. n \in Nat BY <2>1, <1>p DEF RamOK, DiskOK
  <2> HIDE DEF n
  <2>3. corrupt' \in [Scope -> Nat] /\ dirty' \in [Scope -> BOOLEAN] BY <2>1, <2>2, <1>p DEF RamOK
  <2>4. RamOK' BY <2>1, <2>3, <1>p DEF RamOK, IndexSound
  <2>5. DiskOK'
    <3>1. [scope |-> sc, corrupt |-> n] \in [scope: Scope \cup {None}, corrupt: Nat] BY <2>1, <2>2
    <3>2. meta' \in [Dir -> [scope: Scope \cup {None}, corrupt: Nat]] BY <3>1, <2>1, <1>p DEF DiskOK
    <3> QED BY <3>2, <2>1, <1>p DEF DiskOK
  <2>6. ToldOK' BY <2>1, <1>p DEF told, ToldOK
  <2>7. CtrlOK' BY <2>1, <1>p, Dirs DEF CtrlOK
  <2> QED BY <2>4, <2>5, <2>6, <2>7, PartsNext
<1>7. CASE Opened
  <2>1. RamOK' /\ DiskOK' /\ ToldOK'
    BY <1>7, <1>p DEF Opened, ram, disk, told, RamOK, IndexSound, DiskOK, ToldOK
  <2>2. CtrlOK' BY <1>7, <1>p, Dirs DEF Opened, CtrlOK
  <2> QED BY <2>1, <2>2, PartsNext
<1> QED BY <1>1, <1>2, <1>3, <1>4, <1>5, <1>6, <1>7 DEF Open

LEMMA IndexStep == IndexInv /\ [Next]_vars => IndexInv'
<1> SUFFICES ASSUME IndexInv, [Next]_vars PROVE IndexInv' OBVIOUS
<1>1. CASE UNCHANGED vars
  BY <1>1 DEF vars, ram, disk, told, IndexInv, TypeOK, IndexSound
<1>2. CASE Next BY <1>2, PutStep, DeleteStep, StopStep, OpenStep DEF Next
<1> QED BY <1>1, <1>2

\* TypeCorrect and IndexIsSound: under every fault, after every sequence of calls,
\* crashes and reopens, the state keeps its types and byID leads to the right slot.
THEOREM TypeCorrect == Spec => []TypeOK
<1>1. Spec => []IndexInv BY InitIndexInv, IndexStep, PTL DEF Spec
<1>2. IndexInv => TypeOK BY DEF IndexInv
<1> QED BY <1>1, <1>2, PTL

\* The index of a scope never leads Query to another entry's slot.
THEOREM IndexIsSound == Spec => []IndexSound
<1>1. Spec => []IndexInv BY InitIndexInv, IndexStep, PTL DEF Spec
<1>2. IndexInv => IndexSound BY DEF IndexInv
<1> QED BY <1>1, <1>2, PTL

-------------------------------------------------------------------------------
(***************************************************************************)
(* Durable for every number of scopes, ids, values, crashes and reopens,   *)
(* when no append is torn and scopeDirName gives every scope a directory   *)
(* of its own.  The run file_store_torn and MCFileStoreDocs.cfg show that  *)
(* neither condition can be dropped.                                       *)
(***************************************************************************)

\* An append writes its whole line or nothing, and scopes do not share directories.
NoTear == "torn" \notin Faults
OwnDirs == \A s, t \in Scope : DirName[s] = DirName[t] => s = t

\* Line l decides what the file says of id i, and what lines 1..n say of it: the
\* value of the last line about it (None for a tombstone), or None.
About(l, i) == l.op \in {"put", "del"} /\ l.id = i
Says(f, n, i, v) ==
  \/ v = None /\ \A p \in 1..n : ~About(f[p], i)
  \/ \E p \in 1..n : /\ About(f[p], i) /\ f[p].val = v
                     /\ \A q \in (p + 1)..n : ~About(f[q], i)

\* The files hold what callers were told, however much of it is in RAM.
FilesSay ==
  \A s \in Scope, i \in Id :
    acked[s][i] # Unknown => Says(file[DirName[s]], Len(file[DirName[s]]), i, acked[s][i])

\* While Open runs, the index of a scope is what the lines read so far say.
LoadedSoFar ==
  pc = "load" => \A s \in Scope, i \in Id :
    LET d == DirName[s] IN
      /\ d < dir => Says(file[d], Len(file[d]), i, Shows(s, i))
      /\ d = dir => Says(file[d], row - 1, i, Shows(s, i)) /\ row <= Len(file[d]) + 1
      /\ d > dir => Shows(s, i) = None
DownEmpty == pc = "down" => dir = 1 /\ row = 1 /\ \A s \in Scope, i \in Id : Shows(s, i) = None

\* No line lacks its newline, and meta.json names the scope of its directory.
FilesWhole ==
  /\ \A d \in Dir : ~cut[d]
  /\ \A d \in Dir : meta[d].scope # None => DirName[meta[d].scope] = d

DurableInv == IndexInv /\ FilesSay /\ LoadedSoFar /\ DownEmpty /\ FilesWhole /\ Durable

------------------------------------------------------------------------------
(* What Says means. *)

\* The lines say one thing of an id.
LEMMA SaysOne ==
  ASSUME NEW f, NEW n \in Nat, NEW i, NEW v, NEW w, Says(f, n, i, v), Says(f, n, i, w)
  PROVE  v = w
<1>1. CASE \A p \in 1..n : ~About(f[p], i) BY <1>1 DEF Says
<1>2. CASE \E p \in 1..n : About(f[p], i)
  <2>1. PICK p \in 1..n : About(f[p], i) /\ f[p].val = v /\ \A q \in (p + 1)..n : ~About(f[q], i)
    BY <1>2 DEF Says
  <2>2. PICK r \in 1..n : About(f[r], i) /\ f[r].val = w /\ \A q \in (r + 1)..n : ~About(f[q], i)
    BY <1>2 DEF Says
  <2>3. p = r
    <3>1. ~(r \in (p + 1)..n) /\ ~(p \in (r + 1)..n) BY <2>1, <2>2
    <3> QED BY <3>1
  <2> QED BY <2>1, <2>2, <2>3
<1> QED BY <1>1, <1>2

\* One more line about the id decides; a line about another id does not.
LEMMA SaysNext ==
  ASSUME NEW f, NEW n \in Nat, NEW i, NEW v, Says(f, n, i, v)
  PROVE  /\ About(f[n + 1], i) => Says(f, n + 1, i, f[n + 1].val)
         /\ ~About(f[n + 1], i) => Says(f, n + 1, i, v)
<1>1. ASSUME About(f[n + 1], i) PROVE Says(f, n + 1, i, f[n + 1].val)
  <2>1. n + 1 \in 1..(n + 1) /\ \A q \in ((n + 1) + 1)..(n + 1) : ~About(f[q], i) OBVIOUS
  <2> QED BY <1>1, <2>1 DEF Says
<1>2. ASSUME ~About(f[n + 1], i) PROVE Says(f, n + 1, i, v)
  <2>1. CASE v = None /\ \A p \in 1..n : ~About(f[p], i)
    <3>1. \A p \in 1..(n + 1) : p \in 1..n \/ p = n + 1 OBVIOUS
    <3>2. \A p \in 1..(n + 1) : ~About(f[p], i) BY <3>1, <2>1, <1>2
    <3> QED BY <2>1, <3>2 DEF Says
  <2>2. CASE \E p \in 1..n : About(f[p], i) /\ f[p].val = v /\ \A q \in (p + 1)..n : ~About(f[q], i)
    <3>1. PICK p \in 1..n : About(f[p], i) /\ f[p].val = v /\ \A q \in (p + 1)..n : ~About(f[q], i)
      BY <2>2
    <3>2. p \in 1..(n + 1) /\ \A q \in (p + 1)..(n + 1) : q \in (p + 1)..n \/ q = n + 1 OBVIOUS
    <3>3. \A q \in (p + 1)..(n + 1) : ~About(f[q], i) BY <3>1, <3>2, <1>2
    <3> QED BY <3>1, <3>2, <3>3 DEF Says
  <2> QED BY <2>1, <2>2 DEF Says
<1> QED BY <1>1, <1>2

\* Says looks at no other line.
LEMMA SaysPrefix ==
  ASSUME NEW f, NEW g, NEW n \in Nat, NEW i, NEW v, \A p \in 1..n : f[p] = g[p], Says(f, n, i, v)
  PROVE  Says(g, n, i, v)
<1>1. CASE v = None /\ \A p \in 1..n : ~About(f[p], i) BY <1>1 DEF Says
<1>2. CASE \E p \in 1..n : About(f[p], i) /\ f[p].val = v /\ \A q \in (p + 1)..n : ~About(f[q], i)
  <2>1. PICK p \in 1..n : About(f[p], i) /\ f[p].val = v /\ \A q \in (p + 1)..n : ~About(f[q], i)
    BY <1>2
  <2>2. \A q \in (p + 1)..n : q \in 1..n OBVIOUS
  <2>3. About(g[p], i) /\ g[p].val = v /\ \A q \in (p + 1)..n : ~About(g[q], i) BY <2>1, <2>2
  <2> QED BY <2>3 DEF Says
<1> QED BY <1>1, <1>2 DEF Says

\* A line about the id decides, whatever is before it.
LEMMA SaysLast ==
  ASSUME NEW f, NEW n \in Nat, NEW i, About(f[n + 1], i)
  PROVE  Says(f, n + 1, i, f[n + 1].val)
<1>1. n + 1 \in 1..(n + 1) /\ \A q \in ((n + 1) + 1)..(n + 1) : ~About(f[q], i) OBVIOUS
<1> QED BY <1>1 DEF Says

LEMMA SaysAppend ==
  ASSUME NEW f \in Seq(Line), NEW l \in Line, NEW i
  PROVE  LET g == Append(f, l) IN
           /\ About(l, i) => Says(g, Len(g), i, l.val)
           /\ ~About(l, i) => \A v : Says(f, Len(f), i, v) => Says(g, Len(g), i, v)
<1> DEFINE g == Append(f, l)
<1>1. Len(f) \in Nat OBVIOUS
<1>2. Len(g) = Len(f) + 1 /\ g[Len(f) + 1] = l /\ \A p \in 1..Len(f) : f[p] = g[p]
  BY AppendProperties
<1> HIDE DEF g
<1>3. ASSUME About(l, i) PROVE Says(g, Len(g), i, l.val)
  <2>1. About(g[Len(f) + 1], i) BY <1>2, <1>3
  <2>2. Says(g, Len(f) + 1, i, g[Len(f) + 1].val) BY <1>1, <2>1, SaysLast
  <2> QED BY <1>2, <2>2
<1>4. ASSUME ~About(l, i), NEW v, Says(f, Len(f), i, v) PROVE Says(g, Len(g), i, v)
  <2>1. Says(g, Len(f), i, v) BY <1>1, <1>2, <1>4, SaysPrefix
  <2>2. ~About(g[Len(f) + 1], i) BY <1>2, <1>4
  <2>3. Says(g, Len(f) + 1, i, v) BY <1>1, <2>1, <2>2, SaysNext
  <2> QED BY <1>2, <2>3
<1> QED BY <1>3, <1>4 DEF g

LEMMA SaysNothing == ASSUME NEW f, NEW i PROVE Says(f, 0, i, None)
BY DEF Says

------------------------------------------------------------------------------
(* Directories and appends. *)

LEMMA ScopeOfOwn ==
  ASSUME IndexInv, FilesWhole, NEW d \in Dir
  PROVE  ScopeOf(d) \in Scope /\ DirName[ScopeOf(d)] = d
<1>1. ScopeOf(d) \in Scope BY Parts, ScopeOfType
<1>2. DirName[ScopeOf(d)] = d BY DirsAssumption DEF ScopeOf, FilesWhole
<1> QED BY <1>1, <1>2

\* Without tearing an append adds its line or fails and adds nothing.
LEMMA WholeAppend ==
  ASSUME IndexInv, NoTear, FilesWhole, NEW s \in Scope, NEW l, NEW o \in Appends,
         AppendLine(DirName[s], l, o)
  PROVE  /\ \A d \in Dir : ~cut'[d]
         /\ \/ file' = file /\ o # "ok"
            \/ file' = [file EXCEPT ![DirName[s]] = Append(@, l)]
<1> DEFINE d == DirName[s]
<1>1. d \in Dir /\ ~cut[d] /\ o \notin {"torn", "whole"} BY Dirs DEF FilesWhole, NoTear, Appends
<1>2. CASE o = "append" BY <1>2 DEF AppendLine, FilesWhole
<1>3. CASE o # "append"
  <2>1. /\ file' = [file EXCEPT ![d] = Append(file[d], l)] /\ cut' = [cut EXCEPT ![d] = FALSE]
    <3>1. /\ file' = [file EXCEPT ![d] = IF cut[d]
                THEN [file[d] EXCEPT ![Len(file[d])] = Bad(file[d][Len(file[d])].long \/ l.long)]
                ELSE Append(file[d], IF o = "torn" THEN Bad(l.long) ELSE l)]
          /\ cut' = [cut EXCEPT ![d] = o \in {"torn", "whole"}]
      BY <1>3 DEF AppendLine
    <3>2. (o \in {"torn", "whole"}) = FALSE /\ o # "torn" BY <1>1
    <3> HIDE DEF d
    <3> QED BY <1>1, <3>1, <3>2
  <2>2. \A e \in Dir : ~cut'[e] BY <2>1 DEF FilesWhole, IndexInv, TypeOK
  <2>3. file' = [file EXCEPT ![d] = Append(@, l)] BY <2>1
  <2> QED BY <2>2, <2>3
<1> QED BY <1>2, <1>3

\* A call on id i of scope s: the caller is told v, or Unknown if it may have failed.
LEMMA CallFilesSay ==
  ASSUME IndexInv, OwnDirs, FilesSay, NEW s \in Scope, NEW i \in Id, NEW l \in Line,
         About(l, i), \A j \in Id : About(l, j) => j = i,
         NEW v, Told(s, i, v),
         \/ v = Unknown /\ file' = file
         \/ v \in {Unknown, l.val} /\ file' = [file EXCEPT ![DirName[s]] = Append(@, l)]
  PROVE  FilesSay'
<1> SUFFICES ASSUME NEW t \in Scope, NEW j \in Id, acked'[t][j] # Unknown
             PROVE  Says(file'[DirName[t]], Len(file'[DirName[t]]), j, acked'[t][j])
  BY DEF FilesSay
<1> DEFINE d == DirName[s]
           e == DirName[t]
<1>t. /\ file \in [Dir -> Seq(Line)] /\ acked \in [Scope -> [Id -> Val \cup {None, Unknown}]]
      /\ d \in Dir /\ e \in Dir
  BY Dirs DEF IndexInv, TypeOK
<1>a. acked' = [acked EXCEPT ![s][i] = v] BY DEF Told
<1>f. file[d] \in Seq(Line) BY <1>t
<1>c. \/ v = Unknown /\ file' = file
      \/ v \in {Unknown, l.val} /\ file' = [file EXCEPT ![d] = Append(file[d], l)]
  OBVIOUS
<1>1. CASE t = s /\ j = i
  <2>1. acked'[t][j] = v BY <1>1, <1>a, <1>t
  <2>2. v # Unknown /\ d = e BY <2>1, <1>1
  <2>3. v = l.val /\ file' = [file EXCEPT ![d] = Append(file[d], l)] BY <2>2, <1>c
  <2>4. file'[d] = Append(file[d], l) BY <2>3, <1>t
  <2> QED BY <2>1, <2>2, <2>3, <2>4, <1>1, <1>f, SaysAppend
<1>2. CASE t = s /\ j # i
  <2>1. acked'[t][j] = acked[t][j] BY <1>2, <1>a, <1>t
  <2>2. Says(file[d], Len(file[d]), j, acked[t][j]) BY <2>1, <1>2 DEF FilesSay
  <2>3. ~About(l, j) BY <1>2
  <2>4. d = e BY <1>2
  <2>5. CASE file' = file BY <2>1, <2>2, <2>4, <2>5
  <2>6. CASE file' = [file EXCEPT ![d] = Append(file[d], l)]
    <3>1. file'[e] = Append(file[d], l) BY <2>4, <2>6, <1>t
    <3>2. Says(Append(file[d], l), Len(Append(file[d], l)), j, acked[t][j])
      BY <2>2, <2>3, <1>f, SaysAppend
    <3> QED BY <3>1, <3>2, <2>1
  <2> QED BY <2>5, <2>6, <1>c
<1>3. CASE t # s
  <2>1. acked'[t][j] = acked[t][j] BY <1>3, <1>a, <1>t
  <2>2. e # d BY <1>3 DEF OwnDirs
  <2>3. file'[e] = file[e] BY <2>2, <1>t
  <2> QED BY <2>1, <2>3 DEF FilesSay
<1> QED BY <1>1, <1>2, <1>3

LEMMA CallDurable ==
  ASSUME IndexInv, Durable, pc = "open", NEW s \in Scope, NEW i \in Id, NEW v, Told(s, i, v),
         v # Unknown => Shows(s, i)' = v,
         \A t \in Scope, j \in Id : t # s \/ j # i => Shows(t, j)' = Shows(t, j)
  PROVE  Durable'
<1> SUFFICES ASSUME NEW t \in Scope, NEW j \in Id, acked'[t][j] # Unknown
             PROVE  Shows(t, j)' = acked'[t][j]
  BY DEF Durable
<1>t. acked \in [Scope -> [Id -> Val \cup {None, Unknown}]] BY DEF IndexInv, TypeOK
<1>a. acked' = [acked EXCEPT ![s][i] = v] BY DEF Told
<1>1. CASE t = s /\ j = i
  <2>1. acked'[t][j] = v BY <1>1, <1>a, <1>t
  <2> QED BY <2>1, <1>1
<1>2. CASE t # s \/ j # i
  <2>1. acked'[t][j] = acked[t][j] BY <1>2, <1>a, <1>t
  <2> QED BY <2>1, <1>2 DEF Durable
<1> QED BY <1>1, <1>2

LEMMA ShowsSet ==
  ASSUME IndexInv, NEW s \in Scope, NEW idx, SetIndex(s, idx)
  PROVE  \A t \in Scope, j \in Id :
           Shows(t, j)' = IF t = s THEN Look(idx.entries, idx.byID, j) ELSE Shows(t, j)
<1> SUFFICES ASSUME NEW t \in Scope, NEW j \in Id
             PROVE  Shows(t, j)' = IF t = s THEN Look(idx.entries, idx.byID, j) ELSE Shows(t, j)
  OBVIOUS
<1>1. /\ entries' = [entries EXCEPT ![s] = idx.entries] /\ byID' = [byID EXCEPT ![s] = idx.byID]
  BY DEF SetIndex
<1>2. CASE t = s
  <2>1. entries'[t] = idx.entries /\ byID'[t] = idx.byID BY <1>1, <1>2 DEF IndexInv, TypeOK
  <2> QED BY <2>1, <1>2 DEF Shows, Look
<1>3. CASE t # s
  <2>1. entries'[t] = entries[t] /\ byID'[t] = byID[t] BY <1>1, <1>3 DEF IndexInv, TypeOK
  <2> QED BY <2>1, <1>3 DEF Shows
<1> QED BY <1>2, <1>3

LEMMA ShowsDrop ==
  ASSUME IndexInv, NEW s \in Scope, NEW i \in Id, byID' = [byID EXCEPT ![s][i] = 0], entries' = entries
  PROVE  /\ Shows(s, i)' = None
         /\ \A t \in Scope, j \in Id : t # s \/ j # i => Shows(t, j)' = Shows(t, j)
<1>1. byID'[s][i] = 0 BY DEF IndexInv, TypeOK
<1>2. \A t \in Scope, j \in Id : t # s \/ j # i => byID'[t][j] = byID[t][j] BY DEF IndexInv, TypeOK
<1> QED BY <1>1, <1>2 DEF Shows

LEMMA LineAbout ==
  /\ \A i \in Id, v \in Val : /\ About(PutLine(i, v), i) /\ PutLine(i, v).val = v
                              /\ \A j \in Id : About(PutLine(i, v), j) => j = i
  /\ \A i \in Id : /\ About(Tombstone(i), i) /\ Tombstone(i).val = None
                   /\ \A j \in Id : About(Tombstone(i), j) => j = i
BY DEF About, PutLine, Tombstone

\* writeMetaLocked names the directory's own scope.
LEMMA MetaWhole ==
  ASSUME IndexInv, FilesWhole, NEW s \in Scope, WriteMeta(s) \/ meta' = meta
  PROVE  \A d \in Dir : meta'[d].scope # None => DirName[meta'[d].scope] = d
<1>1. CASE meta' = meta BY <1>1 DEF FilesWhole
<1>2. CASE WriteMeta(s)
  <2>1. meta' = [meta EXCEPT ![DirName[s]] = [scope |-> s, corrupt |-> corrupt[s]]]
    BY <1>2 DEF WriteMeta
  <2>2. DirName[s] \in Dir /\ meta \in [Dir -> [scope: Scope \cup {None}, corrupt: Nat]]
    BY Dirs DEF IndexInv, TypeOK
  <2> SUFFICES ASSUME NEW d \in Dir, meta'[d].scope # None PROVE DirName[meta'[d].scope] = d OBVIOUS
  <2>3. CASE d = DirName[s]
    <3>1. meta'[d] = [scope |-> s, corrupt |-> corrupt[s]] BY <2>1, <2>2, <2>3
    <3> QED BY <3>1, <2>3
  <2>4. CASE d # DirName[s]
    <3>1. meta'[d] = meta[d] BY <2>1, <2>2, <2>4
    <3> QED BY <3>1 DEF FilesWhole
  <2> QED BY <2>3, <2>4
<1> QED BY <1>1, <1>2

------------------------------------------------------------------------------
(* Every step keeps DurableInv. *)

LEMMA InitDurable == Init => DurableInv
<1> SUFFICES ASSUME Init PROVE DurableInv OBVIOUS
<1>1. IndexInv BY InitIndexInv
<1>2. FilesSay
  <2>1. \A s \in Scope : file[DirName[s]] = <<>> BY Dirs DEF Init, InitWith
  <2>2. \A s \in Scope, i \in Id : acked[s][i] = None BY DEF Init, InitWith
  <2>3. Len(<<>>) = 0 OBVIOUS
  <2> QED BY <2>1, <2>2, <2>3, SaysNothing DEF FilesSay
<1>3. LoadedSoFar /\ DownEmpty /\ FilesWhole /\ Durable
  BY DEF Init, InitWith, LoadedSoFar, DownEmpty, FilesWhole, Durable, Shows
<1> QED BY <1>1, <1>2, <1>3 DEF DurableInv

LEMMA CallStep ==
  ASSUME DurableInv, NoTear, OwnDirs, IndexInv', NEW s \in Scope, NEW i \in Id, NEW l \in Line,
         About(l, i), \A j \in Id : About(l, j) => j = i,
         NEW v, Told(s, i, v), v \in {Unknown, l.val},
         NEW o \in Appends, AppendLine(DirName[s], l, o), v # Unknown => o = "ok",
         WriteMeta(s) \/ meta' = meta,
         pc = "open", pc' = "open",
         v # Unknown => Shows(s, i)' = v,
         \A t \in Scope, j \in Id : t # s \/ j # i => Shows(t, j)' = Shows(t, j)
  PROVE  DurableInv'
<1>i. IndexInv /\ FilesSay /\ FilesWhole /\ Durable BY DEF DurableInv
<1>1. /\ \A d \in Dir : ~cut'[d]
      /\ \/ file' = file /\ o # "ok"
         \/ file' = [file EXCEPT ![DirName[s]] = Append(@, l)]
  BY <1>i, WholeAppend
<1>2. FilesSay' BY <1>i, <1>1, CallFilesSay
<1>3. Durable' BY <1>i, CallDurable
<1>4. FilesWhole' BY <1>i, <1>1, MetaWhole DEF FilesWhole
<1>5. LoadedSoFar' /\ DownEmpty' BY DEF LoadedSoFar, DownEmpty
<1> QED BY <1>2, <1>3, <1>4, <1>5 DEF DurableInv

LEMMA PutDurable ==
  ASSUME DurableInv, NoTear, OwnDirs, IndexInv', NEW s \in Scope, NEW i \in Id, NEW v \in Val,
         PutOk(s, i, v) \/ PutAppendErr(s, i, v) \/ PutMetaErr(s, i, v)
  PROVE  DurableInv'
<1> DEFINE idx == Indexed(s, i, v)
           l == PutLine(i, v)
<1>i. IndexInv BY DEF DurableInv
<1>x. IndexOK(entries[s], byID[s]) BY <1>i, ScopeIndexOK
<1>1. /\ IndexOK(idx.entries, idx.byID) /\ idx.byID[i] # 0 /\ Look(idx.entries, idx.byID, i) = v
      /\ \A j \in Id \ {i} : Look(idx.entries, idx.byID, j) = Look(entries[s], byID[s], j)
  BY <1>x, IndexedOK
<1>2. \A j \in Id \ {i} : Look(RolledBack(idx, i).entries, RolledBack(idx, i).byID, j)
                            = Look(entries[s], byID[s], j)
  <2>1. idx = [entries |-> idx.entries, byID |-> idx.byID] BY DEF Indexed
  <2> HIDE DEF idx
  <2>2. \A j \in Id \ {i} : Look(RolledBack(idx, i).entries, RolledBack(idx, i).byID, j)
                              = Look(idx.entries, idx.byID, j)
    BY <1>1, <2>1, RolledBackOK
  <2> QED BY <1>1, <2>2
<1>3. \A j \in Id : Look(entries[s], byID[s], j) = Shows(s, j) BY DEF Look, Shows
<1>4. l \in Line /\ About(l, i) /\ l.val = v /\ \A j \in Id : About(l, j) => j = i
  BY LinesType, LineAbout
<1>5. "ok" \in Appends /\ v # Unknown BY ValAssumption DEF Appends
<1> HIDE DEF idx, l
<1>6. CASE PutOk(s, i, v)
  <2>1. /\ SetIndex(s, idx) /\ AppendLine(DirName[s], l, "ok") /\ WriteMeta(s) /\ Told(s, i, v)
        /\ pc = "open" /\ pc' = "open"
    BY <1>6 DEF PutOk, idx, l
  <2>2. Shows(s, i)' = v BY <2>1, <1>i, <1>1, ShowsSet
  <2>3. \A t \in Scope, j \in Id : t # s \/ j # i => Shows(t, j)' = Shows(t, j)
    BY <2>1, <1>i, <1>1, <1>3, ShowsSet
  <2> QED BY <2>1, <2>2, <2>3, <1>4, <1>5, CallStep
<1>7. CASE PutMetaErr(s, i, v)
  <2>1. /\ SetIndex(s, idx) /\ AppendLine(DirName[s], l, "ok") /\ meta' = meta /\ Told(s, i, Unknown)
        /\ pc = "open" /\ pc' = "open"
    BY <1>7 DEF PutMetaErr, idx, l
  <2>3. \A t \in Scope, j \in Id : t # s \/ j # i => Shows(t, j)' = Shows(t, j)
    BY <2>1, <1>i, <1>1, <1>3, ShowsSet
  <2> QED BY <2>1, <2>3, <1>4, <1>5, CallStep
<1>8. CASE PutAppendErr(s, i, v)
  <2>1. /\ SetIndex(s, RolledBack(idx, i)) /\ meta' = meta /\ Told(s, i, Unknown)
        /\ pc = "open" /\ pc' = "open"
    BY <1>8 DEF PutAppendErr, idx
  <2>2. PICK o \in Appends : AppendLine(DirName[s], l, o) BY <1>8 DEF PutAppendErr, l
  <2>3. \A t \in Scope, j \in Id : t # s \/ j # i => Shows(t, j)' = Shows(t, j)
    BY <2>1, <1>i, <1>2, <1>3, ShowsSet
  <2> QED BY <2>1, <2>2, <2>3, <1>4, CallStep
<1> QED BY <1>6, <1>7, <1>8

LEMMA DeleteDurable ==
  ASSUME DurableInv, NoTear, OwnDirs, IndexInv', NEW s \in Scope, NEW i \in Id,
         DeleteOk(s, i) \/ DeleteUnknown(s, i) \/ DeleteAppendErr(s, i) \/ DeleteMetaErr(s, i)
  PROVE  DurableInv'
<1> DEFINE l == Tombstone(i)
<1>i. IndexInv BY DEF DurableInv
<1>4. l \in Line /\ About(l, i) /\ l.val = None /\ \A j \in Id : About(l, j) => j = i
  BY LinesType, LineAbout
<1>5. "ok" \in Appends /\ None # Unknown BY DEF Appends, None, Unknown
<1> HIDE DEF l
<1>6. CASE DeleteOk(s, i)
  <2>1. /\ AppendLine(DirName[s], l, "ok") /\ WriteMeta(s) /\ Told(s, i, None)
        /\ pc = "open" /\ pc' = "open" /\ byID' = [byID EXCEPT ![s][i] = 0] /\ entries' = entries
    BY <1>6 DEF DeleteOk, l
  <2>2. /\ Shows(s, i)' = None
        /\ \A t \in Scope, j \in Id : t # s \/ j # i => Shows(t, j)' = Shows(t, j)
    BY <2>1, <1>i, ShowsDrop
  <2> QED BY <2>1, <2>2, <1>4, <1>5, CallStep
<1>7. CASE DeleteMetaErr(s, i)
  <2>1. /\ AppendLine(DirName[s], l, "ok") /\ meta' = meta /\ Told(s, i, Unknown)
        /\ pc = "open" /\ pc' = "open" /\ byID' = [byID EXCEPT ![s][i] = 0] /\ entries' = entries
    BY <1>7 DEF DeleteMetaErr, l
  <2>2. \A t \in Scope, j \in Id : t # s \/ j # i => Shows(t, j)' = Shows(t, j)
    BY <2>1, <1>i, ShowsDrop
  <2> QED BY <2>1, <2>2, <1>4, <1>5, CallStep
<1>8. CASE DeleteAppendErr(s, i)
  <2>1. /\ meta' = meta /\ Told(s, i, Unknown) /\ pc = "open" /\ pc' = "open"
        /\ byID' = byID /\ entries' = entries
    BY <1>8 DEF DeleteAppendErr
  <2>2. PICK o \in Appends : AppendLine(DirName[s], l, o) BY <1>8 DEF DeleteAppendErr, l
  <2>3. \A t \in Scope, j \in Id : Shows(t, j)' = Shows(t, j) BY <2>1 DEF Shows
  <2> QED BY <2>1, <2>2, <2>3, <1>4, CallStep
<1>9. CASE DeleteUnknown(s, i)
  BY <1>9 DEF DeleteUnknown, ram, disk, DurableInv, FilesSay, LoadedSoFar, DownEmpty, FilesWhole, Durable, Shows
<1> QED BY <1>6, <1>7, <1>8, <1>9

LEMMA DownParts ==
  ASSUME Down PROVE LoadedSoFar' /\ DownEmpty' /\ Durable'
BY DEF Down, EmptyRam, LoadedSoFar, DownEmpty, Durable, Shows

LEMMA StopDurable ==
  ASSUME DurableInv, NoTear, OwnDirs, IndexInv',
         Close \/ Crash \/ \E s \in Scope, i \in Id :
                             CrashInDelete(s, i) \/ \E v \in Val : CrashInPut(s, i, v)
  PROVE  DurableInv'
<1>i. IndexInv /\ FilesSay /\ FilesWhole BY DEF DurableInv
<1>1. CASE Close
  <2>1. LoadedSoFar' /\ DownEmpty' /\ Durable' BY <1>1, DownParts DEF Close
  <2>2. UNCHANGED <<file, cut, acked>> BY <1>1 DEF Close, told
  <2>3. FilesSay' BY <2>2, <1>i DEF FilesSay
  <2>4. PICK done \in SUBSET {s \in Scope : dirty[s]}, w \in [Dir -> Scope] :
          /\ \A s \in done : w[DirName[s]] \in done /\ DirName[w[DirName[s]]] = DirName[s]
          /\ meta' = [d \in Dir |-> IF \E s \in done : DirName[s] = d
                                    THEN [scope |-> w[d], corrupt |-> corrupt[w[d]]] ELSE meta[d]]
    BY <1>1 DEF Close
  <2>5. ASSUME NEW d \in Dir, meta'[d].scope # None PROVE DirName[meta'[d].scope] = d
    <3>1. CASE \E s \in done : DirName[s] = d
      <4>1. meta'[d].scope = w[d] BY <3>1, <2>4
      <4> QED BY <4>1, <3>1, <2>4
    <3>2. CASE ~\E s \in done : DirName[s] = d
      <4>1. meta'[d] = meta[d] BY <3>2, <2>4
      <4> QED BY <4>1, <2>5, <1>i DEF FilesWhole
    <3> QED BY <3>1, <3>2
  <2>6. FilesWhole' BY <2>2, <2>5, <1>i DEF FilesWhole
  <2> QED BY <2>1, <2>3, <2>6 DEF DurableInv
<1>2. CASE Crash
  <2>1. LoadedSoFar' /\ DownEmpty' /\ Durable' BY <1>2, DownParts DEF Crash
  <2>2. FilesSay' /\ FilesWhole' BY <1>2, <1>i DEF Crash, disk, told, FilesSay, FilesWhole
  <2> QED BY <2>1, <2>2 DEF DurableInv
<1>3. ASSUME NEW s \in Scope, NEW i \in Id, NEW l \in Line, DieInCall(s, i, l),
             About(l, i), \A j \in Id : About(l, j) => j = i
      PROVE  DurableInv'
  <2>1. LoadedSoFar' /\ DownEmpty' /\ Durable' BY <1>3, DownParts DEF DieInCall
  <2>2. PICK o \in Appends : AppendLine(DirName[s], l, o) /\ (WriteMeta(s) \/ meta' = meta)
    BY <1>3 DEF DieInCall
  <2>3. Told(s, i, Unknown) BY <1>3 DEF DieInCall
  <2>4. /\ \A d \in Dir : ~cut'[d]
        /\ file' = file \/ file' = [file EXCEPT ![DirName[s]] = Append(@, l)]
    BY <2>2, <1>i, WholeAppend
  <2>5. FilesSay' BY <2>3, <2>4, <1>3, <1>i, CallFilesSay
  <2>6. FilesWhole' BY <2>2, <2>4, <1>i, MetaWhole DEF FilesWhole
  <2> QED BY <2>1, <2>5, <2>6 DEF DurableInv
<1>4. ASSUME NEW s \in Scope, NEW i \in Id, NEW v \in Val, CrashInPut(s, i, v) PROVE DurableInv'
  BY <1>3, <1>4, LinesType, LineAbout DEF CrashInPut
<1>5. ASSUME NEW s \in Scope, NEW i \in Id, CrashInDelete(s, i) PROVE DurableInv'
  BY <1>3, <1>5, LinesType, LineAbout DEF CrashInDelete
<1> QED BY <1>1, <1>2, <1>4, <1>5

\* A line of the open directory was read: the index follows it.
LEMMA LoadRow ==
  ASSUME DurableInv, OwnDirs, IndexInv', pc = "load", dir \in Dir, row <= Len(file[dir]),
         NEW l, l = file[dir][row], UNCHANGED <<pc, dir, disk, told>>, row' = row + 1,
         \A t \in Scope, j \in Id :
           Shows(t, j)' = IF t = ScopeOf(dir) /\ About(l, j) THEN l.val ELSE Shows(t, j)
  PROVE  DurableInv'
<1>i. IndexInv /\ FilesSay /\ LoadedSoFar /\ FilesWhole BY DEF DurableInv
<1>u. UNCHANGED <<pc, dir, file, cut, meta, acked>> BY DEF disk, told
<1>1. FilesSay' /\ FilesWhole' BY <1>i, <1>u DEF FilesSay, FilesWhole
<1>2. DownEmpty' /\ Durable' BY <1>u DEF DownEmpty, Durable
<1>t. row \in Nat \ {0} /\ row - 1 \in Nat /\ (row - 1) + 1 = row /\ row' - 1 = row
  BY <1>i DEF IndexInv, TypeOK
<1>3. LoadedSoFar'
  <2> SUFFICES ASSUME NEW s \in Scope, NEW i \in Id
               PROVE  LET d == DirName[s] IN
                        /\ d < dir => Says(file[d], Len(file[d]), i, Shows(s, i)')
                        /\ d = dir => Says(file[d], row, i, Shows(s, i)') /\ row' <= Len(file[d]) + 1
                        /\ d > dir => Shows(s, i)' = None
    BY <1>u, <1>t DEF LoadedSoFar
  <2>0. DirName[s] \in Nat /\ dir \in Nat BY Dirs DEF Dir
  <2>1. CASE DirName[s] = dir
    <3>1. ScopeOf(dir) = s BY <2>1, <1>i, ScopeOfOwn DEF OwnDirs
    <3>2. Says(file[dir], row - 1, i, Shows(s, i)) BY <2>1, <1>i DEF LoadedSoFar
    <3>3. /\ About(l, i) => Says(file[dir], (row - 1) + 1, i, l.val)
          /\ ~About(l, i) => Says(file[dir], (row - 1) + 1, i, Shows(s, i))
      BY <3>2, <1>t, SaysNext
    <3>4. Says(file[dir], row, i, Shows(s, i)') BY <3>1, <3>3, <1>t
    <3>5. row' <= Len(file[dir]) + 1
      <4>1. Len(file[dir]) \in Nat BY <1>i DEF IndexInv, TypeOK
      <4> QED BY <4>1, <1>t
    <3> QED BY <2>0, <2>1, <3>4, <3>5
  <2>2. CASE DirName[s] # dir
    <3>1. ScopeOf(dir) # s BY <2>2, <1>i, ScopeOfOwn
    <3>2. Shows(s, i)' = Shows(s, i) BY <3>1
    <3> QED BY <2>0, <2>2, <3>2, <1>i DEF LoadedSoFar
  <2> QED BY <2>1, <2>2
<1> QED BY <1>1, <1>2, <1>3 DEF DurableInv

LEMMA OpenDurable ==
  ASSUME DurableInv, OwnDirs, IndexInv', OpenFileStore \/ Open
  PROVE  DurableInv'
<1>i. IndexInv /\ FilesSay /\ LoadedSoFar /\ FilesWhole /\ DownEmpty BY DEF DurableInv
<1>t. /\ dir \in 1..(NDirs + 1) /\ row \in Nat \ {0} /\ NDirs \in Nat
      /\ file \in [Dir -> Seq(Line)]
  BY <1>i, Dirs DEF IndexInv, TypeOK
<1> DEFINE l == file[dir][row]
           sc == ScopeOf(dir)
<1>l. ASSUME dir \in Dir, row <= Len(file[dir]) PROVE l \in Line /\ sc \in Scope
  <2>1. row \in 1..Len(file[dir]) BY <1>l, <1>t
  <2> QED BY <1>l, <2>1, <1>t, <1>i, ScopeOfOwn
<1> HIDE DEF l, sc
<1>1. CASE OpenFileStore
  <2>1. pc = "down" /\ pc' = "load" /\ UNCHANGED <<dir, row, entries, byID, file, cut, meta, acked>>
    BY <1>1 DEF OpenFileStore, ram, disk, told
  <2>2. FilesSay' /\ FilesWhole' BY <2>1, <1>i DEF FilesSay, FilesWhole
  <2>3. DownEmpty' /\ Durable' BY <2>1 DEF DownEmpty, Durable
  <2>4. dir' = 1 /\ row' = 1 /\ \A s \in Scope, i \in Id : Shows(s, i)' = None
    BY <2>1, <1>i DEF DownEmpty, Shows
  <2>5. LoadedSoFar'
    <3> SUFFICES ASSUME NEW s \in Scope, NEW i \in Id
                 PROVE  LET d == DirName[s] IN
                          /\ d < 1 => Says(file[d], Len(file[d]), i, None)
                          /\ d = 1 => Says(file[d], 1 - 1, i, None) /\ 1 <= Len(file[d]) + 1
                          /\ d > 1 => None = None
      BY <2>1, <2>4 DEF LoadedSoFar
    <3>1. DirName[s] \in Dir BY Dirs
    <3>2. DirName[s] \in Nat \ {0} /\ Len(file[DirName[s]]) \in Nat BY <3>1, <1>t DEF Dir
    <3>3. 1 - 1 = 0 OBVIOUS
    <3> QED BY <3>2, <3>3, SaysNothing
  <2> QED BY <2>2, <2>3, <2>5 DEF DurableInv
<1>2. CASE LoadPut
  <2>1. /\ pc = "load" /\ dir \in Dir /\ row <= Len(file[dir]) /\ l.op = "put"
        /\ SetIndex(sc, Indexed(sc, l.id, l.val)) /\ row' = row + 1
        /\ UNCHANGED <<pc, dir, disk, told>>
    BY <1>2 DEF LoadPut, l, sc
  <2>2. l \in Line /\ sc \in Scope BY <2>1, <1>l
  <2>3. l.id \in Id /\ l.val \in Val BY <2>1, <2>2 DEF Line
  <2> DEFINE idx == Indexed(sc, l.id, l.val)
  <2>4. /\ Look(idx.entries, idx.byID, l.id) = l.val
        /\ \A j \in Id \ {l.id} : Look(idx.entries, idx.byID, j) = Look(entries[sc], byID[sc], j)
    BY <2>2, <2>3, <1>i, ScopeIndexOK, IndexedOK
  <2>5. \A j \in Id : Look(entries[sc], byID[sc], j) = Shows(sc, j) BY DEF Look, Shows
  <2>6. \A j \in Id : About(l, j) <=> j = l.id BY <2>1 DEF About
  <2> HIDE DEF idx
  <2>7. \A t \in Scope, j \in Id :
          Shows(t, j)' = IF t = sc THEN Look(idx.entries, idx.byID, j) ELSE Shows(t, j)
    BY <2>1, <2>2, <1>i, ShowsSet DEF idx
  <2>8. \A t \in Scope, j \in Id :
          Shows(t, j)' = IF t = sc /\ About(l, j) THEN l.val ELSE Shows(t, j)
    BY <2>4, <2>5, <2>6, <2>7
  <2> QED BY <2>1, <2>8, LoadRow DEF l, sc
<1>3. CASE LoadTombstone
  <2>1. /\ pc = "load" /\ dir \in Dir /\ row <= Len(file[dir]) /\ l.op = "del"
        /\ byID' = [byID EXCEPT ![sc][l.id] = 0] /\ entries' = entries /\ row' = row + 1
        /\ UNCHANGED <<pc, dir, disk, told>>
    BY <1>3 DEF LoadTombstone, l, sc
  <2>2. l \in Line /\ sc \in Scope BY <2>1, <1>l
  <2>3. l.id \in Id /\ l.val = None BY <2>1, <2>2 DEF Line
  <2>6. \A j \in Id : About(l, j) <=> j = l.id BY <2>1 DEF About
  <2>7. \A t \in Scope, j \in Id :
          Shows(t, j)' = IF t = sc /\ j = l.id THEN None ELSE Shows(t, j)
    <3>1. PICK s \in Scope, i \in Id : s = sc /\ i = l.id BY <2>2, <2>3
    <3>2. byID' = [byID EXCEPT ![s][i] = 0] /\ entries' = entries BY <2>1, <3>1
    <3>3. /\ Shows(s, i)' = None
          /\ \A t \in Scope, j \in Id : t # s \/ j # i => Shows(t, j)' = Shows(t, j)
      BY <3>2, <1>i, ShowsDrop
    <3> QED BY <3>1, <3>3
  <2>8. \A t \in Scope, j \in Id :
          Shows(t, j)' = IF t = sc /\ About(l, j) THEN l.val ELSE Shows(t, j)
    BY <2>3, <2>6, <2>7
  <2> QED BY <2>1, <2>8, LoadRow DEF l, sc
<1>4. CASE LoadBad
  <2>1. /\ pc = "load" /\ dir \in Dir /\ row <= Len(file[dir]) /\ l.op = "bad"
        /\ byID' = byID /\ entries' = entries /\ row' = row + 1
        /\ UNCHANGED <<pc, dir, disk, told>>
    BY <1>4 DEF LoadBad, l, sc
  <2>2. \A j \in Id : ~About(l, j) BY <2>1 DEF About
  <2>3. \A t \in Scope, j \in Id : Shows(t, j)' = Shows(t, j) BY <2>1 DEF Shows
  <2> QED BY <2>1, <2>2, <2>3, LoadRow DEF l, sc
<1>5. CASE LoadTooLong \/ LoadMetaErr
  <2>1. LoadedSoFar' /\ DownEmpty' /\ Durable' BY <1>5, DownParts DEF LoadTooLong, LoadMetaErr
  <2>2. FilesSay' /\ FilesWhole'
    BY <1>5, <1>i DEF LoadTooLong, LoadMetaErr, disk, told, FilesSay, FilesWhole
  <2> QED BY <2>1, <2>2 DEF DurableInv
<1>6. CASE LoadDone
  <2>1. /\ pc = "load" /\ pc' = "load" /\ dir \in Dir /\ row > Len(file[dir]) /\ dir' = dir + 1 /\ row' = 1
        /\ UNCHANGED <<entries, byID, file, cut, acked>>
        /\ \/ meta' = meta
           \/ meta' = [meta EXCEPT ![dir] = [scope |-> sc, corrupt |-> corrupt[sc] + meta[dir].corrupt]]
    BY <1>6 DEF LoadDone, told, sc
  <2>2. sc \in Scope /\ DirName[sc] = dir BY <2>1, <1>i, ScopeOfOwn DEF sc
  <2>3. FilesSay' BY <2>1, <1>i DEF FilesSay
  <2>4. FilesWhole'
    <3>1. ASSUME NEW d \in Dir, meta'[d].scope # None PROVE DirName[meta'[d].scope] = d
      <4>1. meta'[d] = meta[d] \/ (d = dir /\ meta'[d].scope = sc)
        BY <2>1, <1>i DEF IndexInv, TypeOK
      <4> QED BY <4>1, <3>1, <2>2, <1>i DEF FilesWhole
    <3> QED BY <3>1, <2>1, <1>i DEF FilesWhole
  <2>5. DownEmpty' /\ Durable' BY <2>1 DEF DownEmpty, Durable
  <2>6. \A t \in Scope, j \in Id : Shows(t, j)' = Shows(t, j) BY <2>1 DEF Shows
  <2>7. LoadedSoFar'
    <3> SUFFICES ASSUME NEW s \in Scope, NEW i \in Id
                 PROVE  LET d == DirName[s] IN
                          /\ d < dir + 1 => Says(file[d], Len(file[d]), i, Shows(s, i))
                          /\ d = dir + 1 => Says(file[d], 1 - 1, i, Shows(s, i)) /\ 1 <= Len(file[d]) + 1
                          /\ d > dir + 1 => Shows(s, i) = None
      BY <2>1, <2>6 DEF LoadedSoFar
    <3>1. DirName[s] \in Dir BY Dirs
    <3>2. DirName[s] \in Nat /\ Len(file[DirName[s]]) \in Nat /\ dir \in Nat
      BY <3>1, <2>1, <1>t DEF Dir
    <3>3. CASE DirName[s] < dir BY <3>2, <3>3, <2>1, <1>i DEF LoadedSoFar
    <3>4. CASE DirName[s] = dir
      <4>1. Says(file[dir], row - 1, i, Shows(s, i)) /\ row <= Len(file[dir]) + 1
        BY <3>4, <2>1, <1>i DEF LoadedSoFar
      <4>2. row - 1 = Len(file[dir]) BY <4>1, <3>2, <3>4, <2>1, <1>t
      <4> QED BY <4>1, <4>2, <3>2, <3>4
    <3>5. CASE DirName[s] > dir
      <4>1. Shows(s, i) = None BY <3>5, <2>1, <1>i DEF LoadedSoFar
      <4>2. 1 - 1 = 0 /\ 1 <= Len(file[DirName[s]]) + 1 BY <3>2
      <4>3. Says(file[DirName[s]], 1 - 1, i, None) BY <4>2, SaysNothing
      <4>4. ~(DirName[s] < dir + 1) BY <3>2, <3>5
      <4> QED BY <4>1, <4>2, <4>3, <4>4
    <3> QED BY <3>2, <3>3, <3>4, <3>5
  <2> QED BY <2>3, <2>4, <2>5, <2>7 DEF DurableInv
<1>7. CASE Opened
  <2>1. /\ pc = "load" /\ pc' = "open" /\ dir \notin Dir
        /\ UNCHANGED <<entries, byID, file, cut, meta, acked>>
    BY <1>7 DEF Opened, ram, disk, told
  <2>2. FilesSay' /\ FilesWhole' BY <2>1, <1>i DEF FilesSay, FilesWhole
  <2>3. LoadedSoFar' /\ DownEmpty' BY <2>1 DEF LoadedSoFar, DownEmpty
  <2>4. ASSUME NEW s \in Scope, NEW i \in Id, acked[s][i] # Unknown PROVE Shows(s, i) = acked[s][i]
    <3>1. DirName[s] \in Dir BY Dirs
    <3>2. DirName[s] < dir BY <3>1, <2>1, <1>t DEF Dir
    <3>3. Says(file[DirName[s]], Len(file[DirName[s]]), i, Shows(s, i))
      BY <3>2, <2>1, <1>i DEF LoadedSoFar
    <3>4. Says(file[DirName[s]], Len(file[DirName[s]]), i, acked[s][i]) BY <2>4, <1>i DEF FilesSay
    <3>5. Len(file[DirName[s]]) \in Nat BY <3>1, <1>t
    <3> QED BY <3>3, <3>4, <3>5, SaysOne
  <2>5. Durable'
    <3>1. \A s \in Scope, i \in Id : Shows(s, i)' = Shows(s, i) BY <2>1 DEF Shows
    <3> QED BY <3>1, <2>1, <2>4 DEF Durable
  <2> QED BY <2>2, <2>3, <2>5 DEF DurableInv
<1> QED BY <1>1, <1>2, <1>3, <1>4, <1>5, <1>6, <1>7 DEF Open

LEMMA DurableStep ==
  ASSUME NoTear, OwnDirs PROVE DurableInv /\ [Next]_vars => DurableInv'
<1> SUFFICES ASSUME DurableInv, [Next]_vars PROVE DurableInv' OBVIOUS
<1>1. IndexInv' BY IndexStep DEF DurableInv
<1>2. CASE UNCHANGED vars
  <2>1. UNCHANGED <<pc, dir, row, entries, byID, file, cut, meta, acked>>
    BY <1>2 DEF vars, ram, disk, told
  <2>2. \A s \in Scope, i \in Id : Shows(s, i)' = Shows(s, i) BY <2>1 DEF Shows
  <2> QED BY <1>1, <2>1, <2>2 DEF DurableInv, FilesSay, LoadedSoFar, DownEmpty, FilesWhole, Durable
<1>3. CASE Next BY <1>1, <1>3, PutDurable, DeleteDurable, StopDurable, OpenDurable DEF Next
<1> QED BY <1>2, <1>3

\* Durability: whatever calls fail (with nothing written, after the line was written,
\* or on meta.json), whenever the process dies and however often the store is
\* reopened, an open FileStore shows every acknowledged Put and no acknowledged
\* Delete, under its own scope.
THEOREM AcknowledgedIsDurable ==
  ASSUME NoTear, OwnDirs
  PROVE  Spec => []Durable
<1>1. Init => DurableInv BY InitDurable
<1>2. DurableInv /\ [Next]_vars => DurableInv' BY DurableStep
<1>3. DurableInv => Durable BY DEF DurableInv
<1> QED BY <1>1, <1>2, <1>3, PTL DEF Spec

------------------------------------------------------------------------------
(***************************************************************************)
(* FileStore implements DurableStore: first what the recursive functions   *)
(* behind Live and Replayed compute, then the lists that Query goes        *)
(* through after each change of the index.                                 *)
(***************************************************************************)

\* A set of numbers that holds 0 and every successor up to N holds them all.
LEMMA UpTo ==
  ASSUME NEW N \in Nat, NEW S, 0 \in S, \A k \in 0..N : k \in S /\ k # N => k + 1 \in S
  PROVE  \A k \in 0..N : k \in S
<1> DEFINE T == {k \in 0..N : k \notin S}
<1> SUFFICES ASSUME T # {} PROVE FALSE OBVIOUS
<1>1. T \in SUBSET Nat OBVIOUS
<1> HIDE DEF T
<1>2. PICK x \in T : \A y \in T : ~(<<y, x>> \in OpToRel(<, Nat))
  BY <1>1, WFMin, NatLessThanWellFounded
<1> USE DEF T
<1>3. x \in Nat /\ x \notin S /\ x # 0 /\ x - 1 \in 0..N /\ x - 1 \in Nat /\ (x - 1) + 1 = x OBVIOUS
<1> DEFINE ss == <<x - 1, x>>
<1>4. ss \in Nat \X Nat /\ ss[1] < ss[2] BY <1>3
<1>5. ss \in OpToRel(<, Nat) BY <1>4 DEF OpToRel
<1>6. x - 1 \notin T BY <1>2, <1>5
<1>7. x - 1 \in S /\ x - 1 # N BY <1>3, <1>6
<1>8. (x - 1) + 1 \in S BY <1>3, <1>7
<1> QED BY <1>3, <1>8

\* g[m] is what is selected of, or replayed from, the first m elements.
TakesNext(s, T, old, m) == IF m \in T THEN Append(old, s[m]) ELSE old
Takes(s, T, n, g) == g = [m \in 0..n |-> IF m = 0 THEN <<>> ELSE TakesNext(s, T, g[m - 1], m)]
Taken(s, T) == CHOOSE g : Takes(s, T, Len(s), g)
Replays(f, n, g) == g = [m \in 0..n |-> IF m = 0 THEN <<>> ELSE Loaded(g[m - 1], f[m])]
ReplayedTo(f) == CHOOSE g : Replays(f, Len(f), g)

LEMMA TakesExist == ASSUME NEW s, NEW T, NEW n \in Nat PROVE \E g : Takes(s, T, n, g)
<1> DEFINE S == {k \in 0..n : \E g : Takes(s, T, k, g)}
<1>1. 0 \in S
  <2>1. Takes(s, T, 0, [k \in 0..0 |-> <<>>]) BY DEF Takes
  <2> QED BY <2>1
<1>2. ASSUME NEW k \in 0..n, k \in S, k # n PROVE k + 1 \in S
  <2>1. PICK g : Takes(s, T, k, g) BY <1>2
  <2> DEFINE h == [m \in 0..(k + 1) |-> IF m = k + 1 THEN TakesNext(s, T, g[k], m) ELSE g[m]]
  <2>2. \A m \in 0..k : h[m] = g[m] OBVIOUS
  <2>3. \A m \in 0..k : g[m] = IF m = 0 THEN <<>> ELSE TakesNext(s, T, g[m - 1], m) BY <2>1 DEF Takes
  <2>4. h[k + 1] = TakesNext(s, T, g[k], k + 1) OBVIOUS
  <2>h. DOMAIN h = 0..(k + 1) /\ h = [m \in 0..(k + 1) |-> h[m]] OBVIOUS
  <2> HIDE DEF h
  <2>5. ASSUME NEW m \in 0..(k + 1) PROVE h[m] = IF m = 0 THEN <<>> ELSE TakesNext(s, T, h[m - 1], m)
    <3>1. CASE m = k + 1
      <4>1. m # 0 /\ m - 1 = k /\ k \in 0..k BY <3>1
      <4> QED BY <3>1, <4>1, <2>2, <2>4
    <3>2. CASE m \in 0..k
      <4>1. m # 0 => m - 1 \in 0..k BY <3>2
      <4> QED BY <3>2, <4>1, <2>2, <2>3
    <3> QED BY <3>1, <3>2
  <2>6. Takes(s, T, k + 1, h) BY <2>h, <2>5 DEF Takes
  <2>7. k + 1 \in 0..n BY <1>2
  <2> QED BY <2>6, <2>7
<1> HIDE DEF S
<1>3. \A k \in 0..n : k \in S BY <1>1, <1>2, UpTo
<1> QED BY <1>3 DEF S

LEMMA ReplaysExist == ASSUME NEW f, NEW n \in Nat PROVE \E g : Replays(f, n, g)
<1> DEFINE S == {k \in 0..n : \E g : Replays(f, k, g)}
<1>1. 0 \in S
  <2>1. Replays(f, 0, [k \in 0..0 |-> <<>>]) BY DEF Replays
  <2> QED BY <2>1
<1>2. ASSUME NEW k \in 0..n, k \in S, k # n PROVE k + 1 \in S
  <2>1. PICK g : Replays(f, k, g) BY <1>2
  <2> DEFINE h == [m \in 0..(k + 1) |-> IF m = k + 1 THEN Loaded(g[k], f[m]) ELSE g[m]]
  <2>2. \A m \in 0..k : h[m] = g[m] OBVIOUS
  <2>3. \A m \in 0..k : g[m] = IF m = 0 THEN <<>> ELSE Loaded(g[m - 1], f[m]) BY <2>1 DEF Replays
  <2>4. h[k + 1] = Loaded(g[k], f[k + 1]) OBVIOUS
  <2>h. DOMAIN h = 0..(k + 1) /\ h = [m \in 0..(k + 1) |-> h[m]] OBVIOUS
  <2> HIDE DEF h
  <2>5. ASSUME NEW m \in 0..(k + 1) PROVE h[m] = IF m = 0 THEN <<>> ELSE Loaded(h[m - 1], f[m])
    <3>1. CASE m = k + 1
      <4>1. m # 0 /\ m - 1 = k /\ k \in 0..k BY <3>1
      <4> QED BY <3>1, <4>1, <2>2, <2>4
    <3>2. CASE m \in 0..k
      <4>1. m # 0 => m - 1 \in 0..k BY <3>2
      <4> QED BY <3>2, <4>1, <2>2, <2>3
    <3> QED BY <3>1, <3>2
  <2>6. Replays(f, k + 1, h) BY <2>h, <2>5 DEF Replays
  <2>7. k + 1 \in 0..n BY <1>2
  <2> QED BY <2>6, <2>7
<1> HIDE DEF S
<1>3. \A k \in 0..n : k \in S BY <1>1, <1>2, UpTo
<1> QED BY <1>3 DEF S

LEMMA TakenIs ==
  ASSUME NEW s, NEW T, Len(s) \in Nat
  PROVE  /\ Taken(s, T)[0] = <<>>
         /\ \A n \in 1..Len(s) :
              Taken(s, T)[n] = IF n \in T THEN Append(Taken(s, T)[n - 1], s[n]) ELSE Taken(s, T)[n - 1]
         /\ Selected(s, T) = Taken(s, T)[Len(s)]
<1>1. Takes(s, T, Len(s), Taken(s, T)) BY TakesExist DEF Taken
<1>2. Selected(s, T) = Taken(s, T)[Len(s)] BY DEF Selected, Taken, Takes, TakesNext
<1> DEFINE g == Taken(s, T)
<1> HIDE DEF g
<1>3. \A n \in 0..Len(s) : g[n] = IF n = 0 THEN <<>> ELSE TakesNext(s, T, g[n - 1], n)
  BY <1>1 DEF Takes, g
<1>4. g[0] = <<>> BY <1>3
<1>5. ASSUME NEW n \in 1..Len(s) PROVE g[n] = IF n \in T THEN Append(g[n - 1], s[n]) ELSE g[n - 1]
  <2>1. n \in 0..Len(s) /\ n # 0 OBVIOUS
  <2> QED BY <1>3, <2>1 DEF TakesNext
<1> QED BY <1>2, <1>4, <1>5 DEF g

LEMMA ReplayIs ==
  ASSUME NEW f, Len(f) \in Nat
  PROVE  /\ ReplayedTo(f)[0] = <<>>
         /\ \A n \in 1..Len(f) : ReplayedTo(f)[n] = Loaded(ReplayedTo(f)[n - 1], f[n])
         /\ Replayed(f) = ReplayedTo(f)[Len(f)]
<1>1. Replays(f, Len(f), ReplayedTo(f)) BY ReplaysExist DEF ReplayedTo
<1>2. Replayed(f) = ReplayedTo(f)[Len(f)] BY DEF Replayed, ReplayedTo, Replays
<1> DEFINE g == ReplayedTo(f)
<1> HIDE DEF g
<1>3. \A n \in 0..Len(f) : g[n] = IF n = 0 THEN <<>> ELSE Loaded(g[n - 1], f[n])
  BY <1>1 DEF Replays, g
<1>4. g[0] = <<>> BY <1>3
<1>5. ASSUME NEW n \in 1..Len(f) PROVE g[n] = Loaded(g[n - 1], f[n])
  <2>1. n \in 0..Len(f) /\ n # 0 OBVIOUS
  <2> QED BY <1>3, <2>1
<1> QED BY <1>2, <1>4, <1>5 DEF g

\* What is selected of the first n elements depends on those selected, only.
LEMMA TakenPrefix ==
  ASSUME NEW s, NEW t, NEW T, NEW U, Len(s) \in Nat, Len(t) \in Nat, NEW n \in 0..Len(s), n <= Len(t),
         \A p \in 1..n : (p \in T <=> p \in U) /\ (p \in T => s[p] = t[p])
  PROVE  Taken(s, T)[n] = Taken(t, U)[n]
<1> DEFINE S == {k \in 0..n : Taken(s, T)[k] = Taken(t, U)[k]}
<1>1. 0 \in S
  <2>1. Taken(s, T)[0] = <<>> /\ Taken(t, U)[0] = <<>> /\ 0 \in 0..n BY TakenIs
  <2> QED BY <2>1
<1>2. ASSUME NEW k \in 0..n, k \in S, k # n PROVE k + 1 \in S
  <2>1. k + 1 \in 0..n /\ k + 1 \in 1..n /\ k + 1 \in 1..Len(s) /\ k + 1 \in 1..Len(t) /\ (k + 1) - 1 = k
    BY <1>2
  <2>2. Taken(s, T)[k + 1] = IF k + 1 \in T THEN Append(Taken(s, T)[k], s[k + 1]) ELSE Taken(s, T)[k]
    BY <2>1, TakenIs
  <2>3. Taken(t, U)[k + 1] = IF k + 1 \in U THEN Append(Taken(t, U)[k], t[k + 1]) ELSE Taken(t, U)[k]
    BY <2>1, TakenIs
  <2>4. (k + 1 \in T <=> k + 1 \in U) /\ (k + 1 \in T => s[k + 1] = t[k + 1]) BY <2>1
  <2>5. Taken(s, T)[k] = Taken(t, U)[k] BY <1>2
  <2>6. Taken(s, T)[k + 1] = Taken(t, U)[k + 1] BY <2>2, <2>3, <2>4, <2>5
  <2> QED BY <2>1, <2>6
<1> HIDE DEF S
<1>3. \A k \in 0..n : k \in S BY <1>1, <1>2, UpTo
<1>4. n \in S BY <1>3
<1> QED BY <1>4 DEF S

LEMMA ReplayPrefix ==
  ASSUME NEW f, NEW g, Len(f) \in Nat, Len(g) \in Nat, NEW n \in 0..Len(f), n <= Len(g),
         \A p \in 1..n : f[p] = g[p]
  PROVE  ReplayedTo(f)[n] = ReplayedTo(g)[n]
<1> DEFINE S == {k \in 0..n : ReplayedTo(f)[k] = ReplayedTo(g)[k]}
<1>1. 0 \in S
  <2>1. ReplayedTo(f)[0] = <<>> /\ ReplayedTo(g)[0] = <<>> /\ 0 \in 0..n BY ReplayIs
  <2> QED BY <2>1
<1>2. ASSUME NEW k \in 0..n, k \in S, k # n PROVE k + 1 \in S
  <2>1. k + 1 \in 0..n /\ k + 1 \in 1..n /\ k + 1 \in 1..Len(f) /\ k + 1 \in 1..Len(g) /\ (k + 1) - 1 = k
    BY <1>2
  <2>2. ReplayedTo(f)[k + 1] = Loaded(ReplayedTo(f)[k], f[k + 1]) BY <2>1, ReplayIs
  <2>3. ReplayedTo(g)[k + 1] = Loaded(ReplayedTo(g)[k], g[k + 1]) BY <2>1, ReplayIs
  <2>4. f[k + 1] = g[k + 1] BY <2>1
  <2>5. ReplayedTo(f)[k] = ReplayedTo(g)[k] BY <1>2
  <2>6. ReplayedTo(f)[k + 1] = ReplayedTo(g)[k + 1] BY <2>2, <2>3, <2>4, <2>5
  <2> QED BY <2>1, <2>6
<1> HIDE DEF S
<1>3. \A k \in 0..n : k \in S BY <1>1, <1>2, UpTo
<1>4. n \in S BY <1>3
<1> QED BY <1>4 DEF S

LEMMA TakenType ==
  ASSUME NEW E, NEW s \in Seq(E), NEW T
  PROVE  \A n \in 0..Len(s) : Taken(s, T)[n] \in Seq(E)
<1> DEFINE S == {k \in 0..Len(s) : Taken(s, T)[k] \in Seq(E)}
<1>l. Len(s) \in Nat OBVIOUS
<1>1. 0 \in S
  <2>1. Taken(s, T)[0] = <<>> BY <1>l, TakenIs
  <2>2. <<>> \in Seq(E) /\ 0 \in 0..Len(s) OBVIOUS
  <2>3. Taken(s, T)[0] \in Seq(E) BY <2>1, <2>2
  <2> QED BY <2>2, <2>3
<1>2. ASSUME NEW k \in 0..Len(s), k \in S, k # Len(s) PROVE k + 1 \in S
  <2>1. k + 1 \in 0..Len(s) /\ k + 1 \in 1..Len(s) /\ (k + 1) - 1 = k BY <1>2, <1>l
  <2>2. Taken(s, T)[k + 1] = IF k + 1 \in T THEN Append(Taken(s, T)[k], s[k + 1]) ELSE Taken(s, T)[k]
    BY <1>l, <2>1, TakenIs
  <2>3. Taken(s, T)[k] \in Seq(E) BY <1>2
  <2>4. s[k + 1] \in E BY <2>1, ElementOfSeq
  <2>5. Append(Taken(s, T)[k], s[k + 1]) \in Seq(E) BY <2>3, <2>4, AppendProperties
  <2>6. Taken(s, T)[k + 1] \in Seq(E) BY <2>2, <2>3, <2>5
  <2> QED BY <2>1, <2>6
<1> HIDE DEF S
<1>3. \A k \in 0..Len(s) : k \in S BY <1>l, <1>1, <1>2, UpTo
<1> QED BY <1>3 DEF S

------------------------------------------------------------------------------
(* The lists. *)

\* es with the value of entry i replaced: an upsert of an entry that is held.
Amended(es, i, v) == [p \in DOMAIN es |-> IF es[p].id = i THEN [id |-> i, val |-> v] ELSE es[p]]

LEMMA WithoutAppend ==
  ASSUME NEW L \in Seq(EntryRec), NEW x \in EntryRec, NEW i
  PROVE  Without(Append(L, x), i) = IF x.id = i THEN Without(L, i) ELSE Append(Without(L, i), x)
<1> DEFINE M == Append(L, x)
           T == {p \in DOMAIN L : L[p].id # i}
           U == {p \in DOMAIN M : M[p].id # i}
<1>1. /\ Len(L) \in Nat /\ DOMAIN L = 1..Len(L) /\ Len(M) = Len(L) + 1 /\ DOMAIN M = 1..Len(M)
      /\ M[Len(L) + 1] = x /\ \A p \in 1..Len(L) : M[p] = L[p]
  BY AppendProperties
<1>2. Without(M, i) = Selected(M, U) /\ Without(L, i) = Selected(L, T) BY DEF Without
<1> HIDE DEF M
<1>3. \A p \in 1..Len(L) : (p \in T <=> p \in U) /\ (p \in T => L[p] = M[p]) BY <1>1
<1>u. Len(L) + 1 \in U <=> x.id # i BY <1>1
<1> HIDE DEF T, U
<1>4. Taken(L, T)[Len(L)] = Taken(M, U)[Len(L)]
  <2>1. Len(L) \in 0..Len(L) /\ Len(L) <= Len(M) /\ Len(M) \in Nat BY <1>1
  <2> QED BY <1>1, <1>3, <2>1, TakenPrefix
<1>5. Selected(M, U) = IF Len(L) + 1 \in U THEN Append(Taken(M, U)[Len(L)], x) ELSE Taken(M, U)[Len(L)]
  <2>1. Len(M) \in Nat /\ Len(L) + 1 \in 1..Len(M) /\ (Len(L) + 1) - 1 = Len(L) BY <1>1
  <2>2. Selected(M, U) = Taken(M, U)[Len(M)] BY <2>1, TakenIs
  <2>3. Taken(M, U)[Len(L) + 1] = IF Len(L) + 1 \in U THEN Append(Taken(M, U)[Len(L)], M[Len(L) + 1])
                                                      ELSE Taken(M, U)[Len(L)]
    BY <2>1, TakenIs
  <2> QED BY <1>1, <2>2, <2>3
<1>6. Selected(L, T) = Taken(L, T)[Len(L)] BY <1>1, TakenIs
<1>7. Without(M, i) = IF x.id = i THEN Without(L, i) ELSE Append(Without(L, i), x)
  BY <1>2, <1>4, <1>5, <1>6, <1>u
<1> QED BY <1>7 DEF M

LEMMA WithoutEmpty == ASSUME NEW i PROVE Without(<<>>, i) = <<>>
<1>1. Len(<<>>) = 0 OBVIOUS
<1> DEFINE T == {p \in DOMAIN <<>> : <<>>[p].id # i}
<1>2. Without(<<>>, i) = Selected(<<>>, T) BY DEF Without
<1> HIDE DEF T
<1> QED BY <1>1, <1>2, TakenIs

LEMMA AmendedAppend ==
  ASSUME NEW L \in Seq(EntryRec), NEW x \in EntryRec, NEW i, NEW v
  PROVE  Amended(Append(L, x), i, v)
           = Append(Amended(L, i, v), IF x.id = i THEN [id |-> i, val |-> v] ELSE x)
<1> DEFINE y == IF x.id = i THEN [id |-> i, val |-> v] ELSE x
           S == EntryRec \cup {[id |-> i, val |-> v]}
           A == Amended(L, i, v)
           B == Append(A, y)
           C == Amended(Append(L, x), i, v)
<1>1. /\ Len(L) \in Nat /\ DOMAIN L = 1..Len(L) /\ Len(Append(L, x)) = Len(L) + 1
      /\ DOMAIN Append(L, x) = 1..(Len(L) + 1)
      /\ Append(L, x)[Len(L) + 1] = x /\ \A p \in 1..Len(L) : Append(L, x)[p] = L[p]
  BY AppendProperties
<1>2. A \in Seq(S) /\ Len(A) = Len(L) /\ \A p \in 1..Len(L) : A[p] = IF L[p].id = i THEN [id |-> i, val |-> v] ELSE L[p]
  <2>1. A = [p \in 1..Len(L) |-> IF L[p].id = i THEN [id |-> i, val |-> v] ELSE L[p]] BY <1>1 DEF Amended
  <2>2. \A p \in 1..Len(L) : L[p] \in EntryRec BY <1>1
  <2> QED BY <1>1, <2>1, <2>2
<1>3. y \in S OBVIOUS
<1> HIDE DEF y, S, A
<1>4. B \in Seq(S) /\ Len(B) = Len(L) + 1 /\ B[Len(L) + 1] = y /\ \A p \in 1..Len(L) : B[p] = A[p]
  BY <1>2, <1>3, AppendProperties
<1>5. C = [p \in 1..(Len(L) + 1) |-> IF Append(L, x)[p].id = i THEN [id |-> i, val |-> v] ELSE Append(L, x)[p]]
  BY <1>1 DEF Amended
<1> HIDE DEF B, C
<1>6. \A p \in 1..(Len(L) + 1) : p \in 1..Len(L) \/ p = Len(L) + 1 BY <1>1
<1>7. \A p \in 1..(Len(L) + 1) : C[p] = B[p]
  <2> SUFFICES ASSUME NEW p \in 1..(Len(L) + 1) PROVE C[p] = B[p] OBVIOUS
  <2>1. C[p] = IF Append(L, x)[p].id = i THEN [id |-> i, val |-> v] ELSE Append(L, x)[p] BY <1>5
  <2>2. CASE p \in 1..Len(L) BY <1>1, <1>2, <1>4, <2>1, <2>2
  <2>3. CASE p = Len(L) + 1 BY <1>1, <1>4, <2>1, <2>3 DEF y
  <2> QED BY <1>6, <2>2, <2>3
<1>8. B = [p \in 1..(Len(L) + 1) |-> B[p]] BY <1>1, <1>4
<1>9. C = [p \in 1..(Len(L) + 1) |-> C[p]] BY <1>5
<1>10. C = B BY <1>7, <1>8, <1>9
<1> QED BY <1>10 DEF B, C, A, y

LEMMA HoldsAppend ==
  ASSUME NEW L \in Seq(EntryRec), NEW x \in EntryRec, NEW i
  PROVE  Holds(Append(L, x), i) <=> Holds(L, i) \/ x.id = i
<1>1. /\ Len(L) \in Nat /\ DOMAIN L = 1..Len(L) /\ DOMAIN Append(L, x) = 1..(Len(L) + 1)
      /\ Append(L, x)[Len(L) + 1] = x /\ \A p \in 1..Len(L) : Append(L, x)[p] = L[p]
  BY AppendProperties
<1>2. \A p \in 1..(Len(L) + 1) : p \in 1..Len(L) \/ p = Len(L) + 1 BY <1>1
<1>3. Len(L) + 1 \in 1..(Len(L) + 1) /\ \A p \in 1..Len(L) : p \in 1..(Len(L) + 1) BY <1>1
<1> QED BY <1>1, <1>2, <1>3 DEF Holds

Slots(es, ids) == {p \in DOMAIN es : ids[es[p].id] = p}
LiveTo(es, ids) == Taken(es, Slots(es, ids))

LEMMA LiveIs ==
  ASSUME NEW es \in Seq(EntryRec), NEW ids
  PROVE  /\ Len(es) \in Nat /\ DOMAIN es = 1..Len(es) /\ \A p \in 1..Len(es) : es[p] \in EntryRec
         /\ \A n \in 0..Len(es) : LiveTo(es, ids)[n] \in Seq(EntryRec)
         /\ LiveTo(es, ids)[0] = <<>>
         /\ \A n \in 1..Len(es) :
              LiveTo(es, ids)[n] = IF ids[es[n].id] = n THEN Append(LiveTo(es, ids)[n - 1], es[n])
                                                        ELSE LiveTo(es, ids)[n - 1]
         /\ Live(es, ids) = LiveTo(es, ids)[Len(es)]
<1>1. Len(es) \in Nat /\ DOMAIN es = 1..Len(es) /\ \A p \in 1..Len(es) : es[p] \in EntryRec OBVIOUS
<1>2. \A n \in 1..Len(es) : n \in Slots(es, ids) <=> ids[es[n].id] = n BY <1>1 DEF Slots
<1>3. Live(es, ids) = Selected(es, Slots(es, ids)) BY DEF Live, Slots
<1> QED BY <1>1, <1>2, <1>3, TakenIs, TakenType DEF LiveTo

\* Slots that are not live do not count, nor those beyond the last live one.
SameSlots(es, ids, fs, new, n) ==
  \A p \in 1..n : /\ ids[es[p].id] = p <=> new[fs[p].id] = p
                  /\ ids[es[p].id] = p => es[p] = fs[p]

LEMMA LiveSame ==
  ASSUME NEW es \in Seq(EntryRec), NEW ids, NEW fs \in Seq(EntryRec), NEW new,
         NEW n \in 0..Len(es), n <= Len(fs),
         SameSlots(es, ids, fs, new, n)
  PROVE  LiveTo(es, ids)[n] = LiveTo(fs, new)[n]
<1> DEFINE T == Slots(es, ids)
           U == Slots(fs, new)
<1>1. Len(es) \in Nat /\ Len(fs) \in Nat /\ DOMAIN es = 1..Len(es) /\ DOMAIN fs = 1..Len(fs) OBVIOUS
<1>2. \A p \in 1..n : p \in 1..Len(es) /\ p \in 1..Len(fs) BY <1>1
<1>3. \A p \in 1..n : (p \in T <=> p \in U) /\ (p \in T => es[p] = fs[p])
  BY <1>1, <1>2 DEF Slots, SameSlots
<1> HIDE DEF T, U
<1>4. Taken(es, T)[n] = Taken(fs, U)[n] BY <1>1, <1>3, TakenPrefix
<1> QED BY <1>4 DEF T, U, LiveTo

\* Put of an id that is indexed.
LEMMA LiveReplaced ==
  ASSUME NEW es, NEW ids, IndexOK(es, ids), NEW i \in Id, NEW v \in Val, ids[i] # 0
  PROVE  Live([es EXCEPT ![ids[i]] = [id |-> i, val |-> v]], ids) = Upsert(Live(es, ids), i, v)
<1> DEFINE e == [id |-> i, val |-> v]
           p == ids[i]
           fs == [es EXCEPT ![p] = e]
           L(n) == LiveTo(es, ids)[n]
           M(n) == LiveTo(fs, ids)[n]
<1>t. /\ es \in Seq(EntryRec) /\ ids \in [Id -> Nat] /\ e \in EntryRec /\ e.id = i
      /\ p \in 1..Len(es) /\ es[p].id = i /\ p # 0 /\ Len(es) \in Nat
  BY DEF IndexOK, EntryRec
<1>f. /\ fs \in Seq(EntryRec) /\ Len(fs) = Len(es) /\ fs[p] = e
      /\ \A q \in 1..Len(es) : q # p => fs[q] = es[q]
  <2>1. fs \in Seq(EntryRec) /\ Len(fs) = Len(es) /\ DOMAIN fs = 1..Len(es) BY <1>t
  <2>2. p \in DOMAIN es BY <1>t
  <2>3. fs[p] = e BY <2>2
  <2>4. \A q \in 1..Len(es) : q # p => fs[q] = es[q] BY <1>t
  <2> QED BY <2>1, <2>3, <2>4
<1>l. /\ \A n \in 0..Len(es) : L(n) \in Seq(EntryRec)
      /\ L(0) = <<>> /\ \A q \in 1..Len(es) : es[q] \in EntryRec
      /\ \A n \in 1..Len(es) : L(n) = IF ids[es[n].id] = n THEN Append(L(n - 1), es[n]) ELSE L(n - 1)
      /\ Live(es, ids) = L(Len(es))
  BY <1>t, LiveIs
<1>m. /\ M(0) = <<>>
      /\ \A n \in 1..Len(es) : M(n) = IF ids[fs[n].id] = n THEN Append(M(n - 1), fs[n]) ELSE M(n - 1)
      /\ Live(fs, ids) = M(Len(es))
  <2> HIDE DEF fs, p, e
  <2>1. /\ M(0) = <<>>
        /\ \A n \in 1..Len(fs) : M(n) = IF ids[fs[n].id] = n THEN Append(M(n - 1), fs[n]) ELSE M(n - 1)
        /\ Live(fs, ids) = M(Len(fs))
    BY <1>f, LiveIs
  <2> QED BY <1>f, <2>1
<1> HIDE DEF e, p, fs, L, M
<1>a. ASSUME NEW K \in Seq(EntryRec), NEW r \in EntryRec, r.id # i
      PROVE  Amended(Append(K, r), i, v) = Append(Amended(K, i, v), r)
  <2>1. Amended(Append(K, r), i, v)
          = Append(Amended(K, i, v), IF r.id = i THEN [id |-> i, val |-> v] ELSE r)
    BY AmendedAppend
  <2> QED BY <1>a, <2>1
<1>b. \A K \in Seq(EntryRec), r \in EntryRec : Holds(K, i) \/ r.id = i => Holds(Append(K, r), i)
  BY HoldsAppend
<1> DEFINE S == {n \in 0..Len(es) : M(n) = Amended(L(n), i, v) /\ (p <= n => Holds(L(n), i))}
<1>1. 0 \in S
  <2>1. Amended(<<>>, i, v) = <<>> BY DEF Amended
  <2>2. ~(p <= 0) BY <1>t
  <2> QED BY <1>l, <1>m, <1>t, <2>1, <2>2
<1>2. ASSUME NEW n \in 0..Len(es), n \in S, n # Len(es) PROVE n + 1 \in S
  <2>1. n + 1 \in 0..Len(es) /\ n + 1 \in 1..Len(es) /\ (n + 1) - 1 = n BY <1>t, <1>2
  <2>2. M(n) = Amended(L(n), i, v) /\ (p <= n => Holds(L(n), i)) BY <1>2
  <2> DEFINE x == es[n + 1]
  <2>3. /\ L(n + 1) = IF ids[x.id] = n + 1 THEN Append(L(n), x) ELSE L(n)
        /\ M(n + 1) = IF ids[fs[n + 1].id] = n + 1 THEN Append(M(n), fs[n + 1]) ELSE M(n)
        /\ x \in EntryRec /\ L(n) \in Seq(EntryRec)
    BY <1>l, <1>m, <2>1
  <2>4. CASE n + 1 = p
    <3>1. x.id = i /\ ids[x.id] = n + 1 /\ fs[n + 1] = e /\ ids[fs[n + 1].id] = n + 1
      BY <1>t, <1>f, <2>4 DEF p
    <3>2. L(n + 1) = Append(L(n), x) /\ M(n + 1) = Append(M(n), e) BY <2>3, <3>1
    <3>3. Amended(Append(L(n), x), i, v) = Append(Amended(L(n), i, v), e)
      BY <2>3, <3>1, AmendedAppend DEF e
    <3>4. M(n + 1) = Amended(L(n + 1), i, v) BY <2>2, <3>2, <3>3
    <3>5. Holds(L(n + 1), i) BY <2>3, <3>1, <3>2, <1>b
    <3> QED BY <2>1, <3>4, <3>5
  <2>5. CASE n + 1 # p
    <3>1. fs[n + 1] = x BY <1>f, <2>1, <2>5
    <3>2. p <= n + 1 => p <= n BY <1>t, <2>1, <2>5
    <3>3. CASE ids[x.id] = n + 1
      <4>1. x.id # i BY <2>5, <3>3 DEF p
      <4>2. L(n + 1) = Append(L(n), x) /\ M(n + 1) = Append(M(n), x) BY <2>3, <3>1, <3>3
      <4>3. Amended(Append(L(n), x), i, v) = Append(Amended(L(n), i, v), x)
        BY <2>3, <4>1, <1>a
      <4>4. M(n + 1) = Amended(L(n + 1), i, v) BY <2>2, <4>2, <4>3
      <4>5. Holds(L(n), i) => Holds(L(n + 1), i) BY <2>3, <4>2, <1>b
      <4> QED BY <2>1, <2>2, <3>2, <4>4, <4>5
    <3>4. CASE ids[x.id] # n + 1
      <4>1. L(n + 1) = L(n) /\ M(n + 1) = M(n) BY <2>3, <3>1, <3>4
      <4> QED BY <2>1, <2>2, <3>2, <4>1
    <3> QED BY <3>3, <3>4
  <2> QED BY <2>4, <2>5
<1> HIDE DEF S
<1>3. \A n \in 0..Len(es) : n \in S BY <1>t, <1>1, <1>2, UpTo
<1>4. Len(es) \in S BY <1>t, <1>3
<1>5. M(Len(es)) = Amended(L(Len(es)), i, v) /\ Holds(L(Len(es)), i) BY <1>4, <1>t DEF S
<1>6. Live(fs, ids) = Upsert(Live(es, ids), i, v) BY <1>5, <1>l, <1>m DEF Upsert, Amended
<1> QED BY <1>6 DEF fs, e, p

\* Slots of an id that is not indexed are not live.
LEMMA LiveLacks ==
  ASSUME NEW es, NEW ids, IndexOK(es, ids), NEW i \in Id, ids[i] = 0
  PROVE  ~Holds(Live(es, ids), i)
<1> DEFINE L(n) == LiveTo(es, ids)[n]
           S == {n \in 0..Len(es) : ~Holds(L(n), i)}
<1>t. es \in Seq(EntryRec) /\ Len(es) \in Nat BY DEF IndexOK
<1>l. /\ \A n \in 0..Len(es) : L(n) \in Seq(EntryRec)
      /\ L(0) = <<>> /\ \A q \in 1..Len(es) : es[q] \in EntryRec
      /\ \A n \in 1..Len(es) : L(n) = IF ids[es[n].id] = n THEN Append(L(n - 1), es[n]) ELSE L(n - 1)
      /\ Live(es, ids) = L(Len(es))
  BY <1>t, LiveIs
<1> HIDE DEF L
<1>a. \A K \in Seq(EntryRec), r \in EntryRec : r.id # i /\ ~Holds(K, i) => ~Holds(Append(K, r), i)
  BY HoldsAppend
<1>1. 0 \in S
  <2>1. ~Holds(<<>>, i) BY DEF Holds
  <2> QED BY <1>l, <1>t, <2>1
<1>2. ASSUME NEW n \in 0..Len(es), n \in S, n # Len(es) PROVE n + 1 \in S
  <2>1. n + 1 \in 0..Len(es) /\ n + 1 \in 1..Len(es) /\ (n + 1) - 1 = n /\ n + 1 # 0 BY <1>t, <1>2
  <2>2. L(n + 1) = IF ids[es[n + 1].id] = n + 1 THEN Append(L(n), es[n + 1]) ELSE L(n) BY <1>l, <2>1
  <2>3. CASE ids[es[n + 1].id] = n + 1
    <3>1. es[n + 1].id # i BY <2>1, <2>3
    <3>2. L(n + 1) = Append(L(n), es[n + 1]) /\ L(n) \in Seq(EntryRec) /\ es[n + 1] \in EntryRec
      BY <1>l, <2>1, <2>2, <2>3
    <3>3. ~Holds(L(n), i) BY <1>2
    <3>4. ~Holds(L(n + 1), i) BY <3>1, <3>2, <3>3, <1>a
    <3> QED BY <2>1, <3>4
  <2>4. CASE ids[es[n + 1].id] # n + 1 BY <1>2, <2>1, <2>2, <2>4
  <2> QED BY <2>3, <2>4
<1> HIDE DEF S
<1>3. \A n \in 0..Len(es) : n \in S BY <1>t, <1>1, <1>2, UpTo
<1>4. Len(es) \in S BY <1>t, <1>3
<1> QED BY <1>4, <1>l DEF S

\* Put of a new id.
LEMMA LiveAppended ==
  ASSUME NEW es, NEW ids, IndexOK(es, ids), NEW i \in Id, NEW v \in Val, ids[i] = 0
  PROVE  Live(Append(es, [id |-> i, val |-> v]), [ids EXCEPT ![i] = Len(es) + 1])
           = Upsert(Live(es, ids), i, v)
<1> DEFINE e == [id |-> i, val |-> v]
           fs == Append(es, e)
           n == Len(es)
           new == [ids EXCEPT ![i] = n + 1]
<1>o. es \in Seq(EntryRec) /\ ids \in [Id -> Nat] BY DEF IndexOK
<1>q. \A p \in 1..Len(es) : es[p] \in EntryRec BY <1>o, ElementOfSeq
<1>r. \A r \in EntryRec : r.id \in Id BY DEF EntryRec
<1>t. /\ es \in Seq(EntryRec) /\ ids \in [Id -> Nat] /\ e \in EntryRec /\ e.id = i /\ n \in Nat
      /\ \A p \in 1..n : es[p].id \in Id
  <2>1. e \in EntryRec BY DEF EntryRec
  <2> QED BY <1>o, <1>q, <1>r, <2>1
<1>f. fs \in Seq(EntryRec) /\ Len(fs) = n + 1 /\ fs[n + 1] = e /\ \A p \in 1..n : fs[p] = es[p]
  BY <1>t, AppendProperties
<1>n. new[i] = n + 1 /\ \A j \in Id : j # i => new[j] = ids[j] BY <1>t
<1> HIDE DEF e, fs, new
<1>1. SameSlots(es, ids, fs, new, n)
  <2> SUFFICES ASSUME NEW p \in 1..n PROVE ids[es[p].id] = p <=> new[es[p].id] = p
    BY <1>f DEF SameSlots
  <2>1. CASE es[p].id = i
    <3>1. p # n + 1 /\ p # 0 BY <1>t
    <3> QED BY <1>n, <2>1, <3>1
  <2>2. CASE es[p].id # i BY <1>n, <1>t, <2>2
  <2> QED BY <2>1, <2>2
<1>2. n \in 0..n /\ n <= Len(fs) BY <1>t, <1>f
<1>3. LiveTo(es, ids)[n] = LiveTo(fs, new)[n] BY <1>t, <1>f, <1>1, <1>2, LiveSame
<1>4. Live(es, ids) = LiveTo(es, ids)[n] BY <1>t, LiveIs
<1>5. n + 1 \in 1..Len(fs) /\ (n + 1) - 1 = n /\ new[fs[n + 1].id] = n + 1 BY <1>t, <1>f, <1>n
<1>g. /\ \A q \in 1..Len(fs) :
           LiveTo(fs, new)[q] = IF new[fs[q].id] = q THEN Append(LiveTo(fs, new)[q - 1], fs[q])
                                                     ELSE LiveTo(fs, new)[q - 1]
      /\ Live(fs, new) = LiveTo(fs, new)[Len(fs)]
  BY <1>f, LiveIs
<1> HIDE DEF n
<1>6. /\ LiveTo(fs, new)[n + 1] = Append(LiveTo(fs, new)[n], fs[n + 1])
      /\ Live(fs, new) = LiveTo(fs, new)[n + 1]
  BY <1>f, <1>g, <1>5
<1>7. Live(fs, new) = Append(Live(es, ids), e) BY <1>3, <1>4, <1>5, <1>6, <1>f
<1>8. ~Holds(Live(es, ids), i) BY LiveLacks
<1>9. Live(fs, new) = Upsert(Live(es, ids), i, v) BY <1>7, <1>8 DEF Upsert, e
<1> QED BY <1>9 DEF fs, new, e, n

\* Delete: the slot stays and is no longer live.
LEMMA LiveDropped ==
  ASSUME NEW es, NEW ids, IndexOK(es, ids), NEW i \in Id
  PROVE  Live(es, [ids EXCEPT ![i] = 0]) = Without(Live(es, ids), i)
<1> DEFINE new == [ids EXCEPT ![i] = 0]
           L(n) == LiveTo(es, ids)[n]
           M(n) == LiveTo(es, new)[n]
<1>o. es \in Seq(EntryRec) /\ ids \in [Id -> Nat] BY DEF IndexOK
<1>q. \A p \in 1..Len(es) : es[p] \in EntryRec BY <1>o, ElementOfSeq
<1>r. \A r \in EntryRec : r.id \in Id BY DEF EntryRec
<1>t. /\ es \in Seq(EntryRec) /\ ids \in [Id -> Nat] /\ Len(es) \in Nat
      /\ \A p \in 1..Len(es) : es[p].id \in Id
  BY <1>o, <1>q, <1>r
<1>n. new[i] = 0 /\ \A j \in Id : j # i => new[j] = ids[j] BY <1>t
<1> HIDE DEF new
<1>l. /\ \A n \in 0..Len(es) : L(n) \in Seq(EntryRec)
      /\ L(0) = <<>> /\ \A q \in 1..Len(es) : es[q] \in EntryRec
      /\ \A n \in 1..Len(es) : L(n) = IF ids[es[n].id] = n THEN Append(L(n - 1), es[n]) ELSE L(n - 1)
      /\ Live(es, ids) = L(Len(es))
  BY <1>t, LiveIs
<1>m. /\ M(0) = <<>>
      /\ \A n \in 1..Len(es) : M(n) = IF new[es[n].id] = n THEN Append(M(n - 1), es[n]) ELSE M(n - 1)
      /\ Live(es, new) = M(Len(es))
  BY <1>t, LiveIs
<1> HIDE DEF L, M
<1> DEFINE S == {n \in 0..Len(es) : M(n) = Without(L(n), i)}
<1>1. 0 \in S BY <1>l, <1>m, <1>t, WithoutEmpty
<1>2. ASSUME NEW n \in 0..Len(es), n \in S, n # Len(es) PROVE n + 1 \in S
  <2>1. n + 1 \in 0..Len(es) /\ n + 1 \in 1..Len(es) /\ (n + 1) - 1 = n /\ n + 1 # 0 BY <1>t, <1>2
  <2> DEFINE x == es[n + 1]
  <2>2. /\ L(n + 1) = IF ids[x.id] = n + 1 THEN Append(L(n), x) ELSE L(n)
        /\ M(n + 1) = IF new[x.id] = n + 1 THEN Append(M(n), x) ELSE M(n)
        /\ x \in EntryRec /\ x.id \in Id /\ L(n) \in Seq(EntryRec) /\ M(n) = Without(L(n), i)
    BY <1>2, <1>l, <1>m, <1>t, <2>1
  <2>3. CASE x.id = i
    <3>1. M(n + 1) = M(n) BY <1>n, <2>1, <2>2, <2>3
    <3>2. L(n + 1) = Append(L(n), x) => Without(L(n + 1), i) = Without(L(n), i) BY <2>2, <2>3, WithoutAppend
    <3> QED BY <2>1, <2>2, <3>1, <3>2
  <2>4. CASE x.id # i
    <3>1. new[x.id] = ids[x.id] BY <1>n, <2>2, <2>4
    <3>2. L(n + 1) = Append(L(n), x) => Without(L(n + 1), i) = Append(Without(L(n), i), x)
      BY <2>2, <2>4, WithoutAppend
    <3> QED BY <2>1, <2>2, <3>1, <3>2
  <2> QED BY <2>3, <2>4
<1> HIDE DEF S
<1>3. \A n \in 0..Len(es) : n \in S BY <1>t, <1>1, <1>2, UpTo
<1>4. Len(es) \in S BY <1>t, <1>3
<1>5. Live(es, new) = Without(Live(es, ids), i) BY <1>4, <1>l, <1>m DEF S
<1> QED BY <1>5 DEF new

\* The three changes of an index, as the code makes them.
LEMMA LiveIndexed ==
  ASSUME NEW s \in Scope, NEW i \in Id, NEW v \in Val, IndexOK(entries[s], byID[s])
  PROVE  Live(Indexed(s, i, v).entries, Indexed(s, i, v).byID) = Upsert(Live(entries[s], byID[s]), i, v)
<1>1. CASE byID[s][i] # 0 BY <1>1, LiveReplaced DEF Indexed
<1>2. CASE byID[s][i] = 0 BY <1>2, LiveAppended DEF Indexed
<1> QED BY <1>1, <1>2

\* What is tabulated over 1..m is a sequence of length m.
LEMMA SeqOf ==
  ASSUME NEW S, NEW m \in Nat, NEW f, \A q \in 1..m : f[q] \in S
  PROVE  [q \in 1..m |-> f[q]] \in Seq(S) /\ Len([q \in 1..m |-> f[q]]) = m
OBVIOUS

\* Without its last slot, the one of i, a list is the one that never had i.
LEMMA LiveShortened ==
  ASSUME NEW es, NEW ids, IndexOK(es, ids), NEW i \in Id, ids[i] # 0, ids[i] = Len(es),
         NEW fs \in Seq(EntryRec), Len(fs) = Len(es) - 1, \A p \in 1..(Len(es) - 1) : fs[p] = es[p]
  PROVE  Live(fs, [ids EXCEPT ![i] = 0]) = Without(Live(es, ids), i)
<1> DEFINE new == [ids EXCEPT ![i] = 0]
           n == Len(es)
<1>t. /\ es \in Seq(EntryRec) /\ ids \in [Id -> Nat] /\ n \in Nat /\ n # 0 /\ es[n].id = i
      /\ n - 1 \in 0..n /\ n \in 1..n
  BY DEF IndexOK
<1>n. new[i] = 0 BY <1>t
<1>1. Live(es, new) = Without(Live(es, ids), i) BY LiveDropped
<1> HIDE DEF new
<1>2. /\ \A q \in 1..Len(es) : LiveTo(es, new)[q] = IF new[es[q].id] = q THEN Append(LiveTo(es, new)[q - 1], es[q])
                                                                         ELSE LiveTo(es, new)[q - 1]
      /\ Live(es, new) = LiveTo(es, new)[Len(es)]
  BY <1>t, LiveIs
<1> HIDE DEF n
<1>3. new[es[n].id] # n BY <1>t, <1>n
<1>4. Live(es, new) = LiveTo(es, new)[n - 1] BY <1>2, <1>3, <1>t DEF n
<1>5. Live(fs, new) = LiveTo(fs, new)[n - 1]
  <2>1. Live(fs, new) = LiveTo(fs, new)[Len(fs)] BY LiveIs
  <2> QED BY <2>1 DEF n
<1>6. LiveTo(fs, new)[n - 1] = LiveTo(es, new)[n - 1]
  <2>1. n - 1 \in 0..Len(fs) /\ n - 1 <= Len(es) BY <1>t DEF n
  <2>2. \A p \in 1..(n - 1) : fs[p] = es[p] BY DEF n
  <2>3. SameSlots(fs, new, es, new, n - 1)
    BY <2>2 DEF SameSlots
  <2>4. es \in Seq(EntryRec) BY <1>t
  <2> HIDE <1>t, <1>1, <1>2, <1>4
  <2> QED BY <2>1, <2>3, <2>4, LiveSame
<1> QED BY <1>1, <1>4, <1>5, <1>6 DEF new

LEMMA LiveRolledBack ==
  ASSUME NEW s \in Scope, NEW i \in Id, NEW v \in Val, IndexOK(entries[s], byID[s])
  PROVE  LET idx == RolledBack(Indexed(s, i, v), i) IN
           Live(idx.entries, idx.byID) \in {Live(entries[s], byID[s]),
                                            Upsert(Live(entries[s], byID[s]), i, v),
                                            Without(Live(entries[s], byID[s]), i)}
<1> DEFINE es == entries[s]
           ids == byID[s]
           e == [id |-> i, val |-> v]
           n == Len(es)
           idx == RolledBack(Indexed(s, i, v), i)
<1>t. es \in Seq(EntryRec) /\ ids \in [Id -> Nat] /\ n \in Nat BY DEF IndexOK
<1>e. e \in EntryRec BY DEF EntryRec
<1>1. CASE ids[i] = 0
  <2> DEFINE fs == Append(es, e)
             new == [ids EXCEPT ![i] = n + 1]
  <2>1. Indexed(s, i, v) = [entries |-> fs, byID |-> new] BY <1>1 DEF Indexed
  <2>2. /\ fs \in Seq(EntryRec) /\ Len(fs) = n + 1 /\ \A q \in 1..n : fs[q] = es[q]
    BY <1>t, <1>e, AppendProperties
  <2>3. new[i] = n + 1 BY <1>t
  <2>4. idx = [entries |-> SubSeq(fs, 1, n), byID |-> [new EXCEPT ![i] = 0]]
    <3> HIDE DEF fs, new
    <3>1. (n + 1) - 1 = n BY <1>t
    <3> DEFINE new2 == [entries |-> fs, byID |-> new]
    <3>2. new2.entries = fs /\ new2.byID = new OBVIOUS
    <3> HIDE DEF new2, n
    <3>3. RolledBack(new2, i) = [entries |-> SubSeq(fs, 1, n), byID |-> [new EXCEPT ![i] = 0]]
      BY <2>2, <2>3, <3>1, <3>2 DEF RolledBack
    <3> QED BY <2>1, <3>3 DEF new2
  <2>5. SubSeq(fs, 1, n) = es
    <3>1. SubSeq(fs, 1, n) = [q \in 1..n |-> fs[(1 + q) - 1]] BY <1>t
    <3>2. es = [q \in 1..n |-> es[q]] BY <1>t
    <3> HIDE DEF fs
    <3>3. \A q \in 1..n : (1 + q) - 1 = q BY <1>t
    <3> QED BY <3>1, <3>2, <3>3, <2>2
  <2>6. [new EXCEPT ![i] = 0] = ids BY <1>t, <1>1
  <2> HIDE DEF fs, new
  <2>7. idx.entries = es /\ idx.byID = ids BY <2>4, <2>5, <2>6
  <2> QED BY <2>7
<1>2. CASE ids[i] # 0
  <2> DEFINE p == ids[i]
             fs == [es EXCEPT ![p] = e]
  <2>1. Indexed(s, i, v) = [entries |-> fs, byID |-> ids] BY <1>2 DEF Indexed
  <2>2. p \in 1..n BY <1>2, <1>t DEF IndexOK
  <2>3. fs \in Seq(EntryRec) /\ Len(fs) = n /\ \A q \in 1..n : q # p => fs[q] = es[q]
    BY <1>t, <1>e, <2>2
  <2>4. CASE p = n
    <3> DEFINE gs == SubSeq(fs, 1, n - 1)
    <3>1. idx = [entries |-> gs, byID |-> [ids EXCEPT ![i] = 0]]
      <4> DEFINE now == [entries |-> fs, byID |-> ids]
      <4>1. now.entries = fs /\ now.byID = ids OBVIOUS
      <4> HIDE DEF fs, now, n
      <4>2. RolledBack(now, i) = [entries |-> SubSeq(fs, 1, n - 1), byID |-> [ids EXCEPT ![i] = 0]]
        BY <2>3, <2>4, <4>1 DEF RolledBack
      <4> QED BY <2>1, <4>2 DEF now
    <3>2. gs \in Seq(EntryRec) /\ Len(gs) = n - 1 /\ \A q \in 1..(n - 1) : gs[q] = es[q]
      <4> HIDE DEF fs
      <4>1. gs = [q \in 1..(n - 1) |-> fs[(1 + q) - 1]] BY <1>t, <2>2, <2>4
      <4>2. \A q \in 1..(n - 1) : (1 + q) - 1 = q /\ q \in 1..n /\ q # n BY <1>t
      <4>3. \A q \in 1..(n - 1) : fs[q] = es[q] /\ es[q] \in EntryRec BY <4>2, <2>3, <2>4, <1>t, ElementOfSeq
      <4>4. n - 1 \in Nat BY <1>t, <2>2
      <4>5. gs = [q \in 1..(n - 1) |-> es[q]] BY <4>1, <4>2, <4>3
      <4> HIDE DEF gs, n
      <4>6. /\ [q \in 1..(n - 1) |-> es[q]] \in Seq(EntryRec)
            /\ Len([q \in 1..(n - 1) |-> es[q]]) = n - 1
        BY <4>3, <4>4, SeqOf
      <4> QED BY <4>5, <4>6
    <3> HIDE DEF gs
    <3>3. Live(gs, [ids EXCEPT ![i] = 0]) = Without(Live(es, ids), i)
      <4>1. IndexOK(es, ids) /\ ids[i] # 0 /\ ids[i] = Len(es) BY <1>2, <2>4
      <4> HIDE DEF es, ids
      <4> QED BY <3>2, <4>1, LiveShortened
    <3>4. idx.entries = gs /\ idx.byID = [ids EXCEPT ![i] = 0] BY <3>1
    <3> QED BY <3>3, <3>4
  <2>5. CASE p # n
    <3>1. idx = Indexed(s, i, v)
      <4> DEFINE now == [entries |-> fs, byID |-> ids]
      <4>1. now.entries = fs /\ now.byID = ids OBVIOUS
      <4> HIDE DEF fs, now, n
      <4>2. RolledBack(now, i) = now BY <2>3, <2>5, <4>1 DEF RolledBack
      <4> QED BY <2>1, <4>2 DEF now
    <3> QED BY <3>1, LiveIndexed
  <2> QED BY <2>4, <2>5
<1> QED BY <1>1, <1>2

------------------------------------------------------------------------------
(* The files. *)

LEMMA ReplayedNothing == Replayed(<<>>) = <<>>
<1>1. Len(<<>>) = 0 OBVIOUS
<1> QED BY <1>1, ReplayIs

LEMMA ReplayedAppend ==
  ASSUME NEW f \in Seq(Line), NEW l \in Line
  PROVE  Replayed(Append(f, l)) = Loaded(Replayed(f), l)
<1> DEFINE g == Append(f, l)
           n == Len(f)
<1>1. /\ n \in Nat /\ Len(g) = n + 1 /\ g[n + 1] = l /\ \A p \in 1..n : f[p] = g[p]
      /\ n + 1 \in 1..(n + 1) /\ (n + 1) - 1 = n /\ n \in 0..n /\ n <= n + 1 /\ n + 1 \in Nat
  BY AppendProperties
<1>2. Replayed(f) = ReplayedTo(f)[n] BY <1>1, ReplayIs
<1> HIDE DEF g, n
<1>3. ReplayedTo(f)[n] = ReplayedTo(g)[n] BY <1>1, ReplayPrefix DEF n
<1>4. /\ \A q \in 1..Len(g) : ReplayedTo(g)[q] = Loaded(ReplayedTo(g)[q - 1], g[q])
      /\ Replayed(g) = ReplayedTo(g)[Len(g)]
  BY <1>1, ReplayIs
<1>5. Replayed(g) = Loaded(ReplayedTo(g)[n], l) BY <1>1, <1>4
<1> QED BY <1>2, <1>3, <1>5 DEF g

LEMMA LoadedIs ==
  /\ \A es, i, v : Loaded(es, PutLine(i, v)) = Upsert(es, i, v)
  /\ \A es, i : Loaded(es, Tombstone(i)) = Without(es, i)
  /\ \A es, l : l.op = "put" => Loaded(es, l) = Upsert(es, l.id, l.val)
  /\ \A es, l : l.op = "del" => Loaded(es, l) = Without(es, l.id)
  /\ \A es, l : l.op = "bad" => Loaded(es, l) = es
<1>1. \A es, i, v : Loaded(es, PutLine(i, v)) = Upsert(es, i, v) BY DEF Loaded, PutLine
<1>2. \A es, i : Loaded(es, Tombstone(i)) = Without(es, i) BY DEF Loaded, Tombstone
<1>3. \A es, l : l.op = "put" => Loaded(es, l) = Upsert(es, l.id, l.val) BY DEF Loaded
<1>4. \A es, l : l.op = "del" => Loaded(es, l) = Without(es, l.id) BY DEF Loaded
<1>5. \A es, l : l.op = "bad" => Loaded(es, l) = es BY DEF Loaded
<1> QED BY <1>1, <1>2, <1>3, <1>4, <1>5

------------------------------------------------------------------------------
(* The invariant: while Open runs, the lists are those of the lines read so far. *)

Listed(s) == Live(entries[s], byID[s])

ListSoFar ==
  /\ pc = "load" => \A s \in Scope : LET d == DirName[s] IN
       /\ d < dir => Listed(s) = Replayed(file[d])
       /\ d = dir => Listed(s) = ReplayedTo(file[d])[row - 1] /\ row <= Len(file[d]) + 1
       /\ d > dir => Listed(s) = <<>>
  /\ pc = "down" => \A s \in Scope : Listed(s) = <<>>

ListInv == DurableInv /\ ListSoFar

LEMMA LiveNothing == ASSUME NEW ids PROVE Live(<<>>, ids) = <<>>
<1>0. <<>> \in Seq(EntryRec) /\ Len(<<>>) = 0 BY EmptySeq
<1>1. PICK es \in Seq(EntryRec) : es = <<>> /\ Len(es) = 0 BY <1>0, Zenon
<1>2. Live(es, ids) = LiveTo(es, ids)[Len(es)] BY LiveIs
<1>3. LiveTo(es, ids)[0] = <<>> BY LiveIs
<1> QED BY <1>1, <1>2, <1>3

LEMMA InitList == Init => ListInv
<1> SUFFICES ASSUME Init PROVE ListInv OBVIOUS
<1>1. DurableInv BY InitDurable
<1>2. \A s \in Scope : entries[s] = <<>> BY DEF Init, InitWith
<1>3. pc = "down" BY DEF Init, InitWith
<1> QED BY <1>1, <1>2, <1>3, LiveNothing DEF ListInv, ListSoFar, Listed

LEMMA DownLists == ASSUME Down PROVE ListSoFar'
<1>1. pc' = "down" /\ \A s \in Scope : entries'[s] = <<>> BY DEF Down, EmptyRam
<1>2. \A s \in Scope : Live(entries'[s], byID'[s]) = <<>> BY <1>1, LiveNothing
<1> QED BY <1>1, <1>2 DEF ListSoFar, Listed

\* A line of the open directory was read.
LEMMA LoadList ==
  ASSUME ListInv, OwnDirs, pc = "load", dir \in Dir, row <= Len(file[dir]),
         UNCHANGED <<pc, dir, file>>, row' = row + 1,
         \A t \in Scope : Live(entries'[t], byID'[t])
           = IF t = ScopeOf(dir) THEN Loaded(Listed(t), file[dir][row]) ELSE Listed(t)
  PROVE  ListSoFar'
<1>i. IndexInv /\ FilesWhole /\ ListSoFar BY DEF ListInv, DurableInv
<1>t. /\ row \in Nat \ {0} /\ (row + 1) - 1 = row /\ file[dir] \in Seq(Line) /\ Len(file[dir]) \in Nat
      /\ row \in 1..Len(file[dir]) /\ row + 1 <= Len(file[dir]) + 1
  BY <1>i DEF IndexInv, TypeOK
<1>0. ReplayedTo(file[dir])[row] = Loaded(ReplayedTo(file[dir])[row - 1], file[dir][row])
  BY <1>t, ReplayIs
<1> SUFFICES ASSUME NEW s \in Scope
             PROVE  LET d == DirName[s] IN
                      /\ d < dir => Live(entries'[s], byID'[s]) = Replayed(file[d])
                      /\ d = dir => /\ Live(entries'[s], byID'[s]) = ReplayedTo(file[d])[row]
                                    /\ row + 1 <= Len(file[d]) + 1
                      /\ d > dir => Live(entries'[s], byID'[s]) = <<>>
  BY <1>t DEF ListSoFar, Listed
<1>1. DirName[s] \in Nat /\ dir \in Nat BY Dirs DEF Dir
<1>2. CASE DirName[s] = dir
  <2>1. ScopeOf(dir) = s BY <1>2, <1>i, ScopeOfOwn DEF OwnDirs
  <2>2. Listed(s) = ReplayedTo(file[dir])[row - 1] BY <1>2, <1>i DEF ListSoFar
  <2>3. Live(entries'[s], byID'[s]) = ReplayedTo(file[dir])[row] BY <1>0, <2>1, <2>2
  <2> QED BY <1>1, <1>2, <1>t, <2>3
<1>3. CASE DirName[s] # dir
  <2>1. ScopeOf(dir) # s BY <1>3, <1>i, ScopeOfOwn
  <2>2. Live(entries'[s], byID'[s]) = Listed(s) BY <2>1
  <2> QED BY <1>1, <1>3, <2>2, <1>i DEF ListSoFar
<1> QED BY <1>2, <1>3

\* What the changes of one scope's index do to the lists.
LEMMA ListsSet ==
  ASSUME IndexInv, NEW s \in Scope, NEW idx, SetIndex(s, idx)
  PROVE  \A t \in Scope : Live(entries'[t], byID'[t])
           = IF t = s THEN Live(idx.entries, idx.byID) ELSE Listed(t)
<1>1. /\ entries' = [entries EXCEPT ![s] = idx.entries] /\ byID' = [byID EXCEPT ![s] = idx.byID]
  BY DEF SetIndex
<1>t. entries \in [Scope -> Seq(EntryRec)] /\ byID \in [Scope -> [Id -> Nat]]
  BY DEF IndexInv, TypeOK, EntryRec
<1> SUFFICES ASSUME NEW t \in Scope
             PROVE  Live(entries'[t], byID'[t])
                      = IF t = s THEN Live(idx.entries, idx.byID) ELSE Live(entries[t], byID[t])
  BY DEF Listed
<1>2. CASE t = s
  <2>1. entries'[t] = idx.entries /\ byID'[t] = idx.byID BY <1>1, <1>2, <1>t
  <2> QED BY <2>1, <1>2
<1>3. CASE t # s
  <2>1. entries'[t] = entries[t] /\ byID'[t] = byID[t] BY <1>1, <1>3, <1>t
  <2> QED BY <2>1, <1>3
<1> QED BY <1>2, <1>3

LEMMA ListsDrop ==
  ASSUME IndexInv, NEW s \in Scope, NEW i \in Id, byID' = [byID EXCEPT ![s][i] = 0], entries' = entries
  PROVE  \A t \in Scope : Live(entries'[t], byID'[t])
           = IF t = s THEN Without(Listed(t), i) ELSE Listed(t)
<1>t. byID \in [Scope -> [Id -> Nat]] BY DEF IndexInv, TypeOK
<1> SUFFICES ASSUME NEW t \in Scope
             PROVE  Live(entries[t], byID'[t])
                      = IF t = s THEN Without(Live(entries[t], byID[t]), i) ELSE Live(entries[t], byID[t])
  BY DEF Listed
<1>1. CASE t = s
  <2>1. byID'[t] = [byID[t] EXCEPT ![i] = 0] BY <1>1, <1>t
  <2>2. IndexOK(entries[t], byID[t]) BY ScopeIndexOK
  <2>3. Live(entries[t], [byID[t] EXCEPT ![i] = 0]) = Without(Live(entries[t], byID[t]), i)
    BY <2>2, LiveDropped
  <2> QED BY <1>1, <2>1, <2>3
<1>2. CASE t # s
  <2>1. byID'[t] = byID[t] BY <1>2, <1>t
  <2> QED BY <2>1, <1>2
<1> QED BY <1>1, <1>2

LEMMA ListsOpen ==
  ASSUME ListInv, OwnDirs, OpenFileStore \/ Open
  PROVE  ListSoFar'
<1>i. IndexInv /\ FilesWhole /\ ListSoFar /\ DownEmpty BY DEF ListInv, DurableInv
<1>t. /\ dir \in 1..(NDirs + 1) /\ row \in Nat \ {0} /\ NDirs \in Nat
      /\ file \in [Dir -> Seq(Line)]
  BY <1>i, Dirs DEF IndexInv, TypeOK
<1> DEFINE l == file[dir][row]
           sc == ScopeOf(dir)
<1>l. ASSUME dir \in Dir, row <= Len(file[dir]) PROVE l \in Line /\ sc \in Scope
  <2>1. row \in 1..Len(file[dir]) BY <1>l, <1>t
  <2> QED BY <1>l, <2>1, <1>t, <1>i, ScopeOfOwn
<1> HIDE DEF l, sc
<1>1. CASE OpenFileStore
  <2>1. pc = "down" /\ pc' = "load" /\ UNCHANGED <<dir, row, entries, byID, file>>
    BY <1>1 DEF OpenFileStore, ram, disk
  <2>2. dir = 1 /\ row = 1 BY <2>1, <1>i DEF DownEmpty
  <2>3. \A s \in Scope : Live(entries[s], byID[s]) = <<>> BY <2>1, <1>i DEF ListSoFar, Listed
  <2>4. \A s \in Scope : /\ DirName[s] \in Nat /\ ~(DirName[s] < 1) /\ Len(file[DirName[s]]) \in Nat
                         /\ ReplayedTo(file[DirName[s]])[0] = <<>>
    <3> SUFFICES ASSUME NEW s \in Scope
                 PROVE  /\ DirName[s] \in Nat /\ ~(DirName[s] < 1) /\ Len(file[DirName[s]]) \in Nat
                        /\ ReplayedTo(file[DirName[s]])[0] = <<>>
      OBVIOUS
    <3>1. DirName[s] \in Dir BY Dirs
    <3>2. Len(file[DirName[s]]) \in Nat BY <3>1, <1>t
    <3> QED BY <3>1, <3>2, <1>t, ReplayIs DEF Dir
  <2>5. 1 - 1 = 0 /\ \A n \in Nat : 1 <= n + 1 OBVIOUS
  <2> QED BY <2>1, <2>2, <2>3, <2>4, <2>5 DEF ListSoFar, Listed
<1>2. CASE LoadPut
  <2>1. /\ pc = "load" /\ dir \in Dir /\ row <= Len(file[dir]) /\ l.op = "put"
        /\ SetIndex(sc, Indexed(sc, l.id, l.val)) /\ row' = row + 1
        /\ UNCHANGED <<pc, dir, file>>
    BY <1>2 DEF LoadPut, l, sc, disk
  <2>2. l \in Line /\ sc \in Scope BY <2>1, <1>l
  <2>3. l.id \in Id /\ l.val \in Val BY <2>1, <2>2 DEF Line
  <2>4. IndexOK(entries[sc], byID[sc]) BY <2>2, <1>i, ScopeIndexOK
  <2>5. Live(Indexed(sc, l.id, l.val).entries, Indexed(sc, l.id, l.val).byID) = Loaded(Listed(sc), l)
    BY <2>1, <2>2, <2>3, <2>4, LiveIndexed, LoadedIs DEF Listed
  <2>6. \A t \in Scope : Live(entries'[t], byID'[t]) = IF t = sc THEN Loaded(Listed(t), l) ELSE Listed(t)
    BY <2>1, <2>2, <2>5, <1>i, ListsSet
  <2> QED BY <2>1, <2>6, LoadList DEF l, sc
<1>3. CASE LoadTombstone
  <2>1. /\ pc = "load" /\ dir \in Dir /\ row <= Len(file[dir]) /\ l.op = "del"
        /\ byID' = [byID EXCEPT ![sc][l.id] = 0] /\ entries' = entries /\ row' = row + 1
        /\ UNCHANGED <<pc, dir, file>>
    BY <1>3 DEF LoadTombstone, l, sc, disk
  <2>2. l \in Line /\ sc \in Scope BY <2>1, <1>l
  <2>3. l.id \in Id BY <2>1, <2>2 DEF Line
  <2>4. PICK s \in Scope, i \in Id : s = sc /\ i = l.id BY <2>2, <2>3
  <2>5. byID' = [byID EXCEPT ![s][i] = 0] BY <2>1, <2>4
  <2>6. \A t \in Scope : Live(entries'[t], byID'[t]) = IF t = s THEN Without(Listed(t), i) ELSE Listed(t)
    BY <2>1, <2>5, <1>i, ListsDrop
  <2>7. \A t \in Scope : Live(entries'[t], byID'[t]) = IF t = sc THEN Loaded(Listed(t), l) ELSE Listed(t)
    BY <2>1, <2>4, <2>6, LoadedIs
  <2> QED BY <2>1, <2>7, LoadList DEF l, sc
<1>4. CASE LoadBad
  <2>1. /\ pc = "load" /\ dir \in Dir /\ row <= Len(file[dir]) /\ l.op = "bad"
        /\ byID' = byID /\ entries' = entries /\ row' = row + 1
        /\ UNCHANGED <<pc, dir, file>>
    BY <1>4 DEF LoadBad, l, sc, disk
  <2>2. \A t \in Scope : Live(entries'[t], byID'[t]) = Listed(t) BY <2>1 DEF Listed
  <2>3. \A t \in Scope : Live(entries'[t], byID'[t]) = IF t = sc THEN Loaded(Listed(t), l) ELSE Listed(t)
    BY <2>1, <2>2, LoadedIs
  <2> QED BY <2>1, <2>3, LoadList DEF l, sc
<1>5. CASE LoadTooLong \/ LoadMetaErr BY <1>5, DownLists DEF LoadTooLong, LoadMetaErr
<1>6. CASE LoadDone
  <2>1. /\ pc = "load" /\ pc' = "load" /\ dir \in Dir /\ row > Len(file[dir]) /\ dir' = dir + 1 /\ row' = 1
        /\ UNCHANGED <<entries, byID, file>>
    BY <1>6 DEF LoadDone
  <2> SUFFICES ASSUME NEW s \in Scope
               PROVE  LET d == DirName[s] IN
                        /\ d < dir + 1 => Listed(s) = Replayed(file[d])
                        /\ d = dir + 1 => Listed(s) = ReplayedTo(file[d])[1 - 1] /\ 1 <= Len(file[d]) + 1
                        /\ d > dir + 1 => Listed(s) = <<>>
    BY <2>1 DEF ListSoFar, Listed
  <2>2. DirName[s] \in Dir BY Dirs
  <2>3. DirName[s] \in Nat /\ Len(file[DirName[s]]) \in Nat /\ dir \in Nat BY <2>2, <2>1, <1>t DEF Dir
  <2>4. CASE DirName[s] < dir BY <2>3, <2>4, <2>1, <1>i DEF ListSoFar
  <2>5. CASE DirName[s] = dir
    <3>1. Listed(s) = ReplayedTo(file[dir])[row - 1] /\ row <= Len(file[dir]) + 1
      BY <2>5, <2>1, <1>i DEF ListSoFar
    <3>2. row - 1 = Len(file[dir]) BY <3>1, <2>3, <2>5, <2>1, <1>t
    <3>3. Replayed(file[dir]) = ReplayedTo(file[dir])[Len(file[dir])] BY <2>3, <2>5, ReplayIs
    <3> QED BY <3>1, <3>2, <3>3, <2>3, <2>5
  <2>6. CASE DirName[s] > dir
    <3>1. Listed(s) = <<>> BY <2>6, <2>1, <1>i DEF ListSoFar
    <3>2. 1 - 1 = 0 /\ 1 <= Len(file[DirName[s]]) + 1 /\ ~(DirName[s] < dir + 1) BY <2>3, <2>6
    <3>3. ReplayedTo(file[DirName[s]])[0] = <<>> BY <2>3, ReplayIs
    <3> QED BY <3>1, <3>2, <3>3
  <2> QED BY <2>3, <2>4, <2>5, <2>6
<1>7. CASE Opened
  <2>1. pc' = "open" BY <1>7 DEF Opened
  <2> QED BY <2>1 DEF ListSoFar
<1> QED BY <1>1, <1>2, <1>3, <1>4, <1>5, <1>6, <1>7 DEF Open

LEMMA ListStep == ASSUME NoTear, OwnDirs PROVE ListInv /\ [Next]_vars => ListInv'
<1> SUFFICES ASSUME ListInv, [Next]_vars PROVE ListInv' OBVIOUS
<1>1. DurableInv' BY DurableStep DEF ListInv
<1>2. CASE UNCHANGED vars
  <2>1. UNCHANGED <<pc, dir, row, entries, byID, file>> BY <1>2 DEF vars, ram, disk
  <2>2. ListSoFar' BY <2>1 DEF ListInv, ListSoFar, Listed
  <2> QED BY <1>1, <2>2 DEF ListInv
<1>3. CASE OpenFileStore \/ Open
  <2>1. ListSoFar' BY <1>3, ListsOpen
  <2> QED BY <1>1, <2>1 DEF ListInv
<1>4. CASE Close \/ Crash
  <2>1. ListSoFar' BY <1>4, DownLists DEF Close, Crash
  <2> QED BY <1>1, <2>1 DEF ListInv
<1>5. ASSUME NEW s \in Scope, NEW i \in Id, CrashInDelete(s, i) \/ \E v \in Val : CrashInPut(s, i, v)
      PROVE  ListInv'
  <2>1. Down BY <1>5 DEF CrashInDelete, CrashInPut, DieInCall
  <2>2. ListSoFar' BY <2>1, DownLists
  <2> QED BY <1>1, <2>2 DEF ListInv
<1>6. ASSUME NEW s \in Scope, NEW i \in Id,
             \/ DeleteOk(s, i) \/ DeleteUnknown(s, i) \/ DeleteAppendErr(s, i) \/ DeleteMetaErr(s, i)
             \/ \E v \in Val : PutOk(s, i, v) \/ PutAppendErr(s, i, v) \/ PutMetaErr(s, i, v)
      PROVE  ListInv'
  <2>1. pc' = "open"
    BY <1>6 DEF DeleteOk, DeleteUnknown, DeleteAppendErr, DeleteMetaErr, PutOk, PutAppendErr, PutMetaErr
  <2>2. ListSoFar' BY <2>1 DEF ListSoFar
  <2> QED BY <1>1, <2>2 DEF ListInv
<1> QED BY <1>2, <1>3, <1>4, <1>5, <1>6 DEF Next

------------------------------------------------------------------------------
(* Every step of FileStore is a step of DurableStore or a stutter. *)

LEMMA SameLists ==
  /\ \A es, i, v : Abstract!Upsert(es, i, v) = Upsert(es, i, v)
  /\ \A es, i : Abstract!Without(es, i) = Without(es, i)
<1>1. \A es, i, v : Abstract!Upsert(es, i, v) = Upsert(es, i, v)
  BY DEF Abstract!Upsert, Abstract!Holds, Upsert, Holds
<1>2. \A es, i : Abstract!Without(es, i) = Without(es, i)
  BY DEF Abstract!Without, Abstract!Selected, Without, Selected
<1> QED BY <1>1, <1>2

\* The abstract state, step by step.
Shown(s) == IF pc = "open" THEN Listed(s) ELSE <<>>
Kept(s) == Replayed(file[DirName[s]])

LEMMA AbstractIs ==
  ASSUME DurableInv, OwnDirs
  PROVE  AbstractVisible = [s \in Scope |-> Shown(s)] /\ AbstractDurable = [s \in Scope |-> Kept(s)]
<1>1. ASSUME NEW s \in Scope PROVE ScopeOf(DirName[s]) = s
  <2>1. DirName[s] \in Dir /\ IndexInv /\ FilesWhole BY Dirs DEF DurableInv
  <2> QED BY <2>1, ScopeOfOwn DEF OwnDirs
<1> QED BY <1>1 DEF AbstractVisible, AbstractDurable, Shown, Kept, Listed

LEMMA AbstractIsNext ==
  ASSUME DurableInv', OwnDirs
  PROVE  AbstractVisible' = [s \in Scope |-> Shown(s)'] /\ AbstractDurable' = [s \in Scope |-> Kept(s)']
<1>1. ASSUME NEW s \in Scope PROVE ScopeOf(DirName[s])' = s
  <2>1. DirName[s] \in Dir BY Dirs
  <2>2. /\ meta'[DirName[s]].scope \in Scope \cup {None}
        /\ meta'[DirName[s]].scope # None => DirName[meta'[DirName[s]].scope] = DirName[s]
    BY <2>1 DEF DurableInv, FilesWhole, IndexInv, TypeOK
  <2>3. NameScope[DirName[s]] \in Scope /\ DirName[NameScope[DirName[s]]] = DirName[s]
    BY <2>1, DirsAssumption
  <2> QED BY <2>2, <2>3 DEF ScopeOf, OwnDirs
<1> QED BY <1>1 DEF AbstractVisible, AbstractDurable, Shown, Kept, Listed

\* What a call on scope s may leave of the abstract state.
Call(s, seen, kept) ==
  /\ pc = "open" /\ pc' = "open"
  /\ \A t \in Scope : Shown(t)' = IF t = s THEN seen ELSE Shown(t)
  /\ \A t \in Scope : Kept(t)' = IF t = s THEN kept ELSE Kept(t)

LEMMA AbstractCall ==
  ASSUME DurableInv, DurableInv', OwnDirs, NEW s \in Scope, NEW seen, NEW kept, Call(s, seen, kept)
  PROVE  /\ AbstractVisible' = [AbstractVisible EXCEPT ![s] = seen]
         /\ AbstractDurable' = [AbstractDurable EXCEPT ![s] = kept]
<1>1. /\ AbstractVisible = [t \in Scope |-> Shown(t)] /\ AbstractDurable = [t \in Scope |-> Kept(t)]
  BY AbstractIs
<1>2. /\ AbstractVisible' = [t \in Scope |-> Shown(t)'] /\ AbstractDurable' = [t \in Scope |-> Kept(t)']
  BY AbstractIsNext
<1>3. AbstractVisible' = [t \in Scope |-> IF t = s THEN seen ELSE Shown(t)] BY <1>2 DEF Call
<1>4. AbstractDurable' = [t \in Scope |-> IF t = s THEN kept ELSE Kept(t)] BY <1>2 DEF Call
<1>5. AbstractVisible' = [AbstractVisible EXCEPT ![s] = seen] BY <1>1, <1>3
<1>6. AbstractDurable' = [AbstractDurable EXCEPT ![s] = kept] BY <1>1, <1>4
<1> QED BY <1>5, <1>6

\* The files of the other scopes stay; the one of s gets the line, or nothing.
LEMMA KeptAppend ==
  ASSUME IndexInv, NoTear, OwnDirs, FilesWhole, NEW s \in Scope, NEW l \in Line, NEW o \in Appends,
         AppendLine(DirName[s], l, o)
  PROVE  \E kept : /\ \A t \in Scope : Kept(t)' = IF t = s THEN kept ELSE Kept(t)
                   /\ kept \in {Kept(s), Loaded(Kept(s), l)}
                   /\ o = "ok" => kept = Loaded(Kept(s), l)
<1>t. file \in [Dir -> Seq(Line)] /\ \A t \in Scope : DirName[t] \in Dir BY Dirs DEF IndexInv, TypeOK
<1>1. \/ file' = file /\ o # "ok"
      \/ file' = [file EXCEPT ![DirName[s]] = Append(file[DirName[s]], l)]
  BY WholeAppend
<1>k. \A t \in Scope : Kept(t)' = Replayed(file'[DirName[t]]) /\ Kept(t) = Replayed(file[DirName[t]])
  BY DEF Kept
<1>2. CASE file' = file /\ o # "ok"
  <2>1. \A t \in Scope : Kept(t)' = IF t = s THEN Kept(s) ELSE Kept(t) BY <1>2, <1>k
  <2> QED BY <1>2, <2>1
<1>3. CASE file' = [file EXCEPT ![DirName[s]] = Append(file[DirName[s]], l)]
  <2>1. file'[DirName[s]] = Append(file[DirName[s]], l) BY <1>3, <1>t
  <2>2. Replayed(file'[DirName[s]]) = Loaded(Kept(s), l) BY <2>1, <1>t, <1>k, ReplayedAppend
  <2>3. \A t \in Scope : t # s => file'[DirName[t]] = file[DirName[t]] BY <1>3, <1>t DEF OwnDirs
  <2>4. \A t \in Scope : Kept(t)' = IF t = s THEN Loaded(Kept(s), l) ELSE Kept(t) BY <2>2, <2>3, <1>k
  <2> QED BY <2>4
<1> QED BY <1>1, <1>2, <1>3

LEMMA ShownSet ==
  ASSUME IndexInv, pc = "open", pc' = "open", NEW s \in Scope, NEW idx, SetIndex(s, idx)
  PROVE  \A t \in Scope : Shown(t)' = IF t = s THEN Live(idx.entries, idx.byID) ELSE Shown(t)
<1>1. \A t \in Scope : Live(entries'[t], byID'[t]) = IF t = s THEN Live(idx.entries, idx.byID) ELSE Listed(t)
  BY ListsSet
<1>2. \A t \in Scope : Shown(t)' = Live(entries'[t], byID'[t]) /\ Shown(t) = Listed(t) BY DEF Shown, Listed
<1> QED BY <1>1, <1>2

LEMMA ShownDrop ==
  ASSUME IndexInv, pc = "open", pc' = "open", NEW s \in Scope, NEW i \in Id,
         byID' = [byID EXCEPT ![s][i] = 0], entries' = entries
  PROVE  \A t \in Scope : Shown(t)' = IF t = s THEN Without(Shown(s), i) ELSE Shown(t)
<1>1. \A t \in Scope : Live(entries'[t], byID'[t]) = IF t = s THEN Without(Listed(t), i) ELSE Listed(t)
  BY ListsDrop
<1>2. \A t \in Scope : Shown(t)' = Live(entries'[t], byID'[t]) /\ Shown(t) = Listed(t) BY DEF Shown, Listed
<1> QED BY <1>1, <1>2

LEMMA PutImplements ==
  ASSUME DurableInv, DurableInv', NoTear, OwnDirs, NEW s \in Scope, NEW i \in Id, NEW v \in Val,
         PutOk(s, i, v) \/ PutAppendErr(s, i, v) \/ PutMetaErr(s, i, v)
  PROVE  Abstract!Put(s, i, v) \/ Abstract!PutFails(s, i, v)
<1> DEFINE l == PutLine(i, v)
<1>i. IndexInv /\ FilesWhole BY DEF DurableInv
<1>l. l \in Line /\ \A es : Loaded(es, l) = Upsert(es, i, v) BY LinesType, LoadedIs
<1>x. IndexOK(entries[s], byID[s]) BY <1>i, ScopeIndexOK
<1>o. "ok" \in Appends BY DEF Appends
<1>v. pc = "open" => Listed(s) = Shown(s) /\ Shown(s) = AbstractVisible[s] BY AbstractIs DEF Shown
<1>d. Kept(s) = AbstractDurable[s] BY AbstractIs
<1> HIDE DEF l
<1>1. CASE PutOk(s, i, v) \/ PutMetaErr(s, i, v)
  <2>1. /\ pc = "open" /\ pc' = "open" /\ SetIndex(s, Indexed(s, i, v)) /\ AppendLine(DirName[s], l, "ok")
    BY <1>1 DEF PutOk, PutMetaErr, l
  <2>2. \A t \in Scope : Shown(t)' = IF t = s THEN Upsert(Shown(s), i, v) ELSE Shown(t)
    BY <2>1, <1>i, <1>x, <1>v, ShownSet, LiveIndexed DEF Listed
  <2>3. \A t \in Scope : Kept(t)' = IF t = s THEN Upsert(Kept(s), i, v) ELSE Kept(t)
    BY <2>1, <1>i, <1>l, <1>o, KeptAppend
  <2>4. Call(s, Upsert(Shown(s), i, v), Upsert(Kept(s), i, v)) BY <2>1, <2>2, <2>3 DEF Call
  <2>5. /\ AbstractVisible' = [AbstractVisible EXCEPT ![s] = Upsert(AbstractVisible[s], i, v)]
        /\ AbstractDurable' = [AbstractDurable EXCEPT ![s] = Upsert(AbstractDurable[s], i, v)]
    BY <2>1, <2>4, <1>v, <1>d, AbstractCall
  <2> QED BY <2>1, <2>5, SameLists DEF Abstract!Put
<1>2. CASE PutAppendErr(s, i, v)
  <2>1. /\ pc = "open" /\ pc' = "open" /\ SetIndex(s, RolledBack(Indexed(s, i, v), i))
    BY <1>2 DEF PutAppendErr
  <2>o. PICK o \in Appends : AppendLine(DirName[s], l, o) BY <1>2 DEF PutAppendErr, l
  <2> DEFINE idx == RolledBack(Indexed(s, i, v), i)
             seen == Live(idx.entries, idx.byID)
  <2>2. seen \in {Shown(s), Upsert(Shown(s), i, v), Without(Shown(s), i)}
    BY <2>1, <1>x, <1>v, LiveRolledBack DEF Listed
  <2>3. \A t \in Scope : Shown(t)' = IF t = s THEN seen ELSE Shown(t) BY <2>1, <1>i, ShownSet
  <2> HIDE DEF seen, idx
  <2>4. PICK kept : /\ \A t \in Scope : Kept(t)' = IF t = s THEN kept ELSE Kept(t)
                    /\ kept \in {Kept(s), Upsert(Kept(s), i, v)}
    BY <2>o, <1>i, <1>l, KeptAppend
  <2>5. Call(s, seen, kept) BY <2>1, <2>3, <2>4 DEF Call
  <2>6. /\ AbstractVisible' = [AbstractVisible EXCEPT ![s] = seen]
        /\ AbstractDurable' = [AbstractDurable EXCEPT ![s] = kept]
    BY <2>5, AbstractCall
  <2>7. /\ seen \in {AbstractVisible[s], Abstract!Upsert(AbstractVisible[s], i, v),
                     Abstract!Without(AbstractVisible[s], i)}
        /\ kept \in {AbstractDurable[s], Abstract!Upsert(AbstractDurable[s], i, v)}
    BY <2>1, <2>2, <2>4, <1>v, <1>d, SameLists
  <2> QED BY <2>1, <2>6, <2>7 DEF Abstract!PutFails
<1> QED BY <1>1, <1>2

LEMMA DeleteImplements ==
  ASSUME DurableInv, DurableInv', NoTear, OwnDirs, NEW s \in Scope, NEW i \in Id,
         DeleteOk(s, i) \/ DeleteAppendErr(s, i) \/ DeleteMetaErr(s, i)
  PROVE  Abstract!Delete(s, i) \/ Abstract!DeleteFails(s, i)
<1> DEFINE l == Tombstone(i)
<1>i. IndexInv /\ FilesWhole BY DEF DurableInv
<1>l. l \in Line /\ \A es : Loaded(es, l) = Without(es, i) BY LinesType, LoadedIs
<1>o. "ok" \in Appends BY DEF Appends
<1>v. Shown(s) = AbstractVisible[s] BY AbstractIs
<1>d. Kept(s) = AbstractDurable[s] BY AbstractIs
<1> HIDE DEF l
<1>1. CASE DeleteOk(s, i) \/ DeleteMetaErr(s, i)
  <2>1. /\ pc = "open" /\ pc' = "open" /\ byID' = [byID EXCEPT ![s][i] = 0] /\ entries' = entries
        /\ AppendLine(DirName[s], l, "ok")
    BY <1>1 DEF DeleteOk, DeleteMetaErr, l
  <2>2. \A t \in Scope : Shown(t)' = IF t = s THEN Without(Shown(s), i) ELSE Shown(t)
    BY <2>1, <1>i, ShownDrop
  <2>3. \A t \in Scope : Kept(t)' = IF t = s THEN Without(Kept(s), i) ELSE Kept(t)
    BY <2>1, <1>i, <1>l, <1>o, KeptAppend
  <2>4. Call(s, Without(Shown(s), i), Without(Kept(s), i)) BY <2>1, <2>2, <2>3 DEF Call
  <2>5. /\ AbstractVisible' = [AbstractVisible EXCEPT ![s] = Without(AbstractVisible[s], i)]
        /\ AbstractDurable' = [AbstractDurable EXCEPT ![s] = Without(AbstractDurable[s], i)]
    BY <2>1, <2>4, <1>v, <1>d, AbstractCall
  <2> QED BY <2>1, <2>5, SameLists DEF Abstract!Delete
<1>2. CASE DeleteAppendErr(s, i)
  <2>1. pc = "open" /\ pc' = "open" /\ byID' = byID /\ entries' = entries BY <1>2 DEF DeleteAppendErr
  <2>o. PICK o \in Appends : AppendLine(DirName[s], l, o) BY <1>2 DEF DeleteAppendErr, l
  <2>2. \A t \in Scope : Shown(t)' = IF t = s THEN Shown(s) ELSE Shown(t) BY <2>1 DEF Shown, Listed
  <2>4. PICK kept : /\ \A t \in Scope : Kept(t)' = IF t = s THEN kept ELSE Kept(t)
                    /\ kept \in {Kept(s), Without(Kept(s), i)}
    BY <2>o, <1>i, <1>l, KeptAppend
  <2>5. Call(s, Shown(s), kept) BY <2>1, <2>2, <2>4 DEF Call
  <2>6. /\ AbstractVisible' = [AbstractVisible EXCEPT ![s] = AbstractVisible[s]]
        /\ AbstractDurable' = [AbstractDurable EXCEPT ![s] = kept]
    BY <2>5, <1>v, AbstractCall
  <2>7. kept \in {AbstractDurable[s], Abstract!Without(AbstractDurable[s], i)}
    BY <2>4, <1>d, SameLists
  <2> QED BY <2>1, <2>6, <2>7 DEF Abstract!DeleteFails
<1> QED BY <1>1, <1>2

LEMMA NotOpen ==
  ASSUME DurableInv', OwnDirs, pc' # "open"
  PROVE  AbstractVisible' = Abstract!Empty
<1>1. \A s \in Scope : Shown(s)' = <<>> BY DEF Shown
<1>2. AbstractVisible' = [s \in Scope |-> Shown(s)'] BY AbstractIsNext
<1>3. AbstractVisible' = [s \in Scope |-> <<>>] BY <1>1, <1>2
<1> QED BY <1>3 DEF Abstract!Empty

LEMMA FilesStay ==
  ASSUME DurableInv, DurableInv', OwnDirs, file' = file
  PROVE  AbstractDurable' = AbstractDurable
<1>1. \A s \in Scope : Kept(s)' = Kept(s) BY DEF Kept
<1>2. AbstractDurable' = [s \in Scope |-> Kept(s)'] BY AbstractIsNext
<1>3. AbstractDurable = [s \in Scope |-> Kept(s)] BY AbstractIs
<1> QED BY <1>1, <1>2, <1>3

LEMMA VisibleStays ==
  ASSUME DurableInv, DurableInv', OwnDirs,
         (pc = "open" <=> pc' = "open"), pc = "open" => UNCHANGED <<entries, byID>>
  PROVE  AbstractVisible' = AbstractVisible
<1>1. \A s \in Scope : Shown(s)' = Shown(s)
  <2>1. CASE pc = "open" BY <2>1 DEF Shown, Listed
  <2>2. CASE pc # "open" BY <2>2 DEF Shown
  <2> QED BY <2>1, <2>2
<1>2. AbstractVisible' = [s \in Scope |-> Shown(s)'] BY AbstractIsNext
<1>3. AbstractVisible = [s \in Scope |-> Shown(s)] BY AbstractIs
<1> QED BY <1>1, <1>2, <1>3

LEMMA DieImplements ==
  ASSUME DurableInv, DurableInv', NoTear, OwnDirs, NEW s \in Scope, NEW i \in Id,
         CrashInDelete(s, i) \/ \E v \in Val : CrashInPut(s, i, v)
  PROVE  \E v \in Val : Abstract!Dies(s, i, v)
<1>i. IndexInv /\ FilesWhole BY DEF DurableInv
<1>d. Kept(s) = AbstractDurable[s] BY AbstractIs
<1>1. ASSUME NEW l \in Line, NEW v \in Val, DieInCall(s, i, l),
             Loaded(Kept(s), l) \in {Upsert(Kept(s), i, v), Without(Kept(s), i)}
      PROVE  Abstract!Dies(s, i, v)
  <2>1. pc = "open" /\ pc' = "down" BY <1>1 DEF DieInCall, Down
  <2>2. PICK o \in Appends : AppendLine(DirName[s], l, o) BY <1>1 DEF DieInCall
  <2>3. PICK kept : /\ \A t \in Scope : Kept(t)' = IF t = s THEN kept ELSE Kept(t)
                    /\ kept \in {Kept(s), Loaded(Kept(s), l)}
    BY <2>2, <1>i, KeptAppend
  <2>4. AbstractDurable' = [AbstractDurable EXCEPT ![s] = kept]
    <3>1. AbstractDurable' = [t \in Scope |-> Kept(t)'] BY AbstractIsNext
    <3>2. AbstractDurable = [t \in Scope |-> Kept(t)] BY AbstractIs
    <3>3. AbstractDurable' = [t \in Scope |-> IF t = s THEN kept ELSE Kept(t)] BY <3>1, <2>3
    <3> QED BY <3>2, <3>3
  <2>5. AbstractVisible' = Abstract!Empty BY <2>1, NotOpen
  <2>6. kept \in {AbstractDurable[s], Abstract!Upsert(AbstractDurable[s], i, v),
                  Abstract!Without(AbstractDurable[s], i)}
    BY <2>3, <1>1, <1>d, SameLists
  <2> QED BY <2>1, <2>4, <2>5, <2>6 DEF Abstract!Dies
<1>2. CASE \E v \in Val : CrashInPut(s, i, v)
  <2>1. PICK v \in Val : DieInCall(s, i, PutLine(i, v)) BY <1>2 DEF CrashInPut
  <2>2. PutLine(i, v) \in Line /\ Loaded(Kept(s), PutLine(i, v)) = Upsert(Kept(s), i, v)
    BY LinesType, LoadedIs
  <2> QED BY <1>1, <2>1, <2>2
<1>3. CASE CrashInDelete(s, i)
  <2>1. DieInCall(s, i, Tombstone(i)) /\ byID[s][i] # 0 BY <1>3 DEF CrashInDelete
  <2>2. Tombstone(i) \in Line /\ Loaded(Kept(s), Tombstone(i)) = Without(Kept(s), i)
    BY LinesType, LoadedIs
  <2>3. PICK v : v \in Val
    <3>1. IndexOK(entries[s], byID[s]) BY <1>i, ScopeIndexOK
    <3>2. byID[s][i] \in 1..Len(entries[s]) /\ entries[s] \in Seq(EntryRec) BY <2>1, <3>1 DEF IndexOK
    <3>3. entries[s][byID[s][i]] \in EntryRec BY <3>2, ElementOfSeq
    <3>4. entries[s][byID[s][i]].val \in Val BY <3>3 DEF EntryRec
    <3> QED BY <3>4
  <2> QED BY <1>1, <2>1, <2>2, <2>3
<1> QED BY <1>2, <1>3

LEMMA StopImplements ==
  ASSUME DurableInv, DurableInv', OwnDirs, Close \/ Crash
  PROVE  Abstract!Stop \/ UNCHANGED Abstract!vars
<1>1. pc' = "down" /\ file' = file BY DEF Close, Crash, Down, disk
<1>2. AbstractDurable' = AbstractDurable BY <1>1, FilesStay
<1>3. CASE pc = "open"
  <2>1. AbstractVisible' = Abstract!Empty BY <1>1, NotOpen
  <2> QED BY <1>1, <1>2, <1>3, <2>1 DEF Abstract!Stop
<1>4. CASE pc # "open"
  <2>1. AbstractVisible' = AbstractVisible BY <1>1, <1>4, VisibleStays
  <2> QED BY <1>1, <1>2, <1>4, <2>1 DEF Abstract!vars
<1> QED BY <1>3, <1>4

LEMMA OpenImplements ==
  ASSUME ListInv, DurableInv', OwnDirs, OpenFileStore \/ Open
  PROVE  Abstract!Open \/ UNCHANGED Abstract!vars
<1>i. DurableInv /\ ListSoFar BY DEF ListInv
<1>f. file' = file
  BY DEF Open, OpenFileStore, LoadPut, LoadTombstone, LoadBad, LoadTooLong, LoadDone, LoadMetaErr, Opened, disk
<1>2. AbstractDurable' = AbstractDurable BY <1>i, <1>f, FilesStay
<1>3. CASE Opened
  <2>1. pc = "load" /\ pc' = "open" /\ dir \notin Dir /\ UNCHANGED <<entries, byID>> BY <1>3 DEF Opened, ram
  <2>2. ASSUME NEW s \in Scope PROVE Shown(s)' = Kept(s)
    <3>1. DirName[s] \in Dir /\ dir \in 1..(NDirs + 1) /\ NDirs \in Nat
      BY <1>i, Dirs DEF DurableInv, IndexInv, TypeOK
    <3>2. DirName[s] < dir BY <3>1, <2>1 DEF Dir
    <3>3. Listed(s) = Replayed(file[DirName[s]]) BY <2>1, <3>2, <1>i DEF ListSoFar
    <3> QED BY <3>3, <2>1 DEF Shown, Listed, Kept
  <2>3. AbstractVisible' = [s \in Scope |-> Shown(s)'] BY AbstractIsNext
  <2>4. AbstractDurable = [s \in Scope |-> Kept(s)] BY <1>i, AbstractIs
  <2>5. AbstractVisible' = AbstractDurable BY <2>2, <2>3, <2>4
  <2> QED BY <1>2, <2>1, <2>5 DEF Abstract!Open
<1>4. CASE ~Opened
  <2>1. pc # "open" /\ pc' # "open"
    BY <1>4 DEF Open, OpenFileStore, LoadPut, LoadTombstone, LoadBad, LoadTooLong, LoadDone, LoadMetaErr, Down
  <2>2. AbstractVisible' = AbstractVisible BY <1>i, <2>1, VisibleStays
  <2> QED BY <1>2, <2>1, <2>2 DEF Abstract!vars
<1> QED BY <1>3, <1>4

LEMMA InitImplements == ASSUME Init, OwnDirs PROVE Abstract!Init
<1>1. DurableInv BY InitDurable
<1>2. pc = "down" /\ \A s \in Scope : file[DirName[s]] = <<>> BY Dirs DEF Init, InitWith
<1>3. \A s \in Scope : Shown(s) = <<>> /\ Kept(s) = <<>> BY <1>2, ReplayedNothing DEF Shown, Kept
<1>4. AbstractVisible = [s \in Scope |-> <<>>] /\ AbstractDurable = [s \in Scope |-> <<>>]
  BY <1>1, <1>3, AbstractIs
<1> QED BY <1>2, <1>4 DEF Abstract!Init, Abstract!Empty

LEMMA StepImplements ==
  ASSUME NoTear, OwnDirs, ListInv, ListInv', [Next]_vars
  PROVE  [Abstract!Next]_(Abstract!vars)
<1>i. DurableInv /\ DurableInv' BY DEF ListInv
<1>1. CASE UNCHANGED vars
  <2>1. UNCHANGED <<pc, entries, byID, file>> BY <1>1 DEF vars, ram, disk
  <2>2. AbstractVisible' = AbstractVisible BY <2>1, <1>i, VisibleStays
  <2>3. AbstractDurable' = AbstractDurable BY <2>1, <1>i, FilesStay
  <2> QED BY <2>1, <2>2, <2>3 DEF Abstract!vars
<1>2. CASE Close \/ Crash BY <1>2, <1>i, StopImplements DEF Abstract!Next
<1>3. CASE OpenFileStore \/ Open BY <1>3, <1>i, OpenImplements DEF Abstract!Next
<1>4. ASSUME NEW s \in Scope, NEW i \in Id, NEW v \in Val,
             PutOk(s, i, v) \/ PutAppendErr(s, i, v) \/ PutMetaErr(s, i, v)
      PROVE  Abstract!Next
  <2>1. Abstract!Put(s, i, v) \/ Abstract!PutFails(s, i, v) BY <1>4, <1>i, PutImplements
  <2> QED BY <2>1 DEF Abstract!Next
<1>5. ASSUME NEW s \in Scope, NEW i \in Id, DeleteOk(s, i) \/ DeleteAppendErr(s, i) \/ DeleteMetaErr(s, i)
      PROVE  Abstract!Next
  <2>1. Abstract!Delete(s, i) \/ Abstract!DeleteFails(s, i) BY <1>5, <1>i, DeleteImplements
  <2> QED BY <2>1 DEF Abstract!Next
<1>6. ASSUME NEW s \in Scope, NEW i \in Id, CrashInDelete(s, i) \/ \E v \in Val : CrashInPut(s, i, v)
      PROVE  Abstract!Next
  <2>1. \E v \in Val : Abstract!Dies(s, i, v) BY <1>6, <1>i, DieImplements
  <2> QED BY <2>1 DEF Abstract!Next
<1>7. ASSUME NEW s \in Scope, NEW i \in Id, DeleteUnknown(s, i) PROVE UNCHANGED Abstract!vars
  <2>1. UNCHANGED <<pc, entries, byID, file>> BY <1>7 DEF DeleteUnknown, ram, disk
  <2>2. AbstractVisible' = AbstractVisible BY <2>1, <1>i, VisibleStays
  <2>3. AbstractDurable' = AbstractDurable BY <2>1, <1>i, FilesStay
  <2> QED BY <2>1, <2>2, <2>3 DEF Abstract!vars
<1> QED BY <1>1, <1>2, <1>3, <1>4, <1>5, <1>6, <1>7 DEF Next

\* The refinement: a FileStore is a durable MemoryStore.  Calls that return nil take
\* effect in RAM and in the file alike and in commit order, failed and interrupted ones
\* concern their own id only, and Open shows, in order, what the files hold.
THEOREM StoreIsDurable ==
  ASSUME NoTear, OwnDirs
  PROVE  Spec => Implements
<1>1. Init => ListInv /\ Abstract!Init BY InitList, InitImplements
<1>2. ListInv /\ [Next]_vars => ListInv' BY ListStep
<1>3. ListInv /\ ListInv' /\ [Next]_vars => [Abstract!Next]_(Abstract!vars) BY StepImplements
<1> QED BY <1>1, <1>2, <1>3, PTL DEF Spec, Implements, Abstract!Spec
==============================================================================
