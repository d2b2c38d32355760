------------------------------ MODULE FileStore ------------------------------
(***************************************************************************)
(* FileStore (filestore.go): a MemoryStore that keeps an index in RAM and  *)
(* appends a JSON line per Put and a tombstone per Delete to the scope's   *)
(* entries.jsonl; meta.json records the scope and the corrupt-line count.  *)
(*                                                                         *)
(* Put, Delete and Close hold mu from start to end and are one action      *)
(* each, with every outcome of the file operations they make; a process    *)
(* that dies inside one is an action of its own.  Open reads line by line. *)
(* Calls that return before they change anything (a cancelled context, an  *)
(* oversized Content, an empty or unknown id, a closed store) stutter, and *)
(* Query only reads: it is the operator Shows.                             *)
(*                                                                         *)
(* An entry is its ID and a value; a file is its sequence of lines.  A line*)
(* that is not valid JSON is bad.  An ID the store generates is one of Id. *)
(***************************************************************************)
EXTENDS Integers, Sequences, FiniteSets, EntryLists

CONSTANTS Scope,     \* MemoryScopes
          Id, Val,   \* entry IDs, and values
          NDirs,     \* directories under scopes/, numbered in ReadDir order
          DirName,   \* scopeDirName
          NameScope, \* the scope loadAll takes a directory name for
          LongVal,   \* values whose line exceeds the scanner's buffer
          Faults,    \* what may go wrong
          MaxLines,  \* bound: lines in all the files
          MaxCorrupt \* bound: corrupt count beyond which the store is not opened

Dir == 1..NDirs

ASSUME DirsAssumption ==
  /\ NDirs \in Nat /\ DirName \in [Scope -> Dir] /\ NameScope \in [Dir -> Scope]
  /\ \A d \in Dir : DirName[NameScope[d]] = d
ASSUME LongAssumption == LongVal \subseteq Val
ASSUME BoundsAssumption == MaxLines \in Nat /\ MaxCorrupt \in Nat

\* "append": an append fails and nothing is written; "sync": the line is
\* written and Sync fails; "torn": an append writes part of a line; "meta":
\* meta.json cannot be written; "crash": the process dies.
ASSUME FaultsAssumption == Faults \subseteq {"append", "sync", "torn", "meta", "crash"}

VARIABLES
  pc,       \* "down" before Open and after Close, "load" in Open, "open"
  dir, row, \* directory and line that Open reads next
  entries,  \* scopeIndex.entries, per scope
  byID,     \* scopeIndex.byID: position of the id in entries, 0 if absent
  corrupt,  \* scopeIndex.corruptSkipped
  dirty,    \* scopeIndex.dirty
  file,     \* the lines of entries.jsonl, per directory
  cut,      \* the last line of the file has no newline
  meta,     \* meta.json per directory: scope and corrupt count, or none
  result,   \* what the last call returned
  acked,    \* history: the value the callers were told an id has
  gone      \* history: ids whose last call was a Delete that returned nil

ram == <<entries, byID, corrupt, dirty>>
disk == <<file, cut, meta>>
told == <<acked, gone>>
vars == <<pc, dir, row, ram, disk, result, told>>

None == "none"          \* no value, no meta.json
Unknown == "unknown"    \* the last call on the id returned an error or died
ASSUME ValAssumption == None \notin Val \cup Scope /\ Unknown \notin Val

Bad(l) == [op |-> "bad", id |-> None, val |-> None, long |-> l]
PutLine(i, v) == [op |-> "put", id |-> i, val |-> v, long |-> v \in LongVal]
Tombstone(i) == [op |-> "del", id |-> i, val |-> None, long |-> FALSE]

EmptyRam ==
  /\ entries' = [s \in Scope |-> <<>>]
  /\ byID' = [s \in Scope |-> [i \in Id |-> 0]]
  /\ corrupt' = [s \in Scope |-> 0]
  /\ dirty' = [s \in Scope |-> FALSE]

\* A process that finds these files.
InitWith(lines) ==
  /\ pc = "down" /\ dir = 1 /\ row = 1
  /\ entries = [s \in Scope |-> <<>>]
  /\ byID = [s \in Scope |-> [i \in Id |-> 0]]
  /\ corrupt = [s \in Scope |-> 0]
  /\ dirty = [s \in Scope |-> FALSE]
  /\ file = [d \in Dir |-> lines]
  /\ cut = [d \in Dir |-> FALSE]
  /\ meta = [d \in Dir |-> [scope |-> None, corrupt |-> 0]]
  /\ result = "none"
  /\ acked = [s \in Scope |-> [i \in Id |-> None]] /\ gone = {}
Init == InitWith(<<>>)

------------------------------------------------------------------------------
(* The files. *)

Appends == {"ok"} \cup (IF "append" \in Faults THEN {"append"} ELSE {})
                  \cup (IF "sync" \in Faults THEN {"sync"} ELSE {})
                  \cup (IF "torn" \in Faults THEN {"torn", "whole"} ELSE {})

\* What an append of line l leaves in directory d.  Outcome "torn" stops inside
\* the line, "whole" before its newline; a line appended after such an end joins
\* what is there.
AppendLine(d, l, outcome) ==
  LET last == file[d][Len(file[d])]
      new == IF outcome = "torn" THEN Bad(l.long) ELSE l
  IN IF outcome = "append" THEN UNCHANGED <<file, cut>>
     ELSE /\ file' = [file EXCEPT ![d] =
               IF cut[d] THEN [file[d] EXCEPT ![Len(file[d])] = Bad(last.long \/ l.long)]
                         ELSE Append(file[d], new)]
          /\ cut' = [cut EXCEPT ![d] = outcome \in {"torn", "whole"}]

\* writeMetaLocked: a temporary file and a rename, so all or nothing.
WriteMeta(s) == meta' = [meta EXCEPT ![DirName[s]] = [scope |-> s, corrupt |-> corrupt[s]]]

------------------------------------------------------------------------------
(* Put and Delete. *)

IndexedAppending(s, i, v) ==
  [entries |-> Append(entries[s], [id |-> i, val |-> v]),
   byID |-> [byID[s] EXCEPT ![i] = Len(entries[s]) + 1]]

\* The upsert of the RAM index that precedes the append.
Indexed(s, i, v) ==
  IF byID[s][i] # 0
  THEN [entries |-> [entries[s] EXCEPT ![byID[s][i]] = [id |-> i, val |-> v]],
        byID |-> byID[s]]
  ELSE [entries |-> Append(entries[s], [id |-> i, val |-> v]),
        byID |-> [byID[s] EXCEPT ![i] = Len(entries[s]) + 1]]

RolledBackHalf(idx, i) ==
  IF idx.byID[i] = Len(idx.entries)
  THEN [idx EXCEPT !.entries = SubSeq(idx.entries, 1, Len(idx.entries) - 1)]
  ELSE idx

\* The index after a failed append: the entry is dropped if it is the last one,
\* also when it replaced an older value; otherwise it stays.
RolledBack(idx, i) ==
  IF idx.byID[i] = Len(idx.entries)
  THEN [entries |-> SubSeq(idx.entries, 1, Len(idx.entries) - 1),
        byID |-> [idx.byID EXCEPT ![i] = 0]]
  ELSE idx

SetIndex(s, idx) ==
  /\ entries' = [entries EXCEPT ![s] = idx.entries]
  /\ byID' = [byID EXCEPT ![s] = idx.byID]

\* v is None after a Delete that returned nil, Unknown after an error.
Told(s, i, v) ==
  /\ acked' = [acked EXCEPT ![s][i] = v]
  /\ gone' = IF v = None THEN gone \cup {<<s, i>>} ELSE gone \ {<<s, i>>}

Lines == LET n[d \in 0..NDirs] == IF d = 0 THEN 0 ELSE n[d - 1] + Len(file[d]) IN n[NDirs]
Room == Lines < MaxLines

PutOk(s, i, v) ==
  /\ pc = "open" /\ Room
  /\ SetIndex(s, Indexed(s, i, v))
  /\ AppendLine(DirName[s], PutLine(i, v), "ok")
  /\ WriteMeta(s) /\ dirty' = [dirty EXCEPT ![s] = FALSE]
  /\ result' = "ok" /\ Told(s, i, v)
  /\ UNCHANGED <<pc, dir, row, corrupt>>

PutAppendErr(s, i, v) ==
  /\ pc = "open" /\ Room
  /\ \E o \in Appends \ {"ok"} : AppendLine(DirName[s], PutLine(i, v), o)
  /\ SetIndex(s, RolledBack(Indexed(s, i, v), i))
  /\ dirty' = [dirty EXCEPT ![s] = TRUE]
  /\ result' = "err" /\ Told(s, i, Unknown)
  /\ UNCHANGED <<pc, dir, row, corrupt, meta>>

\* The entry is stored and indexed, yet Put returns an error.
PutMetaErr(s, i, v) ==
  /\ pc = "open" /\ Room /\ "meta" \in Faults
  /\ SetIndex(s, Indexed(s, i, v))
  /\ AppendLine(DirName[s], PutLine(i, v), "ok")
  /\ dirty' = [dirty EXCEPT ![s] = TRUE]
  /\ result' = "err" /\ Told(s, i, Unknown)
  /\ UNCHANGED <<pc, dir, row, corrupt, meta>>

\* Logical delete: the slot stays in entries, the id leaves byID.
DeleteOk(s, i) ==
  /\ pc = "open" /\ Room /\ byID[s][i] # 0
  /\ byID' = [byID EXCEPT ![s][i] = 0]
  /\ AppendLine(DirName[s], Tombstone(i), "ok")
  /\ WriteMeta(s) /\ dirty' = [dirty EXCEPT ![s] = FALSE]
  /\ result' = "ok" /\ Told(s, i, None)
  /\ UNCHANGED <<pc, dir, row, entries, corrupt>>

\* An id the index does not hold: nil is returned and no tombstone is written,
\* whatever an earlier failed call has left in the file.
DeleteUnknown(s, i) ==
  /\ pc = "open" /\ byID[s][i] = 0
  /\ result' = "ok" /\ gone' = gone \cup {<<s, i>>}
  /\ UNCHANGED <<pc, dir, row, ram, disk, acked>>

\* The failed append re-instates the id.
DeleteAppendErr(s, i) ==
  /\ pc = "open" /\ Room /\ byID[s][i] # 0
  /\ \E o \in Appends \ {"ok"} : AppendLine(DirName[s], Tombstone(i), o)
  /\ dirty' = [dirty EXCEPT ![s] = TRUE]
  /\ result' = "err" /\ Told(s, i, Unknown)
  /\ UNCHANGED <<pc, dir, row, entries, byID, corrupt, meta>>

DeleteMetaErr(s, i) ==
  /\ pc = "open" /\ Room /\ byID[s][i] # 0 /\ "meta" \in Faults
  /\ byID' = [byID EXCEPT ![s][i] = 0]
  /\ AppendLine(DirName[s], Tombstone(i), "ok")
  /\ dirty' = [dirty EXCEPT ![s] = TRUE]
  /\ result' = "err" /\ Told(s, i, Unknown)
  /\ UNCHANGED <<pc, dir, row, entries, corrupt, meta>>

------------------------------------------------------------------------------
(* Close, the end of the process, and Open. *)

Down == pc' = "down" /\ dir' = 1 /\ row' = 1 /\ EmptyRam

\* Close writes the meta.json of the dirty scopes, in no particular order; the
\* store is closed even when a write fails.
Close ==
  /\ pc = "open"
  /\ \E done \in SUBSET {s \in Scope : dirty[s]}, w \in [Dir -> Scope] :
       /\ done = {s \in Scope : dirty[s]} \/ "meta" \in Faults
       /\ \A s \in done : w[DirName[s]] \in done /\ DirName[w[DirName[s]]] = DirName[s]
       /\ meta' = [d \in Dir |-> IF \E s \in done : DirName[s] = d
                                THEN [scope |-> w[d], corrupt |-> corrupt[w[d]]] ELSE meta[d]]
  /\ Down /\ result' = "none"
  /\ UNCHANGED <<file, cut, told>>

\* The process dies between two calls or inside Open.
Crash ==
  /\ "crash" \in Faults /\ pc # "down"
  /\ Down /\ result' = "none"
  /\ UNCHANGED <<disk, told>>

\* It dies inside Put or Delete: whatever was written by then stays.
DieInCall(s, i, l) ==
  /\ "crash" \in Faults /\ pc = "open" /\ Room
  /\ \E o \in Appends :
       /\ AppendLine(DirName[s], l, o)
       /\ UNCHANGED meta \/ (o = "ok" /\ WriteMeta(s))
  /\ Down /\ result' = "none" /\ Told(s, i, Unknown)

CrashInPut(s, i, v) == DieInCall(s, i, PutLine(i, v))
CrashInDelete(s, i) == byID[s][i] # 0 /\ DieInCall(s, i, Tombstone(i))

OpenFileStore ==
  /\ pc = "down" /\ \A d \in Dir : meta[d].corrupt <= MaxCorrupt
  /\ pc' = "load" /\ result' = "none"
  /\ UNCHANGED <<dir, row, ram, disk, told>>

\* The scope a directory is loaded into: meta.json's if there is one.
ScopeOf(d) == IF meta[d].scope # None THEN meta[d].scope ELSE NameScope[d]

\* An entry of the file: an upsert of the index.
LoadPut ==
  /\ pc = "load" /\ dir \in Dir /\ row <= Len(file[dir])
  /\ ~file[dir][row].long /\ file[dir][row].op = "put"
  /\ SetIndex(ScopeOf(dir), Indexed(ScopeOf(dir), file[dir][row].id, file[dir][row].val))
  /\ row' = row + 1
  /\ UNCHANGED <<pc, dir, corrupt, dirty, disk, result, told>>

LoadTombstoneIgnored ==
  /\ pc = "load" /\ dir \in Dir /\ row <= Len(file[dir])
  /\ ~file[dir][row].long /\ file[dir][row].op = "del"
  /\ row' = row + 1
  /\ UNCHANGED <<pc, dir, ram, disk, result, told>>
LoadTombstone ==
  /\ pc = "load" /\ dir \in Dir /\ row <= Len(file[dir])
  /\ ~file[dir][row].long /\ file[dir][row].op = "del"
  /\ byID' = [byID EXCEPT ![ScopeOf(dir)][file[dir][row].id] = 0]
  /\ row' = row + 1
  /\ UNCHANGED <<pc, dir, entries, corrupt, dirty, disk, result, told>>

\* A corrupt line is skipped and counted, on top of the count of meta.json.
LoadBad ==
  /\ pc = "load" /\ dir \in Dir /\ row <= Len(file[dir])
  /\ ~file[dir][row].long /\ file[dir][row].op = "bad"
  /\ corrupt' = [corrupt EXCEPT ![ScopeOf(dir)] = @ + 1]
  /\ dirty' = [dirty EXCEPT ![ScopeOf(dir)] = TRUE]
  /\ row' = row + 1
  /\ UNCHANGED <<pc, dir, entries, byID, disk, result, told>>

\* The scanner refuses a line beyond its buffer and Open fails.
LoadTooLong ==
  /\ pc = "load" /\ dir \in Dir /\ row <= Len(file[dir]) /\ file[dir][row].long
  /\ Down /\ result' = "err"
  /\ UNCHANGED <<disk, told>>

\* End of the file: the count of meta.json is added, and written back when this
\* load found corrupt lines.
LoadDone ==
  /\ pc = "load" /\ dir \in Dir /\ row > Len(file[dir])
  /\ LET s == ScopeOf(dir)
         n == corrupt[s] + meta[dir].corrupt IN
       /\ corrupt' = [corrupt EXCEPT ![s] = n]
       /\ dirty' = [dirty EXCEPT ![s] = FALSE]
       /\ meta' = IF dirty[s] THEN [meta EXCEPT ![dir] = [scope |-> s, corrupt |-> n]] ELSE meta
  /\ dir' = dir + 1 /\ row' = 1
  /\ UNCHANGED <<pc, entries, byID, file, cut, result, told>>

LoadMetaErr ==
  /\ pc = "load" /\ dir \in Dir /\ row > Len(file[dir])
  /\ "meta" \in Faults /\ dirty[ScopeOf(dir)]
  /\ Down /\ result' = "err"
  /\ UNCHANGED <<disk, told>>

Opened ==
  /\ pc = "load" /\ dir \notin Dir
  /\ pc' = "open" /\ dir' = 1 /\ result' = "ok"
  /\ UNCHANGED <<row, ram, disk, told>>

Open == \/ LoadPut \/ LoadTombstone \/ LoadBad \/ LoadTooLong \/ LoadDone \/ LoadMetaErr \/ Opened

Next ==
  \/ \E s \in Scope, i \in Id, v \in Val :
       PutOk(s, i, v) \/ PutAppendErr(s, i, v) \/ PutMetaErr(s, i, v) \/ CrashInPut(s, i, v)
  \/ \E s \in Scope, i \in Id :
       DeleteOk(s, i) \/ DeleteUnknown(s, i) \/ DeleteAppendErr(s, i) \/ DeleteMetaErr(s, i) \/ CrashInDelete(s, i)
  \/ Close \/ Crash \/ OpenFileStore \/ Open

Spec == Init /\ [][Next]_vars

------------------------------------------------------------------------------
(* Properties. *)

Line == [op: {"put"}, id: Id, val: Val, long: BOOLEAN]
        \cup [op: {"del"}, id: Id, val: {None}, long: {FALSE}]
        \cup [op: {"bad"}, id: {None}, val: {None}, long: BOOLEAN]

TypeOK ==
  /\ pc \in {"down", "load", "open"} /\ dir \in 1..(NDirs + 1) /\ row \in Nat \ {0}
  /\ entries \in [Scope -> Seq([id: Id, val: Val])]
  /\ byID \in [Scope -> [Id -> Nat]]
  /\ corrupt \in [Scope -> Nat] /\ dirty \in [Scope -> BOOLEAN]
  /\ file \in [Dir -> Seq(Line)] /\ cut \in [Dir -> BOOLEAN]
  /\ meta \in [Dir -> [scope: Scope \cup {None}, corrupt: Nat]]
  /\ result \in {"none", "ok", "err"}
  /\ acked \in [Scope -> [Id -> Val \cup {None, Unknown}]]
  /\ gone \in SUBSET (Scope \X Id)

\* What Query shows of an id.
Shows(s, i) == IF byID[s][i] = 0 THEN None ELSE entries[s][byID[s][i]].val

\* byID leads to a slot that holds the id, after every mix of upserts, logical
\* deletes, roll-backs and loads: Query would otherwise show another entry.
IndexSound ==
  \A s \in Scope, i \in Id : byID[s][i] # 0 =>
    byID[s][i] <= Len(entries[s]) /\ entries[s][byID[s][i]].id = i

\* A durable MemoryStore: an open store shows, under the scope it was put in, every
\* entry whose Put returned nil and no entry whose Delete did, whichever calls on
\* other ids failed, whenever the process died and however often it was reopened.
Durable ==
  pc = "open" => \A s \in Scope, i \in Id :
                   acked[s][i] # Unknown => Shows(s, i) = acked[s][i]

------------------------------------------------------------------------------
(* The refinement of DurableStore. *)

\* The entries Query goes through: slots that byID leads to.
Live(es, ids) == Selected(es, {p \in DOMAIN es : ids[es[p].id] = p})

\* What loading a line does to them.
Loaded(es, l) ==
  CASE l.op = "put" -> Upsert(es, l.id, l.val)
    [] l.op = "del" -> Without(es, l.id)
    [] OTHER -> es

\* What loading the lines of a file would give.
Replayed(lines) ==
  LET upTo[n \in 0..Len(lines)] == IF n = 0 THEN <<>> ELSE Loaded(upTo[n - 1], lines[n])
  IN upTo[Len(lines)]

AbstractVisible ==
  [s \in Scope |-> IF pc = "open" THEN Live(entries[s], byID[s]) ELSE <<>>]
AbstractDurable ==
  [s \in Scope |-> IF ScopeOf(DirName[s]) = s THEN Replayed(file[DirName[s]]) ELSE <<>>]

Abstract == INSTANCE DurableStore WITH
  up <- pc = "open", visible <- AbstractVisible, durable <- AbstractDurable

\* FileStore implements DurableStore: an acknowledged call takes effect in RAM and
\* on disk alike, in commit order; a failed or interrupted one touches its own id
\* only; and Open shows what the files say.
Implements == Abstract!Spec

------------------------------------------------------------------------------
(* What comments say and the code does not do. *)

\* "Roll back the RAM mutation on disk failure so Query stays honest" (Put): a
\* call that fails leaves what Query shows as it was.
HonestQuery ==
  [][pc = "open" /\ pc' = "open" /\ result' = "err" =>
       \A s \in Scope, i \in Id : Shows(s, i)' = Shows(s, i)]_vars

\* "A tombstone line is appended so a subsequent Open does not revive the entry"
\* (Delete): an id whose Delete returned nil is not shown until it is put again.
DeletedStaysDeleted ==
  pc = "open" => \A s \in Scope, i \in Id : <<s, i>> \in gone => Shows(s, i) = None

\* "Corrupt JSONL lines are skipped on Open and counted in meta" (FileStore): the
\* count is at most the number of corrupt lines there are.
CorruptCountExact ==
  pc = "open" =>
    \A s \in Scope : corrupt[s] <= Cardinality({p \in DOMAIN file[DirName[s]] :
                                                 file[DirName[s]][p].op = "bad"})

\* "Allow long lines up to a bit over MaxMemoryEntryBytes + JSON framing"
\* (loadScope): what Put accepted can be loaded, so Open does not fail.
OpenSucceeds == ~(pc = "down" /\ result = "err")
==============================================================================
