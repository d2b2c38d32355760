-------------------------------- MODULE Memory --------------------------------
(***************************************************************************)
(* Memory (memory.go, memory_embed.go): the MemoryStore in RAM.  Every     *)
(* method holds mu from start to end, so each is an operator on the store: *)
(* the records in the order they were put, and the last ID generated (the  *)
(* code's are random; a number is as good, since none is generated twice). *)
(*                                                                         *)
(* A content has a size and matches some texts, on its own or by the name  *)
(* of its task; the cosine of a query with an embedding is a number of     *)
(* which only the sign and the order matter.  A Put beyond                 *)
(* MaxMemoryEntryBytes returns before it changes anything.                 *)
(***************************************************************************)
EXTENDS Integers, SequencesExt

CONSTANTS
  Scope, Content, Vector,
  Size,      \* len(Content)
  Matches,   \* the contents in which a text is found
  Cosine,    \* of a query's vector with an entry's, as integers
  CallerId,  \* IDs that applications choose themselves
  MaxMemoryQueryLimit, DefaultMemoryQueryLimit, DefaultMemoryMaxChars

NoId == 0
NoVector == "none"
NoText == ""

ASSUME SizeAssumption == Size \in [Content -> Nat]
ASSUME MatchesAssumption == DOMAIN Matches \subseteq STRING \ {NoText}
ASSUME CosineAssumption == NoVector \notin Vector /\ Cosine \in [Vector -> [Vector -> Int]]
ASSUME CallerIdAssumption == CallerId \cap Nat = {}
ASSUME LimitsAssumption ==
  {MaxMemoryQueryLimit, DefaultMemoryQueryLimit, DefaultMemoryMaxChars} \subseteq Nat \ {0}

EmptyMemory == [records |-> <<>>, last |-> 0]

\* memorySlot: who put it is part of the record.
Slot(id, s, agent, task, c, e) ==
  [id |-> id, scope |-> s, agent |-> agent, task |-> task, content |-> c, emb |-> e]

\* Save: without an ID, in the empty scope.
Save(m, slot) == [m EXCEPT !.records = Append(@, slot)]

\* The next ID taken from the number of records.
PutCounting(m, slot) ==
  IF slot.id # NoId THEN Save(m, slot)
  ELSE LET id == Len(m.records) + 1
       IN [records |-> Append(m.records, [slot EXCEPT !.id = id]), last |-> id]
\* Put: it appends, without looking for a record of the same ID.
Put(m, slot) ==
  IF slot.id # NoId THEN [m EXCEPT !.records = Append(@, slot)]
  ELSE [records |-> Append(m.records, [slot EXCEPT !.id = m.last + 1]), last |-> m.last + 1]

\* The store once the records at the positions ps have IDs: those without one have
\* been given the next IDs, in the order of the records.
Naming(m, new) ==
  [records |-> [p \in DOMAIN m.records |->
                  IF p \in new THEN [m.records[p] EXCEPT !.id = m.last + Cardinality({x \in new : x <= p})]
                  ELSE m.records[p]],
   last |-> m.last + Cardinality(new)]
Unnamed(m, ps) == {p \in ps : m.records[p].id = NoId}
idForLocked(m, ps) == Naming(m, Unnamed(m, ps))

\* Removes the first record with this ID and scope; it and those before it have IDs.
Delete(m, s, id) ==
  LET at == SelectInSeq(m.records, LAMBDA r : id # NoId /\ r.id = id /\ r.scope = s)
      named == idForLocked(m, IF at = 0 THEN DOMAIN m.records ELSE 1..at)
  IN IF at = 0 THEN named ELSE [named EXCEPT !.records = RemoveAt(@, at)]

------------------------------------------------------------------------------
(* Query. *)

clampQueryBounds(q) ==
  [q EXCEPT !.limit = IF @ <= 0 \/ @ > MaxMemoryQueryLimit THEN DefaultMemoryQueryLimit ELSE @,
            !.maxChars = IF @ = 0 THEN DefaultMemoryMaxChars ELSE @]

\* The positions of the entries of the scope, with the text unless the query has
\* a vector.
Candidate(m, q, p) ==
  /\ m.records[p].scope = q.scope
  /\ q.emb # NoVector \/ q.text = NoText \/ m.records[p].content \in Matches[q.text]
Candidates(m, q) == {p \in DOMAIN m.records : Candidate(m, q, p)}

\* The positions in ps in order; behind has, for each, those that come after it.
Sorted(ps, behind) ==
  CHOOSE s \in [1..Cardinality(ps) -> ps] : \A j, k \in DOMAIN s : j < k => s[k] \in behind[s[j]]

\* The entries of an order up to the limit, and up to the first that does not fit.
Chars(m, ps) == FoldLeft(LAMBDA n, p : n + Size[m.records[p].content], 0, ps)
Within(m, ps, q) == Len(ps) <= q.limit /\ (q.maxChars < 0 \/ Chars(m, ps) <= q.maxChars)
Taken(m, ps, q) ==
  SubSeq(ps, 1, CHOOSE n \in 0..Len(ps) :
    Within(m, SubSeq(ps, 1, n), q) /\ (n < Len(ps) => ~Within(m, SubSeq(ps, 1, n + 1), q)))

takeLatestN(m, ps, q) == Taken(m, Sorted(ps, [x \in ps |-> {y \in ps : x > y}]), q)

Score(m, q, p) ==
  IF m.records[p].emb = NoVector THEN 0 ELSE Cosine[q.emb][m.records[p].emb]

\* By cosine, the latest first among equals; the entries that do not match only
\* when none does.
RankByOldest(m, ps, q) ==
  LET positive == {p \in ps : Score(m, q, p) > 0}
      ranked == IF positive # {} THEN positive ELSE ps
      behind == [x \in ranked |->
                   {y \in ranked : \/ Score(m, q, x) > Score(m, q, y)
                                   \/ Score(m, q, x) = Score(m, q, y) /\ x < y}]
  IN Taken(m, Sorted(ranked, behind), q)
rankByEmbedding(m, ps, q) ==
  LET positive == {p \in ps : Score(m, q, p) > 0}
      ranked == IF positive # {} THEN positive ELSE ps
      behind == [x \in ranked |->
                   {y \in ranked : \/ Score(m, q, x) > Score(m, q, y)
                                   \/ Score(m, q, x) = Score(m, q, y) /\ x > y}]
  IN Taken(m, Sorted(ranked, behind), q)

\* The positions Query returns, and the store it leaves: the candidates have IDs.
Hits(m, query) ==
  LET q == clampQueryBounds(query) IN
  IF q.emb # NoVector THEN rankByEmbedding(m, Candidates(m, q), q)
                      ELSE takeLatestN(m, Candidates(m, q), q)
Queried(m, q) == idForLocked(m, Candidates(m, q))

------------------------------------------------------------------------------
(* What a Query promises. *)

\* x is a better answer to q than y.
Better(m, q, x, y) ==
  LET sx == IF q.emb = NoVector THEN 0 ELSE Score(m, q, x)
      sy == IF q.emb = NoVector THEN 0 ELSE Score(m, q, y)
  IN sx > sy \/ (sx = sy /\ x > y)

Relevant(m, q, p) ==
  /\ Candidate(m, q, p)
  /\ q.emb # NoVector /\ Score(m, q, p) <= 0 =>
       \A x \in DOMAIN m.records : Candidate(m, q, x) => Score(m, q, x) <= 0

\* The hits are relevant, within the bounds and the best there are, best first;
\* another is left out only for a bound, and then all that are worse are.
BestHits(m, query) ==
  LET q == clampQueryBounds(query)
      hits == Hits(m, query)
      left == {p \in DOMAIN m.records : Relevant(m, q, p)} \ Range(hits)
  IN /\ \A k \in DOMAIN hits : Relevant(m, q, hits[k])
     /\ \A k \in 2..Len(hits) : Better(m, q, hits[k - 1], hits[k])
     /\ Within(m, hits, q)
     /\ \A x \in left : /\ hits # <<>> => Better(m, q, Last(hits), x)
                        /\ \/ \E y \in left : Better(m, q, y, x)
                           \/ ~Within(m, Append(hits, x), q)
==============================================================================
