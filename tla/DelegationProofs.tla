--------------------------- MODULE DelegationProofs ---------------------------
(***************************************************************************)
(* Theorems about Delegation, for every crew, every roster, every set of   *)
(* tasks and every depth limit: types, who may work inside whose call, to  *)
(* whom what is remembered is attributed, what becomes of an ID, and what  *)
(* a query shows.                                                          *)
(***************************************************************************)
EXTENDS Delegation, FiniteSetTheorems, SequenceTheorems, WellFoundedInduction, TLAPS

\* Roles have no white space around them; with it ChainSound does not hold.
Unpadded == \A a \in Agent : ~Role[a].pad

\* An execution knows its depth and works in its agent's role.
Nesting(s) ==
  /\ Len(s) <= DefaultMaxDelegationDepth + 1
  /\ \A p \in DOMAIN s : s[p].depth = p - 1 /\ s[p].role = Role[s[p].agent]

\* It knows the executions around it too, unless their roles are empty: what makes
\* the refusals enough.
Apart(s) ==
  \A p, q \in DOMAIN s : p < q =>
    /\ s[p].agent # s[q].agent
    /\ s[p].role # NoRole => \E k \in DOMAIN s[q].callers : s[q].callers[k] = s[p].role

NestInv == TypeOK /\ \A t \in Task : Nesting(stack[t])
ChainInv == NestInv /\ \A t \in Task : Apart(stack[t])

\* Only IDs the store has generated were noted, and it generates none twice.
AttrInv ==
  /\ NestInv
  /\ \A w \in wrote : w.id \in 1..memory.last
  /\ \A p \in DOMAIN memory.records : memory.records[p].id \in Nat => memory.records[p].id <= memory.last
  /\ Attributed

\* An ID the store has generated is that of one record, and no larger than the last.
Distinct(m) ==
  \A p \in DOMAIN m.records : m.records[p].id \in Nat \ {NoId} =>
    /\ m.records[p].id <= m.last
    /\ \A q \in DOMAIN m.records : m.records[p].id = m.records[q].id => p = q
IdsInv == NestInv /\ Distinct(memory)

------------------------------------------------------------------------------
(* Choosing the first. *)

LEMMA LeastIs == ASSUME NEW S \in SUBSET Nat, S # {} PROVE \E x \in S : \A y \in S : x <= y
<1>1. PICK x \in S : \A y \in S : ~(<<y, x>> \in OpToRel(<, Nat))
  BY WFMin, NatLessThanWellFounded
<1>2. \A y, z \in Nat : y < z => <<y, z>> \in OpToRel(<, Nat)
  <2> SUFFICES ASSUME NEW y \in Nat, NEW z \in Nat, y < z PROVE <<y, z>> \in OpToRel(<, Nat) OBVIOUS
  <2> DEFINE ss == <<y, z>>
  <2>1. ss \in Nat \X Nat /\ ss[1] < ss[2] OBVIOUS
  <2> QED BY <2>1 DEF OpToRel
<1>3. \A y \in S : x \in Nat /\ y \in Nat /\ ~(y < x) BY <1>1, <1>2
<1> QED BY <1>3

LEMMA MinIs == ASSUME NEW S \in SUBSET Nat, S # {} PROVE Min(S) \in S BY LeastIs DEF Min

LEMMA FirstIs ==
  ASSUME NEW roster \in Seq(Agent), NEW S, Range(roster) \cap S # {}
  PROVE  \E k \in DOMAIN roster : roster[k] \in S /\ \A j \in 1..(k - 1) : roster[j] \notin S
<1> DEFINE at == {k \in 1..Len(roster) : roster[k] \in S}
<1>1. DOMAIN roster = 1..Len(roster) /\ Len(roster) \in Nat OBVIOUS
<1>2. PICK x \in Range(roster) : x \in S OBVIOUS
<1>3. PICK k \in DOMAIN roster : roster[k] = x BY <1>2 DEF Range
<1>4. k \in at BY <1>1, <1>2, <1>3
<1>5. at \in SUBSET Nat OBVIOUS
<1>6. PICK l \in at : \A y \in at : l <= y BY <1>4, <1>5, LeastIs
<1>7. \A j \in 1..(l - 1) : j \in 1..Len(roster) /\ ~(l <= j) BY <1>1, <1>6
<1>8. \A j \in 1..(l - 1) : roster[j] \notin S BY <1>6, <1>7
<1> QED BY <1>1, <1>6, <1>8

\* delegate gives an agent of the roster, or none when there is none.
LEMMA DelegateIs ==
  ASSUME NEW roster \in Seq(Agent), NEW reply
  PROVE  delegate(roster, reply) \in Agent \cup {NoAgent}
<1> DEFINE First(as) == CHOOSE k \in DOMAIN roster :
                          roster[k] \in as /\ \A j \in 1..(k - 1) : roster[j] \notin as
<1>1. ASSUME NEW S, Range(roster) \cap S # {} PROVE roster[First(S)] \in Agent
  <2>1. First(S) \in DOMAIN roster BY <1>1, FirstIs
  <2> QED BY <2>1
<1>2. roster # <<>> => roster[1] \in Agent OBVIOUS
<1>3. Range(roster) \cap Answered(reply) # {} => roster[First(Answered(reply))] \in Agent BY <1>1
<1>4. Range(roster) \cap Mentioned(reply) # {} => roster[First(Mentioned(reply))] \in Agent BY <1>1
<1>5. delegate(roster, reply) =
        IF roster = <<>> THEN NoAgent
        ELSE IF Range(roster) \cap Answered(reply) # {} THEN roster[First(Answered(reply))]
        ELSE IF Range(roster) \cap Mentioned(reply) # {} THEN roster[First(Mentioned(reply))]
        ELSE roster[1]
  BY DEF delegate
<1> HIDE DEF First
<1> QED BY <1>2, <1>3, <1>4, <1>5

\* findRosterAgent gives an agent with that name, or none.
LEMMA FindIs ==
  ASSUME NEW roster \in Seq(Agent), NEW name, findRosterAgent(roster, name) # NoAgent
  PROVE  /\ findRosterAgent(roster, name) \in Agent
         /\ Role[findRosterAgent(roster, name)].name = name
<1> DEFINE I == {i \in 1..Len(roster) : Role[roster[i]].name = name}
           at == IF I # {} THEN Min(I) ELSE 0
<1>1. findRosterAgent(roster, name) = IF at = 0 THEN NoAgent ELSE roster[at]
  BY DEF findRosterAgent, SelectInSeq
<1>2. I # {} BY <1>1
<1>3. I \in SUBSET Nat OBVIOUS
<1>4. at \in I BY <1>2, <1>3, MinIs
<1>5. at # 0 /\ at \in 1..Len(roster) /\ Role[roster[at]].name = name BY <1>4
<1> HIDE DEF at
<1>6. roster[at] \in Agent BY <1>5
<1> QED BY <1>1, <1>5, <1>6

------------------------------------------------------------------------------
(* The store. *)

Stores == [records: Seq(Entry), last: Nat]

\* How many of a set of numbers there are up to one of them.
LEMMA CountIs ==
  ASSUME NEW N \in Nat, NEW S \in SUBSET (1..N)
  PROVE  /\ Cardinality(S) \in Nat
         /\ \A p \in S : Cardinality({x \in S : x <= p}) \in 1..Cardinality(S)
         /\ \A p, q \in S : p < q => Cardinality({x \in S : x <= p}) # Cardinality({x \in S : x <= q})
<1> DEFINE upTo(p) == {x \in S : x <= p}
<1>1. IsFiniteSet(S) /\ Cardinality(S) \in Nat
  <2>1. IsFiniteSet(1..N) BY FS_Interval
  <2> QED BY <2>1, FS_Subset, FS_CardinalityType
<1>2. ASSUME NEW p \in S PROVE IsFiniteSet(upTo(p)) /\ Cardinality(upTo(p)) \in 1..Cardinality(S)
  <2>1. upTo(p) \in SUBSET S /\ p \in upTo(p) OBVIOUS
  <2>2. IsFiniteSet(upTo(p)) /\ Cardinality(upTo(p)) <= Cardinality(S) BY <1>1, <2>1, FS_Subset
  <2>3. Cardinality(upTo(p)) \in Nat /\ Cardinality(upTo(p)) # 0 BY <2>1, <2>2, FS_CardinalityType, FS_EmptySet
  <2> QED BY <1>1, <2>2, <2>3
<1>3. ASSUME NEW p \in S, NEW q \in S, p < q PROVE Cardinality(upTo(p)) # Cardinality(upTo(q))
  <2>1. p \in Nat /\ q \in Nat /\ S \in SUBSET Nat OBVIOUS
  <2>2. upTo(p) \in SUBSET upTo(q) /\ q \in upTo(q) /\ q \notin upTo(p)
    <3>1. \A x \in S : x \in Nat /\ (x <= p => x <= q) BY <1>3, <2>1
    <3>2. q <= q /\ ~(q <= p) BY <1>3, <2>1
    <3> QED BY <3>1, <3>2
  <2> HIDE DEF upTo
  <2>3. IsFiniteSet(upTo(q)) /\ upTo(p) # upTo(q) BY <1>2, <2>2
  <2> QED BY <2>2, <2>3, FS_Subset
<1> QED BY <1>1, <1>2, <1>3

\* Of the records only those without an ID change, and only their ID, which is one
\* never given before.
LEMMA NamingIs ==
  ASSUME NEW m \in Stores, NEW new \in SUBSET (DOMAIN m.records)
  PROVE  /\ Naming(m, new) \in Stores
         /\ Naming(m, new).last >= m.last
         /\ Len(Naming(m, new).records) = Len(m.records)
         /\ \A p \in DOMAIN m.records :
              IF p \in new
              THEN \E id \in (m.last + 1)..Naming(m, new).last :
                     Naming(m, new).records[p] = [m.records[p] EXCEPT !.id = id]
              ELSE Naming(m, new).records[p] = m.records[p]
<1> DEFINE n == Naming(m, new)
           upTo(p) == {x \in new : x <= p}
<1>1. DOMAIN m.records = 1..Len(m.records) /\ Len(m.records) \in Nat BY DEF Stores
<1>2. Cardinality(new) \in Nat /\ \A p \in new : Cardinality(upTo(p)) \in 1..Cardinality(new) BY <1>1, CountIs
<1>3. n.last = m.last + Cardinality(new) /\ m.last \in Nat BY DEF Naming, Stores
<1>4. \A p \in new : m.last + Cardinality(upTo(p)) \in (m.last + 1)..n.last BY <1>2, <1>3
<1>5. n.records = [p \in DOMAIN m.records |->
                    IF p \in new THEN [m.records[p] EXCEPT !.id = m.last + Cardinality(upTo(p))]
                    ELSE m.records[p]]
  BY DEF Naming
<1> HIDE DEF n, upTo
<1>6. \A p \in DOMAIN m.records :
        IF p \in new THEN \E id \in (m.last + 1)..n.last : n.records[p] = [m.records[p] EXCEPT !.id = id]
        ELSE n.records[p] = m.records[p]
  BY <1>4, <1>5
<1>7. \A p \in DOMAIN m.records : m.records[p] \in Entry BY DEF Stores
<1>8. \A p \in DOMAIN m.records : n.records[p] \in Entry
  <2> SUFFICES ASSUME NEW p \in DOMAIN m.records PROVE n.records[p] \in Entry OBVIOUS
  <2>1. CASE p \notin new BY <1>6, <1>7, <2>1
  <2>2. CASE p \in new
    <3>1. PICK id \in (m.last + 1)..n.last : n.records[p] = [m.records[p] EXCEPT !.id = id] BY <1>6, <2>2
    <3>2. id \in Nat BY <1>2, <1>3
    <3> QED BY <1>7, <3>1, <3>2 DEF Entry
  <2> QED BY <2>1, <2>2
<1>9. n.records \in Seq(Entry) /\ Len(n.records) = Len(m.records)
  <2>1. DOMAIN n.records = 1..Len(m.records) BY <1>1, <1>5
  <2>2. n.records \in [1..Len(m.records) -> Entry] BY <1>1, <1>5, <1>8, <2>1
  <2> QED BY <1>1, <2>1, <2>2
<1>10. n \in Stores /\ n.last >= m.last
  <2>1. n = [records |-> n.records, last |-> n.last] BY DEF n, Naming
  <2> QED BY <1>2, <1>3, <1>9, <2>1 DEF Stores
<1> QED BY <1>6, <1>9, <1>10 DEF n

\* Every record of the new store is in `put`, or one of the old, which keeps what it
\* had or got a new ID.
Follows(m, n, put) ==
  /\ n \in Stores /\ n.last >= m.last
  /\ \A p \in DOMAIN n.records :
       \/ n.records[p] \in put
       \/ \E x \in DOMAIN m.records :
            \/ n.records[p] = m.records[x]
            \/ \E id \in (m.last + 1)..n.last : n.records[p] = [m.records[x] EXCEPT !.id = id]

\* A record with an ID is still there.
Keeps(m, n, r) == r.id # NoId => r \in Range(n.records)

LEMMA AppendIs ==
  ASSUME NEW m \in Stores, NEW slot \in Entry, NEW last \in Nat, last >= m.last
  PROVE  LET n == [records |-> Append(m.records, slot), last |-> last]
         IN Follows(m, n, {slot}) /\ \A r \in Range(m.records) : Keeps(m, n, r)
<1> DEFINE n == [records |-> Append(m.records, slot), last |-> last]
<1>1. m.records \in Seq(Entry) BY DEF Stores
<1>2. n \in Stores BY <1>1 DEF Stores
<1>3. Len(m.records) \in Nat /\ DOMAIN m.records = 1..Len(m.records) BY <1>1
<1>4. /\ DOMAIN n.records = 1..(Len(m.records) + 1)
      /\ \A p \in 1..Len(m.records) : n.records[p] = m.records[p]
      /\ n.records[Len(m.records) + 1] = slot
  BY <1>1
<1>5. \A p \in DOMAIN n.records : n.records[p] \in {slot} \/ \E x \in DOMAIN m.records : n.records[p] = m.records[x]
  <2> SUFFICES ASSUME NEW p \in DOMAIN n.records
               PROVE  n.records[p] \in {slot} \/ \E x \in DOMAIN m.records : n.records[p] = m.records[x]
    OBVIOUS
  <2>1. CASE p = Len(m.records) + 1 BY <1>4, <2>1
  <2>2. CASE p # Len(m.records) + 1
    <3>1. p \in 1..Len(m.records) BY <1>3, <1>4, <2>2
    <3> QED BY <1>3, <1>4, <3>1
  <2> QED BY <2>1, <2>2
<1>6. Range(m.records) \subseteq Range(n.records)
  <2> SUFFICES ASSUME NEW p \in 1..Len(m.records) PROVE m.records[p] \in Range(n.records) BY <1>3 DEF Range
  <2>1. p \in DOMAIN n.records /\ n.records[p] = m.records[p] BY <1>3, <1>4
  <2> QED BY <2>1 DEF Range
<1> QED BY <1>2, <1>5, <1>6 DEF Follows, Keeps

LEMMA SaveIs ==
  ASSUME NEW m \in Stores, NEW slot \in Entry
  PROVE  Follows(m, Save(m, slot), {slot}) /\ \A r \in Range(m.records) : Keeps(m, Save(m, slot), r)
<1>1. Save(m, slot) = [records |-> Append(m.records, slot), last |-> m.last] BY DEF Save, Stores
<1>2. m.last \in Nat /\ m.last >= m.last BY DEF Stores
<1> QED BY <1>1, <1>2, AppendIs

\* A Put without an ID gives a new one.
Given(m, slot) == IF slot.id # NoId THEN slot ELSE [slot EXCEPT !.id = m.last + 1]

LEMMA PutIs ==
  ASSUME NEW m \in Stores, NEW slot \in Entry
  PROVE  /\ Follows(m, Put(m, slot), {Given(m, slot)})
         /\ \A r \in Range(m.records) : Keeps(m, Put(m, slot), r)
         /\ Given(m, slot) \in Entry
         /\ Put(m, slot).records = Append(m.records, Given(m, slot))
         /\ slot.id = NoId => Put(m, slot).last = m.last + 1
<1>1. m.last \in Nat /\ m.last + 1 \in Nat /\ m.last >= m.last /\ m.last + 1 >= m.last BY DEF Stores
<1>2. Given(m, slot) \in Entry BY <1>1 DEF Given, Entry
<1>3. CASE slot.id # NoId
  <2>1. Put(m, slot) = [records |-> Append(m.records, Given(m, slot)), last |-> m.last]
    BY <1>3 DEF Put, Given, Stores
  <2>2. Follows(m, Put(m, slot), {Given(m, slot)}) /\ \A r \in Range(m.records) : Keeps(m, Put(m, slot), r)
    BY <1>1, <1>2, <2>1, AppendIs
  <2>3. Put(m, slot).records = Append(m.records, Given(m, slot)) BY <2>1
  <2> QED BY <1>2, <1>3, <2>2, <2>3
<1>4. CASE slot.id = NoId
  <2>1. Put(m, slot) = [records |-> Append(m.records, Given(m, slot)), last |-> m.last + 1]
    BY <1>4 DEF Put, Given
  <2>2. Follows(m, Put(m, slot), {Given(m, slot)}) /\ \A r \in Range(m.records) : Keeps(m, Put(m, slot), r)
    BY <1>1, <1>2, <2>1, AppendIs
  <2>3. Put(m, slot).last = m.last + 1 /\ Put(m, slot).records = Append(m.records, Given(m, slot)) BY <2>1
  <2> QED BY <1>2, <2>2, <2>3
<1> QED BY <1>3, <1>4

LEMMA IdForLockedIs ==
  ASSUME NEW m \in Stores, NEW ps \in SUBSET (DOMAIN m.records)
  PROVE  /\ Follows(m, idForLocked(m, ps), {})
         /\ \A r \in Range(m.records) : Keeps(m, idForLocked(m, ps), r)
         /\ Len(idForLocked(m, ps).records) = Len(m.records)
         /\ \A p \in DOMAIN m.records :
              m.records[p].id # NoId => idForLocked(m, ps).records[p] = m.records[p]
<1> DEFINE new == Unnamed(m, ps)
           n == Naming(m, new)
<1>1. new \in SUBSET (DOMAIN m.records) BY DEF Unnamed
<1>2. \A p \in new : m.records[p].id = NoId BY DEF Unnamed
<1> HIDE DEF new
<1>3. /\ n \in Stores /\ n.last >= m.last /\ Len(n.records) = Len(m.records)
      /\ \A p \in DOMAIN m.records :
           IF p \in new
           THEN \E id \in (m.last + 1)..n.last : n.records[p] = [m.records[p] EXCEPT !.id = id]
           ELSE n.records[p] = m.records[p]
  BY <1>1, NamingIs
<1> HIDE DEF n
<1>4. DOMAIN n.records = DOMAIN m.records
  <2>1. n.records \in Seq(Entry) /\ m.records \in Seq(Entry) BY <1>3 DEF Stores
  <2> QED BY <1>3, <2>1
<1>5. Follows(m, n, {}) BY <1>3, <1>4 DEF Follows
<1>6. \A p \in DOMAIN m.records : m.records[p].id # NoId => n.records[p] = m.records[p] BY <1>2, <1>3
<1>7. \A r \in Range(m.records) : Keeps(m, n, r)
  <2> SUFFICES ASSUME NEW p \in DOMAIN m.records, m.records[p].id # NoId PROVE m.records[p] \in Range(n.records)
    BY DEF Range, Keeps
  <2>1. p \in DOMAIN n.records /\ n.records[p] = m.records[p] BY <1>4, <1>6
  <2> QED BY <2>1 DEF Range
<1> QED BY <1>3, <1>5, <1>6, <1>7 DEF n, new, idForLocked

LEMMA QueriedIs ==
  ASSUME NEW m \in Stores, NEW q
  PROVE  Follows(m, Queried(m, q), {}) /\ \A r \in Range(m.records) : Keeps(m, Queried(m, q), r)
<1>1. Candidates(m, q) \in SUBSET (DOMAIN m.records) BY DEF Candidates
<1> QED BY <1>1, IdForLockedIs DEF Queried

LEMMA RemoveAtIs ==
  ASSUME NEW S, NEW q \in Seq(S), NEW i \in 1..Len(q)
  PROVE  /\ RemoveAt(q, i) \in Seq(S) /\ Len(RemoveAt(q, i)) = Len(q) - 1
         /\ \A k \in 1..(Len(q) - 1) : RemoveAt(q, i)[k] = IF k < i THEN q[k] ELSE q[k + 1]
<1> DEFINE left == SubSeq(q, 1, i - 1)
           right == SubSeq(q, i + 1, Len(q))
<1>1. left \in Seq(S) /\ Len(left) = i - 1 /\ \A k \in 1..(i - 1) : left[k] = q[k] OBVIOUS
<1>2. right \in Seq(S) /\ Len(right) = Len(q) - i /\ \A k \in 1..(Len(q) - i) : right[k] = q[i + k] OBVIOUS
<1> HIDE DEF left, right
<1>3. left \o right \in Seq(S) /\ Len(left \o right) = Len(q) - 1
  <2>1. left \o right \in Seq(S) /\ Len(left \o right) = Len(left) + Len(right) BY <1>1, <1>2, ConcatProperties
  <2>2. Len(q) \in Nat /\ i \in Nat OBVIOUS
  <2> QED BY <1>1, <1>2, <2>1, <2>2
<1>4. ASSUME NEW k \in 1..(Len(q) - 1)
      PROVE  (left \o right)[k] = IF k < i THEN q[k] ELSE q[k + 1]
  <2>1. CASE k < i BY <1>1, <1>2, <2>1
  <2>2. CASE ~(k < i)
    <3>1. k - (i - 1) \in 1..(Len(q) - i) /\ i + (k - (i - 1)) = k + 1 BY <2>2
    <3>2. (left \o right)[k] = right[k - (i - 1)] BY <1>1, <1>2, <2>2
    <3> QED BY <1>2, <2>2, <3>1, <3>2
  <2> QED BY <2>1, <2>2
<1> QED BY <1>3, <1>4 DEF RemoveAt, left, right

LEMMA DeleteIs ==
  ASSUME NEW m \in Stores, NEW s, NEW id
  PROVE  /\ Follows(m, Delete(m, s, id), {})
         /\ \A r \in Range(m.records) : Keeps(m, Delete(m, s, id), r) \/ (r.scope = s /\ r.id = id)
<1> DEFINE I == {i \in 1..Len(m.records) : id # NoId /\ m.records[i].id = id /\ m.records[i].scope = s}
           at == IF I # {} THEN Min(I) ELSE 0
           named == idForLocked(m, IF at = 0 THEN DOMAIN m.records ELSE 1..at)
           n == IF at = 0 THEN named ELSE [named EXCEPT !.records = RemoveAt(@, at)]
<1>1. Delete(m, s, id) = n BY DEF Delete, SelectInSeq
<1>2. m.records \in Seq(Entry) /\ Len(m.records) \in Nat /\ DOMAIN m.records = 1..Len(m.records) BY DEF Stores
<1>3. at # 0 => at \in 1..Len(m.records) /\ id # NoId /\ m.records[at].id = id /\ m.records[at].scope = s
  <2> SUFFICES ASSUME at # 0 PROVE at \in I OBVIOUS
  <2>1. I # {} /\ I \in SUBSET Nat BY <1>2
  <2> QED BY <2>1, MinIs
<1> HIDE DEF at
<1>4. (IF at = 0 THEN DOMAIN m.records ELSE 1..at) \in SUBSET (DOMAIN m.records) BY <1>2, <1>3
<1>5. /\ Follows(m, named, {}) /\ \A r \in Range(m.records) : Keeps(m, named, r)
      /\ Len(named.records) = Len(m.records)
      /\ \A p \in DOMAIN m.records : m.records[p].id # NoId => named.records[p] = m.records[p]
  BY <1>4, IdForLockedIs
<1> HIDE DEF named
<1>6. CASE at = 0 BY <1>1, <1>5, <1>6
<1>7. CASE at # 0
  <2>1. named \in Stores /\ named.records \in Seq(Entry) /\ named.last \in Nat BY <1>5 DEF Follows, Stores
  <2>2. at \in 1..Len(named.records) BY <1>3, <1>5, <1>7
  <2>3. /\ RemoveAt(named.records, at) \in Seq(Entry)
        /\ Len(RemoveAt(named.records, at)) = Len(m.records) - 1
        /\ \A k \in 1..(Len(m.records) - 1) :
             RemoveAt(named.records, at)[k] = IF k < at THEN named.records[k] ELSE named.records[k + 1]
    BY <1>5, <2>1, <2>2, RemoveAtIs
  <2>4. n = [records |-> RemoveAt(named.records, at), last |-> named.last] BY <1>7, <2>1 DEF Stores
  <2> HIDE DEF n
  <2>5. n \in Stores /\ n.last >= m.last BY <1>5, <2>1, <2>3, <2>4 DEF Follows, Stores
  <2>6. DOMAIN n.records = 1..(Len(m.records) - 1) BY <1>2, <2>3, <2>4
  <2>7. \A k \in DOMAIN n.records : \E p \in DOMAIN named.records : n.records[k] = named.records[p]
    <3> SUFFICES ASSUME NEW k \in DOMAIN n.records PROVE \E p \in DOMAIN named.records : n.records[k] = named.records[p]
      OBVIOUS
    <3>1. DOMAIN named.records = 1..Len(m.records) BY <1>5, <2>1
    <3>2. k \in DOMAIN named.records /\ k + 1 \in DOMAIN named.records BY <1>2, <2>6, <3>1
    <3> QED BY <2>3, <2>4, <2>6, <3>2
  <2>8. Follows(m, n, {})
    <3> SUFFICES ASSUME NEW k \in DOMAIN n.records
                 PROVE  \E x \in DOMAIN m.records :
                          \/ n.records[k] = m.records[x]
                          \/ \E new \in (m.last + 1)..n.last : n.records[k] = [m.records[x] EXCEPT !.id = new]
      BY <2>5 DEF Follows
    <3>1. PICK p \in DOMAIN named.records : n.records[k] = named.records[p] BY <2>7
    <3>2. n.last = named.last BY <2>4
    <3>3. \E x \in DOMAIN m.records :
            \/ named.records[p] = m.records[x]
            \/ \E new \in (m.last + 1)..named.last : named.records[p] = [m.records[x] EXCEPT !.id = new]
      BY <1>5 DEF Follows
    <3> QED BY <3>1, <3>2, <3>3
  <2>9. ASSUME NEW r \in Range(m.records), r.id # NoId, ~(r.scope = s /\ r.id = id) PROVE r \in Range(n.records)
    <3>1. PICK p \in DOMAIN m.records : r = m.records[p] BY DEF Range
    <3>2. p # at BY <1>3, <1>7, <2>9, <3>1
    <3>3. named.records[p] = r BY <1>5, <2>9, <3>1
    <3> DEFINE k == IF p < at THEN p ELSE p - 1
    <3>4. k \in DOMAIN n.records /\ (k < at <=> p < at) /\ (~(p < at) => k + 1 = p)
      BY <1>2, <1>3, <1>7, <2>6, <3>1, <3>2
    <3>5. n.records[k] = r BY <2>3, <2>4, <2>6, <3>3, <3>4
    <3> QED BY <3>4, <3>5 DEF Range
  <2> QED BY <1>1, <2>8, <2>9 DEF Keeps
<1> QED BY <1>6, <1>7

------------------------------------------------------------------------------
(* No operation gives an ID twice. *)

\* An entry without a number for ID, or with the next number.
LEMMA AppendIsDistinct ==
  ASSUME NEW m \in Stores, Distinct(m), NEW slot \in Entry, NEW last \in Nat,
         \/ last = m.last /\ slot.id \notin Nat \ {NoId}
         \/ last = m.last + 1 /\ slot.id = last
  PROVE  Distinct([records |-> Append(m.records, slot), last |-> last])
<1> DEFINE n == [records |-> Append(m.records, slot), last |-> last]
           N == Len(m.records)
<1>1. m.records \in Seq(Entry) /\ m.last \in Nat /\ m.last <= last BY DEF Stores
<1>2. N \in Nat /\ DOMAIN m.records = 1..N BY <1>1
<1>3. /\ DOMAIN n.records = 1..(N + 1) /\ n.last = last
      /\ \A p \in 1..N : n.records[p] = m.records[p]
      /\ n.records[N + 1] = slot
  BY <1>1
<1> HIDE DEF n, N
<1>4. ASSUME NEW p \in 1..N, m.records[p].id \in Nat \ {NoId} PROVE m.records[p].id <= m.last /\ m.records[p].id # slot.id
  <2>1. m.records[p].id <= m.last BY <1>2, <1>4 DEF Distinct
  <2>2. slot.id \notin Nat \ {NoId} \/ slot.id = m.last + 1 OBVIOUS
  <2> QED BY <1>1, <1>4, <2>1, <2>2
<1>5. ASSUME NEW p \in 1..(N + 1), n.records[p].id \in Nat \ {NoId} PROVE n.records[p].id <= last
  <2>1. CASE p = N + 1 BY <1>3, <1>5, <2>1
  <2>2. CASE p # N + 1
    <3>1. p \in 1..N BY <1>2, <2>2
    <3>2. m.records[p].id \in Nat /\ m.records[p].id <= m.last BY <1>3, <1>4, <1>5, <3>1
    <3>3. m.records[p].id <= last BY <1>1, <3>2
    <3> QED BY <1>3, <3>1, <3>3
  <2> QED BY <2>1, <2>2
<1>6. ASSUME NEW p \in 1..(N + 1), NEW q \in 1..(N + 1), n.records[p].id \in Nat \ {NoId}, n.records[p].id = n.records[q].id
      PROVE  p = q
  <2>1. (p = N + 1 \/ p \in 1..N) /\ (q = N + 1 \/ q \in 1..N) BY <1>2
  <2>2. CASE p \in 1..N /\ q \in 1..N BY <1>2, <1>3, <1>6, <2>2 DEF Distinct
  <2>3. ASSUME NEW x \in 1..N, m.records[x].id \in Nat \ {NoId}, m.records[x].id = slot.id PROVE FALSE BY <1>4, <2>3
  <2>4. CASE p \in 1..N /\ q = N + 1 BY <1>3, <1>6, <2>3, <2>4
  <2>5. CASE q \in 1..N /\ p = N + 1 BY <1>3, <1>6, <2>3, <2>5
  <2> QED BY <2>1, <2>2, <2>4, <2>5
<1>7. Distinct(n) BY <1>3, <1>5, <1>6 DEF Distinct
<1> QED BY <1>7 DEF n

\* The new IDs differ: the k-th of the unnamed records gets the k-th of them.
LEMMA NamingIsDistinct ==
  ASSUME NEW m \in Stores, Distinct(m), NEW new \in SUBSET (DOMAIN m.records)
  PROVE  Distinct(Naming(m, new))
<1> DEFINE n == Naming(m, new)
           upTo(p) == {x \in new : x <= p}
<1>1. DOMAIN m.records = 1..Len(m.records) /\ Len(m.records) \in Nat /\ m.last \in Nat BY DEF Stores
<1>2. Cardinality(new) \in Nat /\ \A p \in new : Cardinality(upTo(p)) \in 1..Cardinality(new) BY <1>1, CountIs
<1>3. \A p \in new : Cardinality(upTo(p)) \in Nat BY <1>2
<1>4. \A p, q \in new : p < q => Cardinality(upTo(p)) # Cardinality(upTo(q)) BY <1>1, CountIs
<1>5. n.last = m.last + Cardinality(new) BY DEF Naming
<1>6. n.records = [p \in DOMAIN m.records |->
                    IF p \in new THEN [m.records[p] EXCEPT !.id = m.last + Cardinality(upTo(p))]
                    ELSE m.records[p]]
  BY DEF Naming
<1> HIDE DEF n, upTo
<1>7. \A p \in DOMAIN m.records : m.records[p] \in Entry BY DEF Stores
<1>8. DOMAIN n.records = DOMAIN m.records BY <1>6
<1>9. ASSUME NEW p \in DOMAIN m.records
      PROVE  n.records[p].id = IF p \in new THEN m.last + Cardinality(upTo(p)) ELSE m.records[p].id
  <2>1. CASE p \in new
    <3>1. n.records[p] = [m.records[p] EXCEPT !.id = m.last + Cardinality(upTo(p))] BY <1>6, <2>1
    <3> QED BY <1>7, <2>1, <3>1 DEF Entry
  <2>2. CASE p \notin new BY <1>6, <2>2
  <2> QED BY <2>1, <2>2
<1>10. ASSUME NEW p \in DOMAIN m.records, p \notin new, m.records[p].id \in Nat \ {NoId}
       PROVE  m.records[p].id <= m.last
  BY <1>10 DEF Distinct
<1>11. ASSUME NEW p \in new PROVE m.last + Cardinality(upTo(p)) \in (m.last + 1)..n.last BY <1>1, <1>2, <1>5
<1>12. ASSUME NEW p \in DOMAIN m.records, n.records[p].id \in Nat \ {NoId} PROVE n.records[p].id <= n.last
  <2>1. CASE p \in new BY <1>1, <1>2, <1>5, <1>9, <1>11, <2>1
  <2>2. CASE p \notin new BY <1>1, <1>2, <1>5, <1>9, <1>10, <1>12, <2>2
  <2> QED BY <2>1, <2>2
<1>13. ASSUME NEW p \in DOMAIN m.records, NEW q \in DOMAIN m.records, n.records[p].id \in Nat \ {NoId},
              n.records[p].id = n.records[q].id
       PROVE  p = q
  <2>1. ASSUME NEW x \in new, NEW y \in new, x < y PROVE n.records[x].id # n.records[y].id
    <3>1. Cardinality(upTo(x)) # Cardinality(upTo(y)) BY <1>4, <2>1
    <3>2. Cardinality(upTo(x)) \in Nat /\ Cardinality(upTo(y)) \in Nat BY <1>3
    <3>3. m.last + Cardinality(upTo(x)) # m.last + Cardinality(upTo(y)) BY <1>1, <3>1, <3>2
    <3> QED BY <1>9, <3>3
  <2>2. ASSUME NEW x \in new, NEW y \in DOMAIN m.records, y \notin new PROVE n.records[x].id # n.records[y].id
    <3>1. n.records[x].id \in (m.last + 1)..n.last BY <1>9, <1>11
    <3>2. n.records[y].id \notin Nat \ {NoId} \/ n.records[y].id <= m.last BY <1>9, <1>10, <2>2
    <3> QED BY <1>1, <1>2, <1>5, <3>1, <3>2 DEF NoId
  <2>3. CASE p \in new /\ q \in new
    <3>1. p < q \/ q < p \/ p = q BY <1>1
    <3> QED BY <1>13, <2>1, <2>3, <3>1
  <2>4. CASE p \notin new /\ q \notin new BY <1>9, <1>13, <2>4 DEF Distinct
  <2> QED BY <1>13, <2>2, <2>3, <2>4
<1>14. Distinct(n) BY <1>8, <1>12, <1>13 DEF Distinct
<1> QED BY <1>14 DEF n

LEMMA SaveIsDistinct ==
  ASSUME NEW m \in Stores, Distinct(m), NEW slot \in Entry, slot.id = NoId
  PROVE  Distinct(Save(m, slot))
<1>1. Save(m, slot) = [records |-> Append(m.records, slot), last |-> m.last] /\ m.last \in Nat BY DEF Save, Stores
<1> QED BY <1>1, AppendIsDistinct

LEMMA PutIsDistinct ==
  ASSUME NEW m \in Stores, Distinct(m), NEW slot \in Entry, slot.id \in CallerId \cup {NoId}
  PROVE  Distinct(Put(m, slot))
<1>1. m.last \in Nat /\ m.last + 1 \in Nat BY DEF Stores
<1>2. CASE slot.id # NoId
  <2>1. Put(m, slot) = [records |-> Append(m.records, slot), last |-> m.last] BY <1>2 DEF Put, Stores
  <2>2. slot.id \notin Nat \ {NoId} BY <1>2, CallerIdAssumption
  <2> QED BY <1>1, <2>1, <2>2, AppendIsDistinct
<1>3. CASE slot.id = NoId
  <2> DEFINE given == [slot EXCEPT !.id = m.last + 1]
  <2>1. Put(m, slot) = [records |-> Append(m.records, given), last |-> m.last + 1] BY <1>3 DEF Put
  <2>2. given \in Entry /\ given.id = m.last + 1 BY <1>1 DEF Entry
  <2> HIDE DEF given
  <2> QED BY <1>1, <2>1, <2>2, AppendIsDistinct
<1> QED BY <1>2, <1>3

LEMMA IdForLockedIsDistinct ==
  ASSUME NEW m \in Stores, Distinct(m), NEW ps \in SUBSET (DOMAIN m.records)
  PROVE  Distinct(idForLocked(m, ps))
<1>1. Unnamed(m, ps) \in SUBSET (DOMAIN m.records) BY DEF Unnamed
<1> QED BY <1>1, NamingIsDistinct DEF idForLocked

\* What a Delete leaves moves up, and stays apart.
LEMMA DeleteIsDistinct ==
  ASSUME NEW m \in Stores, Distinct(m), NEW s, NEW id
  PROVE  Distinct(Delete(m, s, id))
<1> DEFINE I == {i \in 1..Len(m.records) : id # NoId /\ m.records[i].id = id /\ m.records[i].scope = s}
           at == IF I # {} THEN Min(I) ELSE 0
           named == idForLocked(m, IF at = 0 THEN DOMAIN m.records ELSE 1..at)
           n == IF at = 0 THEN named ELSE [named EXCEPT !.records = RemoveAt(@, at)]
<1>1. Delete(m, s, id) = n BY DEF Delete, SelectInSeq
<1>2. m.records \in Seq(Entry) /\ Len(m.records) \in Nat /\ DOMAIN m.records = 1..Len(m.records) BY DEF Stores
<1>3. at # 0 => at \in 1..Len(m.records)
  <2> SUFFICES ASSUME at # 0 PROVE at \in I OBVIOUS
  <2>1. I # {} /\ I \in SUBSET Nat BY <1>2
  <2> QED BY <2>1, MinIs
<1> HIDE DEF at
<1>4. (IF at = 0 THEN DOMAIN m.records ELSE 1..at) \in SUBSET (DOMAIN m.records) BY <1>2, <1>3
<1>5. Distinct(named) BY <1>4, IdForLockedIsDistinct
<1>6. named \in Stores /\ Len(named.records) = Len(m.records) BY <1>4, IdForLockedIs DEF Follows
<1> HIDE DEF named
<1>7. CASE at = 0 BY <1>1, <1>5, <1>7
<1>8. CASE at # 0
  <2> DEFINE N == Len(m.records)
             rest == RemoveAt(named.records, at)
             from(k) == IF k < at THEN k ELSE k + 1
  <2>1. named.records \in Seq(Entry) /\ DOMAIN named.records = 1..N /\ at \in 1..Len(named.records)
    BY <1>3, <1>6, <1>8 DEF Stores
  <2>2. rest \in Seq(Entry) /\ Len(rest) = N - 1 /\ \A k \in 1..(N - 1) : rest[k] = named.records[from(k)]
    BY <1>6, <2>1, RemoveAtIs
  <2>3. n = [records |-> rest, last |-> named.last] BY <1>6, <1>8 DEF Stores
  <2> HIDE DEF n, rest
  <2>4. DOMAIN rest = 1..(N - 1) BY <1>2, <2>2
  <2>5. \A k \in 1..(N - 1) : from(k) \in 1..N BY <1>2
  <2>6. \A j, k \in 1..(N - 1) : from(j) = from(k) => j = k BY <1>2, <1>3, <1>8
  <2> HIDE DEF from, N
  <2>7. ASSUME NEW p \in 1..(N - 1), rest[p].id \in Nat \ {NoId}
        PROVE  rest[p].id <= named.last /\ \A q \in 1..(N - 1) : rest[p].id = rest[q].id => p = q
    <3>1. rest[p] = named.records[from(p)] /\ from(p) \in DOMAIN named.records BY <2>1, <2>2, <2>5
    <3>2. rest[p].id <= named.last BY <1>5, <2>7, <3>1 DEF Distinct
    <3>3. ASSUME NEW q \in 1..(N - 1), rest[p].id = rest[q].id PROVE p = q
      <4>1. rest[q] = named.records[from(q)] /\ from(q) \in DOMAIN named.records BY <2>1, <2>2, <2>5
      <4>2. from(p) = from(q) BY <1>5, <2>7, <3>1, <3>3, <4>1 DEF Distinct
      <4> QED BY <2>6, <4>2
    <3> QED BY <3>2, <3>3
  <2>8. Distinct(n) BY <2>3, <2>4, <2>7 DEF Distinct
  <2> QED BY <1>1, <2>8
<1> QED BY <1>7, <1>8

------------------------------------------------------------------------------
(* What a step does to the store. *)

\* Steps other than Remember only note less.
NotesNoMore == wrote' \subseteq wrote

LEMMA SlotIs ==
  ASSUME NEW id \in Nat \cup CallerId, NEW s \in Scope, NEW role \in {Role[a] : a \in Agent} \cup {NoRole},
         NEW t \in Task \cup {NoTask}, NEW c \in Content, NEW e \in Vector \cup {NoVector}
  PROVE  Slot(id, s, role, t, c, e) \in Entry
BY DEF Slot, Entry

LEMMA AppSaveIs ==
  ASSUME TypeOK, NEW c \in Content, AppSave(c)
  PROVE  /\ \E put \in SUBSET Entry : Follows(memory, memory', put) /\ \A r \in put : r.id \in {NoId} \cup CallerId
         /\ \A r \in Range(memory.records) : Keeps(memory, memory', r)
         /\ NotesNoMore /\ UNCHANGED <<running, tools, todo, stack>>
<1>1. PICK s \in Scope : memory' = Save(memory, Slot(NoId, s, NoRole, NoTask, c, NoVector)) BY DEF AppSave
<1> DEFINE slot == Slot(NoId, s, NoRole, NoTask, c, NoVector)
<1>2. slot \in Entry /\ slot.id = NoId BY SlotIs DEF NoId, Slot
<1>3. memory \in Stores BY DEF TypeOK, Stores
<1> HIDE DEF slot
<1>4. {slot} \in SUBSET Entry /\ \A r \in {slot} : r.id \in {NoId} \cup CallerId BY <1>2
<1>5. Follows(memory, memory', {slot}) /\ \A r \in Range(memory.records) : Keeps(memory, memory', r)
  BY <1>1, <1>2, <1>3, SaveIs DEF slot
<1> QED BY <1>4, <1>5 DEF AppSave, NotesNoMore

LEMMA AppPutIs ==
  ASSUME TypeOK, NEW id \in CallerId, NEW s \in Scope, NEW c \in Content, AppPut(id, s, c)
  PROVE  /\ \E put \in SUBSET Entry : Follows(memory, memory', put) /\ \A r \in put : r.id \in {NoId} \cup CallerId
         /\ \A r \in Range(memory.records) : Keeps(memory, memory', r)
         /\ NotesNoMore /\ UNCHANGED <<running, tools, todo, stack>>
<1> DEFINE slot == Slot(id, s, NoRole, NoTask, c, NoVector)
<1>1. slot \in Entry /\ slot.id = id BY SlotIs DEF Slot
<1>2. id # NoId BY CallerIdAssumption DEF NoId
<1>3. memory \in Stores BY DEF TypeOK, Stores
<1>4. memory' = Put(memory, slot) BY DEF AppPut
<1> HIDE DEF slot
<1>5. Given(memory, slot) = slot BY <1>1, <1>2 DEF Given
<1>6. {slot} \in SUBSET Entry /\ \A r \in {slot} : r.id \in {NoId} \cup CallerId BY <1>1
<1>7. Follows(memory, memory', {slot}) /\ \A r \in Range(memory.records) : Keeps(memory, memory', r)
  BY <1>1, <1>3, <1>4, <1>5, PutIs
<1> QED BY <1>6, <1>7 DEF AppPut, NotesNoMore

LEMMA AppDeleteIs ==
  ASSUME TypeOK, NEW s, NEW id, AppDelete(s, id)
  PROVE  /\ Follows(memory, memory', {})
         /\ \A r \in Range(memory.records) : Keeps(memory, memory', r) \/ (r.scope = s /\ r.id = id)
         /\ NotesNoMore /\ UNCHANGED <<running, tools, todo, stack>>
<1>1. memory \in Stores BY DEF TypeOK, Stores
<1>2. /\ Follows(memory, memory', {})
      /\ \A r \in Range(memory.records) : Keeps(memory, memory', r) \/ (r.scope = s /\ r.id = id)
  BY <1>1, DeleteIs DEF AppDelete
<1> QED BY <1>2 DEF AppDelete, NotesNoMore

LEMMA RecallIs ==
  ASSUME TypeOK, NEW t \in Task, NEW text, NEW e, Recall(t, text, e)
  PROVE  /\ Follows(memory, memory', {})
         /\ \A r \in Range(memory.records) : Keeps(memory, memory', r)
         /\ NotesNoMore /\ stack' = Observed(t) /\ UNCHANGED <<running, tools, todo>>
<1>1. memory \in Stores BY DEF TypeOK, Stores
<1> QED BY <1>1, QueriedIs DEF Recall, NotesNoMore

\* Without a step of the store there is nothing to note.
LEMMA SameStore ==
  ASSUME TypeOK, UNCHANGED <<memory, wrote>>
  PROVE  Follows(memory, memory', {}) /\ (\A r \in Range(memory.records) : Keeps(memory, memory', r)) /\ NotesNoMore
<1>1. memory \in Stores /\ memory.last \in Nat BY DEF TypeOK, Stores
<1> QED BY <1>1 DEF Follows, Keeps, NotesNoMore, Range

\* The entry of a Remember, and what is noted of it.
Noted(put, t) ==
  /\ memory'.records = Append(memory.records, put) /\ memory'.last = memory.last + 1
  /\ put \in Entry /\ put.id = memory'.last
  /\ put.agent = Top(t).role /\ put.task = t
  /\ wrote' = wrote \cup {[id |-> memory'.last, agent |-> Top(t).agent, task |-> t, crew |-> running]}

LEMMA RememberIs ==
  ASSUME TypeOK, NEW t \in Task, NEW c \in Content, NEW e \in {NoVector, Embed[c]}, Remember(t, c, e)
  PROVE  /\ \E put \in Entry : Noted(put, t) /\ Follows(memory, memory', {put})
         /\ \A r \in Range(memory.records) : Keeps(memory, memory', r)
         /\ Top(t) \in Execution /\ running \in Crew
         /\ stack' = Observed(t) /\ UNCHANGED <<running, tools, todo>>
<1> DEFINE scope == effectiveScope(t)
           slot == Slot(NoId, scope, Top(t).role, t, c, e)
           put == Given(memory, slot)
<1>1. stack[t] \in Seq(Execution) /\ stack[t] # <<>> BY DEF TypeOK, Remember, Working
<1>2. Top(t) \in Execution BY <1>1 DEF Top
<1>3. running \in Crew BY <1>1 DEF TypeOK
<1>4. tools[Top(t).agent] \in Crew BY <1>2 DEF TypeOK, Remember, HasTools, Execution
<1>5. scope \in Scope BY <1>4, CrewAssumption DEF effectiveScope
<1>6. e \in Vector \cup {NoVector} BY EmbedAssumption
<1>7. Top(t).role \in {Role[a] : a \in Agent} \cup {NoRole} BY <1>2 DEF Execution
<1>8. slot \in Entry BY <1>5, <1>6, <1>7, SlotIs DEF NoId
<1>9. slot.id = NoId /\ slot.agent = Top(t).role /\ slot.task = t BY DEF Slot
<1>10. memory \in Stores BY DEF TypeOK, Stores
<1>11. memory' = Put(memory, slot) BY DEF Remember
<1>12. wrote' = wrote \cup {[id |-> memory'.last, agent |-> Top(t).agent, task |-> t, crew |-> running]} BY DEF Remember
<1> HIDE DEF scope, slot
<1>13. /\ Follows(memory, memory', {put}) /\ \A r \in Range(memory.records) : Keeps(memory, memory', r)
       /\ put \in Entry /\ memory'.last = memory.last + 1 /\ memory'.records = Append(memory.records, put)
  BY <1>8, <1>9, <1>10, <1>11, PutIs
<1>14. put = [slot EXCEPT !.id = memory.last + 1] BY <1>9 DEF Given
<1>15. put.id = memory.last + 1 /\ put.agent = slot.agent /\ put.task = slot.task BY <1>8, <1>14 DEF Entry
<1>16. Noted(put, t) BY <1>9, <1>12, <1>13, <1>15 DEF Noted
<1> QED BY <1>2, <1>3, <1>13, <1>16 DEF Remember

------------------------------------------------------------------------------
(* What a step does to the stack of a task. *)

\* Only iterations were spent.
Same(s, u) ==
  /\ u \in Seq(Execution) /\ Len(u) = Len(s)
  /\ \A p \in DOMAIN s : /\ u[p].agent = s[p].agent /\ u[p].role = s[p].role
                          /\ u[p].depth = s[p].depth /\ u[p].callers = s[p].callers

Called(s, u, target) ==
  /\ s # <<>> /\ target \in Agent /\ Role[target].name # ""
  /\ s[Len(s)].depth < DefaultMaxDelegationDepth
  /\ ~EqualFold(s[Len(s)].role, Role[target].name) /\ ~Cycle(s[Len(s)], Role[target].name)
  /\ \E v : Same(s, v) /\ u = Append(v, Pushed(s[Len(s)], target))

Moves(s, u) ==
  \/ Same(s, u)
  \/ s # <<>> /\ u = SubSeq(s, 1, Len(s) - 1)
  \/ \E a \in Agent : u = <<Frame(a, NoRole, 0, <<>>)>>
  \/ \E target \in Agent : Called(s, u, target)

LEMMA FrameIs ==
  ASSUME NEW a \in Agent, NEW role \in {Role[x] : x \in Agent} \cup {NoRole}, NEW depth \in Nat,
         NEW callers \in Seq({Role[x] : x \in Agent})
  PROVE  Frame(a, role, depth, callers) \in Execution
BY IterationsAssumption DEF Frame, Executing, Execution

LEMMA ObservedIs ==
  ASSUME TypeOK, NEW t \in Task, Working(t)
  PROVE  Same(stack[t], Observed(t)[t]) /\ Observed(t) = [stack EXCEPT ![t] = Observed(t)[t]]
<1> DEFINE n == Len(stack[t])
           u == [stack[t] EXCEPT ![n].left = @ - 1]
<1>1. stack[t] \in Seq(Execution) /\ stack[t] # <<>> /\ stack \in [Task -> Seq(Execution)] BY DEF TypeOK, Working
<1>2. n \in DOMAIN stack[t] /\ stack[t][n] \in Execution BY <1>1
<1>3. stack[t][n].left \in Nat /\ stack[t][n].left > 0 BY <1>2 DEF Working, Top, Execution
<1>4. [stack[t][n] EXCEPT !.left = @ - 1] \in Execution BY <1>2, <1>3 DEF Execution
<1>5. u = [stack[t] EXCEPT ![n] = [stack[t][n] EXCEPT !.left = @ - 1]] OBVIOUS
<1>6. u \in Seq(Execution) /\ Len(u) = Len(stack[t]) BY <1>1, <1>2, <1>4, <1>5
<1>7. \A p \in DOMAIN stack[t] : u[p] = IF p = n THEN [stack[t][n] EXCEPT !.left = @ - 1] ELSE stack[t][p] BY <1>5
<1>8. Same(stack[t], u) BY <1>2, <1>6, <1>7 DEF Same, Execution
<1>9. Observed(t) = [stack EXCEPT ![t] = u] BY DEF Observed
<1> QED BY <1>1, <1>8, <1>9

\* The step changes at most the stack of t, and that only as Moves says.
MovesOnly(t) == Moves(stack[t], stack'[t]) /\ stack' = [stack EXCEPT ![t] = stack'[t]]

LEMMA SpentMoves ==
  ASSUME TypeOK, NEW t \in Task, Working(t), stack' = Observed(t)
  PROVE  MovesOnly(t)
BY ObservedIs DEF MovesOnly, Moves

LEMMA StartMoves ==
  ASSUME TypeOK, NEW t \in Task, NEW reply, StartTask(t, reply)
  PROVE  MovesOnly(t) /\ running \in Crew
<1> DEFINE a == IF TaskAgent[t] # NoAgent THEN TaskAgent[t] ELSE delegate(Agents[running], reply)
<1>1. running \in Crew BY DEF TypeOK, StartTask
<1>2. Agents[running] \in Seq(Agent) /\ TaskAgent[t] \in Agent \cup {NoAgent} BY <1>1, CrewAssumption
<1>3. a \in Agent \cup {NoAgent} BY <1>2, DelegateIs
<1>4. a # NoAgent /\ stack' = [stack EXCEPT ![t] = <<Frame(a, NoRole, 0, <<>>)>>] BY DEF StartTask
<1>5. stack'[t] = <<Frame(a, NoRole, 0, <<>>)>> BY <1>4 DEF TypeOK
<1> QED BY <1>1, <1>3, <1>4, <1>5 DEF MovesOnly, Moves

LEMMA ReturnMoves ==
  ASSUME TypeOK, NEW t \in Task, Return(t)
  PROVE  MovesOnly(t)
<1>1. stack'[t] = SubSeq(stack[t], 1, Len(stack[t]) - 1) BY DEF Return, TypeOK
<1> QED BY <1>1 DEF Return, MovesOnly, Moves

LEMMA DelegateMoves ==
  ASSUME TypeOK, NEW t \in Task, NEW name, Delegate(t, name)
  PROVE  MovesOnly(t)
<1> DEFINE s == stack[t]
           roster == Agents[tools[Top(t).agent]]
           target == findRosterAgent(roster, name)
<1>1. s \in Seq(Execution) /\ s # <<>> BY DEF TypeOK, Delegate, Working
<1>2. Top(t) = s[Len(s)] /\ Top(t) \in Execution BY <1>1 DEF Top
<1>3. roster \in Seq(Agent) BY <1>2, CrewAssumption DEF TypeOK, Delegate, HasTools, Execution
<1>4. Refusal(Top(t), roster, name) = "none" /\ name # "" BY DEF Delegate
<1> HIDE DEF s, roster
<1>5. /\ ~(Top(t).depth >= DefaultMaxDelegationDepth) /\ ~EqualFold(Top(t).role, name)
      /\ ~Cycle(Top(t), name) /\ target # NoAgent
  BY <1>4 DEF Refusal
<1>6. target \in Agent /\ Role[target].name = name BY <1>3, <1>5, FindIs
<1>7. stack' = [stack EXCEPT ![t] = Append(Observed(t)[t], Pushed(Top(t), target))] BY DEF Delegate, roster
<1>8. Same(s, Observed(t)[t]) BY ObservedIs DEF Delegate, s
<1>9. stack'[t] = Append(Observed(t)[t], Pushed(Top(t), target)) BY <1>7 DEF TypeOK
<1>10. Top(t).depth < DefaultMaxDelegationDepth BY <1>2, <1>5, DepthAssumption DEF Execution
<1>11. Called(s, stack'[t], target) BY <1>1, <1>2, <1>4, <1>5, <1>6, <1>8, <1>9, <1>10 DEF Called
<1> QED BY <1>6, <1>7, <1>9, <1>11 DEF MovesOnly, Moves, s

LEMMA TaskStepMoves ==
  ASSUME TypeOK, NEW t \in Task, TaskStep(t)
  PROVE  MovesOnly(t)
<1>1. CASE Return(t) BY <1>1, ReturnMoves
<1>2. ASSUME NEW name, DelegateRefused(t, name) PROVE MovesOnly(t) BY <1>2, SpentMoves DEF DelegateRefused
<1>3. ASSUME NEW name, Delegate(t, name) PROVE MovesOnly(t) BY <1>3, DelegateMoves
<1>4. ASSUME NEW c, NEW e, Remember(t, c, e) PROVE MovesOnly(t) BY <1>4, SpentMoves DEF Remember
<1>5. ASSUME NEW text, NEW e, Recall(t, text, e) PROVE MovesOnly(t) BY <1>5, SpentMoves DEF Recall
<1> QED BY <1>1, <1>2, <1>3, <1>4, <1>5 DEF TaskStep

------------------------------------------------------------------------------
(* Moves keep stacks what they are. *)

LEMMA PushedIs ==
  ASSUME NEW s \in Seq(Execution), NEW u, NEW target, Called(s, u, target)
  PROVE  /\ u \in Seq(Execution) /\ Len(u) = Len(s) + 1
         /\ \A p \in DOMAIN s : /\ u[p].agent = s[p].agent /\ u[p].role = s[p].role
                                 /\ u[p].depth = s[p].depth /\ u[p].callers = s[p].callers
         /\ u[Len(s) + 1].agent = target /\ u[Len(s) + 1].role = Role[target]
         /\ u[Len(s) + 1].depth = s[Len(s)].depth + 1
         /\ u[Len(s) + 1].callers = IF s[Len(s)].role = NoRole THEN s[Len(s)].callers
                                     ELSE Append(s[Len(s)].callers, s[Len(s)].role)
<1> DEFINE f == s[Len(s)]
           callers == IF f.role = NoRole THEN f.callers ELSE Append(f.callers, f.role)
<1>1. PICK v : Same(s, v) /\ u = Append(v, Pushed(f, target)) BY DEF Called
<1>2. f \in Execution /\ target \in Agent
  <2>1. s # <<>> /\ target \in Agent BY DEF Called
  <2>2. Len(s) \in 1..Len(s) BY <2>1
  <2> QED BY <2>1, <2>2
<1> HIDE DEF f
<1>3. f.role \in {Role[a] : a \in Agent} \cup {NoRole} /\ f.depth \in Nat /\ f.callers \in Seq({Role[a] : a \in Agent})
  BY <1>2 DEF Execution
<1>4. callers \in Seq({Role[a] : a \in Agent}) BY <1>3
<1>5. Pushed(f, target) = Frame(target, f.role, f.depth + 1, callers) BY DEF Pushed
<1> HIDE DEF callers
<1>6. Pushed(f, target) \in Execution BY <1>2, <1>3, <1>4, <1>5, FrameIs
<1>7. Role[target] # NoRole
  <2>1. Role[target].name # "" BY DEF Called
  <2>2. NoRole.name = "" BY DEF NoRole
  <2> QED BY <2>1, <2>2
<1>8. /\ Pushed(f, target).agent = target /\ Pushed(f, target).role = Role[target]
      /\ Pushed(f, target).depth = f.depth + 1 /\ Pushed(f, target).callers = callers
  BY <1>5, <1>7 DEF Frame, Executing
<1>9. v \in Seq(Execution) /\ Len(v) = Len(s) BY <1>1 DEF Same
<1>10. /\ u \in Seq(Execution) /\ Len(u) = Len(s) + 1 /\ u[Len(s) + 1] = Pushed(f, target)
       /\ \A p \in DOMAIN s : u[p] = v[p]
  BY <1>1, <1>6, <1>9
<1> QED BY <1>1, <1>8, <1>10 DEF Same, f, callers

LEMMA MovesKeepNesting ==
  ASSUME NEW s \in Seq(Execution), NEW u, Nesting(s), Moves(s, u)
  PROVE  u \in Seq(Execution) /\ Nesting(u)
<1>1. CASE Same(s, u)
  <2>1. u \in Seq(Execution) /\ DOMAIN u = DOMAIN s BY <1>1 DEF Same
  <2> QED BY <1>1, <2>1 DEF Same, Nesting
<1>2. CASE s # <<>> /\ u = SubSeq(s, 1, Len(s) - 1)
  <2>1. Len(s) \in Nat /\ Len(s) > 0 /\ DOMAIN s = 1..Len(s) BY <1>2
  <2>2. u \in Seq(Execution) /\ Len(u) = Len(s) - 1 /\ \A p \in DOMAIN u : p \in DOMAIN s /\ u[p] = s[p]
    BY <1>2, <2>1
  <2> QED BY <2>1, <2>2, DepthAssumption DEF Nesting
<1>3. ASSUME NEW a \in Agent, u = <<Frame(a, NoRole, 0, <<>>)>> PROVE u \in Seq(Execution) /\ Nesting(u)
  <2>1. Frame(a, NoRole, 0, <<>>) \in Execution
    <3>1. <<>> \in Seq({Role[x] : x \in Agent}) /\ NoRole \in {Role[x] : x \in Agent} \cup {NoRole} OBVIOUS
    <3> QED BY <3>1, FrameIs
  <2>2. Frame(a, NoRole, 0, <<>>).depth = 0 /\ Frame(a, NoRole, 0, <<>>).agent = a
        /\ Frame(a, NoRole, 0, <<>>).role = Role[a]
    BY DEF Frame, Executing
  <2> QED BY <1>3, <2>1, <2>2, DepthAssumption DEF Nesting
<1>4. ASSUME NEW target \in Agent, Called(s, u, target) PROVE u \in Seq(Execution) /\ Nesting(u)
  <2> DEFINE n == Len(s)
  <2>0. s # <<>> BY <1>4 DEF Called
  <2>1. n \in Nat /\ n \in DOMAIN s /\ DOMAIN s = 1..n BY <2>0
  <2>2. s[n].depth = n - 1 /\ s[n].depth < DefaultMaxDelegationDepth BY <1>4, <2>1 DEF Nesting, Called
  <2>3. /\ u \in Seq(Execution) /\ Len(u) = n + 1
        /\ \A p \in DOMAIN s : u[p].agent = s[p].agent /\ u[p].role = s[p].role /\ u[p].depth = s[p].depth
        /\ u[n + 1].agent = target /\ u[n + 1].role = Role[target] /\ u[n + 1].depth = s[n].depth + 1
    BY <1>4, PushedIs
  <2>4. DOMAIN u = 1..(n + 1) BY <2>3
  <2>5. \A p \in DOMAIN u : u[p].depth = p - 1 /\ u[p].role = Role[u[p].agent]
    <3> SUFFICES ASSUME NEW p \in DOMAIN u PROVE u[p].depth = p - 1 /\ u[p].role = Role[u[p].agent] OBVIOUS
    <3>1. CASE p = n + 1 BY <2>1, <2>2, <2>3, <3>1
    <3>2. CASE p # n + 1
      <4>1. p \in DOMAIN s BY <2>1, <2>4, <3>2
      <4> QED BY <2>3, <4>1 DEF Nesting
    <3> QED BY <3>1, <3>2
  <2> QED BY <2>1, <2>2, <2>3, <2>5, DepthAssumption DEF Nesting
<1> QED BY <1>1, <1>2, <1>3, <1>4 DEF Moves

\* No agent is below itself, since its role is among the callers, or is the caller's.
LEMMA MovesKeepApart ==
  ASSUME Unpadded, NEW s \in Seq(Execution), NEW u, Nesting(s), Apart(s), Moves(s, u)
  PROVE  Apart(u)
<1>1. CASE Same(s, u)
  <2>1. DOMAIN u = DOMAIN s BY <1>1 DEF Same
  <2> QED BY <1>1, <2>1 DEF Same, Apart
<1>2. CASE s # <<>> /\ u = SubSeq(s, 1, Len(s) - 1)
  <2>1. Len(s) \in Nat /\ Len(s) > 0 /\ DOMAIN s = 1..Len(s) BY <1>2
  <2>2. \A p \in DOMAIN u : p \in DOMAIN s /\ u[p] = s[p] BY <1>2, <2>1
  <2> QED BY <2>2 DEF Apart
<1>3. ASSUME NEW a \in Agent, u = <<Frame(a, NoRole, 0, <<>>)>> PROVE Apart(u)
  <2>1. DOMAIN u = 1..1 BY <1>3
  <2> QED BY <2>1 DEF Apart
<1>4. ASSUME NEW target \in Agent, Called(s, u, target) PROVE Apart(u)
  <2> DEFINE n == Len(s)
             callers == u[n + 1].callers
             name == Role[target].name
  <2>0. s # <<>> BY <1>4 DEF Called
  <2>1. n \in Nat /\ n \in DOMAIN s /\ DOMAIN s = 1..n BY <2>0
  <2>2. /\ u \in Seq(Execution) /\ Len(u) = n + 1 /\ u[n + 1].agent = target
        /\ \A p \in DOMAIN s : u[p].agent = s[p].agent /\ u[p].role = s[p].role /\ u[p].callers = s[p].callers
        /\ callers = IF s[n].role = NoRole THEN s[n].callers ELSE Append(s[n].callers, s[n].role)
    BY <1>4, PushedIs
  <2>3. DOMAIN u = 1..(n + 1) BY <2>2
  <2>4. s[n] \in Execution BY <2>1
  <2>5. s[n].callers \in Seq({Role[a] : a \in Agent}) BY <2>4 DEF Execution
  <2> HIDE DEF callers
  \* The callers of the new execution are those of its caller, and that.
  <2>6. \A k \in DOMAIN s[n].callers : k \in DOMAIN callers /\ callers[k] = s[n].callers[k] BY <2>2, <2>5
  <2>7. s[n].role # NoRole => \E k \in DOMAIN callers : callers[k] = s[n].role
    <3>1. Len(s[n].callers) \in Nat BY <2>5
    <3>2. s[n].role # NoRole => callers = Append(s[n].callers, s[n].role) BY <2>2
    <3>3. s[n].role # NoRole =>
            /\ Len(s[n].callers) + 1 \in DOMAIN callers
            /\ callers[Len(s[n].callers) + 1] = s[n].role
      BY <2>5, <3>1, <3>2
    <3> QED BY <3>3
  <2>8. ASSUME NEW p \in DOMAIN s, s[p].role # NoRole PROVE \E k \in DOMAIN callers : callers[k] = s[p].role
    <3>1. CASE p = n BY <2>7, <2>8, <3>1
    <3>2. CASE p # n
      <4>1. p < n BY <2>1, <3>2
      <4>2. PICK k \in DOMAIN s[n].callers : s[n].callers[k] = s[p].role BY <2>1, <2>8, <4>1 DEF Apart
      <4> QED BY <2>6, <4>2
    <3> QED BY <3>1, <3>2
  \* An agent around the new execution has another role.
  <2>9. ASSUME NEW p \in DOMAIN s PROVE s[p].agent # target
    <3> SUFFICES ASSUME s[p].agent = target PROVE FALSE OBVIOUS
    <3>1. s[p].role = Role[target] BY DEF Nesting
    <3>2. Role[target] = [name |-> name, pad |-> FALSE]
      <4>1. Role[target] \in [name: STRING, pad: BOOLEAN] BY RoleAssumption
      <4>2. Role[target].pad = FALSE BY <4>1 DEF Unpadded
      <4> QED BY <4>1, <4>2
    <3>3. EqualFold(s[p].role, name) BY <3>1, <3>2 DEF EqualFold
    <3>4. CASE p = n BY <1>4, <3>3, <3>4 DEF Called
    <3>5. CASE p # n
      <4>1. s[p].role # NoRole
        <5>1. name # "" /\ NoRole.name = "" BY <1>4 DEF Called, NoRole
        <5> QED BY <3>1, <5>1
      <4>2. p < n BY <2>1, <3>5
      <4>3. PICK k \in DOMAIN s[n].callers : s[n].callers[k] = s[p].role BY <2>1, <4>1, <4>2 DEF Apart
      <4>4. Cycle(s[n], name) BY <3>3, <4>3 DEF Cycle
      <4> QED BY <1>4, <4>4 DEF Called
    <3> QED BY <3>4, <3>5
  <2> SUFFICES ASSUME NEW p \in DOMAIN u, NEW q \in DOMAIN u, p < q
               PROVE  /\ u[p].agent # u[q].agent
                      /\ u[p].role # NoRole => \E k \in DOMAIN u[q].callers : u[q].callers[k] = u[p].role
    BY DEF Apart
  <2>10. p \in DOMAIN s BY <2>1, <2>3
  <2>11. CASE q = n + 1 BY <2>2, <2>8, <2>9, <2>10, <2>11 DEF callers
  <2>12. CASE q # n + 1
    <3>1. q \in DOMAIN s BY <2>1, <2>3, <2>12
    <3> QED BY <2>2, <2>10, <3>1 DEF Apart
  <2> QED BY <2>11, <2>12
<1> QED BY <1>1, <1>2, <1>3, <1>4 DEF Moves

------------------------------------------------------------------------------
(* Every step. *)

LEMMA NextCases ==
  ASSUME [Next]_vars
  PROVE  \/ UNCHANGED vars
         \/ \E c \in Crew : Kickoff(c)
         \/ \E t \in Task, reply \in Replies : StartTask(t, reply)
         \/ NoAgentForTask \/ KickoffReturns
         \/ \E c \in Content : AppSave(c)
         \/ \E s \in Scope, id \in CallerId, c \in Content : AppPut(id, s, c)
         \/ \E s \in Scope, id \in CallerId \cup Nat : AppDelete(s, id)
         \/ \E t \in Task : TaskStep(t)
<1>1. CASE Store
  <2>1. CASE \E c \in Content : AppSave(c) BY <2>1
  <2>2. CASE \E s \in Scope, id \in CallerId, c \in Content : AppPut(id, s, c) BY <2>2
  <2>3. ASSUME NEW s \in Scope, NEW id \in CallerId \cup 1..memory.last, AppDelete(s, id)
        PROVE  \E x \in Scope, y \in CallerId \cup Nat : AppDelete(x, y)
    <3>1. id \in CallerId \cup Nat OBVIOUS
    <3> QED BY <2>3, <3>1
  <2> QED BY <1>1, <2>1, <2>2, <2>3 DEF Store
<1>2. CASE Scheduler BY <1>2 DEF Scheduler
<1>3. CASE (\E c \in Crew : Kickoff(c)) \/ (\E t \in Task : TaskStep(t)) \/ UNCHANGED vars BY <1>3
<1> QED BY <1>1, <1>2, <1>3 DEF Next

LEMMA StackStep ==
  ASSUME TypeOK, [Next]_vars
  PROVE  UNCHANGED stack \/ \E t \in Task : MovesOnly(t) /\ running' \in Crew
<1>1. CASE UNCHANGED vars BY <1>1 DEF vars
<1>2. ASSUME NEW c \in Crew, Kickoff(c) PROVE UNCHANGED stack BY <1>2 DEF Kickoff
<1>3. ASSUME NEW t \in Task, NEW reply, StartTask(t, reply) PROVE MovesOnly(t) /\ running' \in Crew
  BY <1>3, StartMoves DEF StartTask
<1>4. CASE NoAgentForTask \/ KickoffReturns BY <1>4 DEF NoAgentForTask, KickoffReturns
<1>5. ASSUME NEW c \in Content, AppSave(c) PROVE UNCHANGED stack BY <1>5 DEF AppSave
<1>6. ASSUME NEW s, NEW id, NEW c, AppPut(id, s, c) PROVE UNCHANGED stack BY <1>6 DEF AppPut
<1>7. ASSUME NEW s, NEW id, AppDelete(s, id) PROVE UNCHANGED stack BY <1>7 DEF AppDelete
<1>8. ASSUME NEW t \in Task, TaskStep(t) PROVE MovesOnly(t) /\ running' \in Crew
  <2>1. stack[t] # <<>> /\ running' = running
    BY <1>8 DEF TaskStep, Return, DelegateRefused, Delegate, Remember, Recall, Working
  <2>2. running \in Crew BY <2>1 DEF TypeOK
  <2> QED BY <1>8, <2>1, <2>2, TaskStepMoves
<1> QED BY <1>1, <1>2, <1>3, <1>4, <1>5, <1>6, <1>7, <1>8, NextCases

\* The store changes by its operations, and only Remember is noted.
StoreMoves ==
  \/ NotesNoMore /\ \E put \in SUBSET Entry :
       Follows(memory, memory', put) /\ \A r \in put : r.id \in {NoId} \cup CallerId
  \/ \E t \in Task, put \in Entry :
       Noted(put, t) /\ Follows(memory, memory', {put}) /\ Top(t) \in Execution /\ Working(t) /\ running \in Crew

LEMMA StoreStep ==
  ASSUME TypeOK, [Next]_vars
  PROVE  /\ StoreMoves
         /\ \A r \in Range(memory.records) : Keeps(memory, memory', r) \/ AppDelete(r.scope, r.id)
<1>1. ASSUME UNCHANGED <<memory, wrote>>
      PROVE  StoreMoves /\ \A r \in Range(memory.records) : Keeps(memory, memory', r)
  <2>1. Follows(memory, memory', {}) /\ (\A r \in Range(memory.records) : Keeps(memory, memory', r)) /\ NotesNoMore
    BY <1>1, SameStore
  <2> QED BY <2>1 DEF StoreMoves
<1>2. CASE UNCHANGED vars \/ (\E c \in Crew : Kickoff(c)) \/ (\E t \in Task, reply \in Replies : StartTask(t, reply))
           \/ NoAgentForTask \/ KickoffReturns
  BY <1>1, <1>2 DEF vars, Kickoff, StartTask, NoAgentForTask, KickoffReturns
<1>3. ASSUME NEW c \in Content, AppSave(c)
      PROVE  StoreMoves /\ \A r \in Range(memory.records) : Keeps(memory, memory', r)
  BY <1>3, AppSaveIs DEF StoreMoves
<1>4. ASSUME NEW s \in Scope, NEW id \in CallerId, NEW c \in Content, AppPut(id, s, c)
      PROVE  StoreMoves /\ \A r \in Range(memory.records) : Keeps(memory, memory', r)
  BY <1>4, AppPutIs DEF StoreMoves
<1>5. ASSUME NEW s, NEW id, AppDelete(s, id)
      PROVE  /\ StoreMoves
             /\ \A r \in Range(memory.records) : Keeps(memory, memory', r) \/ AppDelete(r.scope, r.id)
  <2>1. /\ Follows(memory, memory', {}) /\ NotesNoMore
        /\ \A r \in Range(memory.records) : Keeps(memory, memory', r) \/ (r.scope = s /\ r.id = id)
    BY <1>5, AppDeleteIs
  <2> QED BY <1>5, <2>1 DEF StoreMoves
<1>6. ASSUME NEW t \in Task, TaskStep(t)
      PROVE  StoreMoves /\ \A r \in Range(memory.records) : Keeps(memory, memory', r)
  <2>1. ASSUME NEW c \in Content, NEW e \in {NoVector, Embed[c]}, Remember(t, c, e)
        PROVE  StoreMoves /\ \A r \in Range(memory.records) : Keeps(memory, memory', r)
    <3>1. Working(t) BY <2>1 DEF Remember
    <3> QED BY <2>1, <3>1, RememberIs DEF StoreMoves
  <2>2. ASSUME NEW text, NEW e, Recall(t, text, e)
        PROVE  StoreMoves /\ \A r \in Range(memory.records) : Keeps(memory, memory', r)
    <3>1. Follows(memory, memory', {}) /\ (\A r \in Range(memory.records) : Keeps(memory, memory', r)) /\ NotesNoMore
      BY <2>2, RecallIs
    <3> QED BY <3>1 DEF StoreMoves
  <2>3. CASE Return(t) \/ \E name \in Names : DelegateRefused(t, name) \/ Delegate(t, name)
    BY <1>1, <2>3 DEF Return, DelegateRefused, Delegate
  <2> QED BY <1>6, <2>1, <2>2, <2>3 DEF TaskStep, maybeEmbedEntry
<1> QED BY <1>2, <1>3, <1>4, <1>5, <1>6, NextCases

LEMMA InitHolds == Init => NestInv /\ AttrInv /\ ChainInv
<1> SUFFICES ASSUME Init PROVE NestInv /\ AttrInv /\ ChainInv OBVIOUS
<1>1. \A t \in Task : stack[t] = <<>> BY DEF Init
<1>2. memory.records = <<>> /\ memory.last = 0 /\ wrote = {} BY DEF Init, EmptyMemory
<1>3. TypeOK BY <1>1 DEF Init, TypeOK, EmptyMemory
<1>4. \A t \in Task : Nesting(stack[t]) /\ Apart(stack[t]) BY <1>1, DepthAssumption DEF Nesting, Apart
<1> QED BY <1>2, <1>3, <1>4 DEF NestInv, ChainInv, AttrInv, Attributed

LEMMA TypeKeeps == ASSUME TypeOK, (\A t \in Task : Nesting(stack[t])), [Next]_vars PROVE TypeOK'
<1>1. running' \in Crew \cup {NoCrew} /\ tools' \in [Agent -> Crew \cup {NoCrew}] /\ todo' \in SUBSET Task
  BY NextCases DEF TypeOK, vars, Kickoff, attachTools, StartTask, NoAgentForTask, KickoffReturns, AppSave, AppPut, AppDelete,
                   TaskStep, Return, DelegateRefused, Delegate, Remember, Recall
<1> DEFINE Idle == running' = NoCrew => todo' = {} /\ \A t \in Task : stack'[t] = <<>>
<1>2. ASSUME UNCHANGED stack PROVE stack' \in [Task -> Seq(Execution)] /\ Idle
  <2>1. stack' \in [Task -> Seq(Execution)] BY <1>2 DEF TypeOK
  <2>2. Idle
    BY <1>2, NextCases, CrewAssumption, RoleAssumption
       DEF TypeOK, vars, Kickoff, StartTask, NoAgentForTask, KickoffReturns, AppSave, AppPut, AppDelete,
           TaskStep, Return, DelegateRefused, Delegate, Remember, Recall, Working
  <2> QED BY <2>1, <2>2
<1>3. ASSUME NEW t \in Task, MovesOnly(t), running' \in Crew
      PROVE  stack' \in [Task -> Seq(Execution)] /\ Idle
  <2>1. stack \in [Task -> Seq(Execution)] BY DEF TypeOK
  <2>2. stack'[t] \in Seq(Execution) BY <1>3, <2>1, MovesKeepNesting DEF MovesOnly
  <2>3. stack' = [stack EXCEPT ![t] = stack'[t]] BY <1>3 DEF MovesOnly
  <2>4. stack' \in [Task -> Seq(Execution)] BY <2>1, <2>2, <2>3
  <2>5. running' # NoCrew BY <1>3, RoleAssumption
  <2> QED BY <2>4, <2>5
<1>4. stack' \in [Task -> Seq(Execution)] /\ Idle
  BY <1>2, <1>3, StackStep
<1>5. memory' \in Stores /\ wrote' \in SUBSET [id: Nat, agent: Agent, task: Task, crew: Crew]
  <2>1. StoreMoves BY StoreStep
  <2>2. ASSUME NotesNoMore, NEW put, Follows(memory, memory', put)
        PROVE  memory' \in Stores /\ wrote' \in SUBSET [id: Nat, agent: Agent, task: Task, crew: Crew]
    BY <2>2 DEF NotesNoMore, Follows, TypeOK
  <2>3. ASSUME NEW t \in Task, NEW put, Noted(put, t), Follows(memory, memory', {put}), Top(t) \in Execution, running \in Crew
        PROVE  memory' \in Stores /\ wrote' \in SUBSET [id: Nat, agent: Agent, task: Task, crew: Crew]
    <3>1. memory' \in Stores /\ memory'.last \in Nat BY <2>3 DEF Follows, Stores
    <3>2. Top(t).agent \in Agent BY <2>3 DEF Execution
    <3> QED BY <2>3, <3>1, <3>2 DEF Noted, TypeOK
  <2> QED BY <2>1, <2>2, <2>3 DEF StoreMoves
<1> QED BY <1>1, <1>4, <1>5 DEF TypeOK, Stores

LEMMA NestKeeps == NestInv /\ [Next]_vars => NestInv'
<1> SUFFICES ASSUME NestInv, [Next]_vars PROVE NestInv' OBVIOUS
<1>1. TypeOK' BY TypeKeeps DEF NestInv
<1>2. ASSUME NEW t \in Task PROVE Nesting(stack'[t])
  <2>1. CASE UNCHANGED stack BY <2>1 DEF NestInv
  <2>2. ASSUME NEW x \in Task, MovesOnly(x) PROVE Nesting(stack'[t])
    <3>1. CASE x = t BY <2>2, <3>1, MovesKeepNesting DEF MovesOnly, NestInv, TypeOK
    <3>2. CASE x # t BY <2>2, <3>2 DEF MovesOnly, NestInv, TypeOK
    <3> QED BY <3>1, <3>2
  <2> QED BY <2>1, <2>2, StackStep DEF NestInv
<1> QED BY <1>1, <1>2 DEF NestInv

LEMMA ChainKeeps == ASSUME Unpadded PROVE ChainInv /\ [Next]_vars => ChainInv'
<1> SUFFICES ASSUME ChainInv, [Next]_vars PROVE ChainInv' OBVIOUS
<1>1. NestInv' BY NestKeeps DEF ChainInv
<1>2. ASSUME NEW t \in Task PROVE Apart(stack'[t])
  <2>1. CASE UNCHANGED stack BY <2>1 DEF ChainInv
  <2>2. ASSUME NEW x \in Task, MovesOnly(x) PROVE Apart(stack'[t])
    <3>1. CASE x = t BY <2>2, <3>1, MovesKeepApart DEF MovesOnly, ChainInv, NestInv, TypeOK
    <3>2. CASE x # t BY <2>2, <3>2 DEF MovesOnly, ChainInv, NestInv, TypeOK
    <3> QED BY <3>1, <3>2
  <2> QED BY <2>1, <2>2, StackStep DEF ChainInv, NestInv
<1> QED BY <1>1, <1>2 DEF ChainInv

LEMMA AttrKeeps == AttrInv /\ [Next]_vars => AttrInv'
<1> SUFFICES ASSUME AttrInv, [Next]_vars PROVE AttrInv' OBVIOUS
<1>1. NestInv' /\ TypeOK /\ TypeOK' BY NestKeeps DEF AttrInv, NestInv
<1>2. StoreMoves BY <1>1, StoreStep
<1>3. memory \in Stores /\ memory.last \in Nat BY <1>1 DEF TypeOK, Stores
<1> DEFINE Owned(r, w) == r.id = w.id => r.agent = Role[w.agent] /\ r.task = w.task
<1>4. \A x \in DOMAIN memory.records, w \in wrote : Owned(memory.records[x], w) BY DEF AttrInv, Attributed
<1>5. \A x \in DOMAIN memory.records : memory.records[x] \in Entry BY <1>3 DEF Stores
<1> SUFFICES /\ \A w \in wrote' : w.id \in 1..memory'.last
             /\ \A p \in DOMAIN memory'.records :
                  /\ memory'.records[p].id \in Nat => memory'.records[p].id <= memory'.last
                  /\ \A w \in wrote' : Owned(memory'.records[p], w)
  BY <1>1 DEF AttrInv, Attributed
<1> HIDE DEF Owned
\* Records that were there: an ID they got now is no noted one.
<1>6. ASSUME NEW r, NEW x \in DOMAIN memory.records, memory'.last >= memory.last, memory'.last \in Nat,
             r = memory.records[x] \/ \E id \in (memory.last + 1)..memory'.last : r = [memory.records[x] EXCEPT !.id = id]
      PROVE  (r.id \in Nat => r.id <= memory'.last) /\ \A w \in wrote : Owned(r, w)
  <2>1. CASE r = memory.records[x] BY <1>3, <1>4, <1>6, <2>1 DEF AttrInv
  <2>2. ASSUME NEW id \in (memory.last + 1)..memory'.last, r = [memory.records[x] EXCEPT !.id = id]
        PROVE  (r.id \in Nat => r.id <= memory'.last) /\ \A w \in wrote : Owned(r, w)
    <3>1. r.id = id BY <1>5, <2>2 DEF Entry
    <3>2. \A w \in wrote : r.id # w.id BY <1>3, <3>1 DEF AttrInv
    <3> QED BY <1>3, <1>6, <3>1, <3>2 DEF Owned
  <2> QED BY <1>6, <2>1, <2>2
<1>7. ASSUME NotesNoMore, NEW put \in SUBSET Entry, Follows(memory, memory', put),
             \A r \in put : r.id \in {NoId} \cup CallerId
      PROVE  /\ \A w \in wrote' : w.id \in 1..memory'.last
             /\ \A p \in DOMAIN memory'.records :
                  /\ memory'.records[p].id \in Nat => memory'.records[p].id <= memory'.last
                  /\ \A w \in wrote' : Owned(memory'.records[p], w)
  <2>1. memory'.last \in Nat /\ memory'.last >= memory.last BY <1>7 DEF Follows, Stores
  <2>2. \A w \in wrote' : w \in wrote /\ w.id \in 1..memory.last BY <1>7 DEF NotesNoMore, AttrInv
  <2>3. \A w \in wrote' : w.id \in 1..memory'.last BY <1>3, <2>1, <2>2
  <2>4. ASSUME NEW p \in DOMAIN memory'.records
        PROVE  /\ memory'.records[p].id \in Nat => memory'.records[p].id <= memory'.last
               /\ \A w \in wrote' : Owned(memory'.records[p], w)
    <3>1. CASE memory'.records[p] \in put
      <4> DEFINE r == memory'.records[p]
      <4>1. r.id = 0 \/ r.id \notin Nat BY <1>7, <3>1, CallerIdAssumption DEF NoId
      <4>2. \A w \in wrote' : r.id # w.id BY <1>3, <2>2, <4>1
      <4> QED BY <2>1, <4>1, <4>2 DEF Owned
    <3>2. ASSUME NEW x \in DOMAIN memory.records,
                 \/ memory'.records[p] = memory.records[x]
                 \/ \E id \in (memory.last + 1)..memory'.last : memory'.records[p] = [memory.records[x] EXCEPT !.id = id]
          PROVE  /\ memory'.records[p].id \in Nat => memory'.records[p].id <= memory'.last
                 /\ \A w \in wrote' : Owned(memory'.records[p], w)
      BY <1>6, <2>1, <2>2, <3>2
    <3> QED BY <1>7, <3>1, <3>2 DEF Follows
  <2> QED BY <2>3, <2>4
<1>8. ASSUME NEW t \in Task, NEW put \in Entry, Noted(put, t), Follows(memory, memory', {put}),
             Top(t) \in Execution, Working(t)
      PROVE  /\ \A w \in wrote' : w.id \in 1..memory'.last
             /\ \A p \in DOMAIN memory'.records :
                  /\ memory'.records[p].id \in Nat => memory'.records[p].id <= memory'.last
                  /\ \A w \in wrote' : Owned(memory'.records[p], w)
  <2> DEFINE new == [id |-> memory'.last, agent |-> Top(t).agent, task |-> t, crew |-> running]
  <2>1. memory'.last = memory.last + 1 /\ put.id = memory'.last /\ wrote' = wrote \cup {new} BY <1>8 DEF Noted
  <2>2. put.agent = Role[Top(t).agent] /\ put.task = t
    <3>1. stack[t] # <<>> /\ stack[t] \in Seq(Execution) BY <1>1, <1>8 DEF Working, TypeOK
    <3>2. Len(stack[t]) \in DOMAIN stack[t] BY <3>1
    <3>3. Top(t).role = Role[Top(t).agent] BY <3>2 DEF AttrInv, NestInv, Nesting, Top
    <3> QED BY <1>8, <3>3 DEF Noted
  <2>3. new.id = memory.last + 1 /\ new.agent = Top(t).agent /\ new.task = t BY <2>1
  <2> HIDE DEF new
  <2>4. \A w \in wrote : w.id \in 1..memory.last BY DEF AttrInv
  <2>5. \A w \in wrote' : w.id \in 1..memory'.last BY <1>3, <2>1, <2>3, <2>4
  <2>6. Owned(put, new) /\ \A w \in wrote : Owned(put, w) BY <1>3, <2>1, <2>2, <2>3, <2>4 DEF Owned
  <2>7. ASSUME NEW x \in DOMAIN memory.records
        PROVE  Owned(memory.records[x], new)
    <3>1. memory.records[x].id # memory.last + 1 BY <1>3 DEF AttrInv
    <3> QED BY <2>3, <3>1 DEF Owned
  <2>8. ASSUME NEW p \in DOMAIN memory'.records
        PROVE  memory'.records[p] = put \/ \E x \in DOMAIN memory.records : memory'.records[p] = memory.records[x]
    <3>1. memory.records \in Seq(Entry) /\ memory'.records = Append(memory.records, put) BY <1>3, <1>8 DEF Noted, Stores
    <3>2. /\ DOMAIN memory'.records = 1..(Len(memory.records) + 1) /\ Len(memory.records) \in Nat
          /\ DOMAIN memory.records = 1..Len(memory.records)
          /\ memory'.records[Len(memory.records) + 1] = put
          /\ \A x \in 1..Len(memory.records) : memory'.records[x] = memory.records[x]
      BY <3>1
    <3>3. p = Len(memory.records) + 1 \/ p \in 1..Len(memory.records) BY <3>2
    <3> QED BY <3>2, <3>3
  <2>9. ASSUME NEW p \in DOMAIN memory'.records
        PROVE  /\ memory'.records[p].id \in Nat => memory'.records[p].id <= memory'.last
               /\ \A w \in wrote' : Owned(memory'.records[p], w)
    <3>1. CASE memory'.records[p] = put BY <1>3, <2>1, <2>6, <3>1
    <3>2. ASSUME NEW x \in DOMAIN memory.records, memory'.records[p] = memory.records[x]
          PROVE  /\ memory'.records[p].id \in Nat => memory'.records[p].id <= memory'.last
                 /\ \A w \in wrote' : Owned(memory'.records[p], w)
      <4>1. memory'.last \in Nat /\ memory'.last >= memory.last BY <1>3, <2>1
      <4>2. (memory'.records[p].id \in Nat => memory'.records[p].id <= memory'.last) /\ \A w \in wrote : Owned(memory'.records[p], w)
        BY <1>6, <3>2, <4>1
      <4> QED BY <2>1, <2>7, <3>2, <4>2
    <3> QED BY <2>8, <3>1, <3>2
  <2> QED BY <2>5, <2>9
<1> QED BY <1>2, <1>7, <1>8 DEF StoreMoves

LEMMA IdsKeep == IdsInv /\ [Next]_vars => IdsInv'
<1> SUFFICES ASSUME IdsInv, [Next]_vars PROVE IdsInv' OBVIOUS
<1>1. NestInv' /\ TypeOK BY NestKeeps DEF IdsInv, NestInv
<1>2. memory \in Stores /\ Distinct(memory) BY <1>1 DEF IdsInv, TypeOK, Stores
<1>3. ASSUME UNCHANGED memory PROVE Distinct(memory') BY <1>2, <1>3
<1>4. ASSUME NEW c \in Content, AppSave(c) PROVE Distinct(memory')
  <2>1. PICK s \in Scope : memory' = Save(memory, Slot(NoId, s, NoRole, NoTask, c, NoVector)) BY <1>4 DEF AppSave
  <2>2. Slot(NoId, s, NoRole, NoTask, c, NoVector) \in Entry BY SlotIs DEF NoId
  <2>3. Slot(NoId, s, NoRole, NoTask, c, NoVector).id = NoId BY DEF Slot
  <2> QED BY <1>2, <2>1, <2>2, <2>3, SaveIsDistinct
<1>5. ASSUME NEW s \in Scope, NEW id \in CallerId, NEW c \in Content, AppPut(id, s, c) PROVE Distinct(memory')
  <2>1. memory' = Put(memory, Slot(id, s, NoRole, NoTask, c, NoVector)) BY <1>5 DEF AppPut
  <2>2. Slot(id, s, NoRole, NoTask, c, NoVector) \in Entry BY SlotIs
  <2>3. Slot(id, s, NoRole, NoTask, c, NoVector).id = id BY DEF Slot
  <2> QED BY <1>2, <2>1, <2>2, <2>3, PutIsDistinct
<1>6. ASSUME NEW s, NEW id, AppDelete(s, id) PROVE Distinct(memory')
  BY <1>2, <1>6, DeleteIsDistinct DEF AppDelete
<1>7. ASSUME NEW t \in Task, TaskStep(t) PROVE Distinct(memory')
  <2>1. ASSUME NEW c \in Content, NEW e \in {NoVector, Embed[c]}, Remember(t, c, e) PROVE Distinct(memory')
    <3>1. PICK put \in Entry : Noted(put, t) /\ Follows(memory, memory', {put}) BY <1>1, <2>1, RememberIs
    <3>2. memory' = [records |-> Append(memory.records, put), last |-> memory.last + 1]
      BY <3>1 DEF Noted, Follows, Stores
    <3>3. put.id = memory.last + 1 /\ memory.last + 1 \in Nat BY <1>2, <3>1 DEF Noted, Stores
    <3> QED BY <1>2, <3>2, <3>3, AppendIsDistinct
  <2>2. ASSUME NEW text, NEW e, Recall(t, text, e) PROVE Distinct(memory')
    <3>1. PICK q : memory' = Queried(memory, q) BY <2>2 DEF Recall
    <3>2. Candidates(memory, q) \in SUBSET (DOMAIN memory.records) BY DEF Candidates
    <3> QED BY <1>2, <3>1, <3>2, IdForLockedIsDistinct DEF Queried
  <2>3. ASSUME Return(t) \/ \E name \in Names : DelegateRefused(t, name) \/ Delegate(t, name)
        PROVE  Distinct(memory')
    BY <1>3, <2>3 DEF Return, DelegateRefused, Delegate
  <2> QED BY <1>7, <2>1, <2>2, <2>3 DEF TaskStep, maybeEmbedEntry
<1>8. ASSUME \/ UNCHANGED vars \/ (\E c \in Crew : Kickoff(c))
             \/ (\E t \in Task, reply \in Replies : StartTask(t, reply))
             \/ NoAgentForTask \/ KickoffReturns
      PROVE  Distinct(memory')
  BY <1>3, <1>8 DEF vars, Kickoff, StartTask, NoAgentForTask, KickoffReturns
<1>9. Distinct(memory') BY <1>4, <1>5, <1>6, <1>7, <1>8, NextCases
<1>10. Distinct(memory)' BY <1>9 DEF Distinct
<1> QED BY <1>1, <1>10 DEF IdsInv

------------------------------------------------------------------------------
(* Theorems. *)

\* Types of the context values along a chain of calls and of the records of the
\* store, whatever the tools of delegation.go and memory_tools.go and the
\* application do.
THEOREM TypeCorrect == Spec => []TypeOK
<1>1. NestInv => TypeOK BY DEF NestInv
<1> QED BY <1>1, InitHolds, NestKeeps, PTL DEF Spec

\* The refusals of delegationTool.Call (depth, self, caller stack) are enough: no
\* agent works inside a call it made, through any number of peers, and no chain is
\* longer than DefaultMaxDelegationDepth, if roles have no white space around them.
THEOREM DelegationIsBounded == ASSUME Unpadded PROVE Spec => []ChainSound
<1>1. ChainInv => ChainSound
  <2> SUFFICES ASSUME ChainInv, NEW t \in Task
               PROVE  /\ Len(stack[t]) <= DefaultMaxDelegationDepth + 1
                      /\ \A p, q \in DOMAIN stack[t] : p # q => stack[t][p].agent # stack[t][q].agent
    BY DEF ChainSound
  <2>1. stack[t] \in Seq(Execution) BY DEF ChainInv, NestInv, TypeOK
  <2>2. ASSUME NEW p \in DOMAIN stack[t], NEW q \in DOMAIN stack[t], p # q
        PROVE  stack[t][p].agent # stack[t][q].agent
    <3>1. p < q \/ q < p BY <2>1, <2>2
    <3> QED BY <3>1 DEF ChainInv, Apart
  <2> QED BY <2>2 DEF ChainInv, NestInv, Nesting
<1> QED BY <1>1, InitHolds, ChainKeeps, PTL DEF Spec

\* rememberMemory attributes an entry to the agent that asked for it, not to the one
\* whose task it is, and never does the store mistake one entry for another.
THEOREM RemembersTheAgent == Spec => []Attributed
<1>1. AttrInv => Attributed BY DEF AttrInv
<1> QED BY <1>1, InitHolds, AttrKeeps, PTL DEF Spec

\* idForLocked, generateIDLocked, Put, Save and Delete: an ID the store has given names
\* one entry, which keeps it and all else until it is deleted by that ID in its scope,
\* and never another afterwards, however the records move.
THEOREM EntriesKeepTheirIds == Spec => IdsNameOne
<1>1. TypeOK /\ [Next]_vars =>
        [\A r \in Range(memory.records) : r.id # NoId => r \in Range(memory'.records) \/ AppDelete(r.scope, r.id)]_vars
  <2> SUFFICES ASSUME TypeOK, [Next]_vars, NEW r \in Range(memory.records), r.id # NoId
               PROVE  r \in Range(memory'.records) \/ AppDelete(r.scope, r.id)
    OBVIOUS
  <2> QED BY StoreStep DEF Keeps
<1>2. Init => IdsInv
  <2> SUFFICES ASSUME Init PROVE IdsInv OBVIOUS
  <2>1. memory.records = <<>> BY DEF Init, EmptyMemory
  <2>2. NestInv BY InitHolds
  <2> QED BY <2>1, <2>2 DEF IdsInv, Distinct
<1>3. IdsInv => \A p, q \in DOMAIN memory.records :
        memory.records[p].id \in IssuedIds /\ memory.records[p].id = memory.records[q].id => p = q
  <2> SUFFICES ASSUME IdsInv, NEW p \in DOMAIN memory.records, NEW q \in DOMAIN memory.records,
                      memory.records[p].id \in IssuedIds, memory.records[p].id = memory.records[q].id
               PROVE  p = q
    OBVIOUS
  <2>1. memory.records[p].id \in Nat \ {NoId} BY DEF IssuedIds, NoId
  <2> QED BY <2>1 DEF IdsInv, Distinct
<1>4. TypeOK /\ [Next]_vars => [\A r \in Range(memory'.records) : r.id \in IssuedIds => r \in Range(memory.records)]_vars
  <2> SUFFICES ASSUME TypeOK, [Next]_vars, NEW p \in DOMAIN memory'.records, memory'.records[p].id \in IssuedIds
               PROVE  memory'.records[p] \in Range(memory.records)
    BY DEF Range
  <2>1. memory.last \in Nat /\ \A x \in DOMAIN memory.records : memory.records[x] \in Entry BY DEF TypeOK
  <2>2. StoreMoves BY StoreStep
  <2> DEFINE Fresh == memory'.records[p].id \in {NoId} \cup CallerId \/ memory'.records[p].id = memory.last + 1
             Kept == \E x \in DOMAIN memory.records :
                       \/ memory'.records[p] = memory.records[x]
                       \/ \E id \in (memory.last + 1)..memory'.last :
                            memory'.records[p] = [memory.records[x] EXCEPT !.id = id]
  <2>3. Fresh \/ Kept
    <3>1. ASSUME NEW put \in SUBSET Entry, Follows(memory, memory', put), \A r \in put : r.id \in {NoId} \cup CallerId
          PROVE  Fresh \/ Kept
      BY <3>1 DEF Follows
    <3>2. ASSUME NEW t \in Task, NEW put \in Entry, Noted(put, t), Follows(memory, memory', {put})
          PROVE  Fresh \/ Kept
      BY <3>2 DEF Follows, Noted
    <3> QED BY <2>2, <3>1, <3>2 DEF StoreMoves
  <2>4. memory'.records[p].id \notin {NoId} \cup CallerId /\ memory'.records[p].id # memory.last + 1
    BY <2>1, CallerIdAssumption DEF IssuedIds, NoId
  <2>5. ASSUME NEW x \in DOMAIN memory.records, NEW id \in (memory.last + 1)..memory'.last,
               memory'.records[p] = [memory.records[x] EXCEPT !.id = id]
        PROVE  FALSE
    <3>1. memory'.records[p].id = id BY <2>1, <2>5 DEF Entry
    <3> QED BY <2>1, <3>1 DEF IssuedIds
  <2> QED BY <2>3, <2>4, <2>5 DEF Range
<1> QED BY <1>1, <1>2, <1>3, <1>4, TypeCorrect, IdsKeep, PTL DEF Spec, IdsNameOne

------------------------------------------------------------------------------
(***************************************************************************)
(* What a Query returns: the order of the candidates exists, it is of all  *)
(* of them, and some prefix of it fits and no longer one does.             *)
(***************************************************************************)

LEMMA UpTo ==
  ASSUME NEW N \in Nat, NEW S, 0 \in S, \A k \in 0..N : k \in S /\ k # N => k + 1 \in S
  PROVE  \A k \in 0..N : k \in S
<1> DEFINE T == {k \in 0..N : k \notin S}
<1> SUFFICES ASSUME T # {} PROVE FALSE OBVIOUS
<1>1. T \in SUBSET Nat OBVIOUS
<1> HIDE DEF T
<1>2. PICK x \in T : \A y \in T : x <= y BY <1>1, LeastIs
<1> USE DEF T
<1>3. x \in Nat /\ x \notin S /\ x # 0 /\ x - 1 \in 0..N /\ (x - 1) + 1 = x /\ ~(x <= x - 1) OBVIOUS
<1>4. x - 1 \in S /\ x - 1 # N BY <1>2, <1>3
<1>5. (x - 1) + 1 \in S BY <1>3, <1>4
<1> QED BY <1>3, <1>5

\* x comes before y: by the scores f, the later one among equals.
Ahead(f, x, y) == f[x] > f[y] \/ (f[x] = f[y] /\ x > y)
Ranks(f, S, s) == s \in [1..Cardinality(S) -> S] /\ \A j, k \in DOMAIN s : j < k => Ahead(f, s[j], s[k])

LEMMA AheadIs ==
  ASSUME NEW N \in Nat, NEW f \in [1..N -> Int]
  PROVE  /\ \A x \in 1..N : ~Ahead(f, x, x)
         /\ \A x, y \in 1..N : x = y \/ Ahead(f, x, y) \/ Ahead(f, y, x)
         /\ \A x, y, z \in 1..N : Ahead(f, x, y) /\ Ahead(f, y, z) => Ahead(f, x, z)
BY DEF Ahead

\* A ranking with a further position put where it belongs.
LEMMA Inserted ==
  ASSUME NEW N \in Nat, NEW f \in [1..N -> Int], NEW S \in SUBSET (1..N), IsFiniteSet(S),
         NEW r, Ranks(f, S, r), NEW x \in 1..N, x \notin S
  PROVE  \E s : Ranks(f, S \cup {x}, s)
<1> DEFINE n == Cardinality(S)
           at == {c \in 1..(n + 1) : c = n + 1 \/ Ahead(f, x, r[c])}
<1>1. n \in Nat /\ Cardinality(S \cup {x}) = n + 1 BY FS_CardinalityType, FS_AddElement
<1>2. /\ r \in [1..n -> S] /\ DOMAIN r = 1..n
      /\ \A j, k \in 1..n : j < k => Ahead(f, r[j], r[k])
      /\ \A j \in 1..n : r[j] \in 1..N /\ r[j] # x
  BY DEF Ranks
<1>c. Cardinality(S \cup {x}) = n + 1 BY <1>1
<1> HIDE DEF n
<1>3. at \in SUBSET Nat /\ n + 1 \in at BY <1>1
<1>4. PICK c \in at : \A d \in at : c <= d
  <2>1. at \in SUBSET Nat /\ at # {} BY <1>3
  <2> HIDE DEF at
  <2> QED BY <2>1, LeastIs
<1>5. c \in 1..(n + 1) /\ (c = n + 1 \/ Ahead(f, x, r[c])) OBVIOUS
<1>6. \A j \in 1..n : j < c => Ahead(f, r[j], x)
  <2> SUFFICES ASSUME NEW j \in 1..n, j < c PROVE Ahead(f, r[j], x) OBVIOUS
  <2>1. j \in 1..(n + 1) /\ ~(c <= j) BY <1>1, <1>5
  <2>2. ~Ahead(f, x, r[j]) BY <1>4, <2>1
  <2> QED BY <1>2, <2>2, AheadIs
<1>7. \A j \in 1..n : c <= j => Ahead(f, x, r[j])
  <2> SUFFICES ASSUME NEW j \in 1..n, c <= j PROVE Ahead(f, x, r[j]) OBVIOUS
  <2>1. c \in 1..n /\ Ahead(f, x, r[c]) BY <1>1, <1>5
  <2>2. c = j \/ Ahead(f, r[c], r[j]) BY <1>1, <1>2, <2>1
  <2>3. r[c] \in 1..N /\ r[j] \in 1..N BY <1>2, <2>1
  <2> QED BY <2>1, <2>2, <2>3, AheadIs
<1> DEFINE s == [k \in 1..(n + 1) |-> IF k < c THEN r[k] ELSE IF k = c THEN x ELSE r[k - 1]]
<1>8. \A k \in 1..(n + 1) : /\ k < c => k \in 1..n /\ s[k] = r[k]
                            /\ k = c => s[k] = x
                            /\ c < k => k - 1 \in 1..n /\ c <= k - 1 /\ s[k] = r[k - 1]
  BY <1>1, <1>5
<1>9. DOMAIN s = 1..(n + 1) OBVIOUS
<1>10. s \in [1..(n + 1) -> S \cup {x}]
  <2>1. \A k \in 1..(n + 1) : s[k] \in S \cup {x}
    <3> HIDE DEF s
    <3> SUFFICES ASSUME NEW k \in 1..(n + 1) PROVE s[k] \in S \cup {x} OBVIOUS
    <3>1. k < c \/ k = c \/ c < k BY <1>1, <1>5
    <3> QED BY <3>1, <1>2, <1>8
  <2> QED BY <2>1
<1> HIDE DEF s, at
<1>11. ASSUME NEW j \in 1..(n + 1), NEW k \in 1..(n + 1), j < k PROVE Ahead(f, s[j], s[k])
  <2>1. CASE k < c
    <3>1. j < c /\ j \in 1..n /\ k \in 1..n BY <1>1, <1>5, <1>11, <2>1
    <3> QED BY <1>2, <1>8, <1>11, <2>1, <3>1
  <2>2. CASE k = c
    <3>1. j < c /\ j \in 1..n BY <1>1, <1>5, <1>11, <2>2
    <3> QED BY <1>6, <1>8, <2>2, <3>1
  <2>3. CASE c < k /\ j < c
    <3>1. j < k - 1 /\ j \in 1..n /\ k - 1 \in 1..n BY <1>1, <1>5, <1>11, <2>3
    <3> QED BY <1>2, <1>8, <2>3, <3>1
  <2>4. CASE c < k /\ j = c
    <3> QED BY <1>7, <1>8, <2>4
  <2>5. CASE c < k /\ c < j
    <3>1. j - 1 < k - 1 /\ j - 1 \in 1..n /\ k - 1 \in 1..n BY <1>1, <1>5, <1>11, <2>5
    <3> QED BY <1>2, <1>8, <2>5, <3>1
  <2> QED BY <1>1, <1>5, <1>11, <2>1, <2>2, <2>3, <2>4, <2>5
<1> QED BY <1>c, <1>9, <1>10, <1>11 DEF Ranks

LEMMA RankingExists ==
  ASSUME NEW N \in Nat, NEW f \in [1..N -> Int]
  PROVE  \A S \in SUBSET (1..N) : IsFiniteSet(S) /\ \E s : Ranks(f, S, s)
<1> DEFINE P == {k \in 0..N : \A S \in SUBSET (1..k) : IsFiniteSet(S) /\ \E s : Ranks(f, S, s)}
<1>1. 0 \in P
  <2> SUFFICES ASSUME NEW S \in SUBSET (1..0) PROVE IsFiniteSet(S) /\ \E s : Ranks(f, S, s) OBVIOUS
  <2>e. S = {} OBVIOUS
  <2>1. IsFiniteSet(S) /\ Cardinality(S) = 0 BY <2>e, FS_EmptySet
  <2>2. Ranks(f, S, [k \in 1..0 |-> 0])
    <3>1. 1..Cardinality(S) = {} BY <2>1
    <3>2. [k \in 1..0 |-> 0] \in [1..Cardinality(S) -> S] BY <3>1
    <3> QED BY <3>1, <3>2 DEF Ranks
  <2> QED BY <2>1, <2>2
<1>2. ASSUME NEW k \in 0..N, k \in P, k # N PROVE k + 1 \in P
  <2>1. k + 1 \in 0..N /\ k + 1 \in 1..N BY <1>2
  <2>2. SUFFICES ASSUME NEW S \in SUBSET (1..(k + 1)) PROVE IsFiniteSet(S) /\ \E s : Ranks(f, S, s)
    BY <2>1
  <2> DEFINE T == S \ {k + 1}
  <2>3. T \in SUBSET (1..k) /\ T \in SUBSET (1..N) BY <2>1
  <2>4. IsFiniteSet(T) /\ \E s : Ranks(f, T, s) BY <1>2, <2>3
  <2>5. CASE k + 1 \notin S
    <3>1. T = S BY <2>5
    <3> QED BY <2>4, <3>1
  <2>6. CASE k + 1 \in S
    <3>1. S = T \cup {k + 1} /\ k + 1 \notin T BY <2>6
    <3> HIDE DEF T
    <3>2. IsFiniteSet(T \cup {k + 1}) BY <2>4, FS_AddElement
    <3>3. \E s : Ranks(f, T \cup {k + 1}, s) BY <2>1, <2>3, <2>4, <3>1, Inserted
    <3> QED BY <3>1, <3>2, <3>3
  <2> QED BY <2>5, <2>6
<1> HIDE DEF P
<1>3. \A k \in 0..N : k \in P BY <1>1, <1>2, UpTo
<1>4. N \in P BY <1>3
<1> QED BY <1>4 DEF P

\* A ranking has every position.
LEMMA RankingWhole ==
  ASSUME NEW N \in Nat, NEW f \in [1..N -> Int], NEW S \in SUBSET (1..N), IsFiniteSet(S),
         NEW s, Ranks(f, S, s)
  PROVE  /\ s \in Seq(S) /\ Len(s) = Cardinality(S)
         /\ \A x \in S : \E k \in 1..Len(s) : s[k] = x
<1> DEFINE n == Cardinality(S)
<1>1. n \in Nat BY FS_CardinalityType
<1>2. s \in [1..n -> S] /\ \A j, k \in 1..n : j < k => Ahead(f, s[j], s[k]) BY DEF Ranks
<1>3. Cardinality(1..n) = n /\ IsFiniteSet(1..n)
  BY <1>1, FS_Interval
<1>c. Cardinality(S) = n OBVIOUS
<1> HIDE DEF n
<1>4. s \in Injection(1..n, S)
  <2>1. ASSUME NEW j \in 1..n, NEW k \in 1..n, s[j] = s[k] PROVE j = k
    <3>1. s[j] \in 1..N BY <1>2
    <3>2. ~Ahead(f, s[j], s[k]) /\ ~Ahead(f, s[k], s[j]) BY <2>1, <3>1, AheadIs
    <3>3. ~(j < k) /\ ~(k < j) BY <1>2, <3>2
    <3> QED BY <1>1, <3>3
  <2> QED BY <1>2, <2>1 DEF Injection, IsInjective
<1>5. s \in Surjection(1..n, S) BY <1>3, <1>4, <1>c, FS_Injection
<1>6. s \in Seq(S) /\ Len(s) = n BY <1>1, <1>2
<1> QED BY <1>5, <1>6, <1>c DEF Surjection

\* The length of no content at all.
LEMMA NoChars == ASSUME NEW m PROVE Chars(m, <<>>) = 0
<1> DEFINE more(g, s) == LET x == Max(s) IN g[s \ {x}] + Size[m.records[<<>>[x]].content]
           Sums(g) == g = [s \in SUBSET (DOMAIN <<>>) |-> IF s = {} THEN 0 ELSE more(g, s)]
           sum == CHOOSE g : Sums(g)
<1>1. Chars(m, <<>>) = sum[DOMAIN <<>>]
  BY DEF Chars, FoldLeft, MapThenFoldSet
<1>2. SUBSET (DOMAIN <<>>) = {{}} OBVIOUS
<1> HIDE DEF more
<1>3. Sums([s \in {{}} |-> 0])
  BY <1>2
<1>4. Sums(sum) BY <1>3
<1> HIDE DEF sum
<1>5. sum = [s \in {{}} |-> IF s = {} THEN 0 ELSE more(sum, s)] BY <1>4, <1>2
<1> QED BY <1>1, <1>2, <1>5

\* Some number of entries fits, and one more does not.
LEMMA TakenIs ==
  ASSUME NEW m, NEW s, NEW S, s \in Seq(S), NEW q, q.limit \in Nat, q.maxChars \in Int
  PROVE  \E n \in 0..Len(s) :
           /\ Taken(m, s, q) = SubSeq(s, 1, n)
           /\ Within(m, SubSeq(s, 1, n), q)
           /\ n < Len(s) => ~Within(m, SubSeq(s, 1, n + 1), q)
<1> DEFINE fits(n) == Within(m, SubSeq(s, 1, n), q)
           P == {n \in 0..Len(s) : fits(n)}
           last(n) == fits(n) /\ (n < Len(s) => ~fits(n + 1))
<1>1. Len(s) \in Nat OBVIOUS
<1>2. 0 \in P
  <2>1. SubSeq(s, 1, 0) = <<>> OBVIOUS
  <2>2. Len(<<>>) = 0 OBVIOUS
  <2>n. Chars(m, <<>>) = 0 BY NoChars
  <2>w. Within(m, <<>>, q) BY <2>2, <2>n DEF Within
  <2>3. fits(0) BY <2>1, <2>w
  <2> QED BY <1>1, <2>3
<1>3. \E n \in 0..Len(s) : last(n)
  <2> SUFFICES ASSUME \A n \in 0..Len(s) : ~last(n) PROVE FALSE OBVIOUS
  <2>1. ASSUME NEW k \in 0..Len(s), k \in P, k # Len(s) PROVE k + 1 \in P
    <3>1. k < Len(s) /\ k + 1 \in 0..Len(s) BY <1>1, <2>1
    <3>2. fits(k) BY <2>1
    <3>3. fits(k + 1) BY <3>1, <3>2
    <3> QED BY <3>1, <3>3
  <2> HIDE DEF P
  <2>2. \A k \in 0..Len(s) : k \in P BY <1>1, <1>2, <2>1, UpTo
  <2>3. Len(s) \in P /\ Len(s) \in 0..Len(s) /\ ~(Len(s) < Len(s)) BY <1>1, <2>2
  <2>4. fits(Len(s)) BY <2>3 DEF P
  <2> QED BY <2>3, <2>4
<1> HIDE DEF fits, P
<1> DEFINE n == CHOOSE k \in 0..Len(s) : last(k)
<1>4. n \in 0..Len(s) /\ last(n) BY <1>3
<1>5. Taken(m, s, q) = SubSeq(s, 1, n) BY DEF Taken, fits
<1> HIDE DEF n
<1> QED BY <1>4, <1>5 DEF fits

\* What takeLatestN and rankByEmbedding sort.
LEMMA LatestIs ==
  ASSUME NEW m, NEW N \in Nat, NEW S \in SUBSET (1..N), NEW q
  PROVE  \E s : Ranks([p \in 1..N |-> 0], S, s) /\ takeLatestN(m, S, q) = Taken(m, s, q)
<1> DEFINE f == [p \in 1..N |-> 0]
           behind == [x \in S |-> {y \in S : x > y}]
           sorted(s) == \A j, k \in DOMAIN s : j < k => s[k] \in behind[s[j]]
           r == CHOOSE s \in [1..Cardinality(S) -> S] : sorted(s)
<1>1. \A x, y \in S : Ahead(f, x, y) <=> y \in behind[x] BY DEF Ahead
<1>2. f \in [1..N -> Int] OBVIOUS
<1>6. takeLatestN(m, S, q) = Taken(m, r, q) BY DEF takeLatestN, Sorted
<1> HIDE DEF f, behind
<1>3. PICK s : Ranks(f, S, s) BY <1>2, RankingExists
<1>4. \A t \in [1..Cardinality(S) -> S] : Ranks(f, S, t) <=> sorted(t)
  <2> SUFFICES ASSUME NEW t \in [1..Cardinality(S) -> S] PROVE Ranks(f, S, t) <=> sorted(t) OBVIOUS
  <2>1. \A j, k \in DOMAIN t : Ahead(f, t[j], t[k]) <=> t[k] \in behind[t[j]] BY <1>1
  <2> QED BY <2>1 DEF Ranks
<1>5. s \in [1..Cardinality(S) -> S] BY <1>3 DEF Ranks
<1> HIDE DEF sorted
<1>7. r \in [1..Cardinality(S) -> S] /\ sorted(r) BY <1>3, <1>4, <1>5
<1> HIDE DEF r
<1>8. Ranks(f, S, r) BY <1>4, <1>7
<1> QED BY <1>6, <1>8 DEF f

LEMMA RankIs ==
  ASSUME NEW m, NEW N \in Nat, NEW S \in SUBSET (1..N), NEW q, \A p \in 1..N : Score(m, q, p) \in Int
  PROVE  LET positive == {p \in S : Score(m, q, p) > 0}
             ranked == IF positive # {} THEN positive ELSE S
         IN \E s : /\ Ranks([p \in 1..N |-> Score(m, q, p)], ranked, s)
                   /\ rankByEmbedding(m, S, q) = Taken(m, s, q)
<1> DEFINE f == [p \in 1..N |-> Score(m, q, p)]
           positive == {p \in S : Score(m, q, p) > 0}
           R == IF positive # {} THEN positive ELSE S
           behind == [x \in R |-> {y \in R : \/ Score(m, q, x) > Score(m, q, y)
                                             \/ Score(m, q, x) = Score(m, q, y) /\ x > y}]
           sorted(s) == \A j, k \in DOMAIN s : j < k => s[k] \in behind[s[j]]
           r == CHOOSE s \in [1..Cardinality(R) -> R] : sorted(s)
<1>2. f \in [1..N -> Int] /\ R \in SUBSET (1..N) OBVIOUS
<1>1. \A x, y \in R : Ahead(f, x, y) <=> y \in behind[x]
  <2>1. \A x \in 1..N : f[x] = Score(m, q, x) OBVIOUS
  <2> HIDE DEF f, R
  <2> QED BY <2>1, <1>2 DEF Ahead
<1>6. rankByEmbedding(m, S, q) = Taken(m, r, q) BY DEF rankByEmbedding, Sorted
<1> HIDE DEF f, R, behind
<1>3. PICK s : Ranks(f, R, s) BY <1>2, RankingExists
<1>4. \A t \in [1..Cardinality(R) -> R] : Ranks(f, R, t) <=> sorted(t)
  <2> SUFFICES ASSUME NEW t \in [1..Cardinality(R) -> R] PROVE Ranks(f, R, t) <=> sorted(t) OBVIOUS
  <2>1. \A j \in DOMAIN t : t[j] \in R OBVIOUS
  <2> QED BY <2>1, <1>1 DEF Ranks
<1>5. s \in [1..Cardinality(R) -> R] BY <1>3 DEF Ranks
<1> HIDE DEF sorted
<1>7. r \in [1..Cardinality(R) -> R] /\ sorted(r) BY <1>3, <1>4, <1>5
<1> HIDE DEF r
<1>8. Ranks(f, R, r) BY <1>4, <1>7
<1> QED BY <1>6, <1>8 DEF f, R

\* The bounds a Query works with.
LEMMA ClampIs ==
  ASSUME NEW query \in Queries
  PROVE  LET q == clampQueryBounds(query)
         IN q.limit \in Nat /\ q.maxChars \in Int /\ q.emb \in Vector \cup {NoVector}
<1> DEFINE q == clampQueryBounds(query)
<1>1. /\ query \in [scope: Scope, text: DOMAIN Matches \cup {NoText}, emb: Vector \cup {NoVector},
                    limit: Int, maxChars: Int]
  BY QueriesAssumption
<1>2. /\ MaxMemoryQueryLimit \in Nat /\ DefaultMemoryQueryLimit \in Nat /\ DefaultMemoryMaxChars \in Nat
  BY LimitsAssumption
<1>3. /\ q.limit = IF query.limit <= 0 \/ query.limit > MaxMemoryQueryLimit
                   THEN DefaultMemoryQueryLimit ELSE query.limit
      /\ q.maxChars = IF query.maxChars = 0 THEN DefaultMemoryMaxChars ELSE query.maxChars
      /\ q.emb = query.emb
  BY <1>1 DEF clampQueryBounds
<1> HIDE DEF q
<1>4. query.limit \in Int /\ query.maxChars \in Int /\ query.emb \in Vector \cup {NoVector} BY <1>1
<1> QED BY <1>2, <1>3, <1>4 DEF q

LEMMA ScoreIs ==
  ASSUME NEW m, NEW N \in Nat, \A p \in 1..N : m.records[p].emb \in Vector \cup {NoVector},
         NEW q, q.emb \in Vector
  PROVE  \A p \in 1..N : Score(m, q, p) \in Int
BY CosineAssumption DEF Score

\* What a query promises of a prefix of a ranking of the relevant entries that fits, the
\* next longer one of which does not.
Best(m, q, f, S, hits) ==
  LET left == S \ Range(hits)
  IN /\ \A k \in DOMAIN hits : hits[k] \in S
     /\ \A k \in 2..Len(hits) : Ahead(f, hits[k - 1], hits[k])
     /\ \A x \in left : /\ hits # <<>> => Ahead(f, Last(hits), x)
                        /\ \/ \E y \in left : Ahead(f, y, x)
                           \/ ~Within(m, Append(hits, x), q)

LEMMA PrefixIsBest ==
  ASSUME NEW N \in Nat, NEW f \in [1..N -> Int], NEW S \in SUBSET (1..N),
         NEW s, Ranks(f, S, s), NEW m, NEW q, NEW n \in 0..Len(s), NEW hits,
         hits = SubSeq(s, 1, n), Within(m, hits, q),
         n < Len(s) => ~Within(m, SubSeq(s, 1, n + 1), q)
  PROVE  Best(m, q, f, S, hits)
<1> DEFINE left == S \ Range(hits)
<1>1. IsFiniteSet(S) BY RankingExists
<1>2. /\ s \in Seq(S) /\ Len(s) \in Nat
      /\ \A x \in S : \E k \in 1..Len(s) : s[k] = x
      /\ \A j, k \in 1..Len(s) : j < k => Ahead(f, s[j], s[k])
      /\ \A k \in 1..Len(s) : s[k] \in S
  <2>1. s \in Seq(S) /\ \A x \in S : \E k \in 1..Len(s) : s[k] = x BY <1>1, RankingWhole
  <2>2. DOMAIN s = 1..Len(s) /\ Len(s) \in Nat BY <2>1
  <2> QED BY <2>1, <2>2 DEF Ranks
<1>3. hits \in Seq(S) /\ Len(hits) = n /\ DOMAIN hits = 1..n /\ \A k \in 1..n : hits[k] = s[k]
  BY <1>2
<1>4. \A k \in 1..n : k \in 1..Len(s) BY <1>2
<1>5. \A k \in DOMAIN hits : hits[k] \in S BY <1>2, <1>3, <1>4
<1>6. \A k \in 2..Len(hits) : Ahead(f, hits[k - 1], hits[k])
  <2> SUFFICES ASSUME NEW k \in 2..n PROVE Ahead(f, hits[k - 1], hits[k]) BY <1>3
  <2>1. k - 1 \in 1..n /\ k \in 1..n /\ k - 1 < k OBVIOUS
  <2> QED BY <1>2, <1>3, <1>4, <2>1
<1>7. ASSUME NEW x \in left
      PROVE  /\ hits # <<>> => Ahead(f, Last(hits), x)
             /\ (\E y \in left : Ahead(f, y, x)) \/ ~Within(m, Append(hits, x), q)
  <2>1. PICK k \in 1..Len(s) : s[k] = x BY <1>2
  <2>2. k > n
    <3> SUFFICES ASSUME k <= n PROVE FALSE BY <1>2
    <3>1. k \in 1..n /\ hits[k] = x BY <1>3, <2>1
    <3> QED BY <1>3, <3>1 DEF Range
  <2>3. hits # <<>> => Ahead(f, Last(hits), x)
    <3> SUFFICES ASSUME hits # <<>> PROVE Ahead(f, Last(hits), x) OBVIOUS
    <3>1. n # 0 /\ n \in 1..n /\ n \in 1..Len(s) BY <1>2, <1>3
    <3>2. Last(hits) = s[n] BY <1>3, <3>1 DEF Last
    <3> QED BY <1>2, <2>1, <2>2, <3>1, <3>2
  <2>4. CASE k = n + 1
    <3>1. Append(hits, x) = SubSeq(s, 1, n + 1)
      <4>1. n + 1 \in 1..Len(s) /\ SubSeq(s, 1, n + 1) \in Seq(S) /\ Len(SubSeq(s, 1, n + 1)) = n + 1
            /\ \A j \in 1..(n + 1) : SubSeq(s, 1, n + 1)[j] = s[j]
        BY <1>2, <2>1, <2>4
      <4>2. Append(hits, x) \in Seq(S) /\ Len(Append(hits, x)) = n + 1
            /\ \A j \in 1..(n + 1) : Append(hits, x)[j] = s[j]
        BY <1>3, <2>1, <2>4
      <4> DEFINE a == Append(hits, x)
                 b == SubSeq(s, 1, n + 1)
      <4>3. a \in Seq(S) /\ b \in Seq(S) /\ Len(a) = n + 1 /\ Len(b) = n + 1
            /\ \A j \in 1..(n + 1) : a[j] = b[j]
        BY <4>1, <4>2
      <4> HIDE DEF a, b
      <4>4. a = b BY <4>3, SeqEqual
      <4> QED BY <4>4 DEF a, b
    <3>2. n < Len(s) BY <1>2, <2>4
    <3> QED BY <2>3, <3>1, <3>2
  <2>5. CASE k # n + 1
    <3>1. n + 1 \in 1..Len(s) /\ n + 1 < k BY <1>2, <2>2, <2>5
    <3>2. Ahead(f, s[n + 1], x) BY <1>2, <2>1, <3>1
    <3>3. s[n + 1] \notin Range(hits)
      <4> SUFFICES ASSUME s[n + 1] \in Range(hits) PROVE FALSE OBVIOUS
      <4>1. PICK j \in 1..n : hits[j] = s[n + 1] BY <1>3 DEF Range
      <4>2. Ahead(f, s[j], s[n + 1]) BY <1>2, <1>4, <3>1
      <4>3. s[j] = s[n + 1] /\ s[n + 1] \in 1..N BY <1>2, <1>3, <3>1, <4>1
      <4> QED BY <4>2, <4>3, AheadIs
    <3>4. s[n + 1] \in left BY <1>2, <3>1, <3>3
    <3> QED BY <2>3, <3>2, <3>4
  <2> QED BY <2>4, <2>5
<1> QED BY <1>5, <1>6, <1>7 DEF Best

\* A query over well-typed records.
LEMMA QueryIsBest ==
  ASSUME NEW m, m \in [records: Seq(Entry), last: Nat], NEW query \in Queries
  PROVE  BestHits(m, query)
<1> DEFINE q == clampQueryBounds(query)
           N == Len(m.records)
           C == Candidates(m, q)
           R == {p \in DOMAIN m.records : Relevant(m, q, p)}
           hits == Hits(m, query)
<1>1. q.limit \in Nat /\ q.maxChars \in Int /\ q.emb \in Vector \cup {NoVector} BY ClampIs
<1>2. N \in Nat /\ DOMAIN m.records = 1..N /\ \A p \in 1..N : m.records[p].emb \in Vector \cup {NoVector}
  <2>1. m.records \in Seq(Entry) OBVIOUS
  <2>2. N \in Nat /\ DOMAIN m.records = 1..N /\ \A p \in 1..N : m.records[p] \in Entry BY <2>1
  <2> QED BY <2>2 DEF Entry
<1>3. C \in SUBSET (1..N) BY <1>2 DEF Candidates
<1> SUFFICES LET left == R \ Range(hits) IN
            /\ \A k \in DOMAIN hits : Relevant(m, q, hits[k])
            /\ \A k \in 2..Len(hits) : Better(m, q, hits[k - 1], hits[k])
            /\ Within(m, hits, q)
            /\ \A x \in left : /\ hits # <<>> => Better(m, q, Last(hits), x)
                               /\ \/ \E y \in left : Better(m, q, y, x)
                                  \/ ~Within(m, Append(hits, x), q)
  BY DEF BestHits
<1>h. hits = IF q.emb # NoVector THEN rankByEmbedding(m, C, q) ELSE takeLatestN(m, C, q)
  BY DEF Hits
<1>4. \E f, s :
        /\ f \in [1..N -> Int]
        /\ Ranks(f, R, s) /\ hits = Taken(m, s, q)
        /\ \A x, y \in 1..N : Ahead(f, x, y) <=> Better(m, q, x, y)
  <2>1. CASE q.emb = NoVector
    <3> DEFINE f == [p \in 1..N |-> 0]
    <3>1. \E s : Ranks(f, C, s) /\ takeLatestN(m, C, q) = Taken(m, s, q) BY <1>2, <1>3, LatestIs
    <3>2. R = C BY <2>1, <1>2 DEF Relevant, Candidates
    <3>3. \A x, y \in 1..N : Ahead(f, x, y) <=> Better(m, q, x, y) BY <2>1 DEF Ahead, Better
    <3>4. f \in [1..N -> Int] OBVIOUS
    <3> HIDE DEF f, C, R
    <3> QED BY <1>h, <2>1, <3>1, <3>2, <3>3, <3>4
  <2>2. CASE q.emb # NoVector
    <3> DEFINE f == [p \in 1..N |-> Score(m, q, p)]
               positive == {p \in C : Score(m, q, p) > 0}
               ranked == IF positive # {} THEN positive ELSE C
    <3>1. \A p \in 1..N : Score(m, q, p) \in Int
      <4>1. q.emb \in Vector BY <1>1, <2>2
      <4> HIDE DEF q
      <4> QED BY <1>2, <4>1, ScoreIs
    <3>2. \E s : Ranks(f, ranked, s) /\ rankByEmbedding(m, C, q) = Taken(m, s, q)
      <4> HIDE DEF q, C
      <4> QED BY <1>2, <1>3, <3>1, RankIs
    <3>3. \A x, y \in 1..N : Ahead(f, x, y) <=> Better(m, q, x, y) BY <2>2 DEF Ahead, Better
    <3>4. f \in [1..N -> Int] BY <3>1
    <3>5. R = ranked
      <4> HIDE DEF q
      <4>1. R = {p \in 1..N : Relevant(m, q, p)} /\ C = {p \in 1..N : Candidate(m, q, p)}
        BY <1>2 DEF Candidates
      <4>2. \A p \in 1..N : Relevant(m, q, p) <=>
              p \in C /\ (Score(m, q, p) <= 0 => \A x \in C : Score(m, q, x) <= 0)
        BY <1>2, <2>2, <4>1 DEF Relevant
      <4>3. positive = {p \in C : ~(Score(m, q, p) <= 0)}
        <5>1. \A p \in C : Score(m, q, p) > 0 <=> ~(Score(m, q, p) <= 0) BY <1>3, <3>1
        <5> QED BY <5>1
      <4>4. \A p \in R : p \in ranked BY <4>1, <4>2, <4>3
      <4>5. \A p \in ranked : p \in R BY <4>1, <4>2, <4>3
      <4> HIDE DEF R, ranked
      <4> QED BY <4>4, <4>5
    <3> HIDE DEF f, C, R, ranked
    <3> QED BY <1>h, <2>2, <3>2, <3>3, <3>4, <3>5
  <2> QED BY <2>1, <2>2
<1>5. PICK f, s :
        /\ f \in [1..N -> Int]
        /\ Ranks(f, R, s) /\ hits = Taken(m, s, q)
        /\ \A x, y \in 1..N : Ahead(f, x, y) <=> Better(m, q, x, y)
  BY <1>4
<1>6. R \in SUBSET (1..N) BY <1>2
<1>r. \A p \in R : Relevant(m, q, p) OBVIOUS
<1> HIDE DEF q, N, R, hits
<1>7. s \in Seq(R)
  <2>1. IsFiniteSet(R) BY <1>2, <1>5, <1>6, RankingExists
  <2> QED BY <1>2, <1>5, <1>6, <2>1, RankingWhole
<1>8. PICK n \in 0..Len(s) :
        /\ hits = SubSeq(s, 1, n) /\ Within(m, SubSeq(s, 1, n), q)
        /\ n < Len(s) => ~Within(m, SubSeq(s, 1, n + 1), q)
  <2>1. \E n \in 0..Len(s) :
           /\ Taken(m, s, q) = SubSeq(s, 1, n)
           /\ Within(m, SubSeq(s, 1, n), q)
           /\ n < Len(s) => ~Within(m, SubSeq(s, 1, n + 1), q)
    BY <1>1, <1>7, TakenIs
  <2> QED BY <1>5, <2>1
<1>9. Within(m, hits, q) BY <1>8
<1> DEFINE left == R \ Range(hits)
<1>10. /\ \A k \in DOMAIN hits : hits[k] \in R
       /\ \A k \in 2..Len(hits) : Ahead(f, hits[k - 1], hits[k])
       /\ \A x \in left : /\ hits # <<>> => Ahead(f, Last(hits), x)
                          /\ \/ \E y \in left : Ahead(f, y, x)
                             \/ ~Within(m, Append(hits, x), q)
  <2>1. N \in Nat /\ f \in [1..N -> Int] /\ R \in SUBSET (1..N) /\ Ranks(f, R, s) BY <1>2, <1>5, <1>6
  <2>2. hits = SubSeq(s, 1, n) /\ Within(m, hits, q) /\ (n < Len(s) => ~Within(m, SubSeq(s, 1, n + 1), q))
    BY <1>8, <1>9
  <2>3. Best(m, q, f, R, hits) BY <2>1, <2>2, PrefixIsBest
  <2> QED BY <2>3 DEF Best
<1>11. hits \in Seq(R) /\ Len(hits) \in Nat /\ DOMAIN hits = 1..Len(hits) BY <1>7, <1>8
<1>12. \A k \in 2..Len(hits) : Better(m, q, hits[k - 1], hits[k])
  <2> SUFFICES ASSUME NEW k \in 2..Len(hits) PROVE Better(m, q, hits[k - 1], hits[k]) OBVIOUS
  <2>1. k \in DOMAIN hits /\ k - 1 \in DOMAIN hits BY <1>11
  <2>2. hits[k] \in 1..N /\ hits[k - 1] \in 1..N BY <1>6, <1>10, <2>1
  <2> QED BY <1>5, <1>10, <2>2
<1>13. ASSUME NEW x \in left
       PROVE  /\ hits # <<>> => Better(m, q, Last(hits), x)
              /\ (\E y \in left : Better(m, q, y, x)) \/ ~Within(m, Append(hits, x), q)
  <2>1. x \in 1..N /\ \A y \in left : y \in 1..N BY <1>6
  <2>2. hits # <<>> => Last(hits) \in 1..N
    <3> SUFFICES ASSUME hits # <<>> PROVE Last(hits) \in 1..N OBVIOUS
    <3>1. Len(hits) \in DOMAIN hits BY <1>11
    <3> QED BY <1>6, <1>10, <3>1 DEF Last
  <2> HIDE DEF left
  <2> QED BY <1>5, <1>10, <2>1, <2>2
<1> QED BY <1>9, <1>10, <1>12, <1>13, <1>r

\* rankByEmbedding and takeLatestN, whatever has been put, saved, shown and deleted: a
\* Query shows relevant entries within its limit and its characters, best first, and
\* leaves out a better one only for a bound, for every store and every query.
THEOREM QueriesShowTheBest == Spec => []HitsAreBest
<1>1. TypeOK => HitsAreBest
  <2> SUFFICES ASSUME TypeOK, NEW q \in Queries PROVE BestHits(memory, q) BY DEF HitsAreBest
  <2>1. memory \in [records: Seq(Entry), last: Nat] BY DEF TypeOK
  <2> QED BY <2>1, QueryIsBest
<1> QED BY <1>1, TypeCorrect, PTL
==============================================================================
