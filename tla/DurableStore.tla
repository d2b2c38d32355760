----------------------------- MODULE DurableStore -----------------------------
(***************************************************************************)
(* What a durable MemoryStore promises (the MemoryStore interface of       *)
(* memory_store.go with the survival of a restart that FileStore adds).    *)
(* A scope holds entries in commit order, one per id.  A call that returns *)
(* nil changes what Query shows and what a restart brings back alike.  A   *)
(* call that returns an error, or dies, may have changed either, but only  *)
(* for its own id.                                                         *)
(***************************************************************************)
EXTENDS Sequences, Integers, EntryLists

CONSTANTS Scope, Id, Val

VARIABLES up,       \* the store is open
          visible,  \* what Query shows, per scope, oldest first
          durable   \* what an Open would load

vars == <<up, visible, durable>>

Empty == [s \in Scope |-> <<>>]

Init == up = FALSE /\ visible = Empty /\ durable = Empty

Open == ~up /\ up' = TRUE /\ visible' = durable /\ UNCHANGED durable

Stop == up /\ up' = FALSE /\ visible' = Empty /\ UNCHANGED durable

Put(s, i, v) ==
  /\ up
  /\ visible' = [visible EXCEPT ![s] = Upsert(@, i, v)]
  /\ durable' = [durable EXCEPT ![s] = Upsert(@, i, v)]
  /\ UNCHANGED up

Delete(s, i) ==
  /\ up
  /\ visible' = [visible EXCEPT ![s] = Without(@, i)]
  /\ durable' = [durable EXCEPT ![s] = Without(@, i)]
  /\ UNCHANGED up

PutFails(s, i, v) ==
  /\ up
  /\ \E es \in {visible[s], Upsert(visible[s], i, v), Without(visible[s], i)} :
       visible' = [visible EXCEPT ![s] = es]
  /\ \E es \in {durable[s], Upsert(durable[s], i, v)} : durable' = [durable EXCEPT ![s] = es]
  /\ UNCHANGED up

DeleteFails(s, i) ==
  /\ up
  /\ \E es \in {visible[s], Without(visible[s], i)} : visible' = [visible EXCEPT ![s] = es]
  /\ \E es \in {durable[s], Without(durable[s], i)} : durable' = [durable EXCEPT ![s] = es]
  /\ UNCHANGED up

\* The process dies inside a call.
Dies(s, i, v) ==
  /\ up /\ up' = FALSE /\ visible' = Empty
  /\ \E es \in {durable[s], Upsert(durable[s], i, v), Without(durable[s], i)} :
       durable' = [durable EXCEPT ![s] = es]

Next ==
  \/ Open \/ Stop
  \/ \E s \in Scope, i \in Id :
       \/ Delete(s, i) \/ DeleteFails(s, i)
       \/ \E v \in Val : Put(s, i, v) \/ PutFails(s, i, v) \/ Dies(s, i, v)

Spec == Init /\ [][Next]_vars
==============================================================================
