---------------------------- MODULE McpClientProofs ----------------------------
(***************************************************************************)
(* Theorems about McpClient, for any number of goroutines, servers and     *)
(* sessions: types; a session is held by a client from the response that   *)
(* opened it until the one Close that takes it; a LoadConfig that fails    *)
(* has closed what it opened; a listing is the whole catalog.              *)
(***************************************************************************)
EXTENDS McpClient, TLAPS

\* LoadConfig's loops stay within the configuration.
LoadInv ==
  /\ load.j <= load.i
  /\ load.pc \in {"initializing", "closing"} => load.i <= Len(config)

TypeInv == TypeOK /\ LoadInv

Header(x) == call[x].reply.header

\* Where a session id may be: at the client, in the hands of one Close, or in the
\* one response that names it, and in no two of these places.
OnePlace ==
  /\ \A s \in Server :
       /\ \A id \in taken[s] : id <= issued[s]
       /\ sessionID[s] <= issued[s] /\ sessionID[s] \notin taken[s]
  /\ \A x \in Actor : Header(x) # NoSession =>
       /\ Header(x) <= issued[call[x].srv] /\ Header(x) \notin taken[call[x].srv]
       /\ Header(x) # sessionID[call[x].srv]
       /\ \A y \in Actor : y # x /\ call[y].srv = call[x].srv => Header(y) # Header(x)
  /\ \A x \in Actor : call[x].method = "delete" /\ call[x].sid # NoSession =>
       /\ call[x].sid \in taken[call[x].srv]
       /\ \A y \in Actor : y # x /\ call[y].method = "delete" /\ call[y].srv = call[x].srv
                             => call[y].sid # call[x].sid

SessionInv == TypeInv /\ OnePlace

------------------------------------------------------------------------------
(* What becomes of a call. *)

LEMMA IdleIs ==
  ASSUME TypeOK
  PROVE  Idle \in CallRecord /\ Idle.sid = NoSession /\ Idle.reply.header = NoSession
<1>1. 1 \in Server BY BoundsAssumption, ConfigsAssumption DEF TypeOK, Server
<1>2. <<>> \in Seq(Nat) OBVIOUS
<1>3. NoReply \in [header : Sid \cup {NoSession}, ok : BOOLEAN, next : Nat] /\ NoReply.header = NoSession
  BY DEF NoReply, NoSession
<1> QED BY <1>1, <1>2, <1>3 DEF CallRecord, Method, Idle

LEMMA FreshIs ==
  ASSUME TypeOK, NEW m \in Method, NEW s \in Server
  PROVE  LET c == [Idle EXCEPT !.method = m, !.srv = s]
         IN c \in CallRecord /\ c.method = m /\ c.srv = s /\ c.sid = NoSession /\ c.reply.header = NoSession
BY IdleIs DEF CallRecord

LEMMA ReturnedIs ==
  ASSUME NEW c \in CallRecord, NEW res \in {"none", "ok", "error", "tooMany"}
  PROVE  /\ Returned(c, res) \in CallRecord
         /\ Returned(c, res).pc = "done" /\ Returned(c, res).method = c.method /\ Returned(c, res).srv = c.srv
         /\ Returned(c, res).sid = NoSession /\ Returned(c, res).reply.header = NoSession
BY DEF Returned, CallRecord, NoReply, NoSession

LEMMA AgainIs ==
  ASSUME NEW c \in CallRecord
  PROVE  /\ Again(c) \in CallRecord
         /\ Again(c).method = c.method /\ Again(c).srv = c.srv
         /\ Again(c).sid = NoSession /\ Again(c).reply.header = NoSession
BY DEF Again, CallRecord, NoReply, NoSession

\* It has no session and no response left.
LEMMA AfterReplyIs ==
  ASSUME NEW c \in CallRecord
  PROVE  /\ AfterReply(c) \in CallRecord /\ AfterReply(c).srv = c.srv
         /\ AfterReply(c).sid = NoSession /\ AfterReply(c).reply.header = NoSession
<1>1. c.cursor \in Nat /\ c.all \in Seq(Nat) /\ c.reply.next \in Nat BY DEF CallRecord
<1> DEFINE got == [c EXCEPT !.all = Append(@, c.cursor + 1)]
           on == [got EXCEPT !.cursor = c.reply.next]
           notify == [c EXCEPT !.method = "notify"]
<1>2. got \in CallRecord /\ got.srv = c.srv
  <2>1. Append(c.all, c.cursor + 1) \in Seq(Nat) BY <1>1
  <2> QED BY <2>1 DEF CallRecord
<1>3. on \in CallRecord /\ on.srv = c.srv BY <1>1, <1>2 DEF CallRecord
<1>4. notify \in CallRecord /\ notify.srv = c.srv BY DEF CallRecord, Method
<1>5. AfterPage(c) \in {Returned(got, "ok"), Returned(got, "tooMany"), Again(on)}
  BY DEF AfterPage
<1>6. AfterReply(c) \in {Returned(c, "error"), Again(notify), AfterPage(c), Returned(c, "ok")}
  <2>1. c.reply.ok \in BOOLEAN BY DEF CallRecord
  <2> QED BY <2>1 DEF AfterReply
<1>7. \A d \in {Returned(c, "error"), Again(notify), Returned(c, "ok"),
                Returned(got, "ok"), Returned(got, "tooMany"), Again(on)} :
        d \in CallRecord /\ d.srv = c.srv /\ d.sid = NoSession /\ d.reply.header = NoSession
  <2> HIDE DEF got, on, notify
  <2> QED BY <1>2, <1>3, <1>4, ReturnedIs, AgainIs
<1> HIDE DEF got, on, notify
<1> QED BY <1>5, <1>6, <1>7

------------------------------------------------------------------------------
(* What a step may do to the sessions. *)

\* x's call becomes r; nothing new is named or taken.
Onward(x, r) ==
  /\ r \in CallRecord
  /\ call' = [call EXCEPT ![x] = r]
  /\ r.reply.header # NoSession => r.srv = call[x].srv /\ r.reply.header = Header(x)
  /\ r.method = "delete" /\ r.sid # NoSession =>
       call[x].method = "delete" /\ r.srv = call[x].srv /\ r.sid = call[x].sid

LEMMA OnwardIs ==
  ASSUME TypeOK, OnePlace, NEW x \in Actor, NEW r, Onward(x, r), UNCHANGED <<sessionID, issued, taken>>
  PROVE  OnePlace' /\ call' \in [Actor -> CallRecord]
<1>1. \A y \in Actor : call'[y] = IF y = x THEN r ELSE call[y] BY DEF Onward, TypeOK
<1>2. call' \in [Actor -> CallRecord] BY DEF Onward, TypeOK
<1>3. ASSUME NEW y \in Actor, Header(y)' # NoSession
      PROVE  /\ call'[y].srv = call[y].srv /\ Header(y)' = Header(y)
  BY <1>1, <1>3 DEF Onward, Header
<1>4. ASSUME NEW y \in Actor, call'[y].method = "delete", call'[y].sid # NoSession
      PROVE  call[y].method = "delete" /\ call'[y].srv = call[y].srv /\ call'[y].sid = call[y].sid
  BY <1>1, <1>4 DEF Onward
<1>5. (\A s \in Server :
         /\ \A id \in taken[s] : id <= issued[s]
         /\ sessionID[s] <= issued[s] /\ sessionID[s] \notin taken[s])'
  BY DEF OnePlace
<1>6. ASSUME NEW y \in Actor, Header(y)' # NoSession
      PROVE  (/\ Header(y) <= issued[call[y].srv] /\ Header(y) \notin taken[call[y].srv]
              /\ Header(y) # sessionID[call[y].srv]
              /\ \A z \in Actor : z # y /\ call[z].srv = call[y].srv => Header(z) # Header(y))'
  <2>1. call'[y].srv = call[y].srv /\ Header(y)' = Header(y) BY <1>3, <1>6
  <2>2. ASSUME NEW z \in Actor, z # y, call'[z].srv = call'[y].srv, Header(z)' = Header(y)' PROVE FALSE
    <3>1. call'[z].srv = call[z].srv /\ Header(z)' = Header(z) BY <1>3, <1>6, <2>2
    <3> QED BY <1>6, <2>1, <2>2, <3>1 DEF OnePlace
  <2> QED BY <1>6, <2>1, <2>2 DEF OnePlace
<1>7. ASSUME NEW y \in Actor, call'[y].method = "delete", call'[y].sid # NoSession
      PROVE  (/\ call[y].sid \in taken[call[y].srv]
              /\ \A z \in Actor : z # y /\ call[z].method = "delete" /\ call[z].srv = call[y].srv
                                    => call[z].sid # call[y].sid)'
  <2>1. call[y].method = "delete" /\ call'[y].srv = call[y].srv /\ call'[y].sid = call[y].sid BY <1>4, <1>7
  <2>2. ASSUME NEW z \in Actor, z # y, call'[z].method = "delete", call'[z].srv = call'[y].srv,
               call'[z].sid = call'[y].sid
        PROVE FALSE
    <3>1. call[z].method = "delete" /\ call'[z].srv = call[z].srv /\ call'[z].sid = call[z].sid
      BY <1>4, <1>7, <2>2
    <3> QED BY <1>7, <2>1, <2>2, <3>1 DEF OnePlace
  <2> QED BY <1>7, <2>1, <2>2 DEF OnePlace
<1> QED BY <1>2, <1>5, <1>6, <1>7 DEF OnePlace

LEMMA BeginIs ==
  ASSUME TypeOK, OnePlace, NEW x \in Actor, NEW m \in Method \ {"delete"}, NEW s \in Server, Begin(x, m, s),
         UNCHANGED issued
  PROVE  OnePlace' /\ call' \in [Actor -> CallRecord] /\ UNCHANGED <<sessionID, taken>>
<1> DEFINE r == [Idle EXCEPT !.pc = "send", !.method = m, !.srv = s]
           c == [Idle EXCEPT !.method = m, !.srv = s]
<1>0. r = [c EXCEPT !.pc = "send"] BY DEF Idle
<1>1. r \in CallRecord /\ r.method = m /\ r.reply.header = NoSession
  <2>1. c \in CallRecord /\ c.method = m /\ c.reply.header = NoSession BY FreshIs
  <2> HIDE DEF r, c
  <2> QED BY <1>0, <2>1 DEF CallRecord
<1>2. call' = [call EXCEPT ![x] = r] /\ UNCHANGED <<sessionID, taken>> BY DEF Begin
<1> HIDE DEF r
<1>3. Onward(x, r) BY <1>1, <1>2 DEF Onward
<1> QED BY <1>2, <1>3, OnwardIs

\* Close moves the client's id into its own hands.
LEMMA CloseIs ==
  ASSUME TypeOK, OnePlace, NEW x \in Actor, NEW s \in Server, Close(x, s), UNCHANGED issued
  PROVE  /\ OnePlace' /\ call' \in [Actor -> CallRecord]
         /\ sessionID' \in [Server -> Sid \cup {NoSession}] /\ taken' \in [Server -> SUBSET Sid]
         /\ sessionID[s] # NoSession => sessionID'[s] = NoSession /\ taken'[s] # taken[s]
         /\ \A t \in Server : t # s => sessionID'[t] = sessionID[t]
<1> DEFINE fresh == [Idle EXCEPT !.method = "delete", !.srv = s]
           sent == [fresh EXCEPT !.pc = "send", !.sid = sessionID[s]]
           r == IF sessionID[s] = NoSession THEN Returned(fresh, "ok") ELSE sent
<1>1. sessionID[s] \in Sid \cup {NoSession} /\ NoSession \notin Sid BY DEF TypeOK, Sid, NoSession
<1>2. fresh \in CallRecord /\ fresh.method = "delete" /\ fresh.srv = s /\ fresh.reply.header = NoSession
  BY FreshIs DEF Method
<1>3. sent \in CallRecord /\ sent.method = "delete" /\ sent.srv = s /\ sent.sid = sessionID[s]
      /\ sent.reply.header = NoSession
  <2> HIDE DEF fresh
  <2> QED BY <1>1, <1>2 DEF CallRecord
<1>4. /\ Returned(fresh, "ok") \in CallRecord
      /\ Returned(fresh, "ok").method = "delete" /\ Returned(fresh, "ok").srv = s
      /\ Returned(fresh, "ok").sid = NoSession /\ Returned(fresh, "ok").reply.header = NoSession
  <2> HIDE DEF fresh
  <2> QED BY <1>2, ReturnedIs
<1>5. /\ call' = [call EXCEPT ![x] = r]
      /\ sessionID' = [sessionID EXCEPT ![s] = NoSession]
      /\ taken' = [taken EXCEPT ![s] = @ \cup ({sessionID[s]} \ {NoSession})]
  BY DEF Close
<1> HIDE DEF fresh, sent
<1>6. r \in CallRecord /\ r.method = "delete" /\ r.srv = s /\ r.sid = sessionID[s] /\ r.reply.header = NoSession
  BY <1>1, <1>3, <1>4
<1> HIDE DEF r
<1>7. \A y \in Actor : call'[y] = IF y = x THEN r ELSE call[y] BY <1>5 DEF TypeOK
<1>8. \A t \in Server : /\ sessionID'[t] = IF t = s THEN NoSession ELSE sessionID[t]
                        /\ taken'[t] = IF t = s THEN taken[s] \cup ({sessionID[s]} \ {NoSession}) ELSE taken[t]
  BY <1>5 DEF TypeOK
<1>9. \A t \in Server : taken[t] \subseteq Sid /\ sessionID[t] \notin taken[t] /\ issued[t] \in Nat
  BY DEF TypeOK, OnePlace
<1>10. (\A t \in Server :
          /\ \A id \in taken[t] : id <= issued[t]
          /\ sessionID[t] <= issued[t] /\ sessionID[t] \notin taken[t])'
  BY <1>1, <1>8, <1>9 DEF OnePlace, NoSession
<1>11. ASSUME NEW y \in Actor, Header(y)' # NoSession
       PROVE  (/\ Header(y) <= issued[call[y].srv] /\ Header(y) \notin taken[call[y].srv]
               /\ Header(y) # sessionID[call[y].srv]
               /\ \A z \in Actor : z # y /\ call[z].srv = call[y].srv => Header(z) # Header(y))'
  <2>1. y # x /\ call'[y] = call[y] /\ call[y].srv \in Server BY <1>6, <1>7, <1>11 DEF Header, TypeOK, CallRecord
  <2>2. Header(y)' = Header(y) /\ Header(y) # NoSession BY <1>11, <2>1 DEF Header
  <2>3. Header(y) <= issued'[call[y].srv] /\ Header(y) \notin taken'[call[y].srv] /\ Header(y) # sessionID'[call[y].srv]
    BY <1>8, <2>1, <2>2 DEF OnePlace
  <2>4. ASSUME NEW z \in Actor, z # y, call'[z].srv = call'[y].srv, Header(z)' = Header(y)' PROVE FALSE
    <3>1. z # x BY <1>6, <1>7, <1>11, <2>4 DEF Header
    <3>2. call'[z] = call[z] BY <1>7, <3>1
    <3> QED BY <2>1, <2>2, <2>4, <3>2 DEF OnePlace, Header
  <2> QED BY <2>1, <2>2, <2>3, <2>4
<1>12. ASSUME NEW y \in Actor, call'[y].method = "delete", call'[y].sid # NoSession
       PROVE  (/\ call[y].sid \in taken[call[y].srv]
               /\ \A z \in Actor : z # y /\ call[z].method = "delete" /\ call[z].srv = call[y].srv
                                     => call[z].sid # call[y].sid)'
  <2>1. CASE y = x
    <3>1. call'[y] = r /\ sessionID[s] # NoSession BY <1>6, <1>7, <1>12, <2>1
    <3>2. sessionID[s] \in taken'[s] /\ sessionID[s] \notin taken[s] BY <1>8, <1>9, <3>1
    <3>3. ASSUME NEW z \in Actor, z # y, call[z].method = "delete", call[z].srv = s, call[z].sid = sessionID[s]
          PROVE FALSE
      BY <3>1, <3>2, <3>3 DEF OnePlace
    <3> QED BY <1>6, <1>7, <2>1, <3>1, <3>2, <3>3
  <2>2. CASE y # x
    <3>1. call'[y] = call[y] /\ call[y].srv \in Server BY <1>7, <2>2 DEF TypeOK, CallRecord
    <3>2. call[y].sid \in taken[call[y].srv] BY <1>12, <3>1 DEF OnePlace
    <3>3. call[y].sid \in taken'[call[y].srv] BY <1>8, <3>1, <3>2
    <3>4. call[y].srv = s => call[y].sid # sessionID[s] BY <1>9, <3>2
    <3> QED BY <1>6, <1>7, <1>12, <2>2, <3>1, <3>3, <3>4 DEF OnePlace
  <2> QED BY <2>1, <2>2
<1>13. OnePlace' BY <1>10, <1>11, <1>12 DEF OnePlace
<1>14. call' \in [Actor -> CallRecord] BY <1>5, <1>6 DEF TypeOK
<1>15. sessionID' \in [Server -> Sid \cup {NoSession}] BY <1>5 DEF TypeOK
<1>16. taken' \in [Server -> SUBSET Sid]
  <2>1. taken[s] \cup ({sessionID[s]} \ {NoSession}) \in SUBSET Sid BY <1>1, <1>9
  <2> QED BY <1>5, <2>1 DEF TypeOK
<1> QED BY <1>1, <1>8, <1>9, <1>13, <1>14, <1>15, <1>16

------------------------------------------------------------------------------
(* The steps. *)

\* SessionKept's action.
Kept ==
  \A s \in Server :
    sessionID[s] # NoSession /\ sessionID'[s] # sessionID[s]
    => sessionID'[s] = NoSession /\ taken'[s] # taken[s]

LEMMA InitHolds == Init => SessionInv
<1> SUFFICES ASSUME Init PROVE SessionInv OBVIOUS
<1>1. /\ BoundsAssumption /\ config \in Configs /\ Len(config) \in 1..NServers
      /\ \A x \in Actor : call[x] = Idle
      /\ \A s \in Server : sessionID[s] = NoSession /\ issued[s] = 0 /\ taken[s] = {}
  BY BoundsAssumption, ConfigsAssumption DEF Init
<1>2. Idle \in CallRecord /\ Idle.sid = NoSession /\ Idle.reply.header = NoSession
  <2>1. 1 \in Server BY <1>1 DEF Server, BoundsAssumption
  <2>2. <<>> \in Seq(Nat) OBVIOUS
  <2>3. NoReply \in [header : Sid \cup {NoSession}, ok : BOOLEAN, next : Nat] /\ NoReply.header = NoSession
    BY DEF NoReply, NoSession
  <2> QED BY <2>1, <2>2, <2>3 DEF CallRecord, Method, Idle
<1>3. TypeOK BY <1>1, <1>2 DEF Init, TypeOK, BoundsAssumption, NoSession
<1>4. LoadInv BY DEF Init, LoadInv
<1>5. OnePlace BY <1>1, <1>2 DEF OnePlace, Header, NoSession
<1> QED BY <1>3, <1>4, <1>5 DEF SessionInv, TypeInv


LEMMA LoadNextKeeps == SessionInv /\ LoadNext => SessionInv' /\ Kept
<1> SUFFICES ASSUME SessionInv, LoadNext PROVE SessionInv' /\ Kept OBVIOUS
<1> USE DEF SessionInv, TypeInv
<1>1. Loader \in Actor /\ load.i \in Nat /\ Len(config) \in 1..NServers /\ NServers \in Nat
  BY BoundsAssumption, ConfigsAssumption DEF Actor, TypeOK
<1>2. UNCHANGED <<config, calls, cancelled, issued, live>> BY DEF LoadNext, serverVars
<1>3. CASE UNCHANGED <<call, sessionID, taken>> /\ \E res \in {"ok", "rejected"} :
             load' = [load EXCEPT !.pc = "returned", !.res = res]
  <2>1. TypeOK' BY <1>2, <1>3 DEF TypeOK
  <2>2. LoadInv' BY <1>2, <1>3 DEF LoadInv, TypeOK
  <2>3. OnePlace' BY <1>2, <1>3 DEF OnePlace, Header
  <2> QED BY <1>3, <2>1, <2>2, <2>3 DEF Kept
<1>4. CASE /\ load.i <= Len(config)
           /\ load' = [load EXCEPT !.pc = "initializing"] /\ Begin(Loader, "initialize", load.i)
  <2>1. load.i \in Server /\ "initialize" \in Method \ {"delete"} BY <1>1, <1>4 DEF TypeOK, Server, Method
  <2>2. OnePlace' /\ call' \in [Actor -> CallRecord] /\ UNCHANGED <<sessionID, taken>>
    BY <1>1, <1>2, <1>4, <2>1, BeginIs
  <2>3. TypeOK' BY <1>2, <1>4, <2>2 DEF TypeOK
  <2>4. LoadInv' BY <1>2, <1>4 DEF LoadInv, TypeOK
  <2> QED BY <2>2, <2>3, <2>4 DEF Kept
<1> QED BY <1>1, <1>3, <1>4 DEF LoadNext

LEMMA LoadInitializedKeeps == SessionInv /\ LoadInitialized => SessionInv' /\ Kept
<1> SUFFICES ASSUME SessionInv, LoadInitialized PROVE SessionInv' /\ Kept OBVIOUS
<1> USE DEF SessionInv, TypeInv
<1>1. Loader \in Actor /\ load.i \in Nat /\ Len(config) \in 1..NServers /\ NServers \in Nat
  BY BoundsAssumption, ConfigsAssumption DEF Actor, TypeOK
<1>2. UNCHANGED <<config, calls, cancelled, issued, live, sessionID, taken>>
      /\ call' = [call EXCEPT ![Loader] = Idle]
  BY DEF LoadInitialized, serverVars
<1>3. Onward(Loader, Idle) BY <1>2, IdleIs DEF Onward
<1>4. OnePlace' /\ call' \in [Actor -> CallRecord] BY <1>1, <1>2, <1>3, OnwardIs
<1>5. load.i <= Len(config) BY DEF LoadInitialized, LoadInv
<1>6. load' \in {[load EXCEPT !.pc = "next", !.i = @ + 1], [load EXCEPT !.pc = "closing"]}
  BY DEF LoadInitialized
<1> DEFINE Load == [pc : {"next", "initializing", "closing", "returned"}, i : 1..(NServers + 1),
                    j : 1..NServers, res : {"none", "ok", "rejected", "failed"}]
<1>7. load \in Load BY DEF TypeOK
<1>8. load' \in Load /\ LoadInv'
  <2>1. CASE load' = [load EXCEPT !.pc = "next", !.i = @ + 1]
    <3>1. load.i + 1 \in 1..(NServers + 1) /\ load.j <= load.i + 1 BY <1>1, <1>5, <1>7 DEF LoadInv
    <3> QED BY <1>7, <2>1, <3>1 DEF LoadInv
  <2>2. CASE load' = [load EXCEPT !.pc = "closing"] BY <1>2, <1>5, <1>7, <2>2 DEF LoadInv
  <2> QED BY <1>6, <2>1, <2>2
<1>9. TypeOK' BY <1>2, <1>4, <1>8 DEF TypeOK
<1> QED BY <1>2, <1>4, <1>8, <1>9 DEF Kept

LEMMA LoadCloseKeeps == SessionInv /\ LoadClose => SessionInv' /\ Kept
<1> SUFFICES ASSUME SessionInv, LoadClose PROVE SessionInv' /\ Kept OBVIOUS
<1> USE DEF SessionInv, TypeInv
<1>1. Loader \in Actor /\ load.i \in Nat /\ load.j \in Server /\ Len(config) \in 1..NServers /\ NServers \in Nat
  BY BoundsAssumption, ConfigsAssumption DEF Actor, TypeOK, Server
<1>2. UNCHANGED <<config, calls, cancelled, issued, live>> /\ load.i <= Len(config)
  BY DEF LoadClose, serverVars, LoadInv
<1>3. CASE load.j < load.i /\ load' = [load EXCEPT !.j = @ + 1] /\ Close(Loader, load.j)
  <2>1. /\ OnePlace' /\ call' \in [Actor -> CallRecord]
        /\ sessionID' \in [Server -> Sid \cup {NoSession}] /\ taken' \in [Server -> SUBSET Sid]
        /\ sessionID[load.j] # NoSession => sessionID'[load.j] = NoSession /\ taken'[load.j] # taken[load.j]
        /\ \A t \in Server : t # load.j => sessionID'[t] = sessionID[t]
    BY <1>1, <1>2, <1>3, CloseIs
  <2>2. load.j + 1 \in 1..NServers BY <1>1, <1>2, <1>3 DEF Server
  <2>3. TypeOK' BY <1>2, <1>3, <2>1, <2>2 DEF TypeOK
  <2>4. LoadInv' BY <1>1, <1>2, <1>3 DEF LoadInv, TypeOK
  <2> QED BY <2>1, <2>3, <2>4 DEF Kept
<1>4. CASE UNCHANGED <<call, sessionID, taken>> /\ load' = [load EXCEPT !.pc = "returned", !.res = "failed"]
  <2>1. TypeOK' BY <1>2, <1>4 DEF TypeOK
  <2>2. LoadInv' BY <1>2, <1>4 DEF LoadInv, TypeOK
  <2>3. OnePlace' BY <1>2, <1>4 DEF OnePlace, Header
  <2> QED BY <1>4, <2>1, <2>2, <2>3 DEF Kept
<1> QED BY <1>3, <1>4 DEF LoadClose

LEMMA CallClientKeeps == ASSUME NEW x \in Actor PROVE SessionInv /\ CallClient(x) => SessionInv' /\ Kept
<1> SUFFICES ASSUME SessionInv, CallClient(x) PROVE SessionInv' /\ Kept OBVIOUS
<1> USE DEF SessionInv, TypeInv
<1>1. UNCHANGED <<config, load, cancelled, issued, live>> /\ calls' = [calls EXCEPT ![x] = @ + 1]
  BY DEF CallClient, serverVars
<1>2. calls' \in [Actor -> Nat] /\ LoadInv' BY <1>1 DEF TypeOK, LoadInv
<1>3. PICK s \in 1..Len(config) :
        \/ \E m \in {"initialize", "list", "tool"} : Begin(x, m, s)
        \/ /\ call' = [call EXCEPT ![x] = Returned([Idle EXCEPT !.srv = s], "error")]
           /\ UNCHANGED <<sessionID, taken>>
        \/ Close(x, s)
  BY DEF CallClient
<1>4. s \in Server BY BoundsAssumption, ConfigsAssumption DEF Server, TypeOK
<1>5. CASE \E m \in {"initialize", "list", "tool"} : Begin(x, m, s)
  <2>1. PICK m \in Method \ {"delete"} : Begin(x, m, s) BY <1>5 DEF Method
  <2>2. OnePlace' /\ call' \in [Actor -> CallRecord] /\ UNCHANGED <<sessionID, taken>>
    BY <1>1, <1>4, <2>1, BeginIs
  <2>3. TypeOK' BY <1>1, <1>2, <2>2 DEF TypeOK
  <2> QED BY <1>2, <2>2, <2>3 DEF Kept
<1>6. CASE /\ call' = [call EXCEPT ![x] = Returned([Idle EXCEPT !.srv = s], "error")]
           /\ UNCHANGED <<sessionID, taken>>
  <2>1. [Idle EXCEPT !.srv = s] \in CallRecord BY <1>4, IdleIs DEF CallRecord
  <2> DEFINE r == Returned([Idle EXCEPT !.srv = s], "error")
  <2>2. r \in CallRecord /\ r.sid = NoSession /\ r.reply.header = NoSession BY <2>1, ReturnedIs
  <2>3. call' = [call EXCEPT ![x] = r] BY <1>6
  <2> HIDE DEF r
  <2>4. Onward(x, r) BY <2>2, <2>3 DEF Onward
  <2>5. OnePlace' /\ call' \in [Actor -> CallRecord] BY <1>1, <1>6, <2>4, OnwardIs
  <2>6. TypeOK' BY <1>1, <1>2, <1>6, <2>5 DEF TypeOK
  <2> QED BY <1>2, <1>6, <2>5, <2>6 DEF Kept
<1>7. CASE Close(x, s)
  <2>1. /\ OnePlace' /\ call' \in [Actor -> CallRecord]
        /\ sessionID' \in [Server -> Sid \cup {NoSession}] /\ taken' \in [Server -> SUBSET Sid]
        /\ sessionID[s] # NoSession => sessionID'[s] = NoSession /\ taken'[s] # taken[s]
        /\ \A t \in Server : t # s => sessionID'[t] = sessionID[t]
    BY <1>1, <1>4, <1>7, CloseIs
  <2>2. TypeOK' BY <1>1, <1>2, <2>1 DEF TypeOK
  <2> QED BY <1>2, <2>1, <2>2 DEF Kept
<1> QED BY <1>3, <1>5, <1>6, <1>7

\* A request that goes on, ends or is answered without naming a session.
LEMMA OnwardKeeps ==
  ASSUME SessionInv, NEW x \in Actor, NEW r, Onward(x, r),
         UNCHANGED <<config, load, calls, cancelled, sessionID, issued, taken>>,
         live' \in [Server -> SUBSET Sid]
  PROVE  SessionInv' /\ Kept
<1> USE DEF SessionInv, TypeInv
<1>1. OnePlace' /\ call' \in [Actor -> CallRecord] BY OnwardIs
<1>2. TypeOK' BY <1>1 DEF TypeOK
<1>3. LoadInv' BY DEF LoadInv
<1> QED BY <1>1, <1>2, <1>3 DEF Kept

LEMMA SendKeeps == ASSUME NEW x \in Actor PROVE SessionInv /\ Send(x) => SessionInv' /\ Kept
<1> SUFFICES ASSUME SessionInv, Send(x) PROVE SessionInv' /\ Kept OBVIOUS
<1> USE DEF SessionInv, TypeInv
<1> DEFINE c == call[x]
           sid == IF c.method = "delete" THEN c.sid ELSE sessionID[c.srv]
           r == [c EXCEPT !.pc = "sent", !.sid = sid]
<1>1. c \in CallRecord /\ call \in [Actor -> CallRecord] BY DEF TypeOK
<1>2. sid \in Sid \cup {NoSession} BY <1>1 DEF TypeOK, CallRecord
<1>3. r \in CallRecord /\ r.method = c.method /\ r.srv = c.srv /\ r.sid = sid /\ r.reply = c.reply
  BY <1>1, <1>2 DEF CallRecord
<1>4. call' = [call EXCEPT ![x] = r] BY <1>1 DEF Send, CallRecord
<1>5. Onward(x, r) BY <1>3, <1>4 DEF Onward, Header
<1>6. UNCHANGED <<config, load, calls, cancelled, sessionID, issued, taken, live>> BY DEF Send, serverVars
<1>7. live' \in [Server -> SUBSET Sid] BY <1>6 DEF TypeOK
<1> QED BY <1>5, <1>6, <1>7, OnwardKeeps

LEMMA TransportErrorKeeps == ASSUME NEW x \in Actor PROVE SessionInv /\ TransportError(x) => SessionInv' /\ Kept
<1> SUFFICES ASSUME SessionInv, TransportError(x) PROVE SessionInv' /\ Kept OBVIOUS
<1> USE DEF SessionInv, TypeInv
<1> DEFINE r == Returned(call[x], "error")
<1>1. call[x] \in CallRecord BY DEF TypeOK
<1>2. r \in CallRecord /\ r.sid = NoSession /\ r.reply.header = NoSession BY <1>1, ReturnedIs
<1>3. call' = [call EXCEPT ![x] = r] BY DEF TransportError
<1> HIDE DEF r
<1>4. Onward(x, r) BY <1>2, <1>3 DEF Onward
<1>5. UNCHANGED <<config, load, calls, cancelled, sessionID, issued, taken, live>> BY DEF TransportError, serverVars
<1>6. live' \in [Server -> SUBSET Sid] BY <1>5 DEF TypeOK
<1> QED BY <1>4, <1>5, <1>6, OnwardKeeps

\* A response without a new session.
LEMMA ReplyIs ==
  ASSUME TypeOK, NEW x \in Actor, NEW reply \in [header : {NoSession}, ok : BOOLEAN, next : Nat], Reply(x, reply)
  PROVE  Onward(x, [call[x] EXCEPT !.pc = "replied", !.reply = reply])
<1> DEFINE r == [call[x] EXCEPT !.pc = "replied", !.reply = reply]
<1>1. call[x] \in CallRecord BY DEF TypeOK
<1>2. r \in CallRecord /\ r.method = call[x].method /\ r.srv = call[x].srv /\ r.sid = call[x].sid
      /\ r.reply.header = NoSession
  BY <1>1 DEF CallRecord
<1>3. call' = [call EXCEPT ![x] = r] BY <1>1 DEF Reply, CallRecord
<1> QED BY <1>2, <1>3 DEF Onward

LEMMA ServeKeeps == ASSUME NEW x \in Actor PROVE SessionInv /\ Serve(x) => SessionInv' /\ Kept
<1> SUFFICES ASSUME SessionInv, Serve(x) PROVE SessionInv' /\ Kept OBVIOUS
<1> USE DEF SessionInv, TypeInv
<1> DEFINE c == call[x]
           next == IF c.method = "list" /\ c.cursor + 1 < config[c.srv].pages THEN c.cursor + 1 ELSE 0
           reply == [NoReply EXCEPT !.ok = TRUE, !.next = next]
<1>1. c \in CallRecord BY DEF TypeOK
<1>2. c.srv \in Server /\ c.cursor \in Nat BY <1>1 DEF CallRecord
<1>3. next \in Nat BY <1>2
<1>4. reply \in [header : {NoSession}, ok : BOOLEAN, next : Nat] BY <1>3 DEF NoReply
<1>5. Reply(x, reply) BY DEF Serve
<1> HIDE DEF reply
<1>6. Onward(x, [call[x] EXCEPT !.pc = "replied", !.reply = reply]) BY <1>4, <1>5, ReplyIs
<1>7. UNCHANGED <<config, load, calls, cancelled, sessionID, issued, taken>> BY DEF Serve
<1>8. live' \in [Server -> SUBSET Sid]
  <2>1. live[c.srv] \ {c.sid} \in SUBSET Sid BY <1>2 DEF TypeOK
  <2> QED BY <2>1 DEF Serve, TypeOK
<1> QED BY <1>6, <1>7, <1>8, OnwardKeeps

LEMMA RefuseKeeps == ASSUME NEW x \in Actor PROVE SessionInv /\ Refuse(x) => SessionInv' /\ Kept
<1> SUFFICES ASSUME SessionInv, Refuse(x) PROVE SessionInv' /\ Kept OBVIOUS
<1> USE DEF SessionInv, TypeInv
<1>1. PICK ok \in BOOLEAN : Reply(x, [NoReply EXCEPT !.ok = ok]) BY DEF Refuse
<1> DEFINE reply == [NoReply EXCEPT !.ok = ok]
<1>2. reply \in [header : {NoSession}, ok : BOOLEAN, next : Nat] BY DEF NoReply
<1>3. Reply(x, reply) BY <1>1
<1> HIDE DEF reply
<1>4. Onward(x, [call[x] EXCEPT !.pc = "replied", !.reply = reply]) BY <1>2, <1>3, ReplyIs
<1>5. UNCHANGED <<config, load, calls, cancelled, sessionID, issued, taken, live>> BY DEF Refuse, serverVars
<1>6. live' \in [Server -> SUBSET Sid] BY <1>5 DEF TypeOK
<1> QED BY <1>4, <1>5, <1>6, OnwardKeeps

\* The session opened is a new one, and this response the only place it is in.
LEMMA ServeInitializeKeeps == ASSUME NEW x \in Actor PROVE SessionInv /\ ServeInitialize(x) => SessionInv' /\ Kept
<1> SUFFICES ASSUME SessionInv, ServeInitialize(x) PROVE SessionInv' /\ Kept OBVIOUS
<1> USE DEF SessionInv, TypeInv
<1> DEFINE c == call[x]
           sid == issued[c.srv] + 1
<1>1. c \in CallRecord /\ c.method = "initialize" /\ sid \in Sid BY DEF ServeInitialize, TypeOK
<1>2. c.srv \in Server /\ issued[c.srv] \in Nat BY <1>1 DEF CallRecord, TypeOK
<1>3. PICK ok \in BOOLEAN : Reply(x, [NoReply EXCEPT !.header = sid, !.ok = ok]) BY DEF ServeInitialize
<1> DEFINE reply == [NoReply EXCEPT !.header = sid, !.ok = ok]
           r == [c EXCEPT !.pc = "replied", !.reply = reply]
<1>4. reply \in [header : Sid \cup {NoSession}, ok : BOOLEAN, next : Nat] /\ reply.header = sid
  BY <1>1 DEF NoReply
<1> HIDE DEF reply
<1>5. r \in CallRecord /\ r.method = "initialize" /\ r.srv = c.srv /\ r.reply.header = sid
  BY <1>1, <1>4 DEF CallRecord
<1>6. call' = [call EXCEPT ![x] = r] BY <1>3 DEF Reply, TypeOK, CallRecord, reply
<1> HIDE DEF r
<1>7. /\ issued' = [issued EXCEPT ![c.srv] = sid] /\ live' = [live EXCEPT ![c.srv] = @ \cup {sid}]
      /\ UNCHANGED <<config, load, calls, cancelled, sessionID, taken>>
  BY DEF ServeInitialize
<1>8. \A y \in Actor : call'[y] = IF y = x THEN r ELSE call[y] BY <1>6 DEF TypeOK
<1>9. \A s \in Server : issued[s] \in Nat /\ issued'[s] = IF s = c.srv THEN issued[s] + 1 ELSE issued[s]
  BY <1>2, <1>7 DEF TypeOK
<1>10. \A s \in Server : taken[s] \subseteq Sid /\ sessionID[s] \in Sid \cup {NoSession} /\ Sid \subseteq Nat
  BY DEF TypeOK, Sid
<1>11. \A y \in Actor : call[y].srv \in Server /\ Header(y) \in Sid \cup {NoSession}
  BY DEF TypeOK, CallRecord, Header
<1>12. sid # NoSession /\ (\A s \in Server : s = c.srv => sid \notin taken[s] /\ sid # sessionID[s])
       /\ \A y \in Actor : call[y].srv = c.srv => Header(y) # sid
  BY <1>2, <1>9, <1>10, <1>11 DEF OnePlace, NoSession
<1> HIDE DEF sid
<1>13. (\A s \in Server :
          /\ \A id \in taken[s] : id <= issued[s]
          /\ sessionID[s] <= issued[s] /\ sessionID[s] \notin taken[s])'
  BY <1>7, <1>9, <1>10 DEF OnePlace, NoSession
<1>14. ASSUME NEW y \in Actor, Header(y)' # NoSession
       PROVE  (/\ Header(y) <= issued[call[y].srv] /\ Header(y) \notin taken[call[y].srv]
               /\ Header(y) # sessionID[call[y].srv]
               /\ \A z \in Actor : z # y /\ call[z].srv = call[y].srv => Header(z) # Header(y))'
  <2>1. CASE y = x
    <3>1. Header(y)' = sid /\ call'[y].srv = c.srv BY <1>5, <1>8, <2>1 DEF Header
    <3>2. issued'[c.srv] = sid /\ sid \in Nat BY <1>1, <1>2, <1>9, <1>10 DEF sid
    <3>3. ASSUME NEW z \in Actor, z # y, call'[z].srv = call'[y].srv PROVE Header(z)' # Header(y)'
      BY <1>8, <1>12, <2>1, <3>1, <3>3 DEF Header
    <3> QED BY <1>2, <1>7, <1>12, <3>1, <3>2, <3>3
  <2>2. CASE y # x
    <3>1. call'[y] = call[y] /\ Header(y)' = Header(y) BY <1>8, <2>2 DEF Header
    <3>2. Header(y) <= issued'[call[y].srv]
      BY <1>9, <1>10, <1>11, <1>14, <3>1 DEF OnePlace, NoSession
    <3>3. ASSUME NEW z \in Actor, z # y, call'[z].srv = call'[y].srv PROVE Header(z)' # Header(y)'
      <4>1. CASE z = x BY <1>5, <1>8, <1>12, <3>1, <3>3, <4>1 DEF Header
      <4>2. CASE z # x
        <5>1. call'[z] = call[z] /\ Header(z)' = Header(z) BY <1>8, <4>2 DEF Header
        <5> QED BY <1>14, <3>1, <3>3, <5>1 DEF OnePlace
      <4> QED BY <4>1, <4>2
    <3> QED BY <1>7, <1>14, <3>1, <3>2, <3>3 DEF OnePlace
  <2> QED BY <2>1, <2>2
<1>15. ASSUME NEW y \in Actor, call'[y].method = "delete", call'[y].sid # NoSession
       PROVE  (/\ call[y].sid \in taken[call[y].srv]
               /\ \A z \in Actor : z # y /\ call[z].method = "delete" /\ call[z].srv = call[y].srv
                                     => call[z].sid # call[y].sid)'
  <2>1. y # x /\ call'[y] = call[y] BY <1>5, <1>8, <1>15
  <2>2. \A z \in Actor : call'[z].method = "delete" => z # x /\ call'[z] = call[z] BY <1>5, <1>8
  <2> QED BY <1>7, <1>15, <2>1, <2>2 DEF OnePlace
<1>16. OnePlace' BY <1>13, <1>14, <1>15 DEF OnePlace
<1>17. TypeOK'
  <2>1. call' \in [Actor -> CallRecord] BY <1>5, <1>6 DEF TypeOK
  <2>2. issued' \in [Server -> 0..MaxSessions]
    <3>1. sid \in 0..MaxSessions BY BoundsAssumption, <1>1 DEF Sid
    <3> QED BY <1>7, <3>1 DEF TypeOK
  <2>3. live' \in [Server -> SUBSET Sid]
    <3>1. live[c.srv] \cup {sid} \in SUBSET Sid BY <1>1, <1>2 DEF TypeOK
    <3> QED BY <1>7, <3>1 DEF TypeOK
  <2> QED BY <1>7, <2>1, <2>2, <2>3 DEF TypeOK
<1>18. LoadInv' BY <1>7 DEF LoadInv
<1> QED BY <1>7, <1>16, <1>17, <1>18 DEF Kept

\* A client that has no session takes the one the response names, which is then in
\* the response no more.
LEMMA ReceiveKeeps == ASSUME NEW x \in Actor PROVE SessionInv /\ Receive(x) => SessionInv' /\ Kept
<1> SUFFICES ASSUME SessionInv, Receive(x) PROVE SessionInv' /\ Kept OBVIOUS
<1> USE DEF SessionInv, TypeInv
<1> DEFINE c == call[x]
           r == AfterReply(c)
<1>1. c \in CallRecord /\ c.srv \in Server /\ Header(x) \in Sid \cup {NoSession}
  BY DEF TypeOK, CallRecord, Header
<1>2. r \in CallRecord /\ r.srv = c.srv /\ r.sid = NoSession /\ r.reply.header = NoSession BY <1>1, AfterReplyIs
<1>3. /\ call' = [call EXCEPT ![x] = r]
      /\ UNCHANGED <<config, load, calls, cancelled, issued, live, taken>>
  BY DEF Receive, serverVars
<1> HIDE DEF r
<1>4. Onward(x, r) BY <1>2, <1>3 DEF Onward
<1>5. live' \in [Server -> SUBSET Sid] BY <1>3 DEF TypeOK
<1>6. CASE sessionID' = sessionID BY <1>3, <1>4, <1>5, <1>6, OnwardKeeps
<1>7. CASE sessionID' # sessionID
  <2>1. sessionID' = [sessionID EXCEPT ![c.srv] = Header(x)] /\ sessionID[c.srv] = NoSession /\ Header(x) # NoSession
    <3>1. sessionID' = [sessionID EXCEPT ![c.srv] =
            IF c.method # "delete" /\ sessionID[c.srv] = NoSession THEN Header(x) ELSE sessionID[c.srv]]
      BY DEF Receive, Header
    <3> QED BY <1>1, <1>7, <3>1 DEF TypeOK
  <2>2. \A y \in Actor : call'[y] = IF y = x THEN r ELSE call[y] BY <1>3 DEF TypeOK
  <2>3. \A s \in Server : sessionID'[s] = IF s = c.srv THEN Header(x) ELSE sessionID[s] BY <2>1 DEF TypeOK
  <2>4. (\A s \in Server :
           /\ \A id \in taken[s] : id <= issued[s]
           /\ sessionID[s] <= issued[s] /\ sessionID[s] \notin taken[s])'
    BY <1>3, <2>1, <2>3 DEF OnePlace
  <2>5. ASSUME NEW y \in Actor, Header(y)' # NoSession
        PROVE  (/\ Header(y) <= issued[call[y].srv] /\ Header(y) \notin taken[call[y].srv]
                /\ Header(y) # sessionID[call[y].srv]
                /\ \A z \in Actor : z # y /\ call[z].srv = call[y].srv => Header(z) # Header(y))'
    <3>1. y # x /\ call'[y] = call[y] /\ Header(y)' = Header(y) /\ call[y].srv \in Server
      BY <1>2, <2>2, <2>5 DEF Header, TypeOK, CallRecord
    <3>2. Header(y) # sessionID'[call[y].srv] BY <2>1, <2>3, <2>5, <3>1 DEF OnePlace
    <3>3. ASSUME NEW z \in Actor, z # y, call'[z].srv = call'[y].srv, Header(z)' = Header(y)' PROVE FALSE
      <4>1. z # x /\ call'[z] = call[z] /\ Header(z)' = Header(z) BY <1>2, <2>2, <2>5, <3>3 DEF Header
      <4> QED BY <2>5, <3>1, <3>3, <4>1 DEF OnePlace
    <3> QED BY <1>3, <2>5, <3>1, <3>2, <3>3 DEF OnePlace
  <2>6. ASSUME NEW y \in Actor, call'[y].method = "delete", call'[y].sid # NoSession
        PROVE  (/\ call[y].sid \in taken[call[y].srv]
                /\ \A z \in Actor : z # y /\ call[z].method = "delete" /\ call[z].srv = call[y].srv
                                      => call[z].sid # call[y].sid)'
    <3>1. y # x /\ call'[y] = call[y] BY <1>2, <2>2, <2>6
    <3>2. ASSUME NEW z \in Actor, z # y, call'[z].method = "delete", call'[z].srv = call'[y].srv,
                 call'[z].sid = call'[y].sid
          PROVE FALSE
      <4>1. z # x /\ call'[z] = call[z] BY <1>2, <2>2, <2>6, <3>2
      <4> QED BY <2>6, <3>1, <3>2, <4>1 DEF OnePlace
    <3> QED BY <1>3, <2>6, <3>1, <3>2 DEF OnePlace
  <2>7. OnePlace' BY <2>4, <2>5, <2>6 DEF OnePlace
  <2>8. sessionID' \in [Server -> Sid \cup {NoSession}] BY <1>1, <2>1 DEF TypeOK
  <2>9. call' \in [Actor -> CallRecord] BY <1>2, <1>3 DEF TypeOK
  <2>10. TypeOK' BY <1>3, <2>8, <2>9 DEF TypeOK
  <2>11. LoadInv' BY <1>3 DEF LoadInv
  <2> QED BY <2>1, <2>3, <2>7, <2>10, <2>11 DEF Kept
<1> QED BY <1>6, <1>7

LEMMA NextKeeps == SessionInv /\ [Next]_vars => SessionInv' /\ (Kept \/ UNCHANGED vars)
<1> SUFFICES ASSUME SessionInv, [Next]_vars PROVE SessionInv' /\ (Kept \/ UNCHANGED vars) OBVIOUS
<1>1. CASE LoadStep BY <1>1, LoadNextKeeps, LoadInitializedKeeps, LoadCloseKeeps DEF LoadStep
<1>2. CASE \E x \in Actor : Step(x) BY <1>2, SendKeeps, ReceiveKeeps, TransportErrorKeeps DEF Step
<1>3. CASE \E x \in Actor : CallClient(x) BY <1>3, CallClientKeeps
<1>4. CASE \E x \in Actor : Cancel(x)
  <2>1. PICK x \in Actor : cancelled' = cancelled \cup {x} BY <1>4 DEF Cancel
  <2>2. UNCHANGED <<config, load, call, calls, sessionID, issued, live, taken>> BY <1>4 DEF Cancel, serverVars
  <2>3. TypeOK' BY <2>1, <2>2 DEF SessionInv, TypeInv, TypeOK
  <2>4. LoadInv' /\ OnePlace' BY <2>2 DEF SessionInv, TypeInv, LoadInv, OnePlace, Header
  <2> QED BY <2>2, <2>3, <2>4 DEF SessionInv, TypeInv, Kept
<1>5. CASE \E x \in Actor : ServeInitialize(x) \/ Serve(x) \/ Refuse(x)
  BY <1>5, ServeInitializeKeeps, ServeKeeps, RefuseKeeps
<1>6. CASE \E s \in Server : Restart(s)
  <2>1. PICK s \in Server : live' = [live EXCEPT ![s] = {}] BY <1>6 DEF Restart
  <2>2. UNCHANGED <<config, load, call, calls, cancelled, sessionID, issued, taken>> BY <1>6 DEF Restart
  <2>3. TypeOK' BY <2>1, <2>2 DEF SessionInv, TypeInv, TypeOK
  <2>4. LoadInv' /\ OnePlace' BY <2>2 DEF SessionInv, TypeInv, LoadInv, OnePlace, Header
  <2> QED BY <2>2, <2>3, <2>4 DEF SessionInv, TypeInv, Kept
<1>7. CASE UNCHANGED vars
  BY <1>7 DEF vars, SessionInv, TypeInv, TypeOK, LoadInv, OnePlace, Header
<1> QED BY <1>1, <1>2, <1>3, <1>4, <1>5, <1>6, <1>7 DEF Next

------------------------------------------------------------------------------
(* LoadConfig. *)

\* LoadConfig has not returned clients: no other goroutine has one.
Loading == load.pc # "returned" \/ load.res = "failed"

\* The sessions the server has for this client are known to it, or were taken.
Tracked(s) == live[s] \subseteq taken[s] \cup {sessionID[s]}

\* Initialize of the server that LoadConfig is at.
Starting(c) ==
  /\ c.srv = load.i /\ c.pc # "idle"
  /\ \/ /\ c.method = "initialize"
        /\ c.pc \in {"send", "sent"} => sessionID[load.i] = NoSession /\ live[load.i] = {}
        /\ c.pc = "replied" => sessionID[load.i] = NoSession /\ live[load.i] \subseteq {c.reply.header}
        /\ c.pc = "done" => c.res # "ok"
     \/ c.method = "notify" /\ Tracked(load.i)

\* What LoadConfig has opened is tracked, behind it everything is closed again, and
\* it has not touched what is before it.
LoadTracks ==
  /\ \A x \in Caller : call[x].pc = "idle"
  /\ \A s \in Server : s < load.i => Tracked(s)
  /\ \A s \in Server : s > load.i \/ (s = load.i /\ load.pc = "next") =>
                         sessionID[s] = NoSession /\ live[s] = {}
  /\ load.pc \in {"next", "initializing"} => load.j = 1
  /\ load.pc = "next" => call[Loader].pc = "idle"
  /\ load.pc = "initializing" => Starting(call[Loader])
  /\ load.pc \in {"closing", "returned"} => call[Loader].pc = "idle" \/ call[Loader].method = "delete"
  /\ \A s \in Server : s < load.j => sessionID[s] = NoSession
  /\ load.pc = "returned" => load.i <= load.j

FailInv == SessionInv /\ (Loading => LoadTracks)

LEMMA FailInit == Init => FailInv
<1> SUFFICES ASSUME Init PROVE FailInv OBVIOUS
<1>1. SessionInv BY InitHolds
<1>2. /\ \A x \in Actor : call[x].pc = "idle"
      /\ \A s \in Server : sessionID[s] = NoSession /\ live[s] = {} /\ s \in Nat /\ s >= 1
      /\ load.pc = "next" /\ load.i = 1 /\ load.j = 1
  BY DEF Init, Idle, Server
<1>3. LoadTracks BY <1>2 DEF LoadTracks, Tracked, Actor
<1> QED BY <1>1, <1>3 DEF FailInv

\* The call of LoadConfig goes from c to r, and sessions only end.
LEMMA LoaderStep ==
  ASSUME SessionInv, Loading, LoadTracks, NEW r, call' = [call EXCEPT ![Loader] = r], UNCHANGED <<load, taken>>,
         \A s \in Server : s # load.i => sessionID'[s] = sessionID[s] /\ live'[s] \subseteq live[s],
         load.pc # "initializing" => sessionID' = sessionID /\ \A s \in Server : live'[s] \subseteq live[s],
         call[Loader].pc # "idle",
         load.pc = "initializing" => Starting(call[Loader])',
         r.method = "delete" \/ call[Loader].method # "delete"
  PROVE  LoadTracks'
<1> USE DEF SessionInv, TypeInv
<1>1. \A x \in Caller : call'[x] = call[x] BY LoaderAssumption DEF TypeOK, Actor
<1>2. call'[Loader] = r BY DEF TypeOK, Actor
<1>3. load.pc # "next" BY DEF LoadTracks
<1>4. load.i \in Nat /\ load.j \in Nat /\ (load.pc = "initializing" => load.j <= load.i) BY DEF TypeOK, LoadInv
<1>5. \A s \in Server : s < load.i => Tracked(s)' BY DEF LoadTracks, Tracked, Server
<1>6. \A s \in Server : s > load.i => (sessionID[s] = NoSession /\ live[s] = {})'
  BY <1>4 DEF LoadTracks, Server
<1>7. \A s \in Server : s < load.j => sessionID'[s] = NoSession
  BY <1>4 DEF LoadTracks, Server
<1>8. load.pc \in {"closing", "returned"} => r.method = "delete" BY DEF LoadTracks
<1> QED BY <1>1, <1>2, <1>3, <1>5, <1>6, <1>7, <1>8 DEF LoadTracks

LEMMA AfterInitialize ==
  ASSUME NEW c \in CallRecord
  PROVE  /\ AfterReply(c).pc # "idle"
         /\ c.method = "delete" => AfterReply(c).method = "delete"
         /\ c.method = "notify" => AfterReply(c).method = "notify"
         /\ c.method = "initialize" =>
              \/ AfterReply(c).method = "initialize" /\ AfterReply(c).pc = "done" /\ AfterReply(c).res # "ok"
              \/ AfterReply(c).method = "notify"
<1>1. c.reply.ok \in BOOLEAN BY DEF CallRecord
<1>2. CASE ~c.reply.ok BY <1>2 DEF AfterReply, Returned, CallRecord
<1>3. CASE c.reply.ok /\ c.method = "initialize" BY <1>3 DEF AfterReply, Again, CallRecord
<1>4. CASE c.reply.ok /\ c.method = "list"
  <2>1. AfterReply(c) = AfterPage(c) BY <1>4 DEF AfterReply
  <2>2. AfterPage(c).pc # "idle"
    BY DEF AfterPage, Returned, Again, CallRecord
  <2> QED BY <1>4, <2>1, <2>2
<1>5. CASE c.reply.ok /\ c.method \notin {"initialize", "list"} BY <1>5 DEF AfterReply, Returned, CallRecord
<1> QED BY <1>1, <1>2, <1>3, <1>4, <1>5

\* A request of LoadConfig.
LEMMA RequestTracks ==
  ASSUME FailInv, Loading, NEW x \in Actor,
         Step(x) \/ ServeInitialize(x) \/ Serve(x) \/ Refuse(x)
  PROVE  LoadTracks'
<1> USE DEF FailInv, SessionInv, TypeInv
<1> DEFINE c == call[x]
<1>1. c.pc \in {"send", "sent", "replied"}
  BY DEF Step, Send, Receive, TransportError, ServeInitialize, Serve, Refuse
<1>2. x = Loader BY <1>1 DEF LoadTracks, Actor
<1>3. c \in CallRecord /\ c.srv \in Server /\ load.i \in Nat BY DEF TypeOK, CallRecord
<1>4. load.pc = "initializing" => Starting(c) BY <1>2 DEF LoadTracks
<1>5. load.pc # "next" /\ (load.pc # "initializing" => c.method = "delete") BY <1>1, <1>2 DEF LoadTracks, TypeOK
<1>6. load.pc = "initializing" => load.i \in Server
  BY BoundsAssumption, ConfigsAssumption DEF LoadInv, TypeOK, Server
<1>7. CASE Send(x)
  <2> DEFINE sid == IF c.method = "delete" THEN c.sid ELSE sessionID[c.srv]
             r == [c EXCEPT !.pc = "sent", !.sid = sid]
  <2>1. call' = [call EXCEPT ![Loader] = r] BY <1>2, <1>3, <1>7 DEF Send, CallRecord, TypeOK
  <2>2. UNCHANGED <<load, sessionID, live, taken>> BY <1>7 DEF Send, serverVars
  <2>3. r.pc = "sent" /\ r.method = c.method /\ r.srv = c.srv BY <1>3 DEF CallRecord
  <2>4. c.pc = "send" BY <1>7 DEF Send
  <2> HIDE DEF r
  <2>call. call'[Loader] = r BY <2>1 DEF TypeOK, Actor
  <2>5. load.pc = "initializing" => Starting(call[Loader])' BY <1>4, <2>2, <2>3, <2>4, <2>call DEF Starting, Tracked
  <2> QED BY <1>1, <1>2, <1>5, <2>1, <2>2, <2>3, <2>5, LoaderStep
<1>8. CASE TransportError(x)
  <2> DEFINE r == Returned(c, "error")
  <2>1. call' = [call EXCEPT ![Loader] = r] BY <1>2, <1>8 DEF TransportError
  <2>2. UNCHANGED <<load, sessionID, live, taken>> BY <1>8 DEF TransportError, serverVars
  <2>3. r.pc = "done" /\ r.method = c.method /\ r.srv = c.srv /\ r.res = "error"
    BY <1>3 DEF CallRecord, Returned
  <2> HIDE DEF r
  <2>call. call'[Loader] = r BY <2>1 DEF TypeOK, Actor
  <2>4. load.pc = "initializing" => Starting(call[Loader])' BY <1>4, <2>2, <2>3, <2>call DEF Starting, Tracked
  <2> QED BY <1>1, <1>2, <1>5, <2>1, <2>2, <2>3, <2>4, LoaderStep
<1>9. CASE Receive(x)
  <2> DEFINE r == AfterReply(c)
  <2>1. call' = [call EXCEPT ![Loader] = r] /\ c.pc = "replied" BY <1>2, <1>9 DEF Receive
  <2>2. UNCHANGED <<load, live, taken>> BY <1>9 DEF Receive, serverVars
  <2>3. sessionID' = [sessionID EXCEPT ![c.srv] =
          IF c.method # "delete" /\ sessionID[c.srv] = NoSession THEN c.reply.header ELSE sessionID[c.srv]]
    BY <1>9 DEF Receive
  <2>4. /\ r.pc # "idle" /\ r.srv = c.srv
        /\ c.method = "delete" => r.method = "delete"
        /\ c.method = "notify" => r.method = "notify"
        /\ c.method = "initialize" =>
             \/ r.method = "initialize" /\ r.pc = "done" /\ r.res # "ok"
             \/ r.method = "notify"
    BY <1>3, AfterInitialize, AfterReplyIs
  <2> HIDE DEF r
  <2>5. /\ \A s \in Server : s # c.srv => sessionID'[s] = sessionID[s]
        /\ c.method = "delete" => sessionID' = sessionID
        /\ c.method # "delete" => sessionID'[c.srv] = IF sessionID[c.srv] = NoSession THEN c.reply.header
                                                     ELSE sessionID[c.srv]
    BY <1>3, <2>3 DEF TypeOK
  <2>call. call'[Loader] = r BY <2>1 DEF TypeOK, Actor
  <2>6. ASSUME load.pc = "initializing" PROVE Starting(call[Loader])'
    <3>1. Starting(c) /\ c.srv = load.i BY <1>4, <2>6 DEF Starting
    <3>2. CASE c.method = "initialize"
      <4>1. sessionID'[load.i] = c.reply.header /\ live'[load.i] \subseteq {c.reply.header}
        BY <2>1, <2>2, <2>5, <3>1, <3>2 DEF Starting
      <4>2. Tracked(load.i)' BY <2>2, <4>1 DEF Tracked
      <4> QED BY <2>2, <2>4, <2>call, <3>1, <3>2, <4>2 DEF Starting
    <3>3. CASE c.method = "notify"
      <4>1. Tracked(load.i) /\ live[load.i] \subseteq Sid BY <1>6, <2>6, <3>1, <3>3 DEF Starting, TypeOK
      <4>2. NoSession \notin Sid BY DEF NoSession, Sid
      <4>3. Tracked(load.i)' BY <2>2, <2>5, <3>1, <3>3, <4>1, <4>2 DEF Tracked
      <4> QED BY <2>2, <2>4, <2>call, <3>1, <3>3, <4>3 DEF Starting
    <3> QED BY <3>1, <3>2, <3>3 DEF Starting
  <2>7. load.pc = "initializing" => c.srv = load.i BY <1>4 DEF Starting
  <2>8. load.pc # "initializing" => sessionID' = sessionID BY <1>5, <2>5
  <2>9. \A s \in Server : s # load.i => sessionID'[s] = sessionID[s] BY <2>5, <2>7, <2>8
  <2>10. r.method = "delete" \/ c.method # "delete" BY <2>4
  <2> QED BY <1>1, <1>2, <2>1, <2>2, <2>6, <2>8, <2>9, <2>10, LoaderStep
<1>10. CASE ServeInitialize(x)
  <2>1. c.method = "initialize" /\ c.pc = "sent" BY <1>10 DEF ServeInitialize
  <2>2. load.pc = "initializing" /\ c.srv = load.i BY <1>4, <1>5, <2>1 DEF Starting
  <2> DEFINE sid == issued[c.srv] + 1
  <2>3. PICK ok \in BOOLEAN : Reply(x, [NoReply EXCEPT !.header = sid, !.ok = ok]) BY <1>10 DEF ServeInitialize
  <2> DEFINE reply == [NoReply EXCEPT !.header = sid, !.ok = ok]
             r == [c EXCEPT !.pc = "replied", !.reply = reply]
  <2>4. reply.header = sid BY DEF NoReply
  <2>5. call' = [call EXCEPT ![Loader] = r] BY <1>2, <1>3, <2>3 DEF Reply, CallRecord, TypeOK
  <2>6. live' = [live EXCEPT ![c.srv] = @ \cup {sid}] /\ UNCHANGED <<load, sessionID, taken>>
    BY <1>10 DEF ServeInitialize
  <2> HIDE DEF reply
  <2>7. r.pc = "replied" /\ r.method = "initialize" /\ r.srv = c.srv /\ r.reply.header = sid
    BY <1>3, <2>1, <2>4 DEF CallRecord
  <2> HIDE DEF r, sid
  <2>8. /\ \A s \in Server : s # load.i => live'[s] = live[s]
        /\ live'[load.i] = live[load.i] \cup {sid}
    BY <1>3, <2>2, <2>6 DEF TypeOK
  <2>9. sessionID[load.i] = NoSession /\ live[load.i] = {} BY <1>4, <2>1, <2>2 DEF Starting
  <2>call. call'[Loader] = r BY <2>5 DEF TypeOK, Actor
  <2>10. Starting(call[Loader])' BY <2>2, <2>6, <2>7, <2>8, <2>9, <2>call DEF Starting
  <2> QED BY <1>1, <1>2, <2>1, <2>2, <2>5, <2>6, <2>8, <2>10, LoaderStep
<1>11. ASSUME NEW reply \in [header : {NoSession}, ok : BOOLEAN, next : Nat], Reply(x, reply), c.pc = "sent",
              UNCHANGED <<load, sessionID, taken>>, \A s \in Server : live'[s] \subseteq live[s]
       PROVE  LoadTracks'
  <2> DEFINE r == [c EXCEPT !.pc = "replied", !.reply = reply]
  <2>1. call' = [call EXCEPT ![Loader] = r] BY <1>2, <1>3, <1>11 DEF Reply, CallRecord, TypeOK
  <2>2. r.pc = "replied" /\ r.method = c.method /\ r.srv = c.srv BY <1>3 DEF CallRecord
  <2> HIDE DEF r
  <2>call. call'[Loader] = r BY <2>1 DEF TypeOK, Actor
  <2>3. ASSUME load.pc = "initializing" PROVE Starting(call[Loader])'
    <3>1. load.i \in Server BY <1>6, <2>3
    <3> QED BY <1>4, <1>11, <2>2, <2>3, <2>call, <3>1 DEF Starting, Tracked
  <2> QED BY <1>1, <1>2, <1>11, <2>1, <2>2, <2>3, LoaderStep
<1>12. CASE Serve(x)
  <2> DEFINE next == IF c.method = "list" /\ c.cursor + 1 < config[c.srv].pages THEN c.cursor + 1 ELSE 0
             reply == [NoReply EXCEPT !.ok = TRUE, !.next = next]
  <2>1. next \in Nat BY <1>3 DEF CallRecord
  <2>2. reply \in [header : {NoSession}, ok : BOOLEAN, next : Nat] BY <2>1 DEF NoReply
  <2>3. Reply(x, reply) /\ c.pc = "sent" /\ UNCHANGED <<load, sessionID, taken>> BY <1>12 DEF Serve
  <2>4. \A s \in Server : live'[s] \subseteq live[s] BY <1>3, <1>12 DEF Serve, TypeOK
  <2> HIDE DEF reply
  <2> QED BY <1>11, <2>2, <2>3, <2>4
<1>13. CASE Refuse(x)
  <2>1. PICK ok \in BOOLEAN : Reply(x, [NoReply EXCEPT !.ok = ok]) BY <1>13 DEF Refuse
  <2> DEFINE reply == [NoReply EXCEPT !.ok = ok]
  <2>2. reply \in [header : {NoSession}, ok : BOOLEAN, next : Nat] BY DEF NoReply
  <2>3. Reply(x, reply) /\ c.pc = "sent" /\ UNCHANGED <<load, sessionID, taken, live>>
    BY <1>13, <2>1 DEF Refuse, serverVars
  <2> HIDE DEF reply
  <2> QED BY <1>11, <2>2, <2>3
<1> QED BY <1>7, <1>8, <1>9, <1>10, <1>12, <1>13 DEF Step

\* The loops of LoadConfig.
LEMMA LoadStepTracks == ASSUME FailInv, Loading, LoadStep, Loading' PROVE LoadTracks'
<1> USE DEF FailInv, SessionInv, TypeInv
<1>1. load.pc # "returned" BY DEF LoadStep, LoadNext, LoadInitialized, LoadClose
<1>2. load.i \in Nat /\ load.j \in Nat /\ (\A s \in Server : s \in Nat /\ s >= 1) /\ live' = live
  BY DEF TypeOK, Server, LoadStep, LoadNext, LoadInitialized, LoadClose, serverVars
<1>3. call \in [Actor -> CallRecord] /\ Loader \in Actor /\ \A x \in Caller : x # Loader /\ x \in Actor
  BY LoaderAssumption DEF TypeOK, Actor
<1>4. CASE LoadNext
  <2>1. load.pc = "next" BY <1>4 DEF LoadNext
  <2>2. load' = [load EXCEPT !.pc = "initializing"] /\ Begin(Loader, "initialize", load.i) /\ load.i <= Len(config)
    <3>1. ASSUME NEW res \in {"ok", "rejected"}, load' = [load EXCEPT !.pc = "returned", !.res = res] PROVE FALSE
      BY <3>1 DEF Loading, TypeOK
    <3>2. load.i > Len(config) \/ load.i <= Len(config)
      BY ConfigsAssumption, <1>2 DEF TypeOK
    <3> QED BY <1>4, <3>1, <3>2 DEF LoadNext
  <2> DEFINE r == [Idle EXCEPT !.pc = "send", !.method = "initialize", !.srv = load.i]
  <2>3. call' = [call EXCEPT ![Loader] = r] /\ UNCHANGED <<sessionID, taken>> BY <2>2 DEF Begin
  <2>4. r.pc = "send" /\ r.method = "initialize" /\ r.srv = load.i BY DEF Idle
  <2> HIDE DEF r
  <2>5. load'.pc = "initializing" /\ load'.i = load.i /\ load'.j = load.j BY <2>2 DEF TypeOK
  <2>6. call'[Loader] = r /\ \A x \in Caller : call'[x] = call[x] BY <1>3, <2>3
  <2>7. load.i \in Server
    BY BoundsAssumption, ConfigsAssumption, <2>2 DEF TypeOK, Server
  <2>8. Starting(call[Loader])' BY <1>2, <2>1, <2>3, <2>4, <2>5, <2>6, <2>7 DEF Starting, LoadTracks
  <2> QED BY <1>2, <2>1, <2>3, <2>5, <2>6, <2>8 DEF LoadTracks, Tracked
<1>5. CASE LoadInitialized
  <2>1. load.pc = "initializing" /\ call[Loader].pc = "done" /\ UNCHANGED <<sessionID, taken>>
        /\ call' = [call EXCEPT ![Loader] = Idle]
    BY <1>5 DEF LoadInitialized
  <2>2. call'[Loader].pc = "idle" /\ \A x \in Caller : call'[x] = call[x] BY <1>3, <2>1 DEF Idle
  <2>3. Starting(call[Loader]) /\ load.j = 1 BY <2>1 DEF LoadTracks
  <2>4. CASE call[Loader].res = "ok" /\ load' = [load EXCEPT !.pc = "next", !.i = @ + 1]
    <3>1. Tracked(load.i) BY <2>1, <2>3, <2>4 DEF Starting
    <3>2. load'.pc = "next" /\ load'.i = load.i + 1 /\ load'.j = 1 BY <2>3, <2>4 DEF TypeOK
    <3>3. \A s \in Server : s < load.i + 1 => s < load.i \/ s = load.i BY <1>2
    <3>4. \A s \in Server : s < load'.i => Tracked(s)' BY <1>2, <2>1, <3>1, <3>2, <3>3 DEF LoadTracks, Tracked
    <3>5. \A s \in Server : s >= load'.i => (sessionID[s] = NoSession /\ live[s] = {})'
      BY <1>2, <2>1, <3>2 DEF LoadTracks
    <3>6. \A s \in Server : ~(s < 1) BY <1>2
    <3> QED BY <1>2, <2>2, <3>2, <3>4, <3>5, <3>6 DEF LoadTracks
  <2>5. CASE load' = [load EXCEPT !.pc = "closing"]
    <3>1. load'.pc = "closing" /\ load'.i = load.i /\ load'.j = 1 BY <2>3, <2>5 DEF TypeOK
    <3>2. \A s \in Server : ~(s < 1) BY <1>2
    <3> QED BY <1>2, <2>1, <2>2, <3>1, <3>2 DEF LoadTracks, Tracked
  <2> QED BY <1>5, <2>4, <2>5 DEF LoadInitialized
<1>6. CASE LoadClose
  <2>1. load.pc = "closing" BY <1>6 DEF LoadClose
  <2>2. CASE load.j < load.i /\ load' = [load EXCEPT !.j = @ + 1] /\ Close(Loader, load.j)
    <3>1. load.j \in Server BY DEF TypeOK, Server
    <3> DEFINE fresh == [Idle EXCEPT !.method = "delete", !.srv = load.j]
               sent == [fresh EXCEPT !.pc = "send", !.sid = sessionID[load.j]]
               r == IF sessionID[load.j] = NoSession THEN Returned(fresh, "ok") ELSE sent
    <3>2. /\ call' = [call EXCEPT ![Loader] = r]
          /\ sessionID' = [sessionID EXCEPT ![load.j] = NoSession]
          /\ taken' = [taken EXCEPT ![load.j] = @ \cup ({sessionID[load.j]} \ {NoSession})]
      BY <2>2 DEF Close
    <3>3. r.method = "delete"
      <4>1. fresh \in CallRecord /\ fresh.method = "delete" BY <3>1, FreshIs DEF Method
      <4> HIDE DEF fresh
      <4>2. Returned(fresh, "ok").method = "delete" BY <4>1, ReturnedIs
      <4>3. sent.method = "delete" BY <4>1 DEF CallRecord
      <4> HIDE DEF sent
      <4> QED BY <4>2, <4>3
    <3> HIDE DEF r
    <3>4. call'[Loader] = r /\ \A x \in Caller : call'[x] = call[x] BY <1>3, <3>2
    <3>5. \A s \in Server :
            /\ sessionID'[s] = IF s = load.j THEN NoSession ELSE sessionID[s]
            /\ taken'[s] = IF s = load.j THEN taken[s] \cup ({sessionID[s]} \ {NoSession}) ELSE taken[s]
      BY <3>2 DEF TypeOK
    <3>6. load'.pc = "closing" /\ load'.i = load.i /\ load'.j = load.j + 1 BY <2>1, <2>2 DEF TypeOK
    <3>7. \A s \in Server : s < load.i => Tracked(s)'
      BY <1>2, <3>5 DEF LoadTracks, Tracked
    <3>8. \A s \in Server : s > load.i => (sessionID[s] = NoSession /\ live[s] = {})'
      BY <1>2, <3>5 DEF LoadTracks
    <3>9. \A s \in Server : s < load.j + 1 => sessionID'[s] = NoSession
      <4>1. \A s \in Server : s < load.j + 1 => s < load.j \/ s = load.j BY <1>2
      <4> QED BY <3>5, <4>1 DEF LoadTracks
    <3> QED BY <3>3, <3>4, <3>6, <3>7, <3>8, <3>9 DEF LoadTracks
  <2>3. CASE /\ ~(load.j < load.i) /\ load' = [load EXCEPT !.pc = "returned", !.res = "failed"]
             /\ UNCHANGED <<call, sessionID, taken>>
    <3>1. load'.pc = "returned" /\ load'.i = load.i /\ load'.j = load.j /\ load.i <= load.j
      BY <1>2, <2>3 DEF TypeOK
    <3> QED BY <1>2, <2>1, <2>3, <3>1 DEF LoadTracks, Tracked
  <2> QED BY <1>6, <2>2, <2>3 DEF LoadClose
<1> QED BY <1>4, <1>5, <1>6 DEF LoadStep

LEMMA FailNext == FailInv /\ [Next]_vars => FailInv'
<1> SUFFICES ASSUME FailInv, [Next]_vars, Loading' PROVE LoadTracks'
  BY NextKeeps DEF FailInv
<1>1. Loading
  <2>1. LoadStep => load.pc # "returned" BY DEF LoadStep, LoadNext, LoadInitialized, LoadClose
  <2>2. LoadStep \/ load' = load
    BY DEF Next, Step, Send, Receive, TransportError, CallClient, Cancel, ServeInitialize, Serve, Refuse, Restart, vars
  <2> QED BY <2>1, <2>2 DEF Loading
<1>2. CASE LoadStep BY <1>1, <1>2, LoadStepTracks
<1>3. CASE \E x \in Actor : Step(x) \/ ServeInitialize(x) \/ Serve(x) \/ Refuse(x) BY <1>1, <1>3, RequestTracks
<1>4. CASE \E x \in Actor : CallClient(x) BY <1>1, <1>4 DEF CallClient, Loading
<1>5. CASE (\E x \in Actor : Cancel(x)) \/ (\E s \in Server : Restart(s)) \/ UNCHANGED vars
  <2>1. UNCHANGED <<load, call, sessionID, taken>> /\ \A s \in Server : live'[s] \subseteq live[s]
    BY <1>5 DEF Cancel, Restart, vars, serverVars, FailInv, SessionInv, TypeInv, TypeOK
  <2>2. load.i \in 1..(NServers + 1) /\ (load.pc = "initializing" => load.i \in Server)
    BY BoundsAssumption, ConfigsAssumption DEF FailInv, SessionInv, TypeInv, TypeOK, LoadInv, Server
  <2>3. load.pc = "initializing" => Starting(call[Loader])'
    BY <1>1, <2>1, <2>2 DEF FailInv, LoadTracks, Starting, Tracked
  <2> QED BY <1>1, <2>1, <2>3 DEF FailInv, LoadTracks, Tracked
<1> QED BY <1>2, <1>3, <1>4, <1>5 DEF Next

------------------------------------------------------------------------------
(* The theorems. *)

\* Client, LoadConfig and the calls of goroutines stay within their types, and
\* LoadConfig's loops within the configuration.
THEOREM TypeCorrect == Spec => []TypeOK
<1>1. SessionInv => TypeOK BY DEF SessionInv, TypeInv
<1> QED BY <1>1, InitHolds, NextKeeps, PTL DEF Spec

\* Client.Close, do and captureSessionID: a session that a Close took is not held by
\* the client again, and no other Close has it.
THEOREM SessionsTakenOnce == Spec => []TakenOnce
<1>1. SessionInv => TakenOnce
  <2> SUFFICES ASSUME SessionInv PROVE TakenOnce OBVIOUS
  <2>1. \A s \in Server : sessionID[s] \notin taken[s] BY DEF SessionInv, OnePlace
  <2>2. ASSUME NEW x \in Actor, NEW y \in Actor, x # y, call[x].method = "delete", call[y].method = "delete",
               call[x].srv = call[y].srv, call[x].sid # NoSession
        PROVE  call[x].sid # call[y].sid
    BY <2>2 DEF SessionInv, OnePlace
  <2> QED BY <2>1, <2>2 DEF TakenOnce
<1> QED BY <1>1, InitHolds, NextKeeps, PTL DEF Spec

\* captureSessionID: a session in use is replaced by no response, and goes only with
\* the Close that takes it.
THEOREM SessionsAreKept == Spec => SessionKept
<1>1. SessionInv /\ [Next]_vars =>
        [\A s \in Server :
           sessionID[s] # NoSession /\ sessionID'[s] # sessionID[s]
           => sessionID'[s] = NoSession /\ taken'[s] # taken[s]]_vars
  BY NextKeeps DEF Kept
<1> QED BY <1>1, InitHolds, NextKeeps, PTL DEF Spec, SessionKept

\* LoadConfig's clean-up: when it fails at a server, each client it had opened has
\* been closed, and no session is open that a Close has not taken.
THEOREM FailuresClose == Spec => []FailedLoadCloses
<1>1. FailInv => FailedLoadCloses
  <2> SUFFICES ASSUME FailInv, load.pc = "returned", load.res = "failed", NEW s \in 1..(load.i - 1)
               PROVE  sessionID[s] = NoSession /\ live[s] \subseteq taken[s]
    BY DEF FailedLoadCloses
  <2>1. load.i \in 1..(NServers + 1) /\ load.j \in Nat /\ NServers \in Nat
    BY BoundsAssumption DEF FailInv, SessionInv, TypeInv, TypeOK
  <2>2. s \in Server /\ s < load.i BY <2>1 DEF Server
  <2>3. LoadTracks BY DEF FailInv, Loading
  <2>4. Tracked(s) /\ sessionID[s] = NoSession BY <2>1, <2>2, <2>3 DEF LoadTracks
  <2>5. live[s] \subseteq Sid /\ NoSession \notin Sid
    BY <2>2 DEF FailInv, SessionInv, TypeInv, TypeOK, Sid, NoSession
  <2> QED BY <2>4, <2>5 DEF Tracked
<1> QED BY <1>1, FailInit, FailNext, PTL DEF Spec

------------------------------------------------------------------------------
(* ListTools, page by page. *)

\* A listing in progress has the pages before its cursor and another page ahead, the
\* cursor of a response is the next page's, and a listing that ended has the catalog
\* or found it too long.
Listing(c, n) ==
  /\ c.pc \in {"send", "sent", "replied"} =>
       c.cursor < n /\ c.cursor < MaxPages /\ c.all = [p \in 1..c.cursor |-> p]
  /\ c.pc = "replied" /\ c.reply.ok => c.reply.next = IF c.cursor + 1 < n THEN c.cursor + 1 ELSE 0
  /\ c.pc = "done" => /\ c.res = "ok" => c.all = [p \in 1..n |-> p]
                      /\ c.res = "tooMany" => n > MaxPages

Listed(c) == c.method = "list" => c.srv \in 1..Len(config) /\ Listing(c, config[c.srv].pages)

ListInv == SessionInv /\ \A x \in Actor : Listed(call[x])

LEMMA ConfigPages ==
  ASSUME TypeOK, NEW s \in 1..Len(config)
  PROVE  s \in Server /\ config[s].pages \in Nat \ {0}
<1>1. config \in Seq(Entry) /\ Len(config) \in 1..NServers /\ NServers \in Nat
  BY ConfigsAssumption, BoundsAssumption DEF TypeOK
<1>2. config[s] \in Entry BY <1>1
<1>3. config[s].pages \in Nat \ {0} BY <1>2, PagesAssumption DEF Entry
<1>4. s \in Server BY <1>1 DEF Server
<1> QED BY <1>3, <1>4

\* A listing that gives up says nothing of the catalog.
LEMMA GivesUp ==
  ASSUME NEW c \in CallRecord, Listed(c)
  PROVE  Listed(Returned(c, "error"))
BY DEF CallRecord, Listed, Listing, Returned

\* A page is appended; then the listing is complete, over the cap, or goes on.
LEMMA PageListed ==
  ASSUME TypeOK, NEW c \in CallRecord, c.method = "list", Listed(c), c.pc = "replied", c.reply.ok
  PROVE  Listed(AfterPage(c))
<1> DEFINE n == config[c.srv].pages
           got == [c EXCEPT !.all = Append(@, c.cursor + 1)]
           on == [got EXCEPT !.cursor = c.reply.next]
<1>1. /\ c.srv \in 1..Len(config) /\ n \in Nat \ {0} /\ c.cursor \in Nat /\ c.cursor < n /\ c.cursor < MaxPages
      /\ c.all = [p \in 1..c.cursor |-> p] /\ MaxPages \in Nat
      /\ c.reply.next = IF c.cursor + 1 < n THEN c.cursor + 1 ELSE 0
  BY ConfigPages, BoundsAssumption DEF CallRecord, Listed, Listing
<1>2. got.all = [p \in 1..(c.cursor + 1) |-> p] /\ Len(got.all) = c.cursor + 1
  <2>1. c.all \in Seq(Nat) /\ Len(c.all) = c.cursor
    BY <1>1 DEF CallRecord
  <2>2. Append(c.all, c.cursor + 1) = [p \in 1..(c.cursor + 1) |-> p]
    BY <1>1, <2>1
  <2>3. got.all = Append(c.all, c.cursor + 1)
    BY DEF CallRecord
  <2> QED BY <1>1, <2>1, <2>2, <2>3
<1>3. got \in CallRecord /\ got.srv = c.srv /\ got.method = "list" /\ got.cursor = c.cursor
      /\ on \in CallRecord /\ on.srv = c.srv /\ on.method = "list" /\ on.cursor = c.reply.next
      /\ on.all = got.all
  <2>1. Append(c.all, c.cursor + 1) \in Seq(Nat) BY <1>1 DEF CallRecord
  <2>2. c.reply.next \in Nat BY DEF CallRecord
  <2> QED BY <2>1, <2>2 DEF CallRecord
<1>4. AfterPage(c) = IF c.reply.next = 0 THEN Returned(got, "ok")
                     ELSE IF Len(got.all) = MaxPages THEN Returned(got, "tooMany") ELSE Again(on)
  BY DEF AfterPage
<1> HIDE DEF got, on, n
<1>5. CASE c.reply.next = 0
  <2>1. c.cursor + 1 = n BY <1>1, <1>5
  <2>2. got.all = [p \in 1..n |-> p] BY <1>2, <2>1
  <2> DEFINE r == Returned(got, "ok")
  <2>3. r.method = "list" /\ r.srv = c.srv /\ r.pc = "done" /\ r.res = "ok" /\ r.all = got.all
    BY <1>3 DEF CallRecord, Returned
  <2>4. AfterPage(c) = r BY <1>4, <1>5
  <2> HIDE DEF r
  <2>5. Listing(r, n) BY <2>2, <2>3 DEF Listing
  <2> QED BY <1>1, <2>3, <2>4, <2>5 DEF Listed, n
<1>6. CASE c.reply.next # 0 /\ Len(got.all) = MaxPages
  <2>1. n > MaxPages BY <1>1, <1>2, <1>6
  <2> DEFINE r == Returned(got, "tooMany")
  <2>2. r.method = "list" /\ r.srv = c.srv /\ r.pc = "done" /\ r.res = "tooMany"
    BY <1>3 DEF CallRecord, Returned
  <2>3. AfterPage(c) = r BY <1>4, <1>6
  <2> HIDE DEF r
  <2>4. Listing(r, n) BY <2>1, <2>2 DEF Listing
  <2> QED BY <1>1, <2>2, <2>3, <2>4 DEF Listed, n
<1>7. CASE c.reply.next # 0 /\ Len(got.all) # MaxPages
  <2>1. c.reply.next = c.cursor + 1 /\ c.cursor + 1 < n /\ c.cursor + 1 < MaxPages
    BY <1>1, <1>2, <1>7
  <2>2. Again(on).method = "list" /\ Again(on).srv = c.srv /\ Again(on).pc = "send"
        /\ Again(on).cursor = c.cursor + 1 /\ Again(on).all = got.all
    BY <1>3, <2>1 DEF CallRecord, Again
  <2>3. AfterPage(c) = Again(on) BY <1>4, <1>7
  <2>4. Again(on).all = [p \in 1..(c.cursor + 1) |-> p] BY <1>2, <2>2
  <2> HIDE <1>4
  <2>5. Listing(Again(on), n)
    <3> DEFINE a == Again(on)
    <3>1. a.pc = "send" /\ a.cursor = c.cursor + 1 /\ a.all = [p \in 1..(c.cursor + 1) |-> p]
      BY <2>2, <2>4
    <3> HIDE DEF a
    <3>2. Listing(a, n) BY <2>1, <3>1 DEF Listing
    <3> QED BY <3>2 DEF a
  <2> QED BY <1>1, <2>2, <2>3, <2>5 DEF Listed, n
<1> QED BY <1>5, <1>6, <1>7

LEMMA ReplyListed ==
  ASSUME TypeOK, NEW c \in CallRecord, Listed(c), c.pc = "replied"
  PROVE  Listed(AfterReply(c))
<1> DEFINE notify == [c EXCEPT !.method = "notify"]
<1>1. CASE ~c.reply.ok
  BY <1>1, GivesUp DEF AfterReply
<1>2. CASE c.reply.ok /\ c.method = "list"
  <2>1. AfterReply(c) = AfterPage(c) BY <1>2 DEF AfterReply
  <2> QED BY <1>2, <2>1, PageListed
<1>3. CASE c.reply.ok /\ c.method # "list"
  <2>1. notify \in CallRecord /\ notify.method = "notify" BY DEF CallRecord, Method
  <2>2. AfterReply(c) \in {Again(notify), Returned(c, "ok")} BY <1>3 DEF AfterReply
  <2>3. Again(notify).method # "list" /\ Returned(c, "ok").method # "list"
    <3> HIDE DEF notify
    <3> QED BY <1>3, <2>1, AgainIs, ReturnedIs
  <2> QED BY <2>2, <2>3 DEF Listed
<1> QED BY <1>1, <1>2, <1>3

\* A call that begins.
LEMMA FreshListed ==
  ASSUME TypeOK, NEW m \in Method, NEW s \in 1..Len(config)
  PROVE  Listed([Idle EXCEPT !.pc = "send", !.method = m, !.srv = s])
<1> DEFINE c == [Idle EXCEPT !.pc = "send", !.method = m, !.srv = s]
<1>1. c.pc = "send" /\ c.cursor = 0 /\ c.all = <<>> /\ c.srv = s BY DEF Idle
<1>2. config[s].pages \in Nat \ {0} /\ MaxPages \in Nat \ {0} BY ConfigPages, BoundsAssumption
<1>3. c.all = [p \in 1..c.cursor |-> p] BY <1>1
<1>4. Listing(c, config[s].pages)
  <2> HIDE DEF c
  <2> QED BY <1>1, <1>2, <1>3 DEF Listing
<1>5. Listed(c)
  <2> HIDE DEF c
  <2> QED BY <1>1, <1>4 DEF Listed
<1> QED BY <1>5

\* Close is no listing.
LEMMA CloseListed ==
  ASSUME NEW x \in Actor, NEW s, Close(x, s), TypeOK
  PROVE  \E d : call' = [call EXCEPT ![x] = d] /\ Listed(d)
<1> DEFINE fresh == [Idle EXCEPT !.method = "delete", !.srv = s]
           d == IF sessionID[s] = NoSession THEN Returned(fresh, "ok")
                ELSE [fresh EXCEPT !.pc = "send", !.sid = sessionID[s]]
<1>1. d.method = "delete" BY DEF Returned, Idle
<1>2. call' = [call EXCEPT ![x] = d] BY DEF Close
<1> HIDE DEF d
<1> QED BY <1>1, <1>2 DEF Listed

\* The response of a server to a listing, or another request, that is in its hands.
LEMMA AnswerListed ==
  ASSUME TypeOK, NEW x \in Actor, Listed(call[x]), call[x].pc = "sent",
         NEW reply \in [header : Sid \cup {NoSession}, ok : BOOLEAN, next : Nat], Reply(x, reply),
         call[x].method = "list" /\ reply.ok =>
           reply.next = IF call[x].cursor + 1 < config[call[x].srv].pages THEN call[x].cursor + 1 ELSE 0
  PROVE  \E d : call' = [call EXCEPT ![x] = d] /\ Listed(d)
<1> DEFINE d == [call[x] EXCEPT !.pc = "replied", !.reply = reply]
<1>1. call[x] \in CallRecord BY DEF TypeOK
<1>2. call' = [call EXCEPT ![x] = d] BY <1>1 DEF Reply, CallRecord
<1>3. /\ d.pc = "replied" /\ d.reply = reply /\ d.method = call[x].method /\ d.srv = call[x].srv
      /\ d.cursor = call[x].cursor /\ d.all = call[x].all
  BY <1>1 DEF CallRecord
<1> HIDE DEF d
<1>4. Listed(d) BY <1>3 DEF Listed, Listing
<1> QED BY <1>2, <1>4

LEMMA ListInit == Init => ListInv
<1> SUFFICES ASSUME Init PROVE ListInv OBVIOUS
<1>1. \A x \in Actor : call[x].method = "tool" BY DEF Init, Idle
<1> QED BY <1>1, InitHolds DEF ListInv, Listed

\* What a step makes of the one call it changes.
LEMMA ListNext == ListInv /\ [Next]_vars => ListInv'
<1> SUFFICES ASSUME ListInv, [Next]_vars PROVE ListInv' OBVIOUS
<1>t. TypeOK /\ call \in [Actor -> CallRecord] /\ \A x \in Actor : call[x] \in CallRecord /\ Listed(call[x])
  BY DEF ListInv, SessionInv, TypeInv, TypeOK
<1>c. config' = config
  BY DEF Next, LoadStep, LoadNext, LoadInitialized, LoadClose, Step, Send, Receive, TransportError, CallClient,
     Cancel, ServeInitialize, Serve, Refuse, Restart, vars
<1>0. ASSUME call' = call \/ \E x \in Actor : \E d : call' = [call EXCEPT ![x] = d] /\ Listed(d)
      PROVE  ListInv'
  <2>1. \A y \in Actor : Listed(call'[y])
    BY <1>0, <1>t
  <2>2. \A y \in Actor : Listed(call[y])'
    BY <1>c, <2>1 DEF Listed, Listing
  <2> QED BY <2>2, NextKeeps DEF ListInv
<1>1. CASE LoadNext \/ LoadInitialized \/ LoadClose
  <2>1. Loader \in Actor BY DEF Actor
  <2>2. CASE call' = call BY <1>0, <2>2
  <2>3. CASE LoadNext /\ call' # call
    <3>1. Begin(Loader, "initialize", load.i) /\ ~(load.i > Len(config)) BY <2>3 DEF LoadNext
    <3>2. load.i \in 1..Len(config)
      <4>1. load.i \in 1..(NServers + 1) BY <1>t DEF TypeOK
      <4>2. config \in Seq(Entry) BY <1>t, ConfigsAssumption DEF TypeOK
      <4> QED BY <3>1, <4>1, <4>2, BoundsAssumption
    <3>3. Listed([Idle EXCEPT !.pc = "send", !.method = "initialize", !.srv = load.i])
      BY <1>t, <3>2, FreshListed DEF Method
    <3> QED BY <1>0, <2>1, <3>1, <3>3 DEF Begin
  <2>4. CASE LoadInitialized
    <3>1. Listed(Idle) BY DEF Listed, Idle
    <3> QED BY <1>0, <2>1, <2>4, <3>1 DEF LoadInitialized
  <2>5. CASE LoadClose /\ call' # call
    <3>1. Close(Loader, load.j) BY <2>5 DEF LoadClose
    <3> QED BY <1>0, <1>t, <2>1, <3>1, CloseListed
  <2> QED BY <1>1, <2>2, <2>3, <2>4, <2>5
<1>2. ASSUME NEW x \in Actor, Send(x) PROVE ListInv'
  <2> DEFINE sid == IF call[x].method = "delete" THEN call[x].sid ELSE sessionID[call[x].srv]
             d == [call[x] EXCEPT !.pc = "sent", !.sid = sid]
  <2>1. call' = [call EXCEPT ![x] = d] BY <1>2, <1>t DEF Send, CallRecord
  <2>2. /\ d.pc = "sent" /\ d.method = call[x].method /\ d.srv = call[x].srv /\ d.cursor = call[x].cursor
        /\ d.all = call[x].all /\ call[x].pc = "send"
    BY <1>2, <1>t DEF Send, CallRecord
  <2> HIDE DEF d
  <2>3. Listed(d) BY <1>t, <2>2 DEF Listed, Listing
  <2> QED BY <1>0, <2>1, <2>3
<1>3. ASSUME NEW x \in Actor, Receive(x) PROVE ListInv'
  <2>1. call' = [call EXCEPT ![x] = AfterReply(call[x])] /\ call[x].pc = "replied" BY <1>3 DEF Receive
  <2>2. Listed(AfterReply(call[x])) BY <1>t, <2>1, ReplyListed
  <2> QED BY <1>0, <2>1, <2>2
<1>4. ASSUME NEW x \in Actor, TransportError(x) PROVE ListInv'
  <2>1. call' = [call EXCEPT ![x] = Returned(call[x], "error")] BY <1>4 DEF TransportError
  <2>2. Listed(Returned(call[x], "error")) BY <1>t, GivesUp
  <2> QED BY <1>0, <2>1, <2>2
<1>5. ASSUME NEW x \in Actor, CallClient(x) PROVE ListInv'
  <2>1. PICK s \in 1..Len(config) :
          \/ \E m \in {"initialize", "list", "tool"} : Begin(x, m, s)
          \/ call' = [call EXCEPT ![x] = Returned([Idle EXCEPT !.srv = s], "error")]
          \/ Close(x, s)
    BY <1>5 DEF CallClient
  <2>2. ASSUME NEW m \in {"initialize", "list", "tool"}, Begin(x, m, s) PROVE ListInv'
    <3>1. Listed([Idle EXCEPT !.pc = "send", !.method = m, !.srv = s])
      BY <1>t, FreshListed DEF Method
    <3> QED BY <1>0, <2>2, <3>1 DEF Begin
  <2>3. CASE call' = [call EXCEPT ![x] = Returned([Idle EXCEPT !.srv = s], "error")]
    <3>1. Listed(Returned([Idle EXCEPT !.srv = s], "error")) BY DEF Listed, Returned, Idle
    <3> QED BY <1>0, <2>3, <3>1
  <2>4. CASE Close(x, s)
    BY <1>0, <1>t, <2>4, CloseListed
  <2> QED BY <2>1, <2>2, <2>3, <2>4
<1>6. ASSUME NEW x \in Actor, ServeInitialize(x) PROVE ListInv'
  <2> DEFINE sid == issued[call[x].srv] + 1
  <2>1. call[x].pc = "sent" /\ call[x].method = "initialize" /\ sid \in Sid BY <1>6 DEF ServeInitialize
  <2>2. PICK ok \in BOOLEAN : Reply(x, [NoReply EXCEPT !.header = sid, !.ok = ok]) BY <1>6 DEF ServeInitialize
  <2>3. [NoReply EXCEPT !.header = sid, !.ok = ok] \in [header : Sid \cup {NoSession}, ok : BOOLEAN, next : Nat]
    BY <2>1 DEF NoReply
  <2> QED BY <1>0, <1>t, <2>1, <2>2, <2>3, AnswerListed
<1>7. ASSUME NEW x \in Actor, Serve(x) PROVE ListInv'
  <2> DEFINE c == call[x]
             next == IF c.method = "list" /\ c.cursor + 1 < config[c.srv].pages THEN c.cursor + 1 ELSE 0
             reply == [NoReply EXCEPT !.ok = TRUE, !.next = next]
  <2>1. Reply(x, reply) /\ c.pc = "sent" BY <1>7 DEF Serve
  <2>2. next \in Nat BY <1>t DEF CallRecord
  <2>3. reply \in [header : Sid \cup {NoSession}, ok : BOOLEAN, next : Nat] /\ reply.next = next
    BY <2>2 DEF NoReply
  <2>4. c.method = "list" => next = IF c.cursor + 1 < config[c.srv].pages THEN c.cursor + 1 ELSE 0
    OBVIOUS
  <2> HIDE DEF reply, next
  <2> QED BY <1>0, <1>t, <2>1, <2>3, <2>4, AnswerListed
<1>8. ASSUME NEW x \in Actor, Refuse(x) PROVE ListInv'
  <2>1. PICK ok \in BOOLEAN : Reply(x, [NoReply EXCEPT !.ok = ok]) /\ (ok => call[x].method = "delete")
    BY <1>8 DEF Refuse
  <2> DEFINE reply == [NoReply EXCEPT !.ok = ok]
  <2>2. reply \in [header : Sid \cup {NoSession}, ok : BOOLEAN, next : Nat] /\ reply.ok = ok
    BY DEF NoReply
  <2>3. Reply(x, reply) /\ call[x].pc = "sent" BY <1>8, <2>1 DEF Refuse
  <2> HIDE DEF reply
  <2> QED BY <1>0, <1>t, <2>1, <2>2, <2>3, AnswerListed
<1>9. CASE (\E x \in Actor : Cancel(x)) \/ (\E s \in Server : Restart(s)) \/ UNCHANGED vars
  BY <1>0, <1>9 DEF Cancel, Restart, vars
<1> QED BY <1>1, <1>2, <1>3, <1>4, <1>5, <1>6, <1>7, <1>8, <1>9 DEF Next, LoadStep, Step

\* ListTools: for every catalog and cap, and whatever other goroutines, Close and the
\* server do between two pages, a listing that succeeds is the catalog in order, and one
\* that gives up met more pages than maxListToolsPages.
THEOREM ListingsAreWhole == Spec => []CatalogIsWhole
<1>1. ListInv => CatalogIsWhole BY DEF ListInv, Listed, Listing, CatalogIsWhole
<1> QED BY <1>1, ListInit, ListNext, PTL DEF Spec
==============================================================================
