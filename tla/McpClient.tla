------------------------------ MODULE McpClient ------------------------------
(***************************************************************************)
(* mcp/client.go and mcp/config.go: LoadConfig opens one client per        *)
(* configured server; goroutines then share the clients.  A client keeps   *)
(* one thing between calls, the session id, read before a request and      *)
(* captured after its response in two separate critical sections, so the   *)
(* requests of other goroutines, and Close, fall between the two.          *)
(*                                                                         *)
(* The server is external.  It opens a session on an initialize and names  *)
(* it in that response only (client.go:424), may refuse any request, may   *)
(* lose all its sessions, and keeps a catalog of tools in pages.           *)
(***************************************************************************)
EXTENDS Integers, Sequences, FiniteSets

CONSTANTS
  Caller,      \* goroutines that use the clients LoadConfig returns
  Loader,      \* the goroutine of LoadConfig
  Configs,     \* configurations: sequences of server entries
  NServers,    \* bound on the length of a configuration
  Pages,       \* numbers of pages a catalog of tools may have
  MaxPages,    \* maxListToolsPages
  MaxSessions, \* bound on the sessions a server opens
  MaxCalls     \* bound on the calls of a goroutine, by the number of servers

Server == 1..NServers
Actor == Caller \cup {Loader}
NoSession == 0
Sid == 1..MaxSessions

\* A server of the configuration.  An entry is usable or not, a stateless server
\* never names a session.
Entry == [kind : {"stateful", "stateless", "noEndpoint", "badTimeout"}, pages : Pages]

ASSUME LoaderAssumption == Loader \notin Caller
ASSUME PagesAssumption == Pages \subseteq Nat \ {0}
ASSUME BoundsAssumption ==
  /\ NServers \in Nat /\ MaxSessions \in Nat /\ MaxCalls \in [1..NServers -> Nat]
  /\ MaxPages \in Nat \ {0}
ASSUME ConfigsAssumption == \A cfg \in Configs : cfg \in Seq(Entry) /\ Len(cfg) \in 1..NServers

Method == {"initialize", "notify", "list", "tool", "delete"}

VARIABLES
  config,     \* the configuration file
  load,       \* LoadConfig: its place, its loop variables and its result
  call,       \* per goroutine, the client call it is in
  calls,      \* per goroutine, calls begun
  cancelled,  \* the goroutines whose context is cancelled
  sessionID,  \* per client, Client.sessionID
  issued,     \* per server, sessions opened so far
  live,       \* per server, the sessions it knows
  taken       \* history: per client, the ids a Close took

vars == <<config, load, call, calls, cancelled, sessionID, issued, live, taken>>
serverVars == <<issued, live>>

NoReply == [header |-> NoSession, ok |-> FALSE, next |-> 0]
Idle == [pc |-> "idle", method |-> "tool", srv |-> 1, sid |-> NoSession, cursor |-> 0,
         all |-> <<>>, reply |-> NoReply, res |-> "none"]

Init ==
  /\ config \in Configs
  /\ load = [pc |-> "next", i |-> 1, j |-> 1, res |-> "none"]
  /\ call = [x \in Actor |-> Idle]
  /\ calls = [x \in Actor |-> 0]
  /\ cancelled = {}
  /\ sessionID = [s \in Server |-> NoSession]
  /\ issued = [s \in Server |-> 0]
  /\ live = [s \in Server |-> {}]
  /\ taken = [s \in Server |-> {}]

------------------------------------------------------------------------------
(* What becomes of a call. *)

\* It returns; the pages gathered stay for its caller to see.
Returned(c, res) ==
  [c EXCEPT !.pc = "done", !.sid = NoSession, !.cursor = 0, !.reply = NoReply, !.res = res]

\* It goes on with another request.
Again(c) == [c EXCEPT !.pc = "send", !.sid = NoSession, !.reply = NoReply]

\* With a bug: the cap is looked at before the cursor.
AfterPageCapFirst(c) ==
  LET got == [c EXCEPT !.all = Append(@, c.cursor + 1)] IN
  CASE Len(got.all) = MaxPages -> Returned(got, "tooMany")
    [] c.reply.next = 0 /\ Len(got.all) # MaxPages -> Returned(got, "ok")
    [] OTHER -> Again([got EXCEPT !.cursor = c.reply.next])

\* ListTools after a page: the last one, one too many, or the next cursor.
AfterPage(c) ==
  LET got == [c EXCEPT !.all = Append(@, c.cursor + 1)] IN
  CASE c.reply.next = 0 -> Returned(got, "ok")
    [] c.reply.next # 0 /\ Len(got.all) = MaxPages -> Returned(got, "tooMany")
    [] OTHER -> Again([got EXCEPT !.cursor = c.reply.next])

\* After a response: initialize is followed by its notification, a page by the
\* next one; every other call ends with its response.
AfterReply(c) ==
  CASE ~c.reply.ok -> Returned(c, "error")
    [] c.reply.ok /\ c.method = "initialize" -> Again([c EXCEPT !.method = "notify"])
    [] c.reply.ok /\ c.method = "list" -> AfterPage(c)
    [] OTHER -> Returned(c, "ok")

------------------------------------------------------------------------------
(* The client, one action per critical section or exchange with the server. *)

\* Initialize, ListTools and CallTool begin.
Begin(x, m, s) ==
  /\ call' = [call EXCEPT ![x] = [Idle EXCEPT !.pc = "send", !.method = m, !.srv = s]]
  /\ UNCHANGED <<sessionID, taken>>

\* With a bug: the id is not forgotten.
CloseKeepsID(x, s) ==
  LET fresh == [Idle EXCEPT !.method = "delete", !.srv = s] IN
  /\ call' = [call EXCEPT ![x] = IF sessionID[s] = NoSession THEN Returned(fresh, "ok")
                                 ELSE [fresh EXCEPT !.pc = "send", !.sid = sessionID[s]]]
  /\ UNCHANGED sessionID
  /\ taken' = [taken EXCEPT ![s] = @ \cup ({sessionID[s]} \ {NoSession})]

\* Close takes the id and clears it in one critical section, before the DELETE;
\* without a session there is nothing to do.
Close(x, s) ==
  LET fresh == [Idle EXCEPT !.method = "delete", !.srv = s] IN
  /\ call' = [call EXCEPT ![x] = IF sessionID[s] = NoSession THEN Returned(fresh, "ok")
                                 ELSE [fresh EXCEPT !.pc = "send", !.sid = sessionID[s]]]
  /\ sessionID' = [sessionID EXCEPT ![s] = NoSession]
  /\ taken' = [taken EXCEPT ![s] = @ \cup ({sessionID[s]} \ {NoSession})]

\* A request goes out with the id of this moment; the DELETE with the one taken.
Send(x) ==
  LET c == call[x] IN
  /\ c.pc = "send"
  /\ x \notin cancelled
  /\ call' = [call EXCEPT ![x].pc = "sent",
                          ![x].sid = IF c.method = "delete" THEN @ ELSE sessionID[c.srv]]
  /\ UNCHANGED <<config, load, calls, cancelled, sessionID, serverVars, taken>>

\* With a bug: every response that names a session replaces the client's.
ReceiveNewest(x) ==
  LET c == call[x] IN
  /\ c.pc = "replied"
  /\ sessionID' = [sessionID EXCEPT ![c.srv] =
       IF c.reply.header # NoSession THEN c.reply.header ELSE @]
  /\ call' = [call EXCEPT ![x] = AfterReply(c)]
  /\ UNCHANGED <<config, load, calls, cancelled, serverVars, taken>>

\* The response: the id is captured if the client has none, whatever the status.
Receive(x) ==
  LET c == call[x] IN
  /\ c.pc = "replied"
  /\ sessionID' = [sessionID EXCEPT ![c.srv] =
       IF c.method # "delete" /\ @ = NoSession THEN c.reply.header ELSE @]
  /\ call' = [call EXCEPT ![x] = AfterReply(c)]
  /\ UNCHANGED <<config, load, calls, cancelled, serverVars, taken>>

\* With a bug: an HTTP client without a time-out.
TransportErrorOnCancel(x) ==
  LET c == call[x] IN
  /\ c.pc \in {"send", "sent", "replied"} /\ x \in cancelled
  /\ call' = [call EXCEPT ![x] = Returned(c, "error")]
  /\ UNCHANGED <<config, load, calls, cancelled, sessionID, serverVars, taken>>

\* No response: a time-out, a broken connection, or the context, which may be
\* cancelled before the request is out.
TransportError(x) ==
  LET c == call[x] IN
  /\ \/ c.pc \in {"sent", "replied"}
     \/ c.pc = "send" /\ x \in cancelled
  /\ call' = [call EXCEPT ![x] = Returned(c, "error")]
  /\ UNCHANGED <<config, load, calls, cancelled, sessionID, serverVars, taken>>

\* A goroutine with a client makes a call of its own.  CallTool without a name, or
\* with arguments that are no JSON, returns at once.
CallClient(x) ==
  /\ x \in Caller
  /\ load.pc = "returned" /\ load.res = "ok"
  /\ call[x].pc \in {"idle", "done"} /\ calls[x] < MaxCalls[Len(config)]
  /\ \E s \in 1..Len(config) :
       \/ \E m \in {"initialize", "list", "tool"} : Begin(x, m, s)
       \/ /\ call' = [call EXCEPT ![x] = Returned([Idle EXCEPT !.srv = s], "error")]
          /\ UNCHANGED <<sessionID, taken>>
       \/ Close(x, s)
  /\ calls' = [calls EXCEPT ![x] = @ + 1]
  /\ UNCHANGED <<config, load, cancelled, serverVars>>

Cancel(x) ==
  /\ x \notin cancelled
  /\ call[x].pc \in {"send", "sent", "replied"}
  /\ cancelled' = cancelled \cup {x}
  /\ UNCHANGED <<config, load, call, calls, sessionID, serverVars, taken>>

------------------------------------------------------------------------------
(* LoadConfig. *)

\* The next entry: an unusable one ends LoadConfig on the spot, after the last one
\* it returns the clients.
LoadNext ==
  /\ load.pc = "next"
  /\ IF load.i > Len(config)
       THEN load' = [load EXCEPT !.pc = "returned", !.res = "ok"] /\ UNCHANGED <<call, sessionID, taken>>
     ELSE IF config[load.i].kind \in {"noEndpoint", "badTimeout"}
       THEN load' = [load EXCEPT !.pc = "returned", !.res = "rejected"] /\ UNCHANGED <<call, sessionID, taken>>
     ELSE load' = [load EXCEPT !.pc = "initializing"] /\ Begin(Loader, "initialize", load.i)
  /\ UNCHANGED <<config, calls, cancelled, serverVars>>

\* Initialize has returned: on to the next entry, or close the clients opened.
LoadInitialized ==
  /\ load.pc = "initializing" /\ call[Loader].pc = "done"
  /\ load' = IF call[Loader].res = "ok" THEN [load EXCEPT !.pc = "next", !.i = @ + 1]
             ELSE [load EXCEPT !.pc = "closing"]
  /\ call' = [call EXCEPT ![Loader] = Idle]
  /\ UNCHANGED <<config, calls, cancelled, sessionID, serverVars, taken>>

\* With a bug: the loop ends at the first Close that fails.
LoadCloseUntilError ==
  /\ load.pc = "closing" /\ call[Loader].pc \in {"idle", "done"}
  /\ IF load.j < load.i /\ call[Loader].res # "error"
       THEN load' = [load EXCEPT !.j = @ + 1] /\ Close(Loader, load.j)
       ELSE /\ load' = [load EXCEPT !.pc = "returned", !.res = "failed"]
            /\ UNCHANGED <<call, sessionID, taken>>
  /\ UNCHANGED <<config, calls, cancelled, serverVars>>

\* The loop over the earlier clients, with the same context; the errors of Close
\* are ignored.
LoadClose ==
  /\ load.pc = "closing" /\ call[Loader].pc \in {"idle", "done"}
  /\ IF load.j < load.i
       THEN load' = [load EXCEPT !.j = @ + 1] /\ Close(Loader, load.j)
       ELSE /\ load' = [load EXCEPT !.pc = "returned", !.res = "failed"]
            /\ UNCHANGED <<call, sessionID, taken>>
  /\ UNCHANGED <<config, calls, cancelled, serverVars>>

------------------------------------------------------------------------------
(* The server. *)

Reply(x, reply) == call' = [call EXCEPT ![x].pc = "replied", ![x].reply = reply]

\* It opens a session and names it, with a result or not (a JSON-RPC error, a body
\* that does not parse).
ServeInitialize(x) ==
  LET c == call[x]
      sid == issued[c.srv] + 1
  IN
  /\ c.pc = "sent" /\ c.method = "initialize" /\ config[c.srv].kind = "stateful"
  /\ sid \in Sid
  /\ issued' = [issued EXCEPT ![c.srv] = sid]
  /\ live' = [live EXCEPT ![c.srv] = @ \cup {sid}]
  /\ \E ok \in BOOLEAN : Reply(x, [NoReply EXCEPT !.header = sid, !.ok = ok])
  /\ UNCHANGED <<config, load, calls, cancelled, sessionID, taken>>

\* It answers a request that names a session it knows.
Serve(x) ==
  LET c == call[x] IN
  /\ c.pc = "sent"
  /\ config[c.srv].kind = "stateful" => c.method # "initialize" /\ c.sid \in live[c.srv]
  /\ Reply(x, [NoReply EXCEPT !.ok = TRUE,
                              !.next = IF c.method = "list" /\ c.cursor + 1 < config[c.srv].pages
                                         THEN c.cursor + 1 ELSE 0])
  /\ live' = IF c.method = "delete" THEN [live EXCEPT ![c.srv] = @ \ {c.sid}] ELSE live
  /\ UNCHANGED <<config, load, calls, cancelled, sessionID, issued, taken>>

\* It refuses one: a status, a JSON-RPC error.  That it has no such session to end
\* (404, 405) is no error to Close.
Refuse(x) ==
  LET c == call[x] IN
  /\ c.pc = "sent"
  /\ \E ok \in BOOLEAN :
       /\ ok => c.method = "delete"
       /\ Reply(x, [NoReply EXCEPT !.ok = ok])
  /\ UNCHANGED <<config, load, calls, cancelled, sessionID, serverVars, taken>>

\* It forgets its sessions.
Restart(s) ==
  /\ live[s] # {}
  /\ live' = [live EXCEPT ![s] = {}]
  /\ UNCHANGED <<config, load, call, calls, cancelled, sessionID, issued, taken>>

------------------------------------------------------------------------------
Step(x) == Send(x) \/ Receive(x) \/ TransportError(x)
LoadStep == LoadNext \/ LoadInitialized \/ LoadClose

Next ==
  \/ LoadStep
  \/ \E x \in Actor : Step(x) \/ CallClient(x) \/ Cancel(x)
  \/ \E x \in Actor : ServeInitialize(x) \/ Serve(x) \/ Refuse(x)
  \/ \E s \in Server : Restart(s)

Spec == Init /\ [][Next]_vars

\* A request ends with a response or with the time-out of the HTTP client.
FairSpec == Spec /\ WF_vars(LoadStep) /\ \A x \in Actor : WF_vars(Step(x))

------------------------------------------------------------------------------
(* Properties. *)

CallRecord ==
  [pc : {"idle", "send", "sent", "replied", "done"}, method : Method, srv : Server,
   sid : Sid \cup {NoSession}, cursor : Nat, all : Seq(Nat),
   reply : [header : Sid \cup {NoSession}, ok : BOOLEAN, next : Nat],
   res : {"none", "ok", "error", "tooMany"}]

\* The types of the clients, of LoadConfig's loops and of the calls in progress.
TypeOK ==
  /\ config \in Configs
  /\ load \in [pc : {"next", "initializing", "closing", "returned"}, i : 1..(NServers + 1),
               j : 1..NServers, res : {"none", "ok", "rejected", "failed"}]
  /\ call \in [Actor -> CallRecord]
  /\ calls \in [Actor -> Nat]
  /\ cancelled \subseteq Actor
  /\ sessionID \in [Server -> Sid \cup {NoSession}]
  /\ issued \in [Server -> 0..MaxSessions]
  /\ live \in [Server -> SUBSET Sid]
  /\ taken \in [Server -> SUBSET Sid]

\* Close ends a session once: whatever requests, captures and other Closes fall
\* between its critical section and its DELETE, a session that one Close took is
\* neither held by the client again nor taken by a second Close
\* (client.go:159-163: "so a later Close is a no-op").
TakenOnce ==
  /\ \A s \in Server : sessionID[s] \notin taken[s]
  /\ \A x, y \in Actor :
       /\ x # y
       /\ call[x].method = "delete" /\ call[y].method = "delete"
       /\ call[x].srv = call[y].srv
       /\ call[x].sid # NoSession
       => call[x].sid # call[y].sid

\* A client changes sessions only through Close: another Initialize, concurrent or
\* later, does not replace the session others are using.
SessionKept ==
  [][\A s \in Server :
       sessionID[s] # NoSession /\ sessionID'[s] # sessionID[s]
       => sessionID'[s] = NoSession /\ taken'[s] # taken[s]]_vars

\* A LoadConfig that fails at a server leaves no earlier server with a session it
\* has not tried to end, however many of the Closes before it failed
\* (config.go:83-89).
FailedLoadCloses ==
  load.pc = "returned" /\ load.res = "failed" =>
    \A s \in 1..(load.i - 1) : sessionID[s] = NoSession /\ live[s] \subseteq taken[s]

\* ListTools returns the whole catalog in order, whatever falls between two pages,
\* and gives up only on a catalog longer than the cap.
CatalogIsWhole ==
  \A x \in Actor :
    call[x].pc = "done" /\ call[x].method = "list" =>
      /\ call[x].res = "ok" => call[x].all = [p \in 1..config[call[x].srv].pages |-> p]
      /\ call[x].res = "tooMany" => config[call[x].srv].pages > MaxPages

\* LoadConfig returns, and so does every call, whatever the server does.
CallsReturn ==
  /\ <>(load.pc = "returned")
  /\ \A x \in Caller : call[x].pc = "send" ~> call[x].pc = "done"

\* A configuration with an unusable entry is rejected before any network call
\* (config.go:24-25, 38-43).
RejectedFirst == load.res = "rejected" => \A s \in Server : issued[s] = 0

\* A LoadConfig that fails leaves no session open at an earlier server
\* (docs/en/mcp.md: "so their sessions are not left hanging").
NoSessionLeft ==
  load.pc = "returned" /\ load.res = "failed" => \A s \in 1..(load.i - 1) : live[s] = {}
==============================================================================
