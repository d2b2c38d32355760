----------------------------- MODULE TokenSource -----------------------------
(***************************************************************************)
(* llm/xai/oauth.go: the token source of a program whose model calls share *)
(* one OAuth token, renewed under a mutex and rewritten to a file, and the *)
(* device login that first obtains one.                                    *)
(*                                                                         *)
(* The authorization server is external.  It accepts one refresh token at  *)
(* a time and, at each renewal, either replaces it or does not reissue it  *)
(* (oauth.go:220).  The network loses requests and responses, writes fail, *)
(* tokens expire and the program dies at any moment.                       *)
(***************************************************************************)
EXTENDS Naturals, FiniteSets

CONSTANTS
  Caller,    \* goroutines that ask for the token
  NoCaller,
  MaxTokens  \* bound on the tokens the server issues

ASSUME CallerAssumption == NoCaller \notin Caller
ASSUME MaxTokensAssumption == MaxTokens \in Nat \ {0}

VARIABLES
  up,       \* the program runs and has loaded the token
  login,    \* the device login: its place and the token it was given
  mu,       \* who holds refreshingSource.mu
  pc,       \* per goroutine, where it is in Token
  answer,   \* per goroutine, what Token returned
  reply,    \* the response to the holder's request
  tok,      \* refreshingSource.tok
  file,     \* the token file
  issued,   \* access tokens issued so far, numbered from 1
  accepted, \* the refresh token the server accepts
  expired,  \* the access tokens that have expired
  expiredAt,\* history: per goroutine, those expired when it called Token
  harm      \* history: the newest refresh token is "unsaved" or "lost"

vars == <<up, login, mu, pc, answer, reply, tok, file, issued, accepted, expired, expiredAt, harm>>
sourceVars == <<mu, pc, answer, reply, tok>>
serverVars == <<issued, accepted>>
envVars == <<expired, expiredAt>>

None == 0   \* the empty string, as an access or a refresh token
Access == 0..MaxTokens
Token == [access : Access, refresh : Access]
Blank == [access |-> None, refresh |-> None]

\* "none": no response yet; "refused": it has an error or is no JSON; "token": JSON
\* without an error, which is taken for a token whatever it holds.
NoReply == [kind |-> "none", tok |-> Blank]
NoAnswer == [kind |-> "none", access |-> None]

\* os.WriteFile truncates the file before it writes: in between it does not parse.
Whole(t) == [whole |-> TRUE, tok |-> t]
Torn == [whole |-> FALSE, tok |-> Blank]

First == [access |-> 1, refresh |-> 1]

Init ==
  /\ up = FALSE
  /\ login = [pc |-> "off", tok |-> Blank]
  /\ mu = NoCaller
  /\ pc = [c \in Caller |-> "idle"]
  /\ answer = [c \in Caller |-> NoAnswer]
  /\ reply = NoReply
  /\ tok = First
  /\ file = Whole(First)
  /\ issued = 1
  /\ accepted = 1
  /\ expired = {}
  /\ expiredAt = [c \in Caller |-> {}]
  /\ harm = {}

\* Token.Valid: there is one and it has not expired.
Valid(t) == t.access # None /\ t.access \notin expired

\* The goroutine is in the critical section, past the check.
Renewing(c) == pc[c] \in {"sent", "saving", "writing"}

------------------------------------------------------------------------------
(* Token, by its steps under the mutex. *)

Call(c) ==
  /\ up
  /\ pc[c] \in {"idle", "done"}
  /\ pc' = [pc EXCEPT ![c] = "waiting"]
  /\ answer' = [answer EXCEPT ![c] = NoAnswer]
  /\ expiredAt' = [expiredAt EXCEPT ![c] = expired]
  /\ UNCHANGED <<up, login, mu, reply, tok, file, serverVars, expired, harm>>

\* The deferred Unlock and the result.
Return(c, kind, access) ==
  /\ mu' = NoCaller
  /\ pc' = [pc EXCEPT ![c] = "done"]
  /\ answer' = [answer EXCEPT ![c] = [kind |-> kind, access |-> access]]

\* With a bug: no mutex.
AcquireUnlocked(c) ==
  /\ pc[c] = "waiting"
  /\ \/ /\ Valid(tok)
        /\ Return(c, "ok", tok.access)
     \/ /\ ~Valid(tok) /\ tok.refresh = None
        /\ Return(c, "error", None)
     \/ /\ ~Valid(tok) /\ tok.refresh # None
        /\ mu' = c
        /\ pc' = [pc EXCEPT ![c] = "sent"]
        /\ UNCHANGED answer
  /\ UNCHANGED <<up, login, reply, tok, file, serverVars, envVars, harm>>

\* Lock: the token is checked after it.
Acquire(c) ==
  /\ pc[c] = "waiting" /\ mu = NoCaller
  /\ \/ /\ Valid(tok)
        /\ Return(c, "ok", tok.access)
     \/ /\ ~Valid(tok) /\ tok.refresh = None
        /\ Return(c, "error", None)
     \/ /\ ~Valid(tok) /\ tok.refresh # None
        /\ mu' = c
        /\ pc' = [pc EXCEPT ![c] = "sent"]
        /\ UNCHANGED answer
  /\ UNCHANGED <<up, login, reply, tok, file, serverVars, envVars, harm>>

\* With a bug: the refresh token is taken from the response as it is.
ReceiveAsIs(c) ==
  /\ pc[c] = "sent" /\ reply.kind # "none"
  /\ reply' = NoReply
  /\ \/ /\ reply.kind = "refused"
        /\ Return(c, "error", None)
        /\ UNCHANGED tok
     \/ /\ reply.kind = "token"
        /\ tok' = reply.tok
        /\ pc' = [pc EXCEPT ![c] = "saving"]
        /\ UNCHANGED <<mu, answer>>
  /\ UNCHANGED <<up, login, file, serverVars, envVars, harm>>

\* Refresh has its response: tok is replaced, keeping the refresh token if the
\* response has none, before the new token is saved.
Receive(c) ==
  /\ pc[c] = "sent" /\ reply.kind # "none"
  /\ reply' = NoReply
  /\ \/ /\ reply.kind = "refused"
        /\ Return(c, "error", None)
        /\ UNCHANGED tok
     \/ /\ reply.kind = "token"
        /\ tok' = [access |-> reply.tok.access,
                   refresh |-> IF reply.tok.refresh = None THEN tok.refresh ELSE reply.tok.refresh]
        /\ pc' = [pc EXCEPT ![c] = "saving"]
        /\ UNCHANGED <<mu, answer>>
  /\ UNCHANGED <<up, login, file, serverVars, envVars, harm>>

\* With a bug: without a new token the old one is returned.
TransportErrorOldToken(c) ==
  /\ pc[c] = "sent"
  /\ Return(c, "ok", tok.access)
  /\ reply' = NoReply
  /\ harm' = IF reply.tok.refresh # None THEN harm \cup {"lost"} ELSE harm
  /\ UNCHANGED <<up, login, tok, file, serverVars, envVars>>

\* With a bug: the error path does not unlock.
TransportErrorLocked(c) ==
  /\ pc[c] = "sent"
  /\ pc' = [pc EXCEPT ![c] = "done"]
  /\ answer' = [answer EXCEPT ![c] = [kind |-> "error", access |-> None]]
  /\ reply' = NoReply
  /\ harm' = IF reply.tok.refresh # None THEN harm \cup {"lost"} ELSE harm
  /\ UNCHANGED <<up, login, mu, tok, file, serverVars, envVars>>

\* No response: the request or its response was lost.
TransportError(c) ==
  /\ pc[c] = "sent"
  /\ Return(c, "error", None)
  /\ reply' = NoReply
  /\ harm' = IF reply.tok.refresh # None THEN harm \cup {"lost"} ELSE harm
  /\ UNCHANGED <<up, login, tok, file, serverVars, envVars>>

\* SaveToken opens the file, then writes; either may fail.
SaveOpen(c) ==
  /\ pc[c] = "saving"
  /\ pc' = [pc EXCEPT ![c] = "writing"]
  /\ file' = Torn
  /\ UNCHANGED <<up, login, mu, answer, reply, tok, serverVars, envVars, harm>>

SaveWrite(c) ==
  /\ pc[c] = "writing"
  /\ file' = Whole(tok)
  /\ harm' = harm \ {"unsaved"}
  /\ Return(c, "ok", tok.access)
  /\ UNCHANGED <<up, login, reply, tok, serverVars, envVars>>

SaveFails(c) ==
  /\ pc[c] \in {"saving", "writing"}
  /\ harm' = harm \cup {"unsaved"}
  /\ Return(c, "error", None)
  /\ UNCHANGED <<up, login, reply, tok, file, serverVars, envVars>>

------------------------------------------------------------------------------
(* The program. *)

\* LoadTokenSource: a file that does not parse is an error, and the program ends.
Start ==
  /\ ~up /\ login.pc = "off"
  /\ file.whole
  /\ up' = TRUE
  /\ tok' = file.tok
  /\ harm' = IF "unsaved" \in harm THEN {"lost"} ELSE harm
  /\ UNCHANGED <<login, mu, pc, answer, reply, file, serverVars, envVars>>

Crash ==
  /\ up
  /\ up' = FALSE
  /\ mu' = NoCaller
  /\ pc' = [c \in Caller |-> "idle"]
  /\ answer' = [c \in Caller |-> NoAnswer]
  /\ reply' = NoReply
  /\ harm' = harm \cup (IF reply.tok.refresh # None THEN {"lost"} ELSE {})
                  \cup (IF \E c \in Caller : pc[c] \in {"saving", "writing"} THEN {"unsaved"} ELSE {})
  /\ UNCHANGED <<login, tok, file, serverVars, envVars>>

\* Authorize, from the device code to the first poll.
LoginStart ==
  /\ ~up /\ login.pc = "off"
  /\ login' = [pc |-> "polling", tok |-> Blank]
  /\ UNCHANGED <<up, sourceVars, file, serverVars, envVars, harm>>

\* One poll: pending and slow_down ask for another round, an error, a transport
\* error or a cancelled context ends the login, anything else is taken for the
\* token.  Its grant replaces the one of the file once it is saved.
LoginPoll ==
  /\ login.pc = "polling"
  /\ \/ UNCHANGED <<login, serverVars, harm>>
     \/ login' = [pc |-> "off", tok |-> Blank] /\ UNCHANGED <<serverVars, harm>>
     \/ login' = [pc |-> "saving", tok |-> Blank] /\ UNCHANGED <<serverVars, harm>>
     \/ /\ issued < MaxTokens
        /\ issued' = issued + 1
        /\ accepted' = issued + 1
        /\ login' = [pc |-> "saving", tok |-> [access |-> issued + 1, refresh |-> issued + 1]]
        /\ harm' = {"lost"}
  /\ UNCHANGED <<up, sourceVars, file, envVars>>

\* The program saves the token of the login; either step may fail.
LoginSave ==
  /\ \/ /\ login.pc = "saving"
        /\ login' = [pc |-> "writing", tok |-> login.tok]
        /\ file' = Torn
        /\ UNCHANGED harm
     \/ /\ login.pc = "writing"
        /\ login' = [pc |-> "off", tok |-> Blank]
        /\ file' = Whole(login.tok)
        /\ harm' = IF login.tok = Blank THEN {"lost"} ELSE {}
     \/ /\ login.pc \in {"saving", "writing"}
        /\ login' = [pc |-> "off", tok |-> Blank]
        /\ UNCHANGED <<file, harm>>
  /\ UNCHANGED <<up, sourceVars, serverVars, envVars>>

------------------------------------------------------------------------------
(* The server and the clock. *)

\* A renewal of the accepted refresh token, replaced or not reissued; a refusal; or
\* JSON that is neither, whatever its status (postForm ignores it).
Serve(c) ==
  /\ pc[c] = "sent" /\ reply.kind = "none"
  /\ \/ /\ tok.refresh = accepted /\ issued < MaxTokens
        /\ issued' = issued + 1
        /\ \E new \in {None, issued + 1} :
             /\ reply' = [kind |-> "token", tok |-> [access |-> issued + 1, refresh |-> new]]
             /\ accepted' = IF new = None THEN accepted ELSE new
     \/ reply' = [kind |-> "refused", tok |-> Blank] /\ UNCHANGED serverVars
     \/ reply' = [kind |-> "token", tok |-> Blank] /\ UNCHANGED serverVars
  /\ UNCHANGED <<up, login, mu, pc, answer, tok, file, envVars, harm>>

Expire ==
  /\ \E t \in (1..issued) \ expired : expired' = expired \cup {t}
  /\ UNCHANGED <<up, login, sourceVars, file, serverVars, expiredAt, harm>>

------------------------------------------------------------------------------
Step(c) == Receive(c) \/ TransportError(c) \/ SaveOpen(c) \/ SaveWrite(c) \/ SaveFails(c)

Next ==
  \/ \E c \in Caller : Call(c) \/ Acquire(c) \/ Step(c) \/ Serve(c)
  \/ Start \/ Crash \/ LoginStart \/ LoginPoll \/ LoginSave
  \/ Expire

Spec == Init /\ [][Next]_vars

\* A request ends with the time-out of the HTTP client (30 s), and a goroutine that
\* waits for a sync.Mutex is not overtaken for ever.
FairSpec == Spec /\ \A c \in Caller : SF_vars(Acquire(c)) /\ WF_vars(Step(c))

------------------------------------------------------------------------------
(* Properties. *)

\* The types of the token, the file, the responses and the places; the mutex is held
\* exactly while a goroutine renews.
TypeOK ==
  /\ up \in BOOLEAN
  /\ login \in [pc : {"off", "polling", "saving", "writing"}, tok : Token]
  /\ mu \in Caller \cup {NoCaller}
  /\ \A c \in Caller : mu = c <=> Renewing(c)
  /\ pc \in [Caller -> {"idle", "waiting", "sent", "saving", "writing", "done"}]
  /\ answer \in [Caller -> [kind : {"none", "ok", "error"}, access : Access]]
  /\ reply \in [kind : {"none", "refused", "token"}, tok : Token]
  /\ tok \in Token
  /\ file \in [whole : BOOLEAN, tok : Token]
  /\ issued \in 1..MaxTokens /\ accepted \in 1..MaxTokens
  /\ expired \subseteq 1..MaxTokens
  /\ expiredAt \in [Caller -> SUBSET (1..MaxTokens)]
  /\ harm \subseteq {"unsaved", "lost"}

\* However many goroutines find the token expired, one renews it: a renewal is only
\* under way while the token held is not valid, so one that waited for the mutex
\* uses what the other obtained.
RenewsOnlyExpired == \A c \in Caller : pc[c] = "sent" => ~Valid(tok)

\* Token never returns a token that had expired when it was called.
AnswerIsFresh == \A c \in Caller : answer[c].access \notin expiredAt[c]

\* No legal sequence of renewals, refusals, blank responses, failed requests and
\* restarts needs a new login: unless the response that held it or its save was
\* lost, the program holds the refresh token the server accepts, and unless its
\* save failed the file holds what the program holds.
NeverLockedOut ==
  up /\ mu = NoCaller =>
    /\ "lost" \notin harm => tok.refresh = accepted
    /\ harm = {} => file = Whole(tok)

\* Every call of Token returns, or ends with the program.
CallsReturn == \A c \in Caller : pc[c] = "waiting" ~> pc[c] \in {"done", "idle"}

\* What Token returns without an error is a token (postForm takes any JSON for one).
NoBlankAnswer == \A c \in Caller : answer[c].kind = "ok" => answer[c].access # None
==============================================================================
