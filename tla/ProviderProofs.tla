---------------------------- MODULE ProviderProofs ----------------------------
(***************************************************************************)
(* Theorems about what a provider is to the program: TokenSource, its      *)
(* token, for any number of goroutines and any bound on the tokens; and    *)
(* Stream, its response, for any response and capacity of the channel.     *)
(***************************************************************************)
EXTENDS TokenSource, Stream, TLAPS, WellFoundedInduction, SequenceTheorems

------------------------------------------------------------------------------
(* TokenSource: the mutex, fresh answers, and that only a lost response or a lost
   save costs the program its login. *)

Types ==
  /\ up \in BOOLEAN
  /\ login \in [pc : {"off", "polling", "saving", "writing"}, tok : Token]
  /\ mu \in Caller \cup {NoCaller}
  /\ pc \in [Caller -> {"idle", "waiting", "sent", "saving", "writing", "done"}]
  /\ answer \in [Caller -> [kind : {"none", "ok", "error"}, access : Access]]
  /\ reply \in [kind : {"none", "refused", "token"}, tok : Token]
  /\ tok \in Token
  /\ file \in [whole : BOOLEAN, tok : Token]
  /\ issued \in 1..MaxTokens /\ accepted \in 1..MaxTokens
  /\ expired \subseteq 1..MaxTokens
  /\ expiredAt \in [Caller -> SUBSET (1..MaxTokens)]
  /\ harm \subseteq {"unsaved", "lost"}

MutexHeld == \A c \in Caller : mu = c <=> Renewing(c)

\* The goroutine in the critical section is at some step of a renewal; a response
\* waits only for it, and only a token has a refresh token.
Renewal ==
  /\ reply.kind # "none" => mu # NoCaller /\ pc[mu] = "sent"
  /\ reply.kind # "token" => reply.tok = Blank
  /\ \A c \in Caller : pc[c] = "sent" => tok.refresh # None
  /\ ~up => mu = NoCaller /\ \A c \in Caller : pc[c] = "idle"
  /\ login.pc # "off" => ~up
  /\ login.pc \in {"saving", "writing"} /\ login.tok # Blank => login.tok.refresh = accepted

\* What a goroutine is about to be given was issued after it had called Token.
Fresh ==
  /\ expired \subseteq 1..issued
  /\ \A c \in Caller :
       /\ expiredAt[c] \subseteq expired
       /\ pc[c] = "sent" => reply.tok.access \notin expiredAt[c]
       /\ pc[c] \in {"saving", "writing"} => tok.access \notin expiredAt[c]

Saving == mu # NoCaller /\ pc[mu] \in {"saving", "writing"}

\* Where the refresh token the server accepts is, unless it was lost, and how far
\* the file follows.
Held ==
  /\ up /\ "lost" \notin harm =>
       accepted = IF reply.tok.refresh # None THEN reply.tok.refresh ELSE tok.refresh
  /\ up /\ harm = {} /\ ~Saving => file = Whole(tok)
  /\ ~up /\ harm = {} /\ file.whole => file.tok.refresh = accepted

IInv == Types /\ MutexHeld /\ RenewsOnlyExpired /\ AnswerIsFresh /\ Renewal /\ Fresh /\ Held

------------------------------------------------------------------------------
USE DEF None, serverVars, sourceVars, envVars

LEMMA InitEstablishes == Init => IInv
<1> USE CallerAssumption, MaxTokensAssumption
<1> SUFFICES ASSUME Init PROVE IInv
  OBVIOUS
<1> USE DEF Init, First, Blank, NoReply, NoAnswer, Whole
<1>1. Types
  <2>1. login \in [pc : {"off", "polling", "saving", "writing"}, tok : Token]
    BY DEF Token, Access
  <2>2. reply \in [kind : {"none", "refused", "token"}, tok : Token]
    BY DEF Token, Access
  <2>3. tok \in Token /\ file \in [whole : BOOLEAN, tok : Token]
    BY DEF Token, Access
  <2>4. answer \in [Caller -> [kind : {"none", "ok", "error"}, access : Access]]
    BY DEF Access
  <2>5. expiredAt \in [Caller -> SUBSET (1..MaxTokens)] /\ pc \in [Caller -> {"idle"}]
    OBVIOUS
  <2>6. issued \in 1..MaxTokens /\ accepted \in 1..MaxTokens
    OBVIOUS
  <2> HIDE DEF First, Blank, NoReply, NoAnswer, Whole
  <2> QED
    BY <2>1, <2>2, <2>3, <2>4, <2>5, <2>6 DEF Types
<1>2. MutexHeld
  BY DEF MutexHeld, Renewing
<1>3. RenewsOnlyExpired /\ AnswerIsFresh /\ Renewal /\ Fresh /\ Held
  BY DEF RenewsOnlyExpired, AnswerIsFresh, Renewal, Fresh, Held
<1> QED
  BY <1>1, <1>2, <1>3 DEF IInv

LEMMA CallPreserves ==
  ASSUME IInv, NEW c \in Caller, Call(c)
  PROVE  IInv'
<1> USE CallerAssumption, MaxTokensAssumption DEF IInv, NoAnswer, Call
<1>1. Types'
  BY DEF Types, Token, Access
<1>7. MutexHeld'
  BY DEF Types, MutexHeld, Renewing
<1>2. RenewsOnlyExpired'
  BY DEF Types, MutexHeld, Renewing, RenewsOnlyExpired, Valid, Renewal
<1>3. AnswerIsFresh'
  BY DEF Types, AnswerIsFresh, Fresh, Valid
<1>4. Renewal'
  BY DEF Types, MutexHeld, Renewing, Token, Access, Renewal
<1>5. Fresh'
  BY DEF Types, MutexHeld, Renewing, Token, Access, Fresh, Valid, Renewal, Blank
<1>6. Held'
  BY DEF Types, MutexHeld, Renewing, Token, Access, Held, Saving, Renewal, Whole, Blank
<1> QED
  BY <1>1, <1>2, <1>3, <1>4, <1>5, <1>6, <1>7

LEMMA AcquirePreserves ==
  ASSUME IInv, NEW c \in Caller, Acquire(c)
  PROVE  IInv'
<1> USE CallerAssumption, MaxTokensAssumption DEF IInv, Return, Valid, Acquire
<1>1. Types'
  <2>1. pc' \in [Caller -> {"idle", "waiting", "sent", "saving", "writing", "done"}]
    BY DEF Types
  <2>2. answer' \in [Caller -> [kind : {"none", "ok", "error"}, access : Access]]
    BY DEF Types, Token, Access
  <2>3. reply' \in [kind : {"none", "refused", "token"}, tok : Token]
    BY DEF Types, Token, Access
  <2>4. tok' \in Token /\ file' \in [whole : BOOLEAN, tok : Token]
    BY DEF Types, Token, Access
  <2>5. login' \in [pc : {"off", "polling", "saving", "writing"}, tok : Token]
    BY DEF Types, Token, Access
  <2>6. harm' \subseteq {"unsaved", "lost"}
    BY DEF Types
  <2>7. mu' \in Caller \cup {NoCaller} /\ up' \in BOOLEAN
    BY DEF Types
  <2> QED
    BY <2>1, <2>2, <2>3, <2>4, <2>5, <2>6, <2>7 DEF Types
<1>7. MutexHeld'
  BY DEF Types, MutexHeld, Renewing
<1>2. RenewsOnlyExpired'
  BY DEF Types, MutexHeld, Renewing, RenewsOnlyExpired, Valid, Renewal
<1>3. AnswerIsFresh'
  BY DEF Types, AnswerIsFresh, Fresh, Valid
<1>4. Renewal'
  <2>1. CASE Valid(tok)
    BY <2>1 DEF Types, MutexHeld, Renewing, Renewal
  <2>2. CASE ~Valid(tok) /\ tok.refresh = None
    BY <2>2 DEF Types, MutexHeld, Renewing, Renewal
  <2>3. CASE ~Valid(tok) /\ tok.refresh # None
    BY <2>3 DEF Types, MutexHeld, Renewing, Renewal
  <2> QED
    BY <2>1, <2>2, <2>3
<1>5. Fresh'
  BY DEF Types, MutexHeld, Renewing, Token, Access, Fresh, Valid, Renewal, Blank
<1>6. Held'
  BY DEF Types, MutexHeld, Renewing, Token, Access, Held, Saving, Renewal, Whole, Blank
<1> QED
  BY <1>1, <1>2, <1>3, <1>4, <1>5, <1>6, <1>7

LEMMA ReceivePreserves ==
  ASSUME IInv, NEW c \in Caller, Receive(c)
  PROVE  IInv'
<1> USE CallerAssumption, MaxTokensAssumption DEF IInv, Return, Valid, NoReply, Blank, Receive
<1>1. Types'
  <2>1. pc' \in [Caller -> {"idle", "waiting", "sent", "saving", "writing", "done"}]
    BY DEF Types
  <2>2. answer' \in [Caller -> [kind : {"none", "ok", "error"}, access : Access]]
    BY DEF Types, Token, Access
  <2>3. reply' \in [kind : {"none", "refused", "token"}, tok : Token]
    BY DEF Types, Token, Access
  <2>4. tok' \in Token /\ file' \in [whole : BOOLEAN, tok : Token]
    BY DEF Types, Token, Access
  <2>5. login' \in [pc : {"off", "polling", "saving", "writing"}, tok : Token]
    BY DEF Types, Token, Access
  <2>6. harm' \subseteq {"unsaved", "lost"}
    BY DEF Types
  <2>7. mu' \in Caller \cup {NoCaller} /\ up' \in BOOLEAN
    BY DEF Types
  <2> QED
    BY <2>1, <2>2, <2>3, <2>4, <2>5, <2>6, <2>7 DEF Types
<1>7. MutexHeld'
  BY DEF Types, MutexHeld, Renewing
<1>2. RenewsOnlyExpired'
  BY DEF Types, MutexHeld, Renewing, RenewsOnlyExpired, Valid, Renewal
<1>3. AnswerIsFresh'
  BY DEF Types, AnswerIsFresh, Fresh, Valid
<1>4. Renewal'
  BY DEF Types, MutexHeld, Renewing, Token, Access, Renewal
<1>5. Fresh'
  BY DEF Types, MutexHeld, Renewing, Token, Access, Fresh, Valid, Renewal, Blank
<1>6. Held'
  BY DEF Types, MutexHeld, Renewing, Token, Access, Held, Saving, Renewal, Whole, Blank
<1> QED
  BY <1>1, <1>2, <1>3, <1>4, <1>5, <1>6, <1>7

LEMMA TransportErrorPreserves ==
  ASSUME IInv, NEW c \in Caller, TransportError(c)
  PROVE  IInv'
<1> USE CallerAssumption, MaxTokensAssumption DEF IInv, Return, NoReply, Blank, TransportError
<1>1. Types'
  BY DEF Types, Token, Access
<1>7. MutexHeld'
  BY DEF Types, MutexHeld, Renewing
<1>2. RenewsOnlyExpired'
  BY DEF Types, MutexHeld, Renewing, RenewsOnlyExpired, Valid, Renewal
<1>3. AnswerIsFresh'
  BY DEF Types, AnswerIsFresh, Fresh, Valid
<1>4. Renewal'
  BY DEF Types, MutexHeld, Renewing, Token, Access, Renewal
<1>5. Fresh'
  BY DEF Types, MutexHeld, Renewing, Token, Access, Fresh, Valid, Renewal, Blank
<1>6. Held'
  BY DEF Types, MutexHeld, Renewing, Token, Access, Held, Saving, Renewal, Whole, Blank
<1> QED
  BY <1>1, <1>2, <1>3, <1>4, <1>5, <1>6, <1>7

LEMMA SaveOpenPreserves ==
  ASSUME IInv, NEW c \in Caller, SaveOpen(c)
  PROVE  IInv'
<1> USE CallerAssumption, MaxTokensAssumption DEF IInv, Torn, Blank, SaveOpen
<1>1. Types'
  BY DEF Types, Token, Access
<1>7. MutexHeld'
  BY DEF Types, MutexHeld, Renewing
<1>2. RenewsOnlyExpired'
  BY DEF Types, MutexHeld, Renewing, RenewsOnlyExpired, Valid, Renewal
<1>3. AnswerIsFresh'
  BY DEF Types, AnswerIsFresh, Fresh, Valid
<1>4. Renewal'
  BY DEF Types, MutexHeld, Renewing, Token, Access, Renewal
<1>5. Fresh'
  BY DEF Types, MutexHeld, Renewing, Token, Access, Fresh, Valid, Renewal, Blank
<1>6. Held'
  BY DEF Types, MutexHeld, Renewing, Token, Access, Held, Saving, Renewal, Whole, Blank
<1> QED
  BY <1>1, <1>2, <1>3, <1>4, <1>5, <1>6, <1>7

LEMMA SaveWritePreserves ==
  ASSUME IInv, NEW c \in Caller, SaveWrite(c)
  PROVE  IInv'
<1> USE CallerAssumption, MaxTokensAssumption DEF IInv, Return, Whole, SaveWrite
<1>1. Types'
  BY DEF Types, Token, Access
<1>7. MutexHeld'
  BY DEF Types, MutexHeld, Renewing
<1>2. RenewsOnlyExpired'
  BY DEF Types, MutexHeld, Renewing, RenewsOnlyExpired, Valid, Renewal
<1>3. AnswerIsFresh'
  BY DEF Types, AnswerIsFresh, Fresh, Valid
<1>4. Renewal'
  BY DEF Types, MutexHeld, Renewing, Token, Access, Renewal
<1>5. Fresh'
  BY DEF Types, MutexHeld, Renewing, Token, Access, Fresh, Valid, Renewal, Blank
<1>6. Held'
  BY DEF Types, MutexHeld, Renewing, Token, Access, Held, Saving, Renewal, Whole, Blank
<1> QED
  BY <1>1, <1>2, <1>3, <1>4, <1>5, <1>6, <1>7

LEMMA SaveFailsPreserves ==
  ASSUME IInv, NEW c \in Caller, SaveFails(c)
  PROVE  IInv'
<1> USE CallerAssumption, MaxTokensAssumption DEF IInv, Return, SaveFails
<1>1. Types'
  BY DEF Types, Token, Access
<1>7. MutexHeld'
  BY DEF Types, MutexHeld, Renewing
<1>2. RenewsOnlyExpired'
  BY DEF Types, MutexHeld, Renewing, RenewsOnlyExpired, Valid, Renewal
<1>3. AnswerIsFresh'
  BY DEF Types, AnswerIsFresh, Fresh, Valid
<1>4. Renewal'
  BY DEF Types, MutexHeld, Renewing, Token, Access, Renewal
<1>5. Fresh'
  BY DEF Types, MutexHeld, Renewing, Token, Access, Fresh, Valid, Renewal, Blank
<1>6. Held'
  BY DEF Types, MutexHeld, Renewing, Token, Access, Held, Saving, Renewal, Whole, Blank
<1> QED
  BY <1>1, <1>2, <1>3, <1>4, <1>5, <1>6, <1>7

LEMMA ServePreserves ==
  ASSUME IInv, NEW c \in Caller, Serve(c)
  PROVE  IInv'
<1> USE CallerAssumption, MaxTokensAssumption DEF IInv, NoReply, Blank, Serve
<1>1. Types'
  BY DEF Types, Token, Access
<1>7. MutexHeld'
  BY DEF Types, MutexHeld, Renewing
<1>2. RenewsOnlyExpired'
  BY DEF Types, MutexHeld, Renewing, RenewsOnlyExpired, Valid, Renewal
<1>3. AnswerIsFresh'
  BY DEF Types, AnswerIsFresh, Fresh, Valid
<1>4. Renewal'
  BY DEF Types, MutexHeld, Renewing, Token, Access, Renewal
<1>5. Fresh'
  BY DEF Types, MutexHeld, Renewing, Token, Access, Fresh, Valid, Renewal, Blank
<1>6. Held'
  BY DEF Types, MutexHeld, Renewing, Token, Access, Held, Saving, Renewal, Whole, Blank
<1> QED
  BY <1>1, <1>2, <1>3, <1>4, <1>5, <1>6, <1>7

LEMMA StartPreserves ==
  ASSUME IInv, Start
  PROVE  IInv'
<1> USE CallerAssumption, MaxTokensAssumption DEF IInv, Start
<1>1. Types'
  BY DEF Types, Token, Access
<1>7. MutexHeld'
  BY DEF Types, MutexHeld, Renewing
<1>2. RenewsOnlyExpired'
  BY DEF Types, MutexHeld, Renewing, RenewsOnlyExpired, Valid, Renewal
<1>3. AnswerIsFresh'
  BY DEF Types, AnswerIsFresh, Fresh, Valid
<1>4. Renewal'
  BY DEF Types, MutexHeld, Renewing, Token, Access, Renewal
<1>5. Fresh'
  BY DEF Types, MutexHeld, Renewing, Token, Access, Fresh, Valid, Renewal, Blank
<1>6. Held'
  BY DEF Types, MutexHeld, Renewing, Token, Access, Held, Saving, Renewal, Whole, Blank
<1> QED
  BY <1>1, <1>2, <1>3, <1>4, <1>5, <1>6, <1>7

LEMMA CrashPreserves ==
  ASSUME IInv, Crash
  PROVE  IInv'
<1> USE CallerAssumption, MaxTokensAssumption DEF IInv, NoReply, NoAnswer, Blank, Crash
<1>1. Types'
  <2>1. pc' \in [Caller -> {"idle", "waiting", "sent", "saving", "writing", "done"}]
    BY DEF Types
  <2>2. answer' \in [Caller -> [kind : {"none", "ok", "error"}, access : Access]]
    BY DEF Types, Token, Access
  <2>3. reply' \in [kind : {"none", "refused", "token"}, tok : Token]
    BY DEF Types, Token, Access
  <2>4. tok' \in Token /\ file' \in [whole : BOOLEAN, tok : Token]
    BY DEF Types, Token, Access
  <2>5. login' \in [pc : {"off", "polling", "saving", "writing"}, tok : Token]
    BY DEF Types, Token, Access
  <2>6. harm' \subseteq {"unsaved", "lost"}
    BY DEF Types
  <2>7. mu' \in Caller \cup {NoCaller} /\ up' \in BOOLEAN
    BY DEF Types
  <2> QED
    BY <2>1, <2>2, <2>3, <2>4, <2>5, <2>6, <2>7 DEF Types
<1>7. MutexHeld'
  BY DEF Types, MutexHeld, Renewing
<1>2. RenewsOnlyExpired'
  BY DEF Types, MutexHeld, Renewing, RenewsOnlyExpired, Valid, Renewal
<1>3. AnswerIsFresh'
  BY DEF Types, AnswerIsFresh, Fresh, Valid
<1>4. Renewal'
  BY DEF Types, MutexHeld, Renewing, Token, Access, Renewal
<1>5. Fresh'
  BY DEF Types, MutexHeld, Renewing, Token, Access, Fresh, Valid, Renewal, Blank
<1>6. Held'
  BY DEF Types, MutexHeld, Renewing, Token, Access, Held, Saving, Renewal, Whole, Blank
<1> QED
  BY <1>1, <1>2, <1>3, <1>4, <1>5, <1>6, <1>7

LEMMA LoginStartPreserves ==
  ASSUME IInv, LoginStart
  PROVE  IInv'
<1> USE CallerAssumption, MaxTokensAssumption DEF IInv, LoginStart
<1>1. Types'
  <2>1. login' \in [pc : {"off", "polling", "saving", "writing"}, tok : Token]
    BY DEF Blank, Token, Access
  <2> QED
    BY <2>1 DEF Types
<1>7. MutexHeld'
  BY DEF Types, MutexHeld, Renewing
<1>2. RenewsOnlyExpired'
  BY DEF Types, MutexHeld, Renewing, RenewsOnlyExpired, Valid, Renewal
<1>3. AnswerIsFresh'
  BY DEF Types, AnswerIsFresh, Fresh, Valid
<1>4. Renewal'
  BY DEF Types, MutexHeld, Renewing, Token, Access, Renewal
<1>5. Fresh'
  BY DEF Types, MutexHeld, Renewing, Token, Access, Fresh, Valid, Renewal, Blank
<1>6. Held'
  BY DEF Types, MutexHeld, Renewing, Token, Access, Held, Saving, Renewal, Whole, Blank
<1> QED
  BY <1>1, <1>2, <1>3, <1>4, <1>5, <1>6, <1>7

LEMMA LoginPollPreserves ==
  ASSUME IInv, LoginPoll
  PROVE  IInv'
<1> USE CallerAssumption, MaxTokensAssumption DEF IInv, Blank, LoginPoll
<1>1. Types'
  <2>1. pc' \in [Caller -> {"idle", "waiting", "sent", "saving", "writing", "done"}]
    BY DEF Types
  <2>2. answer' \in [Caller -> [kind : {"none", "ok", "error"}, access : Access]]
    BY DEF Types, Token, Access
  <2>3. reply' \in [kind : {"none", "refused", "token"}, tok : Token]
    BY DEF Types, Token, Access
  <2>4. tok' \in Token /\ file' \in [whole : BOOLEAN, tok : Token]
    BY DEF Types, Token, Access
  <2>5. login' \in [pc : {"off", "polling", "saving", "writing"}, tok : Token]
    BY DEF Types, Token, Access
  <2>6. harm' \subseteq {"unsaved", "lost"}
    BY DEF Types
  <2>7. mu' \in Caller \cup {NoCaller} /\ up' \in BOOLEAN
    BY DEF Types
  <2> QED
    BY <2>1, <2>2, <2>3, <2>4, <2>5, <2>6, <2>7 DEF Types
<1>7. MutexHeld'
  BY DEF Types, MutexHeld, Renewing
<1>2. RenewsOnlyExpired'
  BY DEF Types, MutexHeld, Renewing, RenewsOnlyExpired, Valid, Renewal
<1>3. AnswerIsFresh'
  BY DEF Types, AnswerIsFresh, Fresh, Valid
<1>4. Renewal'
  BY DEF Types, MutexHeld, Renewing, Token, Access, Renewal
<1>5. Fresh'
  BY DEF Types, MutexHeld, Renewing, Token, Access, Fresh, Valid, Renewal, Blank
<1>6. Held'
  BY DEF Types, MutexHeld, Renewing, Token, Access, Held, Saving, Renewal, Whole, Blank
<1> QED
  BY <1>1, <1>2, <1>3, <1>4, <1>5, <1>6, <1>7

LEMMA LoginSavePreserves ==
  ASSUME IInv, LoginSave
  PROVE  IInv'
<1> USE CallerAssumption, MaxTokensAssumption DEF IInv, Torn, Blank, Whole, LoginSave
<1>1. Types'
  <2>1. pc' \in [Caller -> {"idle", "waiting", "sent", "saving", "writing", "done"}]
    BY DEF Types
  <2>2. answer' \in [Caller -> [kind : {"none", "ok", "error"}, access : Access]]
    BY DEF Types, Token, Access
  <2>3. reply' \in [kind : {"none", "refused", "token"}, tok : Token]
    BY DEF Types, Token, Access
  <2>4. tok' \in Token /\ file' \in [whole : BOOLEAN, tok : Token]
    <3>1. tok' = tok /\ login.tok \in Token /\ Blank \in Token
      BY DEF Types, Token, Access
    <3>2. file' \in {Torn, Whole(login.tok), file}
      OBVIOUS
    <3> QED
      <4>1. Torn \in [whole : BOOLEAN, tok : Token] /\ Whole(login.tok) \in [whole : BOOLEAN, tok : Token]
        BY <3>1
      <4> HIDE DEF Torn, Whole, LoginSave
      <4> QED
        BY <3>1, <3>2, <4>1 DEF Types
  <2>5. login' \in [pc : {"off", "polling", "saving", "writing"}, tok : Token]
    <3>1. login.tok \in Token /\ Blank \in Token
      BY DEF Types, Token, Access
    <3>2. login' \in {[pc |-> "writing", tok |-> login.tok], [pc |-> "off", tok |-> Blank]}
      OBVIOUS
    <3> QED
      BY <3>1, <3>2
  <2>6. harm' \subseteq {"unsaved", "lost"}
    BY DEF Types
  <2>7. mu' \in Caller \cup {NoCaller} /\ up' \in BOOLEAN
    BY DEF Types
  <2> QED
    BY <2>1, <2>2, <2>3, <2>4, <2>5, <2>6, <2>7 DEF Types
<1>7. MutexHeld'
  BY DEF Types, MutexHeld, Renewing
<1>2. RenewsOnlyExpired'
  BY DEF Types, MutexHeld, Renewing, RenewsOnlyExpired, Valid, Renewal
<1>3. AnswerIsFresh'
  BY DEF Types, AnswerIsFresh, Fresh, Valid
<1>4. Renewal'
  BY DEF Types, MutexHeld, Renewing, Token, Access, Renewal
<1>5. Fresh'
  BY DEF Types, MutexHeld, Renewing, Token, Access, Fresh, Valid, Renewal, Blank
<1>6. Held'
  <2>0. ~up /\ ~up'
    BY DEF Renewal
  <2>1. CASE file' = Torn
    BY <2>0, <2>1 DEF Held
  <2>2. CASE /\ login.pc = "writing"
             /\ file' = Whole(login.tok)
             /\ harm' = IF login.tok = Blank THEN {"lost"} ELSE {}
    <3>1. harm' = {} => login.tok # Blank
      BY <2>2
    <3>2. login.tok # Blank => login.tok.refresh = accepted
      BY <2>2 DEF Renewal
    <3>3. file'.tok = login.tok /\ accepted' = accepted
      BY <2>2
    <3> QED
      BY <2>0, <3>1, <3>2, <3>3 DEF Held
  <2>3. CASE UNCHANGED <<file, harm>>
    BY <2>0, <2>3 DEF Held
  <2> QED
    BY <2>1, <2>2, <2>3
<1> QED
  BY <1>1, <1>2, <1>3, <1>4, <1>5, <1>6, <1>7

LEMMA ExpirePreserves ==
  ASSUME IInv, Expire
  PROVE  IInv'
<1> USE CallerAssumption, MaxTokensAssumption DEF IInv, Expire
<1>1. Types'
  BY DEF Types, Token, Access
<1>7. MutexHeld'
  BY DEF Types, MutexHeld, Renewing
<1>2. RenewsOnlyExpired'
  BY DEF Types, MutexHeld, Renewing, RenewsOnlyExpired, Valid, Renewal
<1>3. AnswerIsFresh'
  BY DEF Types, AnswerIsFresh, Fresh, Valid
<1>4. Renewal'
  BY DEF Types, MutexHeld, Renewing, Token, Access, Renewal
<1>5. Fresh'
  BY DEF Types, MutexHeld, Renewing, Token, Access, Fresh, Valid, Renewal, Blank
<1>6. Held'
  BY DEF Types, MutexHeld, Renewing, Token, Access, Held, Saving, Renewal, Whole, Blank
<1> QED
  BY <1>1, <1>2, <1>3, <1>4, <1>5, <1>6, <1>7

------------------------------------------------------------------------------
(* The theorems. *)

LEMMA Invariance == Spec => []IInv
<1>1. IInv /\ [Next]_vars => IInv'
  <2> SUFFICES ASSUME IInv, [Next]_vars PROVE IInv'
    OBVIOUS
  <2>1. ASSUME NEW c \in Caller, Call(c) \/ Acquire(c) \/ Step(c) \/ Serve(c)
        PROVE  IInv'
    BY <2>1, CallPreserves, AcquirePreserves, ReceivePreserves, TransportErrorPreserves,
       SaveOpenPreserves, SaveWritePreserves, SaveFailsPreserves, ServePreserves DEF Step
  <2>2. ASSUME Start \/ Crash \/ LoginStart \/ LoginPoll \/ LoginSave \/ Expire
        PROVE  IInv'
    BY <2>2, StartPreserves, CrashPreserves, LoginStartPreserves, LoginPollPreserves,
       LoginSavePreserves, ExpirePreserves
  <2>3. CASE UNCHANGED vars
    BY <2>3 DEF vars, IInv, Types, MutexHeld, Renewing, RenewsOnlyExpired, AnswerIsFresh,
       Renewal, Fresh, Held, Saving, Valid
  <2> QED
    BY <2>1, <2>2, <2>3 DEF Next
<1> QED
  BY <1>1, InitEstablishes, PTL DEF Spec

\* The types hold, and the mutex of refreshingSource is held exactly while a
\* goroutine renews (oauth.go:284).
THEOREM TypeCorrect == Spec => []TypeOK
<1>1. IInv => TypeOK
  BY DEF IInv, Types, MutexHeld, TypeOK
<1> QED
  BY <1>1, Invariance, PTL

\* A renewal is only under way while the token held is not valid: goroutines that
\* find it expired together renew it once (oauth.go:284-292).
THEOREM RenewedOnce == Spec => []RenewsOnlyExpired
<1>1. IInv => RenewsOnlyExpired
  BY DEF IInv
<1> QED
  BY <1>1, Invariance, PTL

\* Token never returns a token that had expired when it was called, however long
\* the caller waited for the mutex (oauth.go:283-302).
THEOREM FreshAnswers == Spec => []AnswerIsFresh
<1>1. IInv => AnswerIsFresh
  BY DEF IInv
<1> QED
  BY <1>1, Invariance, PTL

\* Only a lost response or a lost save costs the program its login: in any other
\* history it holds the refresh token the server accepts (oauth.go:219-237) and the
\* file holds what it holds (oauth.go:296).
THEOREM LoginKept == Spec => []NeverLockedOut
<1>1. IInv => NeverLockedOut
  <2> SUFFICES ASSUME IInv, up, mu = NoCaller PROVE
                /\ "lost" \notin harm => tok.refresh = accepted
                /\ harm = {} => file = Whole(tok)
    BY DEF NeverLockedOut
  <2>1. reply.kind = "none" /\ reply.tok = Blank
    BY DEF IInv, Renewal
  <2>2. reply.tok.refresh = None
    BY <2>1 DEF Blank
  <2> QED
    BY <2>2 DEF IInv, Held, Saving
<1> QED
  BY <1>1, Invariance, PTL

------------------------------------------------------------------------------
(* Stream: the sink, the caller and the response agree. *)

\* What runStream sends: one delta per line, or a terminal chunk without text.
Sent == {Done, Err} \cup {Delta(i) : i \in 1..MaxLines}

Clean(n) == \A i \in 1..n : wire[i] \in {"delta", "skip"}
Deltas(n) == {i \in 1..n : wire[i] \in {"delta", "last"}}

StreamTyped ==
  /\ StreamTypeOK
  /\ out \in Sent /\ chan \in Seq(Sent)
  /\ model = "plain" <=> reader = "off"
  /\ Len(wire) <= MaxLines
  /\ model = "plain" =>
       /\ chan = <<>> /\ end = "eof"
       /\ \A i \in 1..Len(wire) : wire[i] = "delta"
       /\ text = IF result = "ok" THEN [i \in 1..Len(wire) |-> i] ELSE <<>>

\* The text, then the channel, then the chunk being sent hold deltas of lines read, in
\* their order; nothing follows a terminal chunk.
InOrder ==
  /\ \A p \in DOMAIN text : text[p] \in Deltas(row)
  /\ \A k \in DOMAIN chan : \A i : chan[k] = Delta(i) => i \in Deltas(row)
  /\ \A p, q \in DOMAIN text : p < q => text[p] < text[q]
  /\ \A p \in DOMAIN text, k \in DOMAIN chan : \A i : chan[k] = Delta(i) => text[p] < i
  /\ \A k, l \in DOMAIN chan : \A i, j : k < l /\ chan[k] = Delta(i) /\ chan[l] = Delta(j) => i < j
  /\ \A k \in DOMAIN chan : Terminal(chan[k]) => k = Len(chan) /\ reader = "closed"
  /\ reader = "send" /\ ~Terminal(out) =>
       /\ row > 0 /\ out = Delta(row) /\ wire[row] \in {"delta", "last"} /\ Clean(row - 1)
       /\ \A p \in DOMAIN text : text[p] < row
       /\ \A k \in DOMAIN chan : \A i : chan[k] = Delta(i) => i < row

InText(i) == \E p \in DOMAIN text : text[p] = i
InChan(chunk) == \E k \in DOMAIN chan : chan[k] = chunk
Has(i) == InText(i) \/ InChan(Delta(i)) \/ (reader = "send" /\ out = Delta(i))

\* The response is at its stop, or at a clean end.
Finished ==
  \/ row > 0 /\ wire[row] \in {"stop", "last"} /\ Clean(row - 1)
  \/ row = Len(wire) /\ end = "eof" /\ Clean(row)

Stopped == result = "ok" \/ (reader = "send" /\ out = Done) \/ InChan(Done)

\* No delta is missing while runStream reads or once it has sent Done, and it sends Done
\* only for a response that is finished.
Complete ==
  /\ reader = "request" => row = 0
  /\ reader = "read" => Clean(row)
  /\ reader \in {"request", "read", "send"} \/ Stopped => \A i \in Deltas(row) : Has(i)
  /\ Stopped => Finished
  /\ result = "ok" => reader = "closed" /\ chan = <<>>

StreamInv == StreamTyped /\ SinkAgrees /\ (model # "plain" => InOrder /\ Complete)

(* What the sink was given, put together. *)

\* A set of numbers that holds 0 and every successor up to N holds them all.
LEMMA UpTo ==
  ASSUME NEW N \in Nat, NEW S, 0 \in S, \A k \in 0..N : k \in S /\ k # N => k + 1 \in S
  PROVE  \A k \in 0..N : k \in S
<1> DEFINE T == {k \in 0..N : k \notin S}
<1> SUFFICES ASSUME T # {} PROVE FALSE OBVIOUS
<1>1. T \in SUBSET Nat OBVIOUS
<1> HIDE DEF T
<1>2. PICK x \in T : \A y \in T : ~(<<y, x>> \in OpToRel(<, Nat))
  BY <1>1, WFMin, NatLessThanWellFounded
<1> USE DEF T
<1>3. x \in Nat /\ x \notin S /\ x # 0 /\ x - 1 \in 0..N /\ x - 1 \in Nat /\ (x - 1) + 1 = x OBVIOUS
<1> DEFINE ss == <<x - 1, x>>
<1>4. ss \in Nat \X Nat /\ ss[1] < ss[2] BY <1>3
<1>5. ss \in OpToRel(<, Nat) BY <1>4 DEF OpToRel
<1>6. x - 1 \notin T BY <1>2, <1>5
<1>7. x - 1 \in S BY <1>3, <1>6
<1> QED BY <1>3, <1>7

\* g puts the first n sequences of s together, one by one.
Flattens(s, n, g) == g = [i \in 1..n |-> IF i = 1 THEN s[i] ELSE g[i - 1] \o s[i]]
Flat(s) == CHOOSE g : Flattens(s, Len(s), g)

LEMMA FlattensExist == ASSUME NEW s, NEW n \in Nat PROVE \E g : Flattens(s, n, g)
<1> DEFINE S == {k \in 0..n : \E g : Flattens(s, k, g)}
<1>1. 0 \in S
  <2>1. Flattens(s, 0, [i \in 1..0 |-> <<>>]) BY DEF Flattens
  <2> QED BY <2>1
<1>2. ASSUME NEW k \in 0..n, k \in S, k # n PROVE k + 1 \in S
  <2>1. PICK g : Flattens(s, k, g) BY <1>2
  <2> DEFINE next == IF k = 0 THEN s[k + 1] ELSE g[k] \o s[k + 1]
             h == [i \in 1..(k + 1) |-> IF i = k + 1 THEN next ELSE g[i]]
  <2>2. \A i \in 1..k : g[i] = IF i = 1 THEN s[i] ELSE g[i - 1] \o s[i] BY <2>1 DEF Flattens
  <2>3. \A i \in 1..k : h[i] = g[i] OBVIOUS
  <2>4. h[k + 1] = next OBVIOUS
  <2>5. DOMAIN h = 1..(k + 1) /\ h = [i \in 1..(k + 1) |-> h[i]] OBVIOUS
  <2> HIDE DEF h
  <2>6. \A i \in 1..(k + 1) : h[i] = IF i = 1 THEN s[i] ELSE h[i - 1] \o s[i]
    <3> SUFFICES ASSUME NEW i \in 1..(k + 1) PROVE h[i] = IF i = 1 THEN s[i] ELSE h[i - 1] \o s[i] OBVIOUS
    <3>1. CASE i = k + 1
      <4>1. CASE k = 0 BY <2>4, <3>1, <4>1
      <4>2. CASE k # 0
        <5>1. h[k] = g[k] /\ i - 1 = k /\ i # 1 BY <2>3, <3>1, <4>2
        <5> QED BY <2>4, <3>1, <4>2, <5>1
      <4> QED BY <4>1, <4>2
    <3>2. CASE i # k + 1
      <4>1. i \in 1..k BY <3>2
      <4>2. i # 1 => i - 1 \in 1..k BY <4>1
      <4>3. h[i] = g[i] /\ (i # 1 => h[i - 1] = g[i - 1]) BY <2>3, <4>1, <4>2
      <4> QED BY <2>2, <4>1, <4>3
    <3> QED BY <3>1, <3>2
  <2>7. h = [i \in 1..(k + 1) |-> IF i = 1 THEN s[i] ELSE h[i - 1] \o s[i]] BY <2>5, <2>6
  <2>8. Flattens(s, k + 1, h) BY <2>7 DEF Flattens
  <2>9. k + 1 \in 0..n BY <1>2
  <2> QED BY <2>8, <2>9
<1> HIDE DEF S
<1>3. \A k \in 0..n : k \in S BY <1>1, <1>2, UpTo
<1>4. n \in S BY <1>3
<1> QED BY <1>4 DEF S

LEMMA FlatIs ==
  ASSUME NEW s, Len(s) \in Nat
  PROVE  /\ \A i \in 1..Len(s) : Flat(s)[i] = IF i = 1 THEN s[i] ELSE Flat(s)[i - 1] \o s[i]
         /\ Len(s) # 0 => FlattenSeq(s) = Flat(s)[Len(s)]
<1>1. Flattens(s, Len(s), Flat(s)) BY FlattensExist DEF Flat
<1>2. Len(s) # 0 => FlattenSeq(s) = Flat(s)[Len(s)] BY DEF FlattenSeq, Flat, Flattens
<1> DEFINE g == Flat(s)
<1> HIDE DEF g
<1>3. \A i \in 1..Len(s) : g[i] = IF i = 1 THEN s[i] ELSE g[i - 1] \o s[i] BY <1>1 DEF Flattens, g
<1> QED BY <1>2, <1>3 DEF g

\* One more sequence is put at the end.
LEMMA FlattenAppend ==
  ASSUME NEW E, NEW s \in Seq(Seq(E)), NEW x \in Seq(E)
  PROVE  FlattenSeq(Append(s, x)) = IF s = <<>> THEN x ELSE FlattenSeq(s) \o x
<1> DEFINE n == Len(s)
           t == Append(s, x)
           S == {k \in 0..n : k = 0 \/ Flat(s)[k] = Flat(t)[k]}
<1>1. n \in Nat /\ Len(t) = n + 1 /\ t[n + 1] = x /\ \A i \in 1..n : t[i] = s[i] OBVIOUS
<1> HIDE DEF t
<1>2. \A i \in 1..n : Flat(s)[i] = IF i = 1 THEN s[i] ELSE Flat(s)[i - 1] \o s[i] BY <1>1, FlatIs
<1>3. /\ \A i \in 1..(n + 1) : Flat(t)[i] = IF i = 1 THEN t[i] ELSE Flat(t)[i - 1] \o t[i]
      /\ FlattenSeq(t) = Flat(t)[n + 1]
  <2>1. Len(t) \in Nat /\ Len(t) # 0 BY <1>1
  <2> QED BY <1>1, <2>1, FlatIs
<1> HIDE DEF n
<1>4. 0 \in S BY <1>1
<1>5. ASSUME NEW k \in 0..n, k \in S, k # n PROVE k + 1 \in S
  <2>1. k + 1 \in 1..n /\ k + 1 \in 1..(n + 1) /\ (k + 1) - 1 = k /\ k + 1 \in 0..n BY <1>1, <1>5
  <2>2. t[k + 1] = s[k + 1] BY <1>1, <2>1
  <2>3. CASE k = 0
    <3>1. Flat(s)[k + 1] = s[k + 1] /\ Flat(t)[k + 1] = t[k + 1] BY <1>2, <1>3, <2>1, <2>3
    <3> QED BY <2>1, <2>2, <3>1
  <2>4. CASE k # 0
    <3>1. Flat(s)[k] = Flat(t)[k] BY <1>5, <2>4
    <3>2. k + 1 # 1 BY <1>5, <2>4
    <3>3. Flat(s)[k + 1] = Flat(s)[k] \o s[k + 1] /\ Flat(t)[k + 1] = Flat(t)[k] \o t[k + 1]
      BY <1>2, <1>3, <2>1, <3>2
    <3> QED BY <2>1, <2>2, <3>1, <3>3
  <2> QED BY <2>3, <2>4
<1> HIDE DEF S
<1>6. \A k \in 0..n : k \in S BY <1>1, <1>4, <1>5, UpTo
<1>7. n \in S BY <1>1, <1>6
<1>8. CASE n = 0
  <2>1. s = <<>> BY <1>8 DEF n
  <2>2. Flat(t)[n + 1] = t[n + 1] BY <1>3, <1>8
  <2> QED BY <1>1, <1>3, <2>1, <2>2 DEF t
<1>9. CASE n # 0
  <2>1. s # <<>> BY <1>9 DEF n
  <2>2. FlattenSeq(s) = Flat(s)[n] BY <1>1, <1>9, FlatIs DEF n
  <2>3. Flat(s)[n] = Flat(t)[n] BY <1>7, <1>9 DEF S
  <2>4. n + 1 \in 1..(n + 1) /\ n + 1 # 1 /\ (n + 1) - 1 = n BY <1>1, <1>9
  <2>5. Flat(t)[n + 1] = Flat(t)[n] \o t[n + 1] BY <1>3, <2>4
  <2> QED BY <1>1, <1>3, <2>1, <2>2, <2>3, <2>5 DEF t
<1> QED BY <1>8, <1>9

(* The chunks. *)

LEMMA ChunkFacts ==
  /\ \A i : Delta(i).delta = <<i>> /\ Delta(i).done = FALSE /\ Delta(i).err = FALSE
  /\ Done.delta = <<>> /\ Done.done = TRUE /\ Done.err = FALSE
  /\ Err.delta = <<>> /\ Err.done = FALSE /\ Err.err = TRUE
  /\ \A i : ~Terminal(Delta(i)) /\ Delta(i) # Done /\ Delta(i) # Err
  /\ Terminal(Done) /\ Terminal(Err) /\ Done # Err
  /\ \A i, j : Delta(i) = Delta(j) => i = j
<1>1. \A i : Delta(i).delta = <<i>> /\ Delta(i).done = FALSE /\ Delta(i).err = FALSE BY DEF Delta
<1>2. Done.delta = <<>> /\ Done.done = TRUE /\ Done.err = FALSE BY DEF Done
<1>3. Err.delta = <<>> /\ Err.done = FALSE /\ Err.err = TRUE BY DEF Err
<1>4. \A i, j : <<i>> = <<j>> => i = j OBVIOUS
<1>5. \A i, j : Delta(i) = Delta(j) => i = j BY <1>1, <1>4
<1> QED BY <1>1, <1>2, <1>3, <1>5 DEF Terminal

LEMMA SentChunks == Sent \subseteq Chunk
BY DEF Sent, Chunk

\* A chunk that is sent: a delta, or one of the two ends.
LEMMA SentIs ==
  ASSUME NEW chunk \in Sent
  PROVE  \/ \E i \in 1..MaxLines : chunk = Delta(i)
         \/ chunk = Done
         \/ chunk = Err
BY DEF Sent

\* The text in a chunk is a sequence of positions.
LEMMA ChunkText ==
  ASSUME NEW chunk \in Chunk
  PROVE  chunk.delta \in Seq(1..MaxLines) /\ chunk.done \in BOOLEAN /\ chunk.err \in BOOLEAN
<1>1. CASE chunk = Done \/ chunk = Err
  <2>1. <<>> \in Seq(1..MaxLines) OBVIOUS
  <2> QED BY <1>1, <2>1, ChunkFacts
<1>2. CASE \E i \in 1..MaxLines : chunk = Delta(i)
  <2>1. PICK i \in 1..MaxLines : chunk = Delta(i) BY <1>2
  <2>2. <<i>> \in Seq(1..MaxLines) OBVIOUS
  <2> QED BY <2>1, <2>2, ChunkFacts
<1>3. CASE \E n \in 0..MaxLines : chunk = [Done EXCEPT !.delta = [i \in 1..n |-> i]]
  <2>1. PICK n \in 0..MaxLines : chunk = [Done EXCEPT !.delta = [i \in 1..n |-> i]] BY <1>3
  <2>2. [i \in 1..n |-> i] \in Seq(1..MaxLines) BY BoundsAssumption
  <2>3. chunk.delta = [i \in 1..n |-> i] /\ chunk.done = TRUE /\ chunk.err = FALSE BY <2>1 DEF Done
  <2> QED BY <2>2, <2>3
<1> QED BY <1>1, <1>2, <1>3 DEF Chunk

\* The texts of the sink with one more chunk.
Texts(chunks) == [i \in 1..Len(chunks) |-> chunks[i].delta]

LEMMA TextsAppend ==
  ASSUME NEW chunks \in Seq(Chunk), NEW chunk \in Chunk
  PROVE  FlattenSeq(Texts(Append(chunks, chunk))) =
           IF chunks = <<>> THEN chunk.delta ELSE FlattenSeq(Texts(chunks)) \o chunk.delta
<1> DEFINE E == 1..MaxLines
           s == Texts(chunks)
           n == Len(chunks)
<1>1. \A k \in 1..n : chunks[k].delta \in Seq(E) BY ChunkText
<1>2. chunk.delta \in Seq(E) BY ChunkText
<1>3. n \in Nat /\ s = [i \in 1..n |-> chunks[i].delta] BY DEF Texts
<1>4. /\ Len(Append(chunks, chunk)) = n + 1 /\ Append(chunks, chunk)[n + 1] = chunk
      /\ \A i \in 1..n : Append(chunks, chunk)[i] = chunks[i]
  OBVIOUS
<1>0. chunks = <<>> <=> n = 0 BY EmptySeq
<1> HIDE DEF E, s, n
<1>5. s \in Seq(Seq(E)) /\ Len(s) = n /\ \A i \in 1..n : s[i] = chunks[i].delta BY <1>1, <1>3
<1>6. Texts(Append(chunks, chunk)) = Append(s, chunk.delta)
  <2> DEFINE a == Texts(Append(chunks, chunk))
             b == Append(s, chunk.delta)
             c == Append(chunks, chunk)
  <2>1. a = [i \in 1..(n + 1) |-> c[i].delta] BY <1>4 DEF Texts
  <2>2. \A i \in 1..(n + 1) : c[i].delta = IF i = n + 1 THEN chunk.delta ELSE s[i]
    BY <1>3, <1>4, <1>5
  <2>3. b = [i \in 1..(n + 1) |-> IF i = n + 1 THEN chunk.delta ELSE s[i]]
    <3>1. b \in Seq(Seq(E)) /\ Len(b) = n + 1 /\ b[n + 1] = chunk.delta /\ \A i \in 1..n : b[i] = s[i]
      BY <1>2, <1>5
    <3>2. DOMAIN b = 1..(n + 1) BY <1>3, <3>1
    <3>3. \A i \in 1..(n + 1) : b[i] = IF i = n + 1 THEN chunk.delta ELSE s[i] BY <1>3, <3>1
    <3>4. b = [i \in DOMAIN b |-> b[i]] BY <3>1
    <3> HIDE DEF b
    <3> QED BY <3>2, <3>3, <3>4
  <2> HIDE DEF a, b, c
  <2>4. a = b BY <2>1, <2>2, <2>3
  <2> QED BY <2>4 DEF a, b
<1>7. s = <<>> <=> chunks = <<>>
  <2>1. s = <<>> <=> n = 0 BY <1>3, <1>5
  <2> QED BY <1>0, <2>1
<1> QED BY <1>2, <1>5, <1>6, <1>7, FlattenAppend DEF s

LEMMA NoTexts == FlattenSeq(Texts(<<>>)) = <<>>
<1>1. Texts(<<>>) = <<>> BY DEF Texts
<1>2. FlattenSeq(<<>>) = <<>> BY DEF FlattenSeq
<1> QED BY <1>1, <1>2

\* A chunk that goes to the sink of a call that runs.
LEMMA SinkStep ==
  ASSUME StreamTypeOK, SinkAgrees, result = "none", NEW chunk \in Chunk,
         sink' = Append(sink, chunk), text' = text \o chunk.delta,
         result' \in {"none", "ok", "error"},
         Terminal(chunk) <=> result' # "none", chunk.done <=> result' = "ok"
  PROVE  SinkAgrees'
<1>1. sink \in Seq(Chunk) /\ text \in Seq(1..MaxLines) /\ chunk.delta \in Seq(1..MaxLines)
  BY ChunkText DEF StreamTypeOK
<1>2. FlattenSeq(Texts(sink)) = text BY DEF SinkAgrees, Texts
<1>3. FlattenSeq(Texts(sink')) = text'
  <2>1. CASE sink = <<>>
    <3>1. text = <<>> BY <1>2, <2>1, NoTexts
    <3>2. text \o chunk.delta = chunk.delta BY <1>1, <3>1
    <3>3. FlattenSeq(Texts(Append(sink, chunk))) = chunk.delta BY <1>1, <2>1, TextsAppend
    <3> QED BY <3>2, <3>3
  <2>2. CASE sink # <<>> BY <1>1, <1>2, <2>2, TextsAppend
  <2> QED BY <2>1, <2>2
<1>4. /\ Len(sink) \in Nat /\ Len(sink') = Len(sink) + 1 /\ sink'[Len(sink) + 1] = chunk
      /\ \A i \in 1..Len(sink) : sink'[i] = sink[i]
  BY <1>1
<1>5. \A i \in 1..Len(sink) : ~Terminal(sink[i]) BY DEF SinkAgrees
<1>6. \A i \in 1..Len(sink') : Terminal(sink'[i]) <=> result' # "none" /\ i = Len(sink')
  <2> SUFFICES ASSUME NEW i \in 1..Len(sink')
               PROVE  Terminal(sink'[i]) <=> result' # "none" /\ i = Len(sink')
    OBVIOUS
  <2>1. CASE i = Len(sink) + 1 BY <1>4, <2>1
  <2>2. CASE i # Len(sink) + 1
    <3>1. i \in 1..Len(sink) BY <1>4, <2>2
    <3> QED BY <1>4, <1>5, <2>2, <3>1
  <2> QED BY <2>1, <2>2
<1>7. sink' # <<>> /\ (sink'[Len(sink')].done <=> result' = "ok") BY <1>4
<1> QED BY <1>3, <1>6, <1>7 DEF SinkAgrees, Texts

\* A step that leaves the sink, the text and the result alone.
LEMMA SinkSame == SinkAgrees /\ UNCHANGED <<sink, text, result>> => SinkAgrees'
BY DEF SinkAgrees

(* The first two parts of the invariant. *)

LEMMA StreamInitInv == StreamInit => StreamInv
<1> SUFFICES ASSUME StreamInit PROVE StreamInv OBVIOUS
<1> USE BoundsAssumption
<1>1. /\ model \in Model /\ ctxDone = FALSE /\ row = 0 /\ out = Err /\ chan = <<>> /\ text = <<>>
      /\ result = "none" /\ sink = <<>> /\ reader = IF model = "plain" THEN "off" ELSE "request"
      /\ end \in End /\ (model = "plain" => end = "eof")
  BY DEF StreamInit, End
<1>2. PICK n \in 0..MaxLines : wire \in [1..n -> IF model = "plain" THEN {"delta"} ELSE Speaks(model)]
  BY DEF StreamInit
<1>3. wire \in Seq(Line) /\ Len(wire) = n /\ (model = "plain" => \A i \in 1..n : wire[i] = "delta")
  <2>1. {"delta"} \subseteq Line /\ Speaks(model) \subseteq Line BY DEF Speaks, Line
  <2>2. wire \in [1..n -> Line] BY <1>2, <2>1
  <2>3. model = "plain" => wire \in [1..n -> {"delta"}] BY <1>2
  <2>4. wire \in Seq(Line) /\ Len(wire) = n BY <2>2
  <2> QED BY <2>3, <2>4
<1>4. Err \in Chunk /\ Err \in Sent /\ <<>> \in Seq(Chunk) /\ <<>> \in Seq(Sent) /\ Len(<<>>) = 0
      /\ <<>> \in Seq(1..MaxLines)
  BY DEF Chunk, Sent
<1>5. StreamTypeOK
  <2>1. row \in 0..Len(wire) /\ Len(chan) <= Buffer BY <1>1, <1>3, <1>4
  <2>2. /\ reader \in {"off", "request", "read", "send", "closed"} /\ ctxDone \in BOOLEAN
        /\ out \in Chunk /\ chan \in Seq(Chunk) /\ text \in Seq(1..MaxLines) /\ sink \in Seq(Chunk)
        /\ result \in {"none", "ok", "error"}
    BY <1>1, <1>4
  <2> HIDE <1>4
  <2> QED BY <1>1, <1>3, <2>1, <2>2 DEF StreamTypeOK
<1>6. StreamTyped BY <1>1, <1>3, <1>4, <1>5 DEF StreamTyped
<1>7. SinkAgrees
  <2>1. FlattenSeq(Texts(sink)) = text BY <1>1, NoTexts
  <2>2. Len(sink) = 0 BY <1>1
  <2> QED BY <1>1, <2>1, <2>2 DEF SinkAgrees, Texts
<1>8. DOMAIN text = {} /\ DOMAIN chan = {} BY <1>1
<1>9. InOrder
  <2>1. Terminal(out) BY <1>1, ChunkFacts
  <2> QED BY <1>8, <2>1 DEF InOrder
<1>10. ASSUME model # "plain" PROVE Complete
  <2>1. Deltas(row) = {} BY <1>1 DEF Deltas
  <2>2. ~Stopped BY <1>1, <1>8, <1>10 DEF Stopped, InChan
  <2> QED BY <1>1, <1>10, <2>1, <2>2 DEF Complete
<1> QED BY <1>6, <1>7, <1>9, <1>10 DEF StreamInv

\* The queue of a step of runStream that sends.
LEMMA SendType ==
  ASSUME StreamTyped, Len(chan) < Buffer
  PROVE  /\ Append(chan, out) \in Seq(Sent) /\ Append(chan, out) \in Seq(Chunk)
         /\ Len(Append(chan, out)) <= Buffer
<1>1. chan \in Seq(Sent) /\ chan \in Seq(Chunk) /\ out \in Sent /\ out \in Chunk /\ Len(chan) \in Nat
  BY DEF StreamTyped, StreamTypeOK
<1>2. Len(Append(chan, out)) = Len(chan) + 1 BY <1>1
<1> QED BY <1>1, <1>2, BoundsAssumption

\* What runStream may change.
LEMMA ProduceMoves ==
  ASSUME StreamTyped, Produce
  PROVE  /\ UNCHANGED <<model, wire, end, ctxDone, text, result, sink>>
         /\ model # "plain" /\ reader' \in {"request", "read", "send", "closed"}
         /\ out' \in Sent /\ row' \in 0..Len(wire)
         /\ chan' = chan \/ (chan' = Append(chan, out) /\ Len(chan) < Buffer)
<1>1. /\ row \in 0..Len(wire) /\ Len(wire) \in Nat /\ out \in Sent /\ wire \in Seq(Line)
      /\ (model = "plain" <=> reader = "off") /\ Len(wire) <= MaxLines
  BY DEF StreamTyped, StreamTypeOK
<1>2. Done \in Sent /\ Err \in Sent /\ \A i \in 1..MaxLines : Delta(i) \in Sent BY DEF Sent
<1>3. CASE Request BY <1>1, <1>2, <1>3 DEF Request, Sending, callVars
<1>4. CASE ReadLine
  <2>1. row + 1 \in 1..Len(wire) /\ row' = row + 1 /\ reader = "read" BY <1>1, <1>4 DEF ReadLine
  <2>2. row + 1 \in 1..MaxLines BY <1>1, <2>1, BoundsAssumption
  <2>3. wire[row + 1] \in Line BY <1>1, <2>1
  <2>4. (reader' = reader /\ out' = out)
        \/ (reader' = "send" /\ out' \in {Delta(row + 1), Done, Err})
    BY <1>4, <2>3 DEF ReadLine, Sending, Line
  <2>5. UNCHANGED <<model, wire, end, ctxDone, chan, text, result, sink>> BY <1>4 DEF ReadLine, callVars
  <2>6. row' \in 0..Len(wire) BY <1>1, <2>1
  <2> QED BY <1>1, <1>2, <2>1, <2>2, <2>4, <2>5, <2>6
<1>5. CASE ReadEnd BY <1>1, <1>2, <1>5 DEF ReadEnd, Sending, Closing, callVars
<1>6. CASE ReadCancelled BY <1>1, <1>2, <1>6 DEF ReadCancelled, Closing, callVars
<1>7. CASE SendChunk BY <1>1, <1>2, <1>7 DEF SendChunk, AfterSend, Sending, Closing, callVars
<1> QED BY <1>3, <1>4, <1>5, <1>6, <1>7 DEF Produce

LEMMA ProduceTyped ==
  ASSUME StreamTyped, SinkAgrees, Produce
  PROVE  StreamTyped' /\ SinkAgrees'
<1>1. /\ UNCHANGED <<model, wire, end, ctxDone, text, result, sink>>
      /\ model # "plain" /\ reader' \in {"request", "read", "send", "closed"}
      /\ out' \in Sent /\ row' \in 0..Len(wire)
      /\ chan' = chan \/ (chan' = Append(chan, out) /\ Len(chan) < Buffer)
  BY ProduceMoves
<1>2. chan' \in Seq(Sent) /\ chan' \in Seq(Chunk) /\ Len(chan') <= Buffer
  <2>1. CASE chan' = chan BY <2>1 DEF StreamTyped, StreamTypeOK
  <2>2. CASE chan' = Append(chan, out) /\ Len(chan) < Buffer BY <2>2, SendType
  <2> QED BY <1>1, <2>1, <2>2
<1>3. out' \in Chunk BY <1>1, SentChunks
<1>4. StreamTypeOK' BY <1>1, <1>2, <1>3 DEF StreamTyped, StreamTypeOK
<1>5. StreamTyped'
  <2>1. model' # "plain" /\ reader' # "off" /\ wire' = wire BY <1>1
  <2>2. Len(wire) <= MaxLines BY DEF StreamTyped
  <2> QED BY <1>1, <1>2, <1>4, <2>1, <2>2 DEF StreamTyped
<1> QED BY <1>1, <1>5, SinkSame

\* A chunk of the channel goes to the sink.
LEMMA DrainIs ==
  ASSUME StreamTyped, DrainChunk
  PROVE  /\ model # "plain" /\ result = "none" /\ chan # <<>> /\ chan' = Tail(chan)
         /\ UNCHANGED <<model, wire, end, ctxDone, reader, row, out>>
         /\ Head(chan) \in Sent /\ Head(chan) = chan[1] /\ 1 \in DOMAIN chan
         /\ text' = text \o Head(chan).delta /\ sink' = Append(sink, Head(chan))
         /\ chan' \in Seq(Sent) /\ Len(chan') = Len(chan) - 1
         /\ \A k \in DOMAIN chan' : k + 1 \in DOMAIN chan /\ chan'[k] = chan[k + 1]
         /\ \A k \in DOMAIN chan : k > 1 => k - 1 \in DOMAIN chan' /\ chan'[k - 1] = chan[k]
         /\ \/ \E i \in 1..MaxLines : Head(chan) = Delta(i) /\ result' = "none"
            \/ Head(chan) = Done /\ result' = "ok"
            \/ Head(chan) = Err /\ result' = "error"
<1>1. chan \in Seq(Sent) BY DEF StreamTyped
<1>2. /\ model # "plain" /\ result = "none" /\ chan # <<>> /\ chan' = Tail(chan)
      /\ UNCHANGED <<model, wire, end, ctxDone, reader, row, out>>
      /\ text' = text \o Head(chan).delta /\ sink' = Append(sink, Head(chan))
      /\ result' = CASE Head(chan).err -> "error" [] Head(chan).done -> "ok" [] OTHER -> "none"
  BY DEF DrainChunk, callVars
<1>3. /\ Head(chan) \in Sent /\ Head(chan) = chan[1] /\ 1 \in DOMAIN chan
      /\ chan' \in Seq(Sent) /\ Len(chan') = Len(chan) - 1
  BY <1>1, <1>2
<1>4. /\ \A k \in DOMAIN chan' : k + 1 \in DOMAIN chan /\ chan'[k] = chan[k + 1]
      /\ \A k \in DOMAIN chan : k > 1 => k - 1 \in DOMAIN chan' /\ chan'[k - 1] = chan[k]
  BY <1>1, <1>2
<1>5. \/ \E i \in 1..MaxLines : Head(chan) = Delta(i) /\ result' = "none"
      \/ Head(chan) = Done /\ result' = "ok"
      \/ Head(chan) = Err /\ result' = "error"
  <2>1. CASE Head(chan) = Done BY <1>2, <2>1, ChunkFacts
  <2>2. CASE Head(chan) = Err BY <1>2, <2>2, ChunkFacts
  <2>3. CASE \E i \in 1..MaxLines : Head(chan) = Delta(i) BY <1>2, <2>3, ChunkFacts
  <2> QED BY <1>3, <2>1, <2>2, <2>3, SentIs
<1> QED BY <1>2, <1>3, <1>4, <1>5

LEMMA DrainTyped ==
  ASSUME StreamTyped, SinkAgrees, Drain
  PROVE  StreamTyped' /\ SinkAgrees'
<1>t. /\ StreamTypeOK /\ text \in Seq(1..MaxLines) /\ sink \in Seq(Chunk)
      /\ chan \in Seq(Sent) /\ chan \in Seq(Chunk) /\ Len(chan) <= Buffer
  BY DEF StreamTyped, StreamTypeOK
<1>e. Err \in Chunk /\ text \o Err.delta = text
  <2>1. Err \in Chunk BY DEF Chunk
  <2>2. text \o <<>> = text BY <1>t
  <2> QED BY <2>1, <2>2, ChunkFacts
<1>1. CASE DrainCancelled \/ DrainClosed \/ (CallPlain /\ Conclude("error", Err) /\ UNCHANGED text)
  <2>1. /\ result = "none" /\ result' = "error" /\ sink' = Append(sink, Err) /\ text' = text
        /\ UNCHANGED <<model, wire, end, ctxDone, reader, row, out, chan>>
    BY <1>1 DEF DrainCancelled, DrainClosed, CallPlain, Conclude, callVars
  <2>2. SinkAgrees'
    <3>1. text' = text \o Err.delta BY <1>e, <2>1
    <3> QED BY <1>e, <1>t, <2>1, <3>1, SinkStep, ChunkFacts
  <2>3. sink' \in Seq(Chunk) BY <1>e, <1>t, <2>1
  <2>4. StreamTypeOK' BY <1>t, <2>1, <2>3 DEF StreamTypeOK
  <2> QED BY <2>1, <2>2, <2>4 DEF StreamTyped
<1>2. CASE DrainChunk
  <2>1. /\ model # "plain" /\ result = "none" /\ chan' = Tail(chan)
        /\ UNCHANGED <<model, wire, end, ctxDone, reader, row, out>>
        /\ Head(chan) \in Sent /\ chan' \in Seq(Sent) /\ Len(chan') = Len(chan) - 1
        /\ text' = text \o Head(chan).delta /\ sink' = Append(sink, Head(chan))
    BY <1>2, DrainIs
  <2>2. Head(chan) \in Chunk BY <2>1, SentChunks
  <2>3. /\ result' \in {"none", "ok", "error"}
        /\ Terminal(Head(chan)) <=> result' # "none"
        /\ Head(chan).done <=> result' = "ok"
    BY <1>2, DrainIs, ChunkFacts
  <2>4. SinkAgrees' BY <1>t, <2>1, <2>2, <2>3, SinkStep
  <2>5. text' \in Seq(1..MaxLines) /\ sink' \in Seq(Chunk) BY <1>t, <2>1, <2>2, ChunkText
  <2>6. chan' \in Seq(Chunk) /\ Len(chan') <= Buffer
    <3>1. chan' \in Seq(Chunk) BY <2>1, SentChunks
    <3>2. Len(chan) \in Nat BY <1>t
    <3> QED BY <1>t, <2>1, <3>1, <3>2, BoundsAssumption
  <2>7. StreamTypeOK' BY <1>t, <2>1, <2>3, <2>5, <2>6 DEF StreamTypeOK
  <2> QED BY <2>1, <2>4, <2>7 DEF StreamTyped
<1>3. CASE CallPlain /\ text' = [i \in 1..Len(wire) |-> i] /\ Conclude("ok", [Done EXCEPT !.delta = text'])
  <2> DEFINE chunk == [Done EXCEPT !.delta = [i \in 1..Len(wire) |-> i]]
  <2>1. /\ model = "plain" /\ result = "none" /\ result' = "ok" /\ sink' = Append(sink, chunk)
        /\ text' = [i \in 1..Len(wire) |-> i]
        /\ UNCHANGED <<model, wire, end, ctxDone, reader, row, out, chan>>
    BY <1>3 DEF CallPlain, Conclude, callVars
  <2>2. Len(wire) \in 0..MaxLines
    <3>1. wire \in Seq(Line) /\ Len(wire) <= MaxLines BY DEF StreamTyped, StreamTypeOK
    <3> QED BY <3>1, BoundsAssumption
  <2>3. chunk \in Chunk BY <2>2 DEF Chunk
  <2>4. chunk.delta = text' /\ chunk.done = TRUE /\ chunk.err = FALSE BY <2>1 DEF Done
  <2> HIDE DEF chunk
  <2>5. text = <<>> => text' = text \o chunk.delta
    <3>1. chunk.delta \in Seq(1..MaxLines) BY <2>3, ChunkText
    <3>2. <<>> \o chunk.delta = chunk.delta BY <3>1
    <3> QED BY <2>4, <3>2
  <2>6. text = <<>> /\ chan = <<>> BY <2>1 DEF StreamTyped
  <2>7. SinkAgrees' BY <1>t, <2>1, <2>3, <2>4, <2>5, <2>6, SinkStep DEF Terminal
  <2>8. sink' \in Seq(Chunk) /\ text' \in Seq(1..MaxLines)
    <3>1. Append(sink, chunk) \in Seq(Chunk) BY <1>t, <2>3
    <3>2. chunk.delta \in Seq(1..MaxLines) BY <2>3, ChunkText
    <3> QED BY <2>1, <2>4, <3>1, <3>2
  <2>9. StreamTypeOK' BY <1>t, <2>1, <2>8 DEF StreamTypeOK
  <2> QED BY <2>1, <2>7, <2>9 DEF StreamTyped
<1> QED BY <1>1, <1>2, <1>3 DEF Drain, CallPlain

(* The order of the deltas, and that none is missing. *)

\* What the invariant says of runStream before it has sent an end.
LEMMA BeforeEnd ==
  ASSUME StreamTyped, InOrder, Complete, reader # "closed"
  PROVE  /\ \A k \in DOMAIN chan : ~Terminal(chan[k])
         /\ ~InChan(Done) /\ ~InChan(Err) /\ result # "ok"
<1>1. \A k \in DOMAIN chan : ~Terminal(chan[k]) BY DEF InOrder
<1>2. ~InChan(Done) /\ ~InChan(Err) BY <1>1, ChunkFacts DEF InChan
<1> QED BY <1>1, <1>2 DEF Complete

LEMMA Rows ==
  ASSUME StreamTyped
  PROVE  row \in Nat /\ Len(wire) \in Nat /\ row <= Len(wire) /\ wire \in Seq(Line)
BY DEF StreamTyped, StreamTypeOK

\* Between chunks, the next line may add a delta beyond all others.
LEMMA OrderKept ==
  ASSUME StreamTyped, InOrder, Complete, reader \in {"request", "read"}, UNCHANGED <<wire, chan, text>>,
         row' = row \/ row' = row + 1,
         reader' = "send" /\ ~Terminal(out') =>
           row' = row + 1 /\ out' = Delta(row + 1) /\ wire[row + 1] \in {"delta", "last"} /\ Clean(row)
  PROVE  InOrder'
<1>1. row \in Nat BY Rows
<1>2. \A i : i \in Deltas(row) => i \in Nat /\ i <= row /\ i \in Deltas(row)'
  BY <1>1 DEF Deltas
<1>3. /\ \A p \in DOMAIN text : text[p] \in Deltas(row)
      /\ \A k \in DOMAIN chan : \A i : chan[k] = Delta(i) => i \in Deltas(row)
  BY DEF InOrder
<1>4. \A k \in DOMAIN chan : ~Terminal(chan[k]) BY BeforeEnd
<1>5. ASSUME reader' = "send", ~Terminal(out')
      PROVE  /\ row' > 0 /\ out' = Delta(row') /\ wire'[row'] \in {"delta", "last"} /\ Clean(row - 1)'
             /\ \A p \in DOMAIN text' : text'[p] < row'
             /\ \A k \in DOMAIN chan' : \A i : chan'[k] = Delta(i) => i < row'
  <2>1. row' = row + 1 /\ out' = Delta(row + 1) /\ wire[row + 1] \in {"delta", "last"} /\ Clean(row) BY <1>5
  <2>2. row' > 0 /\ row' - 1 = row BY <1>1, <2>1
  <2>3. Clean(row - 1)' BY <2>1, <2>2 DEF Clean
  <2>4. \A p \in DOMAIN text' : text'[p] < row' BY <1>1, <1>2, <1>3, <2>1
  <2>5. \A k \in DOMAIN chan' : \A i : chan'[k] = Delta(i) => i < row' BY <1>1, <1>2, <1>3, <2>1
  <2> QED BY <2>1, <2>2, <2>3, <2>4, <2>5
<1>6. /\ \A p \in DOMAIN text' : text'[p] \in Deltas(row)'
      /\ \A k \in DOMAIN chan' : \A i : chan'[k] = Delta(i) => i \in Deltas(row)'
  BY <1>2, <1>3
<1>7. \A k \in DOMAIN chan' : ~Terminal(chan'[k]) BY <1>4
<1> QED BY <1>5, <1>6, <1>7 DEF InOrder

LEMMA CompleteKept ==
  ASSUME StreamTyped, InOrder, Complete, reader \in {"request", "read"},
         UNCHANGED <<wire, end, chan, text, result>>, reader' \in {"read", "send", "closed"},
         reader' = "read" => Clean(row)',
         reader' = "send" /\ out' = Done => Finished',
         \A i \in Deltas(row)' : i \in Deltas(row) \/ (reader' = "send" /\ out' = Delta(i))
  PROVE  Complete'
<1>1. ~InChan(Done) /\ result # "ok" BY BeforeEnd
<1>2. \A chunk : InChan(chunk)' <=> InChan(chunk) BY DEF InChan
<1>3. \A i : InText(i)' <=> InText(i) BY DEF InText
<1>4. Stopped' => Finished' BY <1>1, <1>2 DEF Stopped
<1>5. ASSUME NEW i \in Deltas(row)' PROVE Has(i)'
  <2>1. CASE i \in Deltas(row)
    <3>1. InText(i) \/ InChan(Delta(i)) BY <2>1 DEF Complete, Has
    <3> QED BY <1>2, <1>3, <3>1 DEF Has
  <2>2. CASE reader' = "send" /\ out' = Delta(i) BY <2>2 DEF Has
  <2> QED BY <1>5, <2>1, <2>2
<1> QED BY <1>1, <1>4, <1>5 DEF Complete

\* A step of runStream that sends nothing yet.
LEMMA ReadInv ==
  ASSUME StreamTyped, InOrder, Complete, Request \/ ReadLine \/ ReadEnd \/ ReadCancelled
  PROVE  InOrder' /\ Complete'
<1>r. row \in Nat /\ Len(wire) \in Nat /\ wire \in Seq(Line) BY Rows
<1>d. Terminal(Done) /\ Terminal(Err) /\ Done # Err BY ChunkFacts
<1>1. CASE ReadLine
  <2>1. /\ reader = "read" /\ row < Len(wire) /\ row' = row + 1
        /\ UNCHANGED <<wire, end, chan, text, result>>
    BY <1>1 DEF ReadLine, callVars
  <2>2. wire[row + 1] \in Line BY <1>r, <2>1
  <2>3. \/ wire[row + 1] = "skip" /\ reader' = reader /\ out' = out
        \/ wire[row + 1] \in {"delta", "last"} /\ reader' = "send" /\ out' = Delta(row + 1)
        \/ wire[row + 1] = "stop" /\ reader' = "send" /\ out' = Done
        \/ wire[row + 1] \in {"error", "bad"} /\ reader' = "send" /\ out' = Err
    BY <1>1, <2>2 DEF ReadLine, Sending, Line
  <2>4. Clean(row) BY <2>1 DEF Complete
  <2>5. \A i \in 1..(row + 1) : i \in 1..row \/ i = row + 1 BY <1>r
  <2>6. \A i \in Deltas(row)' : i \in Deltas(row) \/ (i = row + 1 /\ wire[row + 1] \in {"delta", "last"})
    BY <2>1, <2>5 DEF Deltas
  <2>7. wire[row + 1] = "skip" => Clean(row)' BY <2>1, <2>4, <2>5 DEF Clean
  <2>8. wire[row + 1] = "stop" => Finished'
    <3>1. row' > 0 /\ row' - 1 = row BY <1>r, <2>1
    <3>2. Clean(row - 1)' BY <2>1, <2>4, <3>1 DEF Clean
    <3> QED BY <2>1, <3>1, <3>2 DEF Finished
  <2>9. InOrder'
    <3>1. reader' = "send" /\ ~Terminal(out') =>
            row' = row + 1 /\ out' = Delta(row + 1) /\ wire[row + 1] \in {"delta", "last"} /\ Clean(row)
      BY <1>d, <2>1, <2>3, <2>4
    <3> QED BY <2>1, <3>1, OrderKept
  <2>10. Complete'
    <3>1. reader' \in {"read", "send", "closed"} BY <2>1, <2>3
    <3>2. reader' = "read" => Clean(row)' BY <2>1, <2>3, <2>7
    <3>3. reader' = "send" /\ out' = Done => Finished'
      <4>1. Delta(row + 1) # Done BY ChunkFacts
      <4> QED BY <1>d, <2>1, <2>3, <2>8, <4>1
    <3>4. \A i \in Deltas(row)' : i \in Deltas(row) \/ (reader' = "send" /\ out' = Delta(i))
      BY <2>3, <2>6
    <3> QED BY <2>1, <3>1, <3>2, <3>3, <3>4, CompleteKept
  <2> QED BY <2>9, <2>10
<1>2. CASE Request \/ ReadEnd \/ ReadCancelled
  <2>1. /\ reader \in {"request", "read"} /\ row' = row
        /\ UNCHANGED <<wire, end, chan, text, result>>
        /\ reader' \in {"read", "send", "closed"}
        /\ reader' = "read" => reader = "request"
        /\ reader' = "send" => out' \in {Done, Err}
        /\ reader' = "send" /\ out' = Done => reader = "read" /\ row = Len(wire) /\ end = "eof"
    BY <1>2, <1>d DEF Request, ReadEnd, ReadCancelled, Sending, Closing, callVars
  <2>2. Deltas(row)' = Deltas(row) BY <2>1 DEF Deltas
  <2>3. reader' = "read" => Clean(row)' BY <2>1 DEF Complete, Clean
  <2>4. reader' = "send" /\ out' = Done => Finished'
    <3>1. reader = "read" => Clean(row)' BY <2>1 DEF Complete, Clean
    <3> QED BY <2>1, <3>1 DEF Finished
  <2>5. InOrder' BY <1>d, <2>1, OrderKept
  <2>6. Complete' BY <2>1, <2>2, <2>3, <2>4, CompleteKept
  <2> QED BY <2>5, <2>6
<1> QED BY <1>1, <1>2

\* The channel with one more chunk.
LEMMA ChanGrows ==
  ASSUME StreamTyped, chan' = Append(chan, out)
  PROVE  /\ Len(chan) \in Nat /\ DOMAIN chan = 1..Len(chan) /\ Len(chan') = Len(chan) + 1
         /\ \A k \in DOMAIN chan : k \in DOMAIN chan' /\ chan'[k] = chan[k]
         /\ Len(chan') \in DOMAIN chan' /\ chan'[Len(chan')] = out
         /\ \A k \in DOMAIN chan' : k \in DOMAIN chan \/ k = Len(chan')
<1>1. chan \in Seq(Sent) /\ out \in Sent BY DEF StreamTyped
<1>2. DOMAIN chan = 1..Len(chan) /\ Len(chan) \in Nat BY <1>1
<1>3. Len(chan') = Len(chan) + 1 /\ DOMAIN chan' = 1..(Len(chan) + 1) BY <1>1
<1>4. \A k \in DOMAIN chan : chan'[k] = chan[k] BY <1>1
<1>5. chan'[Len(chan) + 1] = out BY <1>1
<1>6. \A k \in 1..(Len(chan) + 1) : k \in 1..Len(chan) \/ k = Len(chan) + 1 BY <1>2
<1> QED BY <1>2, <1>3, <1>4, <1>5, <1>6

LEMMA SendOrder ==
  ASSUME StreamTyped, InOrder, Complete, reader = "send", UNCHANGED <<wire, row, text>>,
         chan' = Append(chan, out), reader' = "send" => Terminal(out'),
         Terminal(out) => reader' = "closed"
  PROVE  InOrder'
<1>1. /\ Len(chan) \in Nat /\ DOMAIN chan = 1..Len(chan) /\ Len(chan') = Len(chan) + 1
      /\ \A k \in DOMAIN chan : k \in DOMAIN chan' /\ chan'[k] = chan[k]
      /\ Len(chan') \in DOMAIN chan' /\ chan'[Len(chan')] = out
      /\ \A k \in DOMAIN chan' : k \in DOMAIN chan \/ k = Len(chan')
  BY ChanGrows
<1>2. \A i : out = Delta(i) =>
        /\ i = row /\ i \in Deltas(row)
        /\ \A p \in DOMAIN text : text[p] < i
        /\ \A k \in DOMAIN chan : \A j : chan[k] = Delta(j) => j < i
  <2> TAKE i
  <2> HAVE out = Delta(i)
  <2>1. ~Terminal(out) BY ChunkFacts
  <2>2. /\ row > 0 /\ out = Delta(row) /\ wire[row] \in {"delta", "last"}
        /\ \A p \in DOMAIN text : text[p] < row
        /\ \A k \in DOMAIN chan : \A j : chan[k] = Delta(j) => j < row
    BY <2>1 DEF InOrder
  <2>3. i = row BY <2>2, ChunkFacts
  <2>4. row \in 1..row BY <2>2, Rows
  <2>5. row \in Deltas(row) BY <2>2, <2>4 DEF Deltas
  <2> QED BY <2>2, <2>3, <2>5
<1>3. Deltas(row)' = Deltas(row) BY DEF Deltas
<1>4. \A k \in DOMAIN chan : ~Terminal(chan[k]) BY BeforeEnd
<1>5. \A k \in DOMAIN chan' : \A i : chan'[k] = Delta(i) => i \in Deltas(row)'
  <2>1. \A k \in DOMAIN chan : \A i : chan[k] = Delta(i) => i \in Deltas(row) BY DEF InOrder
  <2> QED BY <1>1, <1>2, <1>3, <2>1
<1>6. \A p \in DOMAIN text', k \in DOMAIN chan' : \A i : chan'[k] = Delta(i) => text'[p] < i
  <2>1. \A p \in DOMAIN text, k \in DOMAIN chan : \A i : chan[k] = Delta(i) => text[p] < i BY DEF InOrder
  <2> QED BY <1>1, <1>2, <2>1
<1>7. \A k, l \in DOMAIN chan' : \A i, j : k < l /\ chan'[k] = Delta(i) /\ chan'[l] = Delta(j) => i < j
  <2> TAKE k, l \in DOMAIN chan'
  <2> TAKE i, j
  <2> HAVE k < l /\ chan'[k] = Delta(i) /\ chan'[l] = Delta(j)
  <2>1. k \in DOMAIN chan
    <3>1. CASE k = Len(chan')
      <4>1. l \in 1..Len(chan') BY <1>1
      <4> QED BY <1>1, <3>1, <4>1
    <3> QED BY <1>1, <3>1
  <2>2. CASE l \in DOMAIN chan
    <3>1. chan[k] = Delta(i) /\ chan[l] = Delta(j) BY <1>1, <2>1, <2>2
    <3> QED BY <2>1, <2>2, <3>1 DEF InOrder
  <2>3. CASE l = Len(chan')
    <3>1. chan[k] = Delta(i) /\ out = Delta(j) BY <1>1, <2>1, <2>3
    <3> QED BY <1>2, <2>1, <3>1
  <2> QED BY <1>1, <2>2, <2>3
<1>8. \A k \in DOMAIN chan' : Terminal(chan'[k]) => k = Len(chan') /\ reader' = "closed"
  BY <1>1, <1>4
<1>9. /\ \A p \in DOMAIN text' : text'[p] \in Deltas(row)'
      /\ \A p, q \in DOMAIN text' : p < q => text'[p] < text'[q]
  BY <1>3 DEF InOrder
<1> QED BY <1>5, <1>6, <1>7, <1>8, <1>9 DEF InOrder

\* The select of a send: the channel takes the chunk, or the context ends the stream.
LEMMA SendInv ==
  ASSUME StreamTyped, InOrder, Complete, SendChunk
  PROVE  InOrder' /\ Complete'
<1>1. /\ reader = "send" /\ UNCHANGED <<wire, end, row, text, result>>
      /\ (chan' = Append(chan, out) /\ AfterSend) \/ (chan' = chan /\ reader' = "closed")
  BY DEF SendChunk, Closing, callVars
<1>2. ~InChan(Done) /\ result # "ok" BY <1>1, BeforeEnd
<1>3. Deltas(row)' = Deltas(row) BY <1>1 DEF Deltas
<1>4. CASE chan' = chan /\ reader' = "closed"
  <2>1. \A k \in DOMAIN chan : ~Terminal(chan[k]) BY <1>1, BeforeEnd
  <2>2. InOrder' BY <1>1, <1>3, <1>4, <2>1 DEF InOrder
  <2>3. ~Stopped' BY <1>1, <1>2, <1>4 DEF Stopped, InChan
  <2> QED BY <1>1, <1>2, <1>4, <2>2, <2>3 DEF Complete
<1>5. CASE chan' = Append(chan, out) /\ AfterSend
  <2>1. \/ Terminal(out) /\ reader' = "closed"
        \/ ~Terminal(out) /\ wire[row] = "last" /\ reader' = "send" /\ out' = Done
        \/ ~Terminal(out) /\ wire[row] # "last" /\ reader' = "read"
    BY <1>5 DEF AfterSend, Closing, Sending
  <2>2. ~Terminal(out) => row > 0 /\ wire[row] \in {"delta", "last"} /\ Clean(row - 1)
    BY <1>1 DEF InOrder
  <2>3. InOrder' BY <1>1, <1>5, <2>1, ChunkFacts, SendOrder
  <2>4. \A chunk : InChan(chunk)' <=> InChan(chunk) \/ chunk = out BY <1>5, ChanGrows DEF InChan
  <2>5. \A i : InText(i)' <=> InText(i) BY <1>1 DEF InText
  <2>6. \A i \in Deltas(row)' : Has(i)'
    <3>1. \A i \in Deltas(row) : InText(i) \/ InChan(Delta(i)) \/ out = Delta(i)
      BY <1>1 DEF Complete, Has
    <3> QED BY <1>3, <2>4, <2>5, <3>1 DEF Has
  <2>7. reader' = "read" => Clean(row)'
    <3>1. row \in Nat BY Rows
    <3>2. \A i \in 1..row : i \in 1..(row - 1) \/ i = row BY <3>1
    <3> QED BY <1>1, <2>1, <2>2, <3>2 DEF Clean
  <2>8. ASSUME Stopped' PROVE Finished'
    <3>1. CASE reader' = "send" /\ out' = Done
      <4>1. row > 0 /\ wire[row] = "last" /\ Clean(row - 1) BY <2>1, <2>2, <3>1
      <4> QED BY <1>1, <4>1 DEF Finished, Clean
    <3>2. CASE out = Done
      <4>1. Stopped BY <1>1, <3>2 DEF Stopped
      <4>2. Finished BY <4>1 DEF Complete
      <4> QED BY <1>1, <4>2 DEF Finished, Clean
    <3> QED BY <1>1, <1>2, <2>4, <2>8, <3>1, <3>2 DEF Stopped
  <2>9. reader' # "request" /\ result' # "ok" BY <1>1, <1>2, <2>1
  <2> QED BY <2>3, <2>6, <2>7, <2>8, <2>9 DEF Complete
<1> QED BY <1>1, <1>4, <1>5

\* The sink's goroutine takes a delta from the channel to the text.
LEMMA DeltaInv ==
  ASSUME StreamTyped, InOrder, Complete, DrainChunk,
         NEW d \in 1..MaxLines, Head(chan) = Delta(d), result' = "none"
  PROVE  InOrder' /\ Complete'
<1>1. /\ result = "none" /\ UNCHANGED <<model, wire, end, ctxDone, reader, row, out>>
      /\ chan[1] = Delta(d) /\ 1 \in DOMAIN chan /\ chan' \in Seq(Sent) /\ Len(chan') = Len(chan) - 1
      /\ text' = text \o Head(chan).delta
      /\ \A k \in DOMAIN chan' : k + 1 \in DOMAIN chan /\ chan'[k] = chan[k + 1]
      /\ \A k \in DOMAIN chan : k > 1 => k - 1 \in DOMAIN chan' /\ chan'[k - 1] = chan[k]
  BY DrainIs
<1>2. \A k \in DOMAIN chan : k \in Nat /\ k >= 1
  BY DEF StreamTyped
<1>3. \A k \in DOMAIN chan' : k \in Nat /\ k >= 1 BY <1>1
<1>4. Len(chan) \in Nat BY DEF StreamTyped
<1>5. /\ DOMAIN text = 1..Len(text) /\ Len(text) \in Nat /\ DOMAIN text' = 1..(Len(text) + 1)
      /\ \A p \in DOMAIN text : text'[p] = text[p]
      /\ text'[Len(text) + 1] = d
  <2>1. text \in Seq(1..MaxLines) BY DEF StreamTyped, StreamTypeOK
  <2>2. text' = text \o <<d>> BY <1>1, ChunkFacts
  <2>3. <<d>> \in Seq(1..MaxLines) /\ Len(<<d>>) = 1 /\ <<d>>[1] = d OBVIOUS
  <2> QED BY <2>1, <2>2, <2>3
<1>6. \A p \in DOMAIN text' : p \in DOMAIN text \/ p = Len(text) + 1 BY <1>5
<1>7. Deltas(row)' = Deltas(row) BY <1>1 DEF Deltas
<1>8. /\ \A p \in DOMAIN text : text[p] \in Deltas(row) /\ text[p] < d
      /\ d \in Deltas(row)
      /\ \A k \in DOMAIN chan : \A j : chan[k] = Delta(j) => j \in Deltas(row)
      /\ \A k \in DOMAIN chan : \A j : k > 1 /\ chan[k] = Delta(j) => d < j
  BY <1>1 DEF InOrder
<1>9. \A p \in DOMAIN text' : text'[p] \in Deltas(row)' BY <1>5, <1>6, <1>7, <1>8
<1>10. \A k \in DOMAIN chan' : \A j : chan'[k] = Delta(j) => j \in Deltas(row)' BY <1>1, <1>7, <1>8
<1>11. \A p, q \in DOMAIN text' : p < q => text'[p] < text'[q]
  <2> TAKE p, q \in DOMAIN text'
  <2> HAVE p < q
  <2>1. p \in DOMAIN text BY <1>5, <1>6
  <2>2. CASE q \in DOMAIN text BY <1>5, <2>1, <2>2 DEF InOrder
  <2>3. CASE q = Len(text) + 1 BY <1>5, <1>8, <2>1, <2>3
  <2> QED BY <1>6, <2>2, <2>3
<1>12. \A p \in DOMAIN text', k \in DOMAIN chan' : \A j : chan'[k] = Delta(j) => text'[p] < j
  <2> TAKE p \in DOMAIN text', k \in DOMAIN chan'
  <2> TAKE j
  <2> HAVE chan'[k] = Delta(j)
  <2>1. k + 1 \in DOMAIN chan /\ chan[k + 1] = Delta(j) /\ k + 1 > 1 BY <1>1, <1>3
  <2>2. CASE p \in DOMAIN text
    <3>1. text[p] < j BY <2>1, <2>2 DEF InOrder
    <3> QED BY <1>5, <2>2, <3>1
  <2>3. CASE p = Len(text) + 1 BY <1>5, <1>8, <2>1, <2>3
  <2> QED BY <1>6, <2>2, <2>3
<1>13. \A k, l \in DOMAIN chan' : \A i, j : k < l /\ chan'[k] = Delta(i) /\ chan'[l] = Delta(j) => i < j
  <2> TAKE k, l \in DOMAIN chan'
  <2> TAKE i, j
  <2> HAVE k < l /\ chan'[k] = Delta(i) /\ chan'[l] = Delta(j)
  <2>1. /\ k + 1 \in DOMAIN chan /\ l + 1 \in DOMAIN chan /\ k + 1 < l + 1
        /\ chan[k + 1] = Delta(i) /\ chan[l + 1] = Delta(j)
    BY <1>1, <1>3
  <2> QED BY <2>1 DEF InOrder
<1>14. \A k \in DOMAIN chan' : Terminal(chan'[k]) => k = Len(chan') /\ reader' = "closed"
  <2> TAKE k \in DOMAIN chan'
  <2> HAVE Terminal(chan'[k])
  <2>1. k + 1 \in DOMAIN chan /\ Terminal(chan[k + 1]) BY <1>1
  <2>2. k + 1 = Len(chan) /\ reader = "closed" BY <2>1 DEF InOrder
  <2> QED BY <1>1, <1>3, <1>4, <2>2
<1>15. ASSUME reader' = "send", ~Terminal(out')
       PROVE  /\ row' > 0 /\ out' = Delta(row') /\ wire'[row'] \in {"delta", "last"} /\ Clean(row - 1)'
              /\ \A p \in DOMAIN text' : text'[p] < row'
              /\ \A k \in DOMAIN chan' : \A i : chan'[k] = Delta(i) => i < row'
  <2>1. reader = "send" /\ ~Terminal(out) BY <1>1, <1>15
  <2>2. /\ row > 0 /\ out = Delta(row) /\ wire[row] \in {"delta", "last"} /\ Clean(row - 1)
        /\ \A p \in DOMAIN text : text[p] < row
        /\ \A k \in DOMAIN chan : \A i : chan[k] = Delta(i) => i < row
    BY <2>1 DEF InOrder
  <2>3. Clean(row - 1)' BY <1>1, <2>2 DEF Clean
  <2>4. d < row BY <1>1, <2>2
  <2>5. \A p \in DOMAIN text' : text'[p] < row' BY <1>1, <1>5, <1>6, <2>2, <2>4
  <2>6. \A k \in DOMAIN chan' : \A i : chan'[k] = Delta(i) => i < row' BY <1>1, <2>2
  <2> QED BY <1>1, <2>2, <2>3, <2>5, <2>6
<1>16. InOrder' BY <1>9, <1>10, <1>11, <1>12, <1>13, <1>14, <1>15 DEF InOrder
<1>17. \A chunk : InChan(chunk)' => InChan(chunk) BY <1>1 DEF InChan
<1>18. ASSUME NEW j, Has(j) PROVE Has(j)'
  <2>1. CASE InText(j)
    <3>1. PICK p \in DOMAIN text : text[p] = j BY <2>1 DEF InText
    <3>2. p \in DOMAIN text' /\ text'[p] = j BY <1>5, <3>1
    <3>3. InText(j)' BY <3>2 DEF InText
    <3> QED BY <3>3 DEF Has
  <2>2. CASE InChan(Delta(j))
    <3>1. PICK k \in DOMAIN chan : chan[k] = Delta(j) BY <2>2 DEF InChan
    <3>2. CASE k = 1
      <4>1. j = d BY <1>1, <3>1, <3>2, ChunkFacts
      <4>2. Len(text) + 1 \in DOMAIN text' BY <1>5
      <4>3. InText(j)' BY <1>5, <4>1, <4>2 DEF InText
      <4> QED BY <4>3 DEF Has
    <3>3. CASE k > 1
      <4>1. k - 1 \in DOMAIN chan' /\ chan'[k - 1] = Delta(j) BY <1>1, <3>1, <3>3
      <4>2. InChan(Delta(j))' BY <4>1 DEF InChan
      <4> QED BY <4>2 DEF Has
    <3> QED BY <1>2, <3>1, <3>2, <3>3
  <2>3. CASE reader = "send" /\ out = Delta(j) BY <1>1, <2>3 DEF Has
  <2> QED BY <1>18, <2>1, <2>2, <2>3 DEF Has
<1>19. Stopped' => Stopped BY <1>1, <1>17 DEF Stopped
<1>20. Finished => Finished' BY <1>1 DEF Finished, Clean
<1>21. Clean(row) => Clean(row)' BY <1>1 DEF Clean
<1>22. Complete' BY <1>1, <1>7, <1>18, <1>19, <1>20, <1>21 DEF Complete
<1> QED BY <1>16, <1>22

\* It takes an end from the channel, which is then empty.
LEMMA EndInv ==
  ASSUME StreamTyped, InOrder, Complete, DrainChunk,
         (Head(chan) = Done /\ result' = "ok") \/ (Head(chan) = Err /\ result' = "error")
  PROVE  InOrder' /\ Complete'
<1>1. /\ result = "none" /\ UNCHANGED <<model, wire, end, ctxDone, reader, row, out>>
      /\ Head(chan) = chan[1] /\ 1 \in DOMAIN chan /\ chan' \in Seq(Sent) /\ Len(chan') = Len(chan) - 1
      /\ text' = text \o Head(chan).delta
  BY DrainIs
<1>2. Terminal(chan[1]) BY <1>1, ChunkFacts
<1>3. 1 = Len(chan) /\ reader = "closed" BY <1>1, <1>2 DEF InOrder
<1>4. chan' = <<>> /\ DOMAIN chan' = {}
  <2>1. chan' \in Seq(Sent) /\ Len(chan') = Len(chan) - 1 /\ Len(chan) = 1 BY <1>1, <1>3
  <2>2. Len(chan') = 0 BY <2>1
  <2> QED BY <2>1, <2>2
<1>5. text' = text
  <2>1. text \in Seq(1..MaxLines) BY DEF StreamTyped, StreamTypeOK
  <2>2. Head(chan).delta = <<>> BY ChunkFacts
  <2> QED BY <1>1, <2>1, <2>2
<1>6. Deltas(row)' = Deltas(row) BY <1>1 DEF Deltas
<1>7. InOrder' BY <1>1, <1>3, <1>4, <1>5, <1>6 DEF InOrder
<1>8. ~InChan(Done)' BY <1>4 DEF InChan
<1>9. CASE result' = "error" BY <1>1, <1>3, <1>7, <1>8, <1>9 DEF Complete, Stopped
<1>10. CASE Head(chan) = Done /\ result' = "ok"
  <2>1. Stopped BY <1>1, <1>10 DEF Stopped, InChan
  <2>2. Finished' BY <1>1, <2>1 DEF Complete, Finished, Clean
  <2>3. \A i \in Deltas(row)' : Has(i)'
    <3> TAKE i \in Deltas(row)'
    <3>1. Has(i) BY <1>6, <2>1 DEF Complete
    <3>2. ~InChan(Delta(i))
      <4>1. DOMAIN chan = {1} BY <1>3 DEF StreamTyped
      <4>2. chan[1] # Delta(i) BY <1>1, <1>10, ChunkFacts
      <4> QED BY <4>1, <4>2 DEF InChan
    <3>3. InText(i) BY <1>3, <3>1, <3>2 DEF Has
    <3>4. InText(i)' BY <1>5, <3>3 DEF InText
    <3> QED BY <3>4 DEF Has
  <2> QED BY <1>1, <1>3, <1>4, <1>7, <2>2, <2>3 DEF Complete
<1> QED BY <1>9, <1>10

\* Any step that moves neither chunks nor runStream, and ends the call at most in an error.
LEMMA RestInv ==
  ASSUME InOrder, Complete, UNCHANGED <<wire, end, reader, row, out, chan, text>>,
         result' = result \/ result' = "error"
  PROVE  InOrder' /\ Complete'
<1>1. Deltas(row)' = Deltas(row) BY DEF Deltas
<1>2. InOrder' BY <1>1 DEF InOrder, Clean
<1>3. \A chunk : InChan(chunk)' <=> InChan(chunk) BY DEF InChan
<1>4. \A i : InText(i)' <=> InText(i) BY DEF InText
<1>5. \A i : Has(i)' <=> Has(i) BY <1>3, <1>4 DEF Has
<1>6. Stopped' => Stopped BY <1>3 DEF Stopped
<1>7. Finished' <=> Finished BY DEF Finished, Clean
<1>8. Clean(row)' <=> Clean(row) BY DEF Clean
<1>9. result' = "ok" => result = "ok" OBVIOUS
<1> QED BY <1>1, <1>2, <1>5, <1>6, <1>7, <1>8, <1>9 DEF Complete

LEMMA StreamStep == StreamInv /\ [StreamNext]_streamVars => StreamInv'
<1> SUFFICES ASSUME StreamInv, [StreamNext]_streamVars PROVE StreamInv' OBVIOUS
<1>1. StreamTyped /\ SinkAgrees /\ (model # "plain" => InOrder /\ Complete) BY DEF StreamInv
<1>2. CASE Produce
  <2>1. model # "plain" BY <1>1, <1>2, ProduceMoves
  <2>2. StreamTyped' /\ SinkAgrees' BY <1>1, <1>2, ProduceTyped
  <2>3. InOrder' /\ Complete' BY <1>1, <1>2, <2>1, ReadInv, SendInv DEF Produce
  <2> QED BY <2>2, <2>3 DEF StreamInv
<1>3. CASE Drain
  <2>1. StreamTyped' /\ SinkAgrees' BY <1>1, <1>3, DrainTyped
  <2>2. model' = model BY <1>3 DEF Drain, DrainCancelled, DrainChunk, DrainClosed, CallPlain, callVars
  <2>3. ASSUME model # "plain" PROVE InOrder' /\ Complete'
    <3>1. CASE DrainCancelled \/ DrainClosed
      <4>1. UNCHANGED <<wire, end, reader, row, out, chan, text>> /\ result' = "error"
        BY <3>1 DEF DrainCancelled, DrainClosed, Conclude, callVars
      <4> QED BY <1>1, <2>3, <4>1, RestInv
    <3>2. CASE DrainChunk
      <4>1. \/ \E i \in 1..MaxLines : Head(chan) = Delta(i) /\ result' = "none"
            \/ Head(chan) = Done /\ result' = "ok"
            \/ Head(chan) = Err /\ result' = "error"
        BY <1>1, <3>2, DrainIs
      <4> QED BY <1>1, <2>3, <3>2, <4>1, DeltaInv, EndInv
    <3> QED BY <1>3, <2>3, <3>1, <3>2 DEF Drain, CallPlain
  <2> QED BY <2>1, <2>2, <2>3 DEF StreamInv
<1>4. CASE Cancel \/ UNCHANGED streamVars
  <2>1. /\ UNCHANGED <<model, wire, end, reader, row, out, chan, text, result, sink>>
        /\ ctxDone' \in BOOLEAN
    BY <1>1, <1>4 DEF Cancel, streamVars, callVars, StreamTyped, StreamTypeOK
  <2>2. StreamTypeOK' BY <1>1, <2>1 DEF StreamTyped, StreamTypeOK
  <2>3. StreamTyped' BY <1>1, <2>1, <2>2 DEF StreamTyped
  <2>4. SinkAgrees' BY <1>1, <2>1, SinkSame
  <2>5. model # "plain" => InOrder' /\ Complete' BY <1>1, <2>1, RestInv
  <2> QED BY <2>1, <2>3, <2>4, <2>5 DEF StreamInv
<1> QED BY <1>2, <1>3, <1>4 DEF StreamNext

\* A finished response has been read up to its stop, and nothing in it is an error.
LEMMA FinishedIs ==
  ASSUME StreamTyped, Finished
  PROVE  /\ Spoken = 1..row
         /\ \A i \in 1..row : wire[i] \notin {"error", "bad"}
         /\ (\A i \in 1..Len(wire) : wire[i] \notin {"stop", "last"}) => end = "eof"
<1>1. row \in Nat /\ Len(wire) \in Nat /\ row <= Len(wire) BY Rows
<1>2. CASE row > 0 /\ wire[row] \in {"stop", "last"} /\ Clean(row - 1)
  <2>1. row \in 1..Len(wire) BY <1>1, <1>2
  <2>2. \A i \in 1..row : i \in 1..(row - 1) \/ i = row BY <1>1
  <2>3. \A i \in 1..Len(wire) : i < row => wire[i] \in {"delta", "skip"}
    <3>1. \A i \in 1..Len(wire) : i < row => i \in 1..(row - 1) BY <1>1
    <3> QED BY <1>2, <3>1 DEF Clean
  <2>4. \A i \in 1..Len(wire) : i \in Spoken <=> i <= row
    <3> TAKE i \in 1..Len(wire)
    <3>1. i \in Spoken => i <= row BY <1>2, <2>1 DEF Spoken
    <3>2. ASSUME i <= row PROVE i \in Spoken
      <4>1. \A j \in 1..Len(wire) : wire[j] \in {"stop", "last"} => ~(j < row) BY <2>3
      <4>2. \A j \in 1..Len(wire) : ~(j < row) => i <= j BY <1>1, <3>2
      <4> QED BY <4>1, <4>2 DEF Spoken
    <3> QED BY <3>1, <3>2
  <2>5. Spoken \subseteq 1..Len(wire) BY DEF Spoken
  <2>6. \A i \in 1..Len(wire) : i <= row <=> i \in 1..row BY <1>1
  <2>7. 1..row \subseteq 1..Len(wire) BY <1>1
  <2>8. Spoken = 1..row BY <2>4, <2>5, <2>6, <2>7
  <2>9. \A i \in 1..row : wire[i] \notin {"error", "bad"} BY <1>2, <2>2 DEF Clean
  <2> QED BY <1>2, <2>1, <2>8, <2>9
<1>3. CASE row = Len(wire) /\ end = "eof" /\ Clean(row)
  <2>1. \A i \in 1..Len(wire) : wire[i] \in {"delta", "skip"} BY <1>3 DEF Clean
  <2>2. Spoken = 1..Len(wire) BY <2>1 DEF Spoken
  <2> QED BY <1>3, <2>1, <2>2
<1> QED BY <1>2, <1>3 DEF Finished

LEMMA InvWhole == StreamInv => ResultIsWhole
<1> SUFFICES ASSUME StreamInv, result = "ok"
             PROVE  /\ Range(text) = {i \in Spoken : wire[i] \in {"delta", "last"}}
                    /\ \A p, q \in DOMAIN text : p < q => text[p] < text[q]
                    /\ \A i \in Spoken : wire[i] \notin {"error", "bad"}
                    /\ (\A i \in 1..Len(wire) : wire[i] \notin {"stop", "last"}) => end = "eof"
  BY DEF ResultIsWhole
<1>1. CASE model = "plain"
  <2>1. /\ \A i \in 1..Len(wire) : wire[i] = "delta"
        /\ end = "eof" /\ text = [i \in 1..Len(wire) |-> i]
    BY <1>1 DEF StreamInv, StreamTyped
  <2>2. Spoken = 1..Len(wire) BY <2>1 DEF Spoken
  <2>3. DOMAIN text = 1..Len(wire) /\ \A p \in 1..Len(wire) : text[p] = p BY <2>1
  <2>4. Range(text) = 1..Len(wire) BY <2>3 DEF Range
  <2>5. {i \in Spoken : wire[i] \in {"delta", "last"}} = 1..Len(wire) BY <2>1, <2>2
  <2>6. \A p, q \in DOMAIN text : p < q => text[p] < text[q] BY <2>3
  <2> QED BY <2>1, <2>2, <2>4, <2>5, <2>6
<1>2. CASE model # "plain"
  <2>1. StreamTyped /\ InOrder /\ Complete BY <1>2 DEF StreamInv
  <2>2. reader = "closed" /\ chan = <<>> /\ Stopped BY <2>1 DEF Complete, Stopped
  <2>3. Finished /\ \A i \in Deltas(row) : Has(i) BY <2>1, <2>2 DEF Complete
  <2>4. /\ Spoken = 1..row
        /\ \A i \in 1..row : wire[i] \notin {"error", "bad"}
        /\ (\A i \in 1..Len(wire) : wire[i] \notin {"stop", "last"}) => end = "eof"
    BY <2>1, <2>3, FinishedIs
  <2>5. \A i \in Deltas(row) : \E p \in DOMAIN text : text[p] = i
    <3>1. DOMAIN chan = {} BY <2>2
    <3> QED BY <2>2, <2>3, <3>1 DEF Has, InText, InChan
  <2>6. Range(text) = Deltas(row) BY <2>1, <2>5 DEF Range, InOrder
  <2>7. \A p, q \in DOMAIN text : p < q => text[p] < text[q] BY <2>1 DEF InOrder
  <2> QED BY <2>4, <2>6, <2>7 DEF Deltas
<1> QED BY <1>1, <1>2

THEOREM StreamAlways == StreamSpec => []StreamInv
<1>1. StreamInit => StreamInv BY StreamInitInv
<1>2. StreamInv /\ [StreamNext]_streamVars => StreamInv' BY StreamStep
<1> QED BY <1>1, <1>2, PTL DEF StreamSpec

\* The channel is never over its capacity, and every chunk in it, at the sink or about
\* to be sent is a delta, an end, or the whole text of a call without streaming.
THEOREM StreamTypes == StreamSpec => []StreamTypeOK
<1>1. StreamInv => StreamTypeOK BY DEF StreamInv, StreamTyped
<1> QED BY <1>1, StreamAlways, PTL

\* However the call ends, the sink is told once, last, and the same as the executor, and
\* the deltas it was given are the text (drainToSink): for any response and capacity.
THEOREM SinkToldTheSame == StreamSpec => []SinkAgrees
<1>1. StreamInv => SinkAgrees BY DEF StreamInv
<1> QED BY <1>1, StreamAlways, PTL

\* Whatever the interleaving of runStream and drainToSink, a result is every delta of the
\* response up to its stop, in order, and never that of a broken one: for any response.
THEOREM WholeResult == StreamSpec => []ResultIsWhole
<1>1. StreamInv => ResultIsWhole BY InvWhole
<1> QED BY <1>1, StreamAlways, PTL
==============================================================================
