-------------------------------- MODULE Stream --------------------------------
(***************************************************************************)
(* A model call under a stream sink (stream.go, llm/*/stream.go): the      *)
(* provider's goroutine runStream reads the response line by line and puts *)
(* chunks on a bounded channel; drainToSink, in the goroutine of the task, *)
(* takes them off, forwards them to the sink and adds up the text.  The    *)
(* two end separately, and the context may be cancelled between any steps. *)
(*                                                                         *)
(* A response is external: a sequence of lines and a way to end.  The text *)
(* of a delta is its position in the response.                             *)
(***************************************************************************)
EXTENDS Naturals, Sequences, SequencesExt

CONSTANTS
  Buffer,   \* DefaultStreamChanBuffer
  MaxLines  \* bound on the lines of a response

ASSUME BoundsAssumption == Buffer \in Nat \ {0} /\ MaxLines \in Nat

\* What a line means to its provider.  "skip": empty, a comment, another event, an
\* empty delta; "stop": the stop alone; "last": a delta and the stop in one line, which
\* only Ollama sends; "error": an API error; "bad": no JSON.
Line == {"delta", "skip", "stop", "last", "error", "bad"}

\* How the body ends: "eof" cleanly, "broken" by a read error or a time-out,
\* "tooLarge" at MaxProviderResponseBytes.
End == {"eof", "broken", "tooLarge"}

Provider == {"openai", "anthropic", "ollama"}
Speaks(p) == IF p = "ollama" THEN Line ELSE Line \ {"last"}

\* "plain": an LLM that is no StreamingLLM.
Model == Provider \cup {"plain"}

VARIABLES
  model,    \* the LLM
  wire,     \* the lines of the response
  end,      \* how they end
  ctxDone,  \* the context of the call is cancelled
  reader,   \* runStream: "request", "read", "send", "closed", or "off"
  row,      \* lines read
  out,      \* the chunk that runStream sends
  chan,     \* the chunks in the channel
  text,     \* drainToSink: the text so far
  result,   \* what the call returned, "none" while it runs
  sink      \* the chunks given to the sink

streamVars == <<model, wire, end, ctxDone, reader, row, out, chan, text, result, sink>>
callVars == <<model, wire, end>>

Delta(i) == [delta |-> <<i>>, done |-> FALSE, err |-> FALSE]
Done == [delta |-> <<>>, done |-> TRUE, err |-> FALSE]
Err == [delta |-> <<>>, done |-> FALSE, err |-> TRUE]
Terminal(chunk) == chunk.done \/ chunk.err

StreamInit ==
  /\ model \in Model
  /\ \E n \in 0..MaxLines : wire \in [1..n -> IF model = "plain" THEN {"delta"} ELSE Speaks(model)]
  /\ end \in IF model = "plain" THEN {"eof"} ELSE End
  /\ ctxDone = FALSE
  /\ reader = IF model = "plain" THEN "off" ELSE "request"
  /\ row = 0
  /\ out = Err
  /\ chan = <<>>
  /\ text = <<>> /\ result = "none" /\ sink = <<>>

------------------------------------------------------------------------------
(* runStream. *)

Sending(chunk) == reader' = "send" /\ out' = chunk
Closing == reader' = "closed" /\ UNCHANGED out

\* The key, the request, the response's status: all is well or an error is sent.
Request ==
  /\ reader = "request"
  /\ \/ reader' = "read" /\ UNCHANGED out
     \/ Sending(Err)
  /\ UNCHANGED <<callVars, ctxDone, row, chan, text, result, sink>>

\* Some delta has been read: textLen > 0.
SomeText == \E i \in 1..row : wire[i] \in {"delta", "last"}

\* One line.
ReadLine ==
  /\ reader = "read" /\ row < Len(wire)
  /\ row' = row + 1
  /\ CASE wire[row + 1] = "skip" -> UNCHANGED <<reader, out>>
       [] wire[row + 1] \in {"delta", "last"} -> Sending(Delta(row + 1))
       [] wire[row + 1] = "stop" -> Sending(Done)
       [] wire[row + 1] \in {"error", "bad"} -> Sending(Err)
  /\ UNCHANGED <<callVars, ctxDone, chan, text, result, sink>>

\* With a bug: an error of the scanner is taken for the end.
ReadEndIgnoresError ==
  /\ reader = "read"
  /\ row = Len(wire) \/ end = "tooLarge"
  /\ IF SomeText THEN Sending(Done) ELSE Closing
  /\ UNCHANGED <<callVars, ctxDone, row, chan, text, result, sink>>

\* The end of the body.  A clean end after some text is taken for the stop; the
\* scanner reads ahead, so the size limit may cut off lines that were in time.
ReadEnd ==
  /\ reader = "read"
  /\ \/ /\ row = Len(wire) /\ end = "eof"
        /\ IF SomeText THEN Sending(Done) ELSE Closing
     \/ /\ row = Len(wire) /\ end = "broken"
        /\ IF ctxDone THEN Closing ELSE Sending(Err)
     \/ /\ end = "tooLarge"
        /\ Sending(Err)
  /\ UNCHANGED <<callVars, ctxDone, row, chan, text, result, sink>>

\* A read fails because the context is cancelled.
ReadCancelled ==
  /\ reader \in {"request", "read"} /\ ctxDone
  /\ Closing
  /\ UNCHANGED <<callVars, ctxDone, row, chan, text, result, sink>>

\* After a chunk is sent: another one in the same line, the next line, or the end.
AfterSend ==
  IF Terminal(out) THEN Closing
  ELSE IF wire[row] = "last" THEN Sending(Done)
  ELSE reader' = "read" /\ UNCHANGED out

\* With a bug: a send that waits for room alone.
SendChunkBlocks ==
  /\ reader = "send"
  /\ Len(chan) < Buffer
  /\ chan' = Append(chan, out)
  /\ AfterSend
  /\ UNCHANGED <<callVars, ctxDone, row, text, result, sink>>

\* The select between the channel and the context; if both are ready, either.
SendChunk ==
  /\ reader = "send"
  /\ \/ /\ Len(chan) < Buffer
        /\ chan' = Append(chan, out)
        /\ AfterSend
     \/ /\ ctxDone
        /\ Closing
        /\ UNCHANGED chan
  /\ UNCHANGED <<callVars, ctxDone, row, text, result, sink>>

------------------------------------------------------------------------------
(* drainToSink and CallOrStream. *)

Conclude(res, chunk) == result' = res /\ sink' = Append(sink, chunk)

\* The select takes the context's case.
DrainCancelled ==
  /\ model # "plain" /\ result = "none" /\ ctxDone
  /\ Conclude("error", Err)
  /\ UNCHANGED <<callVars, ctxDone, reader, row, out, chan, text>>

\* It takes a chunk off the channel, which goes to the sink and may end the call.
DrainChunk ==
  /\ model # "plain" /\ result = "none" /\ chan # <<>>
  /\ LET chunk == Head(chan) IN
     /\ text' = text \o chunk.delta
     /\ sink' = Append(sink, chunk)
     /\ result' = CASE chunk.err -> "error" [] chunk.done -> "ok" [] OTHER -> "none"
  /\ chan' = Tail(chan)
  /\ UNCHANGED <<callVars, ctxDone, reader, row, out>>

\* With a bug: the sink is not told.
DrainClosedSilently ==
  /\ result = "none" /\ chan = <<>> /\ reader = "closed"
  /\ result' = "error"
  /\ UNCHANGED <<callVars, ctxDone, reader, row, out, chan, text, sink>>

\* The channel is closed without a terminal chunk: ErrStreamIncomplete or the
\* context's error.
DrainClosed ==
  /\ result = "none" /\ chan = <<>> /\ reader = "closed"
  /\ Conclude("error", Err)
  /\ UNCHANGED <<callVars, ctxDone, reader, row, out, chan, text>>

\* Without streaming, Call: one chunk with the whole text, or an error.
CallPlain ==
  /\ model = "plain" /\ result = "none"
  /\ \/ /\ text' = [i \in 1..Len(wire) |-> i]
        /\ Conclude("ok", [Done EXCEPT !.delta = text'])
     \/ /\ Conclude("error", Err)
        /\ UNCHANGED text
  /\ UNCHANGED <<callVars, ctxDone, reader, row, out, chan>>

------------------------------------------------------------------------------
Cancel ==
  /\ ~ctxDone
  /\ ctxDone' = TRUE
  /\ UNCHANGED <<callVars, reader, row, out, chan, text, result, sink>>

Produce == Request \/ ReadLine \/ ReadEnd \/ ReadCancelled \/ SendChunk
Drain == DrainCancelled \/ DrainChunk \/ DrainClosed \/ CallPlain

StreamNext == Produce \/ Drain \/ Cancel

StreamSpec == StreamInit /\ [][StreamNext]_streamVars

\* A read returns at the latest with the time-out of the provider's HTTP client.
StreamFairSpec == StreamSpec /\ WF_streamVars(Produce) /\ WF_streamVars(Drain)

------------------------------------------------------------------------------
(* Properties. *)

Chunk == {Done, Err} \cup {Delta(i) : i \in 1..MaxLines}
         \cup {[Done EXCEPT !.delta = [i \in 1..n |-> i]] : n \in 0..MaxLines}

\* The types of the two goroutines' states; the channel is never over its capacity.
StreamTypeOK ==
  /\ model \in Model /\ end \in End
  /\ wire \in Seq(Line) /\ row \in 0..Len(wire)
  /\ ctxDone \in BOOLEAN
  /\ reader \in {"off", "request", "read", "send", "closed"}
  /\ out \in Chunk
  /\ chan \in Seq(Chunk) /\ Len(chan) <= Buffer
  /\ text \in Seq(1..MaxLines)
  /\ result \in {"none", "ok", "error"}
  /\ sink \in Seq(Chunk)

\* However the call ends, cancelled, broken, incomplete or well, the sink is told
\* once, last, and the same the executor is told: Done for a result, Err for an
\* error; and the deltas it was given are the text that is returned.
SinkAgrees ==
  /\ FlattenSeq([i \in 1..Len(sink) |-> sink[i].delta]) = text
  /\ \A i \in 1..Len(sink) : Terminal(sink[i]) <=> result # "none" /\ i = Len(sink)
  /\ result # "none" => sink # <<>> /\ (sink[Len(sink)].done <=> result = "ok")

\* The lines before the one that stops the response.
Spoken ==
  LET stops == {i \in 1..Len(wire) : wire[i] \in {"stop", "last"}}
  IN {i \in 1..Len(wire) : \A j \in stops : i <= j}

\* A result is the whole response: every delta up to its stop, in order, whatever
\* the interleaving of the two goroutines; and an error in the response, a broken
\* one, or one over the size limit is never taken for a result.
ResultIsWhole ==
  result = "ok" =>
    /\ Range(text) = {i \in Spoken : wire[i] \in {"delta", "last"}}
    /\ \A p, q \in DOMAIN text : p < q => text[p] < text[q]
    /\ \A i \in Spoken : wire[i] \notin {"error", "bad"}
    /\ (\A i \in 1..Len(wire) : wire[i] \notin {"stop", "last"}) => end = "eof"

\* Both goroutines end: drainToSink, and the provider's also when nobody takes its
\* chunks any more (stream.go:66 "not block forever if the caller stops receiving").
BothEnd == <>(result # "none" /\ reader \in {"closed", "off"})
==============================================================================
