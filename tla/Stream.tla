------------------------------- MODULE Stream ------------------------------
(***************************************************************************)
(* ProcessStreamingResponse and StreamProcessor: the loop that reads one   *)
(* upstream SSE line at a time, and the state machine that holds back the  *)
(* first content chunks while the upstream "stutters", that is, while each *)
(* chunk repeats the text of the one before with something added or taken  *)
(* away.  Lines are identified by their position in `lines', so `buffer'   *)
(* and `out' refer to lines, not to copies of their text.                  *)
(*                                                                         *)
(* Every write is followed by a Flush, which hands what has been written   *)
(* to the connection; `delivered' counts the lines handed over.  In debug  *)
(* mode the RequestLogging middleware puts a writer without Flush in       *)
(* between, and net/http hands its buffers over when they are full and     *)
(* when the handler returns.                                               *)
(*                                                                         *)
(* StateRecovering is not modelled: only handleChunkError enters it, for   *)
(* ActionRetry, which no error type it raises is answered with.            *)
(***************************************************************************)
EXTENDS Naturals, Sequences

CONSTANTS
  Texts,          \* the texts delta.content may hold
  EmptyText,      \* the empty one
  Prefix,         \* <<a, b>> is in Prefix when a is a prefix of b
  MaxLines,       \* bound on the lines the upstream sends
  ClientContext,  \* TRUE when ctx is the request's, FALSE for Background
  DebugMode       \* Config.DebugMode

ASSUME EmptyTextAssumption == EmptyText \in Texts
ASSUME PrefixAssumption == Prefix \subseteq Texts \X Texts
ASSUME MaxLinesAssumption == MaxLines \in Nat
ASSUME ClientContextAssumption == ClientContext \in BOOLEAN
ASSUME DebugModeAssumption == DebugMode \in BOOLEAN

VARIABLES
  lines,       \* history: the lines read from the upstream
  processed,   \* history: how many of them the processor has dealt with
  pc,          \* loop: at the select; read: in ReadString; process: has a line
  state,       \* StreamState.Current
  buffer,      \* StreamState.Buffer: the line held back, 0 if none
  errorCount,  \* StreamState.ErrorCount
  out,         \* the lines written to the client, in order
  delivered,   \* how many of them have been handed to the connection
  result,      \* what ProcessStreamingResponse returned
  clientGone   \* the client has disconnected

vars == <<lines, processed, pc, state, buffer, errorCount, out, delivered, result, clientGone>>

-----------------------------------------------------------------------------
(* Lines. *)

\* A line carries delta.content; or data without it; or [DONE], ended by LF or
\* by CR LF; or data that is not JSON; or only white space; or anything else,
\* such as "event: ..." or a comment.
Line ==
  [kind: {"content"}, text: Texts]
  \cup [kind: {"bare", "done", "doneCR", "garbage", "blank", "other"}, text: {EmptyText}]

\* ChunkParser.Parse: the ChunkType of a line.  Only "\n" is trimmed from the
\* data, so [DONE] ended by CR LF is neither [DONE] nor JSON.
Parse(line) ==
  CASE line.kind = "blank" -> "Empty"
    [] line.kind = "other" -> "Unknown"
    [] line.kind = "done" -> "Done"
    [] line.kind \in {"doneCR", "garbage"} -> "Malformed"
    [] line.kind \in {"content", "bare"} -> "Data"

HasContent(line) == line.kind = "content"

Received == 1..Len(lines)
Processed == 1..processed
Content(i) == HasContent(lines[i])
Type(i) == Parse(lines[i])

\* The line being processed.
Current == Len(lines)

\* isStillStuttering: one text is a prefix of the other.
IsStillStuttering(b, i) ==
  \/ <<lines[b].text, lines[i].text>> \in Prefix
  \/ <<lines[i].text, lines[b].text>> \in Prefix

-----------------------------------------------------------------------------
States == {"Initial", "Stuttering", "NormalFlow", "Terminating"}
Results == {"none", "ok", "error", "canceled"}

TypeOK ==
  /\ lines \in Seq(Line)
  /\ Len(lines) <= MaxLines
  /\ processed \in 0..Len(lines)
  /\ pc \in {"loop", "read", "process", "done"}
  /\ state \in States
  /\ buffer \in Received \cup {0}
  /\ errorCount \in Nat
  /\ out \in Seq(Received)
  /\ delivered \in 0..Len(out)
  /\ result \in Results
  /\ clientGone \in BOOLEAN

Init ==
  /\ lines = << >>
  /\ processed = 0
  /\ pc = "loop"
  /\ state = "Initial"
  /\ buffer = 0
  /\ errorCount = 0
  /\ out = << >>
  /\ delivered = 0
  /\ result = "none"
  /\ clientGone = FALSE

\* ctx.Done() is closed.
Cancelled == ClientContext /\ clientGone

\* The function returns, its handler after it, and net/http hands over what
\* is left in its buffers.
Return(res) ==
  /\ pc' = "done"
  /\ result' = res
  /\ delivered' = Len(out')

-----------------------------------------------------------------------------
(* The loop of ProcessStreamingResponse. *)

\* Mutant: the loop goes on after [DONE].
ContinueAlways == pc' = "loop" /\ UNCHANGED result

\* After ProcessLine: `break' when the processor has terminated.
Continue ==
  \/ state' = "Terminating" /\ Return("ok")
  \/ state' # "Terminating" /\ pc' = "loop" /\ UNCHANGED result

\* The select at the head of the loop.
CheckContext ==
  /\ pc = "loop"
  /\ UNCHANGED <<lines, processed, state, buffer, errorCount, out, clientGone>>
  /\ \/ Cancelled /\ Return("canceled")
     \/ ~Cancelled /\ pc' = "read" /\ UNCHANGED <<delivered, result>>

\* ReadString returns a whole line.
ReadLine ==
  /\ pc = "read"
  /\ Len(lines) < MaxLines
  /\ \E line \in Line : lines' = Append(lines, line)
  /\ pc' = "process"
  /\ UNCHANGED <<processed, state, buffer, errorCount, out, delivered, result, clientGone>>

\* ReadString returns io.EOF: the loop ends, and what ReadString returned of
\* an unterminated last line, if anything, is not looked at.
ReadEOF ==
  /\ pc = "read"
  /\ \/ UNCHANGED lines
     \/ Len(lines) < MaxLines /\ \E line \in Line : lines' = Append(lines, line)
  /\ UNCHANGED <<processed, state, buffer, errorCount, out, clientGone>>
  /\ Return("ok")

\* ReadString fails: connection lost, or the timeout of the HTTP client.
ReadFails ==
  /\ pc = "read"
  /\ UNCHANGED <<lines, processed, state, buffer, errorCount, out, clientGone>>
  /\ Return("error")

-----------------------------------------------------------------------------
(* StreamProcessor. *)

Goto(s) == state' = s

\* Mutant: an index off by one.
ForwardPrevious(i) == out' = Append(out, i - 1) /\ UNCHANGED <<buffer, delivered>>

\* Flush, of the wrapper the stream processor writes through.
Flush ==
  \/ ~DebugMode /\ delivered' = Len(out')
  \/ DebugMode /\ delivered' \in delivered..Len(out')

\* Mutant: nothing is flushed.
ForwardUnflushed(i) ==
  /\ out' = Append(out, i)
  /\ delivered' \in delivered..Len(out')
  /\ UNCHANGED buffer

\* forwardChunk.
Forward(i) ==
  /\ out' = Append(out, i)
  /\ Flush
  /\ UNCHANGED buffer

\* Mutants: the flush clears the buffer without writing it; it is forgotten.
FlushLost(i) == out' = Append(out, i) /\ Flush /\ buffer' = 0
FlushForgotten(i) == Forward(i)

\* flushBufferedContent followed by forwardChunk.
FlushAndForward(i) ==
  /\ out' = IF buffer = 0 THEN Append(out, i) ELSE Append(Append(out, buffer), i)
  /\ Flush
  /\ buffer' = 0

\* The action each of the default strategies answers with; a network timeout,
\* which would be retried, is never raised.
Strategy == [MalformedJSON |-> "Skip", InvalidChunk |-> "Continue", ParsingFailure |-> "Skip"]

\* Mutant: maxErrors is looked at, and ends the stream.
HandleChunkErrorLimited(i) ==
  /\ errorCount' = errorCount + 1
  /\ state' = IF errorCount = 2 THEN "Terminating" ELSE state
  /\ UNCHANGED <<buffer, out, delivered>>

\* handleChunkError.
HandleChunkError(i) ==
  /\ Strategy[IF Type(i) = "Malformed" THEN "MalformedJSON" ELSE "ParsingFailure"]
       \in {"Skip", "Continue"}
  /\ errorCount' = errorCount + 1
  /\ UNCHANGED <<state, buffer, out, delivered>>

Skip == UNCHANGED <<state, buffer, errorCount, out, delivered>>

\* ProcessLine finds the context done; errors.Is(err, context.Canceled) makes
\* ProcessStreamingResponse return nil.
ProcessCancelled ==
  /\ pc = "process"
  /\ Cancelled
  /\ Goto("Terminating")
  /\ UNCHANGED <<lines, processed, buffer, errorCount, out, clientGone>>
  /\ Return("ok")

HandleInitialChunk(i) ==
  /\ state = "Initial"
  /\ \/ Type(i) = "Empty" /\ Skip
     \/ /\ Type(i) = "Data" /\ Content(i)
        /\ buffer' = i
        /\ Goto("Stuttering")
        /\ UNCHANGED <<errorCount, out, delivered>>
     \/ /\ Type(i) = "Data" /\ ~Content(i)
        /\ Forward(i)
        /\ Goto("NormalFlow")
        /\ UNCHANGED errorCount
     \/ /\ Type(i) = "Done"
        /\ Forward(i)
        /\ Goto("Terminating")
        /\ UNCHANGED errorCount
     \/ Type(i) \in {"Malformed", "Unknown"} /\ HandleChunkError(i)

\* Mutant: resolved stuttering stays in the stuttering state.
HandleStutteringChunkLoops(i) ==
  /\ state = "Stuttering"
  /\ \/ Type(i) = "Empty" /\ Skip
     \/ /\ Type(i) = "Data" /\ ~Content(i)
        /\ Forward(i)
        /\ UNCHANGED <<state, errorCount>>
     \/ /\ Type(i) = "Data" /\ Content(i)
        /\ \/ buffer = 0 \/ IsStillStuttering(buffer, i)
        /\ buffer' = i
        /\ UNCHANGED <<state, errorCount, out, delivered>>
     \/ /\ Type(i) = "Data" /\ Content(i)
        /\ buffer # 0 /\ ~IsStillStuttering(buffer, i)
        /\ FlushAndForward(i)
        /\ UNCHANGED <<state, errorCount>>
     \/ /\ Type(i) = "Done"
        /\ FlushAndForward(i)
        /\ Goto("Terminating")
        /\ UNCHANGED errorCount
     \/ Type(i) \in {"Malformed", "Unknown"} /\ HandleChunkError(i)

\* Data without content is forwarded past the buffered chunk.
HandleStutteringChunk(i) ==
  /\ state = "Stuttering"
  /\ \/ Type(i) = "Empty" /\ Skip
     \/ /\ Type(i) = "Data" /\ ~Content(i)
        /\ Forward(i)
        /\ UNCHANGED <<state, errorCount>>
     \/ /\ Type(i) = "Data" /\ Content(i)
        /\ IsStillStuttering(buffer, i)
        /\ buffer' = i
        /\ UNCHANGED <<state, errorCount, out, delivered>>
     \/ /\ Type(i) = "Data" /\ Content(i)
        /\ ~IsStillStuttering(buffer, i)
        /\ FlushAndForward(i)
        /\ Goto("NormalFlow")
        /\ UNCHANGED errorCount
     \/ /\ Type(i) = "Done"
        /\ FlushAndForward(i)
        /\ Goto("Terminating")
        /\ UNCHANGED errorCount
     \/ Type(i) \in {"Malformed", "Unknown"} /\ HandleChunkError(i)

\* Mutant: a chunk is written once as data and once more as a line.
HandleNormalChunkTwice(i) ==
  /\ state = "NormalFlow"
  /\ \/ Type(i) = "Empty" /\ Skip
     \/ /\ Type(i) \in {"Data", "Unknown"}
        /\ out' = Append(Append(out, i), i)
        /\ Flush
        /\ UNCHANGED <<state, buffer, errorCount>>
     \/ /\ Type(i) = "Done"
        /\ Forward(i)
        /\ Goto("Terminating")
        /\ UNCHANGED errorCount
     \/ Type(i) = "Malformed" /\ HandleChunkError(i)

HandleNormalChunk(i) ==
  /\ state = "NormalFlow"
  /\ \/ Type(i) = "Empty" /\ Skip
     \/ Type(i) \in {"Data", "Unknown"} /\ Forward(i) /\ UNCHANGED <<state, errorCount>>
     \/ /\ Type(i) = "Done"
        /\ Forward(i)
        /\ Goto("Terminating")
        /\ UNCHANGED errorCount
     \/ Type(i) = "Malformed" /\ HandleChunkError(i)

ProcessLine ==
  /\ pc = "process"
  /\ ~Cancelled
  /\ \/ HandleInitialChunk(Current)
     \/ HandleStutteringChunk(Current)
     \/ HandleNormalChunk(Current)
  /\ Continue
  /\ processed' = Current
  /\ UNCHANGED <<lines, clientGone>>

-----------------------------------------------------------------------------
Disconnect ==
  /\ ~clientGone
  /\ clientGone' = TRUE
  /\ UNCHANGED <<lines, processed, pc, state, buffer, errorCount, out, delivered,
                 result>>

\* ProcessStreamingResponse has returned and nothing is left to do.
Returned == pc = "done" /\ clientGone /\ UNCHANGED vars

Upstream == ReadLine \/ ReadEOF \/ ReadFails
Code == CheckContext \/ ProcessCancelled \/ ProcessLine

Next == Upstream \/ Code \/ Disconnect \/ Returned

Spec == Init /\ [][Next]_vars

-----------------------------------------------------------------------------
(* Properties. *)

Sent(i) == \E k \in DOMAIN out : out[k] = i

\* No content chunk is written twice, and content is written in the order it
\* came in, whatever was held back and flushed later (processor.go:643-650).
ContentInOrder ==
  \A j, k \in DOMAIN out :
    j < k /\ Content(out[j]) /\ Content(out[k]) => out[j] < out[k]

\* The next content chunk took the place of i in the buffer: one of the two
\* texts begins with the other, and either may be the shorter.
Superseded(i) ==
  \E j \in Processed :
    /\ i < j /\ Content(j)
    /\ \A k \in Processed : i < k /\ k < j => ~Content(k)
    /\ IsStillStuttering(i, j)

\* i is held back, no content has come after it, and the client has received
\* neither content nor [DONE].
HeldBack(i) ==
  /\ i = buffer
  /\ \A k \in Processed : i < k => ~Content(k)
  /\ \A k \in DOMAIN out : ~Content(out[k]) /\ Type(out[k]) # "Done"

\* Which content the client does not receive: a chunk that stutters with the
\* content chunk after it (processor.go:519-524); the one chunk held back,
\* which is lost when the upstream ends or fails before anything resolves the
\* stuttering (streaming.go:61-68); the line about to be looked at, which is
\* lost when it is unterminated or the context done.  Once [DONE] has been
\* written, only chunks that stuttered are missing.
ContentAccountedFor ==
  \A i \in Received : Content(i) /\ ~Sent(i) =>
    \/ Superseded(i)
    \/ HeldBack(i)
    \/ i \notin Processed /\ i = Len(lines)

\* Holding back is a matter of the beginning only: once a content chunk has
\* been written, every later one is written too (processor.go:545-560).
NothingDroppedOnceResolved ==
  \A i, j \in Processed :
    Content(i) /\ Content(j) /\ i < j /\ Sent(i) => Sent(j)

\* [DONE] is written at most once and nothing follows it, the chunk held back
\* when it arrived included (processor.go:531-535).
DoneComesLast ==
  \A k \in DOMAIN out : Type(out[k]) = "Done" => k = Len(out) /\ buffer = 0

\* What has been written reaches the client before the code waits for the
\* upstream again, however long that stays silent: "Use streaming responses
\* for real-time chat applications" (README.md:363), and the purpose of the
\* Flush after every write (processor.go:646, 665).
DeliveredWhileWaiting == pc = "read" => delivered = Len(out)

\* The processor terminates for [DONE] or a client that has gone, and for
\* nothing else: however many lines are malformed or unknown, in whichever
\* state, they never end the stream (processor.go:383-408, 592-605).
TerminatesForCause ==
  state = "Terminating" =>
    Cancelled \/ (out # << >> /\ Type(out[Len(out)]) = "Done")

\* Once the processor has seen [DONE] the relay is over, even if the upstream
\* keeps the connection open: the function has returned without reading again
\* (streaming.go:79-81), [DONE] is the last thing written, and everything has
\* reached the client.
DoneEndsRelay ==
  \A i \in Processed : Type(i) = "Done" =>
    pc = "done" /\ out # << >> /\ out[Len(out)] = i /\ delivered = Len(out)

\* "Client disconnected during streaming, stopping response"
\* (processor.go:448): no line that arrives after the client has gone is
\* still written for it.
StopsForGoneClient == [][clientGone /\ pc = "process" => out' = out]_vars
=============================================================================
