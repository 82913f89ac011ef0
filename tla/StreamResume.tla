---------------------------- MODULE StreamResume ----------------------------
(***************************************************************************)
(* streamWithResume and drainStreamChunks of internal/sched/client.go: the *)
(* goroutine that reads a job's frames from MASS, resumes once when the    *)
(* stream breaks, and feeds the bounded channel a request handler reads.   *)
(*                                                                         *)
(* MASS keeps the job and its frames durably: they survive a broken        *)
(* stream, and StreamChunks(resume_seq) serves them from there on; for a   *)
(* finished job it may replay the terminal frame alone.  Frames are        *)
(* numbered as in JobStream.                                               *)
(***************************************************************************)
EXTENDS Naturals, Sequences

CONSTANTS
  Last,       \* number of the job's terminal frame
  ChanCap,    \* capacity of the channel (16 in the code)
  MayQuit     \* the handler may return before the channel is closed

ASSUME LastAssumption == Last \in Nat
ASSUME ChanCapAssumption == ChanCap \in Nat \ {0}
ASSUME MayQuitAssumption == MayQuit \in BOOLEAN

VARIABLES
  emitted,    \* frames 0..emitted-1 are with MASS
  cursor,     \* next frame the open stream serves
  at,         \* where the goroutine is
  resume,     \* resumeSeq
  next,       \* nextSeq
  hold,       \* the frame just received
  retried,    \* the one retry is used
  opens,      \* StreamChunks calls made
  out,        \* chunks sent into the channel so far
  taken,      \* how many of them the handler has received
  handler,    \* the handler reads, has seen the close, or has quit
  ctx         \* the request's context

vars == <<emitted, cursor, at, resume, next, hold, retried, opens, out, taken, handler, ctx>>
producer == <<at, resume, next, hold, retried, opens, out>>

Truncated == Last + 1
Chunk == 0..Truncated

Init ==
  /\ emitted = 0
  /\ cursor = 0
  /\ at = "open"
  /\ resume = 0
  /\ next = 0
  /\ hold = 0
  /\ retried = "no"
  /\ opens = 0
  /\ out = <<>>
  /\ taken = 0
  /\ handler = "reads"
  /\ ctx = "live"

------------------------------------------------------------------------------
(* MASS and the worker.                                                    *)

Emit ==
  /\ emitted <= Last
  /\ emitted' = emitted + 1
  /\ UNCHANGED <<cursor, at, resume, next, hold, retried, opens, out, taken, handler, ctx>>

------------------------------------------------------------------------------
(* drainStreamChunks.                                                      *)

OpenStream ==
  /\ at = "open"
  /\ ctx = "live"
  /\ \/ cursor' = resume
     \/ emitted > Last /\ cursor' = Last
  /\ next' = resume
  /\ opens' = opens + 1
  /\ at' = "recv"
  /\ UNCHANGED <<emitted, resume, hold, retried, out, taken, handler, ctx>>

\* The call fails: MASS is unreachable, or the context has ended.
OpenBreaks ==
  /\ at = "open"
  /\ next' = resume
  /\ opens' = opens + 1
  /\ at' = "broken"
  /\ UNCHANGED <<emitted, cursor, resume, hold, retried, out, taken, handler, ctx>>

\* Mutant: a resume asks for the last frame again.
NextSeqSame == cursor

\* frame.GetSeq() + 1, where a resume goes on.
NextSeq == cursor + 1

\* Mutant: a frame is served once the one after it is there.
AvailableLate == cursor + 1 < emitted

\* MASS has the frame the stream serves next.
Available == cursor < emitted

Recv ==
  /\ at = "recv"
  /\ Available
  /\ hold' = cursor
  /\ next' = NextSeq
  /\ cursor' = cursor + 1
  /\ at' = "send"
  /\ UNCHANGED <<emitted, resume, retried, opens, out, taken, handler, ctx>>

\* Mutant: the stream is opened with a context that is never cancelled.
ContextExpired == ctx = "expired"

ContextEnded == ctx # "live"

\* Recv fails: the connection is lost, the stream ends without a terminal
\* frame ...
RecvBreaks ==
  /\ at = "recv"
  /\ at' = "broken"
  /\ UNCHANGED <<emitted, cursor, resume, next, hold, retried, opens, out, taken, handler, ctx>>

\* ... or the context has ended.
RecvEnds ==
  /\ ContextEnded
  /\ RecvBreaks

Room == Len(out) - taken < ChanCap

\* out <- frame; a terminal frame ends the loop and closes the channel.
Send ==
  /\ at = "send"
  /\ Room
  /\ out' = Append(out, hold)
  /\ at' = IF hold = Last THEN "closed" ELSE "recv"
  /\ UNCHANGED <<emitted, cursor, resume, next, hold, retried, opens, taken, handler, ctx>>

------------------------------------------------------------------------------
(* streamWithResume, after a drain that ended without a terminal frame.    *)

\* The error, or the context's, is context.Canceled.
Cancelled == ctx = "cancelled"

MayRetry == retried = "no"

\* Mutant: the retry starts from the beginning.
ResumeFromStart == 0

ResumeFrom == next

\* An expired deadline is not a cancellation: it is retried and reported.
StopCancelled ==
  /\ at = "broken"
  /\ Cancelled
  /\ at' = "closed"
  /\ UNCHANGED <<emitted, cursor, resume, next, hold, retried, opens, out, taken, handler, ctx>>

Retry ==
  /\ at = "broken"
  /\ ~Cancelled
  /\ MayRetry
  /\ retried' = "yes"
  /\ resume' = ResumeFrom
  /\ at' = "open"
  /\ UNCHANGED <<emitted, cursor, next, hold, opens, out, taken, handler, ctx>>

\* The second break: the choice to report it is made before the send, which
\* may have to wait for room.
GiveUp ==
  /\ at = "broken"
  /\ ~Cancelled
  /\ ~MayRetry
  /\ at' = "report"
  /\ UNCHANGED <<emitted, cursor, resume, next, hold, retried, opens, out, taken, handler, ctx>>

Report ==
  /\ at = "report"
  /\ Room
  /\ out' = Append(out, Truncated)
  /\ at' = "closed"
  /\ UNCHANGED <<emitted, cursor, resume, next, hold, retried, opens, taken, handler, ctx>>

------------------------------------------------------------------------------
(* The request handler, which ranges over the channel, and its context.    *)

Take ==
  /\ handler = "reads"
  /\ taken < Len(out)
  /\ taken' = taken + 1
  /\ UNCHANGED <<emitted, cursor, handler, ctx, producer>>

SeeClose ==
  /\ handler = "reads"
  /\ taken = Len(out)
  /\ at = "closed"
  /\ handler' = "done"
  /\ UNCHANGED <<emitted, cursor, taken, ctx, producer>>

\* ChatStream returns when it cannot send to its client, or cannot decode;
\* returning cancels the context of its stream.
Quit ==
  /\ MayQuit
  /\ handler = "reads"
  /\ handler' = "quit"
  /\ ctx' = IF ctx = "live" THEN "cancelled" ELSE ctx
  /\ UNCHANGED <<emitted, cursor, taken, producer>>

\* The client goes away, or its deadline passes; a handler that writes to an
\* HTTP client does not notice and reads on.
EndContext ==
  /\ ctx = "live"
  /\ ctx' \in {"cancelled", "expired"}
  /\ UNCHANGED <<emitted, cursor, taken, handler, producer>>

------------------------------------------------------------------------------

Produce ==
  \/ OpenStream \/ OpenBreaks \/ Recv \/ Send
  \/ StopCancelled \/ Retry \/ GiveUp \/ Report

Next ==
  \/ Emit
  \/ Produce \/ RecvBreaks
  \/ Take \/ SeeClose \/ Quit \/ EndContext

Spec == Init /\ [][Next]_vars

\* The goroutines run; gRPC fails a receive whose context has ended.  That
\* the worker makes progress, or that a stream breaks, is not assumed.
Fairness ==
  /\ WF_vars(Produce)
  /\ WF_vars(RecvEnds)
  /\ WF_vars(Take \/ SeeClose)

FairSpec == Spec /\ Fairness

------------------------------------------------------------------------------
(* Properties.                                                             *)

TypeOK ==
  /\ emitted \in 0..Last + 1
  /\ cursor \in 0..Last + 1
  /\ at \in {"open", "recv", "send", "broken", "report", "closed"}
  /\ resume \in 0..Last + 1
  /\ next \in 0..Last + 1
  /\ hold \in 0..Last
  /\ retried \in {"no", "yes"}
  /\ opens \in Nat
  /\ out \in Seq(Chunk)
  /\ taken \in 0..Len(out)
  /\ handler \in {"reads", "done", "quit"}
  /\ ctx \in {"live", "cancelled", "expired"}

\* The chunks come in the job's order, none twice, none after a terminal
\* one and, but for a jump to the terminal frame of a finished job, none
\* missing, across a resume too.
InOrder ==
  \A i \in 1..Len(out) :
    /\ out[i] = (IF i = 1 THEN 0 ELSE out[i - 1] + 1) \/ out[i] \in {Last, Truncated}
    /\ i > 1 => out[i - 1] < Last

\* A closed channel means an outcome was sent or the request was cancelled:
\* a handler that sees neither an answer nor an error can blame its client.
ClosedExplained ==
  at = "closed" => ctx = "cancelled" \/ (out # <<>> /\ out[Len(out)] >= Last)

\* One break never surfaces: the made-up error is sent only after the
\* reconnect, and at most one reconnect is made.
OneReconnect ==
  /\ opens <= 2
  /\ \A i \in 1..Len(out) : out[i] = Truncated => opens = 2

\* What a handler may rely on, whatever breaks: the order of the chunks, a
\* cause for every close, and one break that it does not see.
StreamSound == InOrder /\ ClosedExplained /\ OneReconnect

\* What the client promises its callers.
Stream == INSTANCE JobStream WITH closed <- (at = "closed")
ImplementsJobStream == Stream!Spec

\* The channel closes when the context ends, as Schedule's comment says.
CancelCloses == (ctx # "live") ~> (at = "closed")

\* The channel closes when the context ends, though the job may hang, as
\* long as the handler reads on.
CancelClosesRead == (ctx # "live") ~> (at = "closed" \/ handler = "quit")
=============================================================================
