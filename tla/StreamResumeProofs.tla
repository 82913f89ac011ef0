------------------------- MODULE StreamResumeProofs -------------------------
(***************************************************************************)
(* Proofs about StreamResume and the handlers of JobRequest, for every job *)
(* length and channel capacity: the safety invariants MCStreamResume and   *)
(* MCJobRequest check on small instances, and that the resuming reader     *)
(* implements JobStream.                                                   *)
(***************************************************************************)
EXTENDS JobRequest, TLAPS

Seen == Stream!Expected(out)
Draining == {"open", "recv", "broken", "report"}

\* Before and between frames everything received has been sent on, and the
\* next frame wanted is the one after it.
Position ==
  /\ at \in Draining => next = Seen /\ next <= Last
  /\ at = "open" => resume = next
  /\ at = "recv" => cursor = next \/ cursor = Last
  /\ at = "send" => (hold = Seen \/ hold = Last) /\ next = hold + 1
                    /\ cursor = next /\ Seen <= Last

\* The number of StreamChunks calls is told by whether the retry is used.
Calls ==
  /\ at = "open" /\ retried = "no" => opens = 0
  /\ at = "open" /\ retried = "yes" => opens = 1
  /\ at # "open" /\ retried = "no" => opens = 1
  /\ at # "open" /\ retried = "yes" => opens = 2
  /\ at = "report" => retried = "yes"

IInv == TypeOK /\ Position /\ Calls /\ InOrder /\ ClosedExplained /\ OneReconnect

------------------------------------------------------------------------------
(* The chunks sent so far.                                                 *)

USE LastAssumption, ChanCapAssumption

\* What a step of the producer does to a sequence of chunks it extends.
LEMMA AppendChunk ==
  ASSUME NEW s \in Seq(Chunk), NEW c \in Chunk
  PROVE  /\ Append(s, c) \in Seq(Chunk)
         /\ Len(Append(s, c)) = Len(s) + 1
         /\ Append(s, c)[Len(s) + 1] = c
         /\ \A i \in 1..Len(s) : Append(s, c)[i] = s[i]
         /\ Append(s, c) # <<>>
OBVIOUS

LEMMA AppendedChunk ==
  ASSUME NEW s \in Seq(Chunk), NEW c \in Chunk, NEW t, t = Append(s, c)
  PROVE  \A i \in 1..Len(t) : (t[i] = s[i] /\ i \in 1..Len(s)) \/ t[i] = c
<1>1. /\ Len(s) \in Nat /\ Len(t) = Len(s) + 1 /\ t[Len(s) + 1] = c
      /\ \A i \in 1..Len(s) : t[i] = s[i]
  BY AppendChunk
<1>2. QED
  BY <1>1

\* Seen is a number, and past it lies every chunk before the last.
LEMMA SeenNat ==
  ASSUME TypeOK
  PROVE  Seen \in Nat
BY DEF Seen, Stream!Expected, TypeOK, Chunk, Truncated

\* InOrder survives a chunk that may follow.
LEMMA InOrderExtends ==
  ASSUME TypeOK, InOrder, NEW c \in Chunk, Seen <= Last,
         c = Seen \/ c \in {Last, Truncated}, out' = Append(out, c)
  PROVE  InOrder'
<1>1. /\ out' \in Seq(Chunk)
      /\ Len(out') = Len(out) + 1
      /\ out'[Len(out) + 1] = c
      /\ \A i \in 1..Len(out) : out'[i] = out[i]
  BY AppendChunk DEF TypeOK
<1>2. SUFFICES ASSUME NEW i \in 1..Len(out')
               PROVE  /\ \/ out'[i] = (IF i = 1 THEN 0 ELSE out'[i - 1] + 1)
                         \/ out'[i] \in {Last, Truncated}
                      /\ i > 1 => out'[i - 1] < Last
  BY DEF InOrder, Truncated
<1>3. CASE i \in 1..Len(out)
  <2>1. i > 1 => out'[i - 1] = out[i - 1]
    BY <1>1, <1>3 DEF TypeOK
  <2>2. out'[i] = out[i]
    BY <1>1, <1>3
  <2>3. QED
    BY <2>1, <2>2, <1>3 DEF InOrder
<1>4. CASE i = Len(out) + 1 /\ out = <<>>
  BY <1>1, <1>4 DEF Seen, Stream!Expected
<1>5. CASE i = Len(out) + 1 /\ out # <<>>
  <2>1. Len(out) \in Nat /\ Len(out) >= 1
    BY <1>5 DEF TypeOK
  <2>2. Seen = out[Len(out)] + 1 /\ out[Len(out)] \in Nat
    BY <1>5, <2>1 DEF Seen, Stream!Expected, TypeOK, Chunk, Truncated
  <2>3. out'[i - 1] = out[Len(out)]
    BY <1>1, <1>5, <2>1
  <2>4. QED
    BY <1>1, <1>5, <2>1, <2>2, <2>3
<1>6. QED
  BY <1>1, <1>2, <1>3, <1>4, <1>5 DEF TypeOK

\* After a chunk the one wanted next has the following number.
LEMMA SeenExtends ==
  ASSUME TypeOK, NEW c \in Chunk, out' = Append(out, c)
  PROVE  Seen' = c + 1 /\ out'[Len(out')] = c /\ out' # <<>>
<1>1. out' \in Seq(Chunk) /\ Len(out') = Len(out) + 1 /\ out'[Len(out) + 1] = c /\ out' # <<>>
  BY AppendChunk DEF TypeOK
<1>2. QED
  BY <1>1 DEF Seen, Stream!Expected

------------------------------------------------------------------------------
(* The inductive invariant.                                                *)

LEMMA InitIInv == Init => IInv
BY DEF Init, IInv, TypeOK, Position, Calls, InOrder, ClosedExplained, OneReconnect,
       Seen, Stream!Expected, Draining, Chunk, Truncated

LEMMA NextIInv == IInv /\ [Next]_vars => IInv'
<1> SUFFICES ASSUME IInv, [Next]_vars
             PROVE  IInv'
  OBVIOUS
<1> USE DEF IInv, Draining
<1>1. CASE Emit
  BY <1>1, SeenNat DEF Emit, TypeOK, Position, Calls, InOrder, ClosedExplained, OneReconnect,
       Seen, Stream!Expected, producer, NextSeq, Available, Cancelled, MayRetry, ResumeFrom
<1>2. CASE OpenStream
  BY <1>2, SeenNat DEF OpenStream, TypeOK, Position, Calls, InOrder, ClosedExplained, OneReconnect,
       Seen, Stream!Expected, producer, NextSeq, Available, Cancelled, MayRetry, ResumeFrom
<1>3. CASE OpenBreaks
  BY <1>3, SeenNat DEF OpenBreaks, TypeOK, Position, Calls, InOrder, ClosedExplained, OneReconnect,
       Seen, Stream!Expected, producer, NextSeq, Available, Cancelled, MayRetry, ResumeFrom
<1>4. CASE Recv
  BY <1>4, SeenNat DEF Recv, TypeOK, Position, Calls, InOrder, ClosedExplained, OneReconnect,
       Seen, Stream!Expected, producer, NextSeq, Available, Cancelled, MayRetry, ResumeFrom
<1>5. CASE RecvBreaks
  BY <1>5, SeenNat DEF RecvBreaks, TypeOK, Position, Calls, InOrder, ClosedExplained, OneReconnect,
       Seen, Stream!Expected, producer, NextSeq, Available, Cancelled, MayRetry, ResumeFrom
<1>6. CASE Send
  <2>1. hold \in Chunk /\ out' = Append(out, hold)
    BY <1>6 DEF Send, TypeOK, Chunk, Truncated
  <2>2. Seen <= Last /\ (hold = Seen \/ hold \in {Last, Truncated})
    BY <1>6 DEF Send, Position
  <2>3. out' \in Seq(Chunk) /\ Len(out') = Len(out) + 1
    BY <2>1, AppendChunk DEF TypeOK
  <2>4. TypeOK'
    BY <1>6, <2>3 DEF Send, TypeOK
  <2>5. InOrder'
    BY <2>1, <2>2, InOrderExtends
  <2>6. Seen' = hold + 1 /\ out'[Len(out')] = hold /\ out' # <<>>
    BY <2>1, SeenExtends
  <2>7. Position'
    BY <1>6, <2>6 DEF Send, Position, TypeOK
  <2>8. Calls' /\ ClosedExplained'
    BY <1>6, <2>6 DEF Send, Calls, ClosedExplained, Truncated
  <2>9. OneReconnect'
    BY <1>6, <2>1, <2>3, AppendChunk DEF Send, OneReconnect, Calls, TypeOK, Truncated
  <2>10. QED
    BY <2>4, <2>5, <2>7, <2>8, <2>9
<1>7. CASE StopCancelled
  BY <1>7, SeenNat DEF StopCancelled, TypeOK, Position, Calls, InOrder, ClosedExplained, OneReconnect,
       Seen, Stream!Expected, producer, NextSeq, Available, Cancelled, MayRetry, ResumeFrom
<1>8. CASE Retry
  BY <1>8, SeenNat DEF Retry, TypeOK, Position, Calls, InOrder, ClosedExplained, OneReconnect,
       Seen, Stream!Expected, producer, NextSeq, Available, Cancelled, MayRetry, ResumeFrom
<1>9. CASE GiveUp
  BY <1>9, SeenNat DEF GiveUp, TypeOK, Position, Calls, InOrder, ClosedExplained, OneReconnect,
       Seen, Stream!Expected, producer, NextSeq, Available, Cancelled, MayRetry, ResumeFrom
<1>10. CASE Report
  <2>1. Truncated \in Chunk /\ out' = Append(out, Truncated)
    BY <1>10 DEF Report, TypeOK, Chunk, Truncated
  <2>2. Seen <= Last /\ (Truncated = Seen \/ Truncated \in {Last, Truncated})
    BY <1>10 DEF Report, Position
  <2>3. out' \in Seq(Chunk) /\ Len(out') = Len(out) + 1
    BY <2>1, AppendChunk DEF TypeOK
  <2>4. TypeOK'
    BY <1>10, <2>3 DEF Report, TypeOK
  <2>5. InOrder'
    BY <2>1, <2>2, InOrderExtends
  <2>6. Seen' = Truncated + 1 /\ out'[Len(out')] = Truncated /\ out' # <<>>
    BY <2>1, SeenExtends
  <2>7. Position'
    BY <1>10, <2>6 DEF Report, Position, TypeOK
  <2>8. Calls' /\ ClosedExplained'
    BY <1>10, <2>6 DEF Report, Calls, ClosedExplained, Truncated
  <2>9. OneReconnect'
    BY <1>10, <2>1, <2>3, AppendChunk DEF Report, OneReconnect, Calls, TypeOK, Truncated
  <2>10. QED
    BY <2>4, <2>5, <2>7, <2>8, <2>9
<1>11. CASE Take
  BY <1>11, SeenNat DEF Take, TypeOK, Position, Calls, InOrder, ClosedExplained, OneReconnect,
       Seen, Stream!Expected, producer, NextSeq, Available, Cancelled, MayRetry, ResumeFrom
<1>12. CASE SeeClose
  BY <1>12, SeenNat DEF SeeClose, TypeOK, Position, Calls, InOrder, ClosedExplained, OneReconnect,
       Seen, Stream!Expected, producer, NextSeq, Available, Cancelled, MayRetry, ResumeFrom
<1>13. CASE Quit
  BY <1>13, SeenNat DEF Quit, TypeOK, Position, Calls, InOrder, ClosedExplained, OneReconnect,
       Seen, Stream!Expected, producer, NextSeq, Available, Cancelled, MayRetry, ResumeFrom
<1>14. CASE EndContext
  BY <1>14, SeenNat DEF EndContext, TypeOK, Position, Calls, InOrder, ClosedExplained, OneReconnect,
       Seen, Stream!Expected, producer, NextSeq, Available, Cancelled, MayRetry, ResumeFrom
<1>15. CASE UNCHANGED vars
  BY <1>15 DEF vars, TypeOK, Position, Calls, InOrder, ClosedExplained, OneReconnect,
       Seen, Stream!Expected
<1>16. QED
  BY <1>1, <1>2, <1>3, <1>4, <1>5, <1>6, <1>7, <1>8, <1>9, <1>10, <1>11, <1>12, <1>13, <1>14, <1>15 DEF Next, Produce

\* The inductive invariant holds in every reachable state.
LEMMA AlwaysIInv == Spec => []IInv
BY InitIInv, NextIInv, PTL DEF Spec

------------------------------------------------------------------------------

\* Every variable of the reader keeps its type; in particular a handler never
\* takes more chunks from the channel than were sent into it.
THEOREM StreamTypeOK == Spec => []TypeOK
BY AlwaysIInv, PTL DEF IInv

\* streamWithResume delivers a job's chunks in order and once, across its
\* resume, for every job length and channel capacity.
THEOREM ChunksInOrder == Spec => []InOrder
BY AlwaysIInv, PTL DEF IInv

\* A channel is closed without a terminal chunk only for a cancelled request.
THEOREM CloseHasCause == Spec => []ClosedExplained
BY AlwaysIInv, PTL DEF IInv

\* At most one reconnect, and no truncation reported before it was made.
THEOREM ReconnectsOnce == Spec => []OneReconnect
BY AlwaysIInv, PTL DEF IInv

\* What a handler that ranges over the channel may rely on, whatever frame
\* the stream breaks at and whenever its context ends.
THEOREM StreamIsSound == Spec => []StreamSound
BY ChunksInOrder, CloseHasCause, ReconnectsOnce, PTL DEF StreamSound

\* The resuming reader implements the promise its callers rely on: each of
\* its steps delivers one permitted chunk, closes the channel or is invisible.
THEOREM ResumeImplementsJobStream == Spec => ImplementsJobStream
<1>1. Init => Stream!Init
  BY DEF Init, Stream!Init
<1>2. IInv /\ [Next]_vars => [Stream!Next]_<<out, at = "closed">>
  <2> SUFFICES ASSUME IInv, Next
               PROVE  \/ Stream!Next
                      \/ UNCHANGED <<out, at = "closed">>
    BY DEF vars
  <2> USE DEF IInv
  <2>1. CASE Send
    <3>1. hold \in Stream!Chunk /\ Stream!MayFollow(hold, out)
      BY <2>1 DEF Send, TypeOK, Position, Seen, Stream!MayFollow, Stream!Chunk, Stream!Truncated
    <3>2. (at' = "closed") = (hold >= Last) /\ at # "closed"
      BY <2>1 DEF Send, TypeOK
    <3>3. QED
      BY <2>1, <3>1, <3>2 DEF Send, Stream!Next, Stream!Deliver
  <2>2. CASE Report
    <3>1. Truncated \in Stream!Chunk /\ Stream!MayFollow(Truncated, out)
      BY <2>2 DEF Report, Position, Draining, Seen, Truncated,
                  Stream!MayFollow, Stream!Chunk, Stream!Truncated
    <3>2. (at' = "closed") = (Truncated >= Last) /\ at # "closed"
      BY <2>2 DEF Report, Truncated
    <3>3. QED
      BY <2>2, <3>1, <3>2 DEF Report, Stream!Next, Stream!Deliver
  <2>3. CASE StopCancelled
    BY <2>3 DEF StopCancelled, Stream!Next, Stream!Close
  <2>4. CASE OpenStream \/ OpenBreaks \/ Recv \/ Retry \/ GiveUp \/ RecvBreaks
    BY <2>4 DEF OpenStream, OpenBreaks, Recv, Retry, GiveUp, RecvBreaks
  <2>5. CASE Emit \/ Take \/ SeeClose \/ Quit \/ EndContext
    BY <2>5 DEF Emit, Take, SeeClose, Quit, EndContext, producer
  <2>6. QED
    BY <2>1, <2>2, <2>3, <2>4, <2>5 DEF Next, Produce
<1>3. QED
  BY <1>1, <1>2, AlwaysIInv, PTL DEF Spec, ImplementsJobStream, Stream!Spec

------------------------------------------------------------------------------
(* The handlers of JobRequest.  They only read: what holds of the reader   *)
(* holds with any of them at its far end.                                  *)

\* A terminal chunk has been taken; nothing follows it.
Ended == taken > 0 /\ out[taken] >= Last

\* Parts in order: the whole text before the ending only, and first unless
\* the worker sends it twice.
Ordered(p) ==
  \A i, j \in DOMAIN p :
    i < j /\ p[j] # Truncated =>
      \/ p[i] < p[j] /\ (p[j] = WholeText => outcome = "both")
      \/ p[i] = WholeText /\ p[j] = Last

\* What was written stems from the chunks taken: until the ending, from no
\* later one, and not at all if the job does not stream.
Written ==
  /\ ~Ended => \A j \in DOMAIN sent : sent[j] < Last /\ taken > 0 /\ sent[j] <= out[taken]
  /\ ~Ended /\ outcome = "whole" => sent = <<>>
  /\ TextOnce

\* The mark is written with the last frame of a job that has not failed.
Marked ==
  front = "sse" =>
    /\ \A i \in DOMAIN sent : sent[i] = DoneMark => i = Len(sent) /\ outcome # "fails"
    /\ reply \in {"none", "ok"} /\ taken > 0 /\ out[taken] = Last =>
         \E i \in DOMAIN sent : sent[i] = DoneMark

\* A terminal frame that was sent on is with MASS.
Durable ==
  /\ at = "send" => hold < emitted
  /\ \A i \in 1..Len(out) : out[i] = Last => Last < emitted

\* A handler that has seen the close has everything; one that has not
\* answered an error has seen none.
Answered ==
  /\ handler = "done" => at = "closed" /\ taken = Len(out)
  /\ reply = "ok" => handler = "done" /\ front # "wait"
  /\ front # "wait" /\ reply \in {"none", "ok"} => \A i \in 1..taken : ~IsError(out[i])
  /\ front = "wait" /\ handler = "done" /\ reply = "none" =>
       out # <<>> /\ out[Len(out)] >= Last

\* The inductive invariant; it needs the reader's.
JobInv == JobTypeOK /\ Written /\ Marked /\ Durable /\ Answered /\ WaitedForResult

\* The handlers' steps are steps of the reader or stutter.
LEMMA JobStep == [JobNext]_jobVars => [Next]_vars
BY DEF JobNext, jobVars, Next, TakeChunk, SendFails, Leave, SeeEnd, GetResult

\* So a reader with any of these handlers is one with a handler of StreamResume.
LEMMA JobIsReader == JobSpec => Spec
<1>1. JobInit => Init
  BY DEF JobInit
<1>2. QED
  BY <1>1, JobStep, PTL DEF JobSpec, Spec

LEMMA InitJobInv == JobInit => JobInv
<1> SUFFICES ASSUME JobInit
             PROVE  JobInv
  OBVIOUS
<1>1. TypeOK /\ out = <<>> /\ taken = 0 /\ at = "open" /\ handler = "reads"
  BY InitIInv DEF JobInit, Init, IInv
<1>2. sent = <<>> /\ reply = "none"
  BY DEF JobInit
<1>3. sent \in Seq(0..DoneMark) /\ DOMAIN sent = {} /\ DOMAIN out = {} /\ Len(out) = 0
  BY <1>1, <1>2
<1>4. JobTypeOK
  BY <1>1, <1>2, <1>3 DEF JobTypeOK
<1>5. Written /\ Marked
  BY <1>1, <1>2, <1>3 DEF Written, TextOnce, Marked
<1>6. Durable /\ Answered /\ WaitedForResult
  BY <1>1, <1>2, <1>3 DEF Durable, Answered, WaitedForResult
<1>7. QED
  BY <1>4, <1>5, <1>6 DEF JobInv

\* A step that neither takes a chunk nor answers leaves the invariant alone:
\* chunks are only ever added, and frames given to MASS.
LEMMA ReaderKeepsJobInv ==
  ASSUME IInv, IInv', JobInv, UNCHANGED frontVars,
         Emit \/ Produce \/ RecvBreaks \/ EndContext \/ Leave \/ UNCHANGED vars
  PROVE  JobInv'
<1> USE DEF frontVars
<1>1. JobTypeOK'
  BY DEF JobInv, JobTypeOK, IInv
<1>2. taken' = taken
  BY DEF Emit, Produce, RecvBreaks, EndContext, Leave, Quit, vars, producer,
     OpenStream, OpenBreaks, Recv, Send, StopCancelled, Retry, GiveUp, Report
<1>3. /\ \A i \in 1..Len(out) : out'[i] = out[i]
      /\ Len(out) \in Nat /\ Len(out') >= Len(out)
      /\ taken \in 0..Len(out)
  <2>1. TypeOK
    BY DEF IInv
  <2>2. CASE Send
    <3>1. hold \in Chunk /\ out' = Append(out, hold)
      BY <2>1, <2>2 DEF Send, TypeOK, Chunk, Truncated
    <3>2. QED
      BY <2>1, <3>1, AppendChunk DEF TypeOK
  <2>3. CASE Report
    <3>1. Truncated \in Chunk /\ out' = Append(out, Truncated)
      BY <2>3 DEF Report, Chunk, Truncated
    <3>2. QED
      BY <2>1, <3>1, AppendChunk DEF TypeOK
  <2>4. CASE UNCHANGED out
    BY <2>1, <2>4 DEF TypeOK
  <2>5. QED
    BY <2>2, <2>3, <2>4 DEF Emit, Produce, RecvBreaks, EndContext, Leave, Quit, vars, producer,
       OpenStream, OpenBreaks, Recv, StopCancelled, Retry, GiveUp
<1>4. Ended' = Ended
  <2>1. taken > 0 => out'[taken] = out[taken]
    BY <1>3
  <2>2. QED
    BY <1>2, <1>3, <2>1 DEF Ended
<1>5. Written'
  BY <1>2, <1>3, <1>4 DEF JobInv, Written, TextOnce, Ended
<1>6. Marked'
  <2>1. taken > 0 => out'[taken] = out[taken]
    BY <1>3
  <2>2. QED
    BY <1>2, <1>3, <2>1 DEF JobInv, Marked
<1>0. out \in Seq(Chunk)
  BY DEF IInv, TypeOK
<1>7. Durable'
  <2>1. CASE Send
    <3>1. hold \in Chunk /\ out' = Append(out, hold)
      BY <2>1 DEF Send, IInv, TypeOK, Chunk, Truncated
    <3>2. \A i \in 1..Len(out') : (out'[i] = out[i] /\ i \in 1..Len(out)) \/ out'[i] = hold
      BY <1>0, <3>1, AppendedChunk
    <3>3. QED
      BY <2>1, <3>2 DEF Send, JobInv, Durable
  <2>2. CASE Report
    <3>1. Truncated \in Chunk /\ out' = Append(out, Truncated)
      BY <2>2 DEF Report, Chunk, Truncated
    <3>2. \A i \in 1..Len(out') : (out'[i] = out[i] /\ i \in 1..Len(out)) \/ out'[i] = Truncated
      BY <1>0, <3>1, AppendedChunk
    <3>3. QED
      BY <2>2, <3>2 DEF Report, JobInv, Durable, Truncated
  <2>3. CASE Emit
    BY <2>3 DEF Emit, JobInv, Durable, IInv, TypeOK
  <2>4. CASE Recv
    BY <2>4 DEF Recv, Available, JobInv, Durable
  <2>5. CASE OpenStream \/ OpenBreaks \/ StopCancelled \/ Retry \/ GiveUp \/ RecvBreaks
    BY <2>5 DEF OpenStream, OpenBreaks, StopCancelled, Retry, GiveUp, RecvBreaks, JobInv, Durable
  <2>6. CASE EndContext \/ Leave \/ UNCHANGED vars
    BY <2>6 DEF EndContext, Leave, Quit, vars, producer, JobInv, Durable
  <2>7. QED
    BY <2>1, <2>2, <2>3, <2>4, <2>5, <2>6 DEF Produce
<1>8. Answered'
  <2>1. handler = "done" => UNCHANGED <<at, out, handler>>
    BY DEF JobInv, Answered, Emit, Produce, RecvBreaks, EndContext, Leave, Quit, vars, producer,
       OpenStream, OpenBreaks, Recv, Send, StopCancelled, Retry, GiveUp, Report
  <2>2. handler' = "done" => handler = "done"
    BY DEF Emit, Produce, RecvBreaks, EndContext, Leave, Quit, vars, producer,
       OpenStream, OpenBreaks, Recv, Send, StopCancelled, Retry, GiveUp, Report
  <2>3. \A i \in 1..taken : IsError(out'[i]) = IsError(out[i])
    BY <1>3
  <2>4. (\A i \in 1..taken : ~IsError(out[i])) => (\A i \in 1..taken : ~IsError(out[i]))'
    BY <1>2, <1>3 DEF IsError
  <2>5. QED
    BY <1>2, <2>1, <2>2, <2>4 DEF JobInv, Answered
<1>9. WaitedForResult'
  <2>1. ASSUME NEW i \in DOMAIN out
        PROVE  i \in DOMAIN out' /\ out'[i] = out[i]
    <3>1. out \in Seq(Chunk) /\ out' \in Seq(Chunk)
      BY DEF IInv, TypeOK
    <3>2. DOMAIN out = 1..Len(out) /\ DOMAIN out' = 1..Len(out') /\ Len(out') \in Nat
      BY <3>1
    <3>3. QED
      BY <1>3, <3>2
  <2>2. QED
    BY <2>1 DEF JobInv, WaitedForResult
<1>10. QED
  BY <1>1, <1>5, <1>6, <1>7, <1>8, <1>9 DEF JobInv

------------------------------------------------------------------------------
(* A chunk is taken: it comes after all that was written.                  *)

\* The chunks taken rise, so the one taken next is higher than what they
\* gave, and nothing is taken after a terminal one.
LEMMA TakenNext ==
  ASSUME IInv, JobInv, Take
  PROVE  /\ out[taken + 1] \in Chunk /\ ~Ended
         /\ taken > 0 => out[taken] < Last /\ out[taken] < out[taken + 1]
         /\ \A j \in DOMAIN sent : sent[j] < Last /\ sent[j] < out[taken + 1]
         /\ outcome = "whole" => sent = <<>>
<1>1. taken \in Nat /\ taken + 1 \in 1..Len(out) /\ out \in Seq(Chunk) /\ Len(out) \in Nat
  BY DEF IInv, TypeOK, Take
<1>2. out[taken + 1] \in Chunk /\ (taken > 0 => out[taken] \in Chunk)
  BY <1>1
<1>3. taken > 0 => out[taken] < Last /\ out[taken] < out[taken + 1]
  <2>1. ASSUME taken > 0
        PROVE  /\ out[taken + 1] = out[taken] + 1 \/ out[taken + 1] \in {Last, Truncated}
               /\ out[taken] < Last
    <3>1. taken + 1 > 1 /\ (taken + 1) - 1 = taken
      BY <1>1, <2>1
    <3>2. QED
      BY <1>1, <3>1 DEF IInv, InOrder
  <2>2. QED
    BY <1>2, <2>1 DEF Chunk, Truncated
<1>4. ~Ended
  BY <1>1, <1>2, <1>3 DEF Ended, Chunk, Truncated
<1>5. \A j \in DOMAIN sent : sent[j] < Last /\ sent[j] < out[taken + 1]
  <2>1. SUFFICES ASSUME NEW j \in DOMAIN sent
                 PROVE  sent[j] < Last /\ sent[j] < out[taken + 1]
    OBVIOUS
  <2>2. sent[j] \in Nat
    BY DEF JobInv, JobTypeOK, DoneMark
  <2>3. sent[j] < Last /\ taken > 0 /\ sent[j] <= out[taken]
    BY <1>4 DEF JobInv, Written
  <2>4. QED
    BY <1>2, <1>3, <2>2, <2>3 DEF Chunk, Truncated
<1>6. QED
  BY <1>2, <1>3, <1>4, <1>5 DEF JobInv, Written

\* What Parts writes for a chunk: nothing below it, the whole text once and
\* for a job whose final message has it, the mark at the end of a stream.
LEMMA PartsFit ==
  ASSUME NEW c \in 0..Last, NEW decodes \in BOOLEAN
  PROVE  /\ Parts(c, decodes) \in Seq(0..DoneMark)
         /\ \A j \in DOMAIN Parts(c, decodes) :
              /\ Parts(c, decodes)[j] >= c
              /\ Parts(c, decodes)[j] = WholeText => outcome \in {"whole", "both"}
              /\ c < Last => Parts(c, decodes)[j] = c /\ outcome # "whole"
              /\ front = "sse" /\ Parts(c, decodes)[j] = DoneMark =>
                   j = Len(Parts(c, decodes)) /\ c = Last
         /\ Ordered(Parts(c, decodes))
         /\ front = "sse" /\ c = Last =>
              \E j \in DOMAIN Parts(c, decodes) : Parts(c, decodes)[j] = DoneMark
<1> DEFINE p == Parts(c, decodes)
<1> USE DEF Truncated, WholeText, DoneMark
<1>1. \/ p = <<>> /\ (front # "sse" \/ c < Last)
      \/ p = <<c>> /\ c < Last /\ outcome # "whole"
      \/ p = <<Last>> /\ c = Last /\ front # "sse"
      \/ p = <<WholeText>> \o <<Last>> /\ c = Last /\ outcome \in {"whole", "both"} /\ front # "sse"
      \/ p = <<DoneMark>> /\ c = Last /\ front = "sse"
      \/ p = <<Last>> \o <<DoneMark>> /\ c = Last /\ front = "sse"
  <2>1. /\ <<>> \o <<DoneMark>> = <<DoneMark>>
        /\ <<>> \o <<Last>> = <<Last>>
        /\ <<>> \o <<>> = <<>>
    OBVIOUS
  <2>2. /\ Delta(c) = <<>> \/ (Delta(c) = <<c>> /\ outcome # "whole")
        /\ Ending = <<>> \/ Ending = <<Last>>
        /\ Reemit = <<>> \/ (Reemit = <<WholeText>> /\ Ending = <<Last>> /\ outcome \in {"whole", "both"})
    <3>1. CASE outcome \in {"whole", "both"}
      <4>1. outcome # "bare"
        BY <3>1
      <4>2. QED
        BY <3>1, <4>1, Zenon DEF Delta, Reemit, Ending
    <3>2. CASE outcome \notin {"whole", "both"}
      BY <3>2, Zenon DEF Delta, Reemit, Ending
    <3>3. QED
      BY <3>1, <3>2
  <2>3. CASE front = "chat_stream" /\ decodes
    <3>1. p = IF c < Last THEN Delta(c) ELSE Reemit \o Ending
      BY <2>3, Zenon DEF Parts
    <3>2. (c < Last \/ c = Last) /\ front # "sse"
      BY <2>3
    <3>3. QED
      BY <2>1, <2>2, <3>1, <3>2, Zenon
  <2>4. CASE front = "sse" /\ c < Last
    <3>1. front # "chat_stream" /\ front # "plain" /\ c # Last
      BY <2>4
    <3>2. p = IF decodes THEN Delta(c) ELSE <<>>
      BY <2>4, <3>1, Zenon DEF Parts
    <3>3. QED
      BY <2>2, <2>4, <3>2, Zenon
  <2>5. CASE front = "sse" /\ ~(c < Last)
    <3>1. front # "chat_stream" /\ c = Last
      BY <2>5
    <3>2. p = (IF decodes THEN Ending ELSE <<>>) \o <<DoneMark>>
      BY <2>5, <3>1, Zenon DEF Parts
    <3>3. QED
      BY <2>1, <2>2, <2>5, <3>1, <3>2, Zenon
  <2>6. CASE front = "plain"
    BY <2>6 DEF Parts, Ending
  <2>7. CASE front \notin {"chat_stream", "sse", "plain"} \/ (front = "chat_stream" /\ ~decodes)
    BY <2>7 DEF Parts
  <2>8. QED
    BY <2>3, <2>4, <2>5, <2>6, <2>7
<1> HIDE DEF p
<1>2. ASSUME NEW a \in 0..DoneMark, p = <<a>>
      PROVE  p \in Seq(0..DoneMark) /\ DOMAIN p = {1} /\ Len(p) = 1 /\ p[1] = a
  BY <1>2
<1>3. ASSUME NEW a \in 0..DoneMark, NEW b \in 0..DoneMark, p = <<a>> \o <<b>>
      PROVE  p \in Seq(0..DoneMark) /\ DOMAIN p = {1, 2} /\ Len(p) = 2 /\ p[1] = a /\ p[2] = b
  <2>1. <<a>> \in Seq(0..DoneMark) /\ <<b>> \in Seq(0..DoneMark)
    OBVIOUS
  <2>2. QED
    BY <1>3, <2>1
<1>4. c \in 0..DoneMark /\ Last \in 0..DoneMark /\ WholeText \in 0..DoneMark /\ DoneMark \in 0..DoneMark
  OBVIOUS
<1>5. SUFFICES /\ p \in Seq(0..DoneMark)
               /\ \A j \in DOMAIN p :
                    /\ p[j] >= c
                    /\ p[j] = WholeText => outcome \in {"whole", "both"}
                    /\ c < Last => p[j] = c /\ outcome # "whole"
                    /\ front = "sse" /\ p[j] = DoneMark => j = Len(p) /\ c = Last
               /\ Ordered(p)
               /\ front = "sse" /\ c = Last => \E j \in DOMAIN p : p[j] = DoneMark
  BY DEF p
<1>6. CASE p = <<>> /\ (front # "sse" \/ c < Last)
  BY <1>6 DEF Ordered
<1>7. CASE p = <<c>> /\ c < Last /\ outcome # "whole"
  <2>1. p \in Seq(0..DoneMark) /\ DOMAIN p = {1} /\ Len(p) = 1 /\ p[1] = c
    BY <1>2, <1>4, <1>7
  <2>2. QED
    BY <1>7, <2>1 DEF Ordered
<1>8. CASE p = <<Last>> /\ c = Last /\ front # "sse"
  <2>1. p \in Seq(0..DoneMark) /\ DOMAIN p = {1} /\ Len(p) = 1 /\ p[1] = Last
    BY <1>2, <1>4, <1>8
  <2>2. QED
    BY <1>8, <2>1 DEF Ordered
<1>9. CASE p = <<WholeText>> \o <<Last>> /\ c = Last /\ outcome \in {"whole", "both"} /\ front # "sse"
  <2>1. p \in Seq(0..DoneMark) /\ DOMAIN p = {1, 2} /\ Len(p) = 2 /\ p[1] = WholeText /\ p[2] = Last
    BY <1>3, <1>4, <1>9
  <2>2. QED
    BY <1>9, <2>1 DEF Ordered
<1>10. CASE p = <<DoneMark>> /\ c = Last /\ front = "sse"
  <2>1. p \in Seq(0..DoneMark) /\ DOMAIN p = {1} /\ Len(p) = 1 /\ p[1] = DoneMark
    BY <1>2, <1>4, <1>10
  <2>2. QED
    BY <1>10, <2>1 DEF Ordered
<1>11. CASE p = <<Last>> \o <<DoneMark>> /\ c = Last /\ front = "sse"
  <2>1. p \in Seq(0..DoneMark) /\ DOMAIN p = {1, 2} /\ Len(p) = 2 /\ p[1] = Last /\ p[2] = DoneMark
    BY <1>3, <1>4, <1>11
  <2>2. QED
    BY <1>11, <2>1 DEF Ordered
<1>12. QED
  BY <1>1, <1>6, <1>7, <1>8, <1>9, <1>10, <1>11

\* Where an element of a concatenation comes from.
LEMMA ConcatParts ==
  ASSUME NEW S, NEW s \in Seq(S), NEW p \in Seq(S)
  PROVE  /\ s \o p \in Seq(S)
         /\ Len(s \o p) = Len(s) + Len(p)
         /\ \A i \in DOMAIN (s \o p) :
              \/ i \in DOMAIN s /\ (s \o p)[i] = s[i]
              \/ i > Len(s) /\ i - Len(s) \in DOMAIN p /\ (s \o p)[i] = p[i - Len(s)]
         /\ \A j \in DOMAIN p :
              Len(s) + j \in DOMAIN (s \o p) /\ (s \o p)[Len(s) + j] = p[j]
OBVIOUS

\* Parts that are in order stay so behind lower ones, where nothing precedes
\* the whole text but what the worker repeats.
LEMMA OrderedConcat ==
  ASSUME NEW s \in Seq(0..DoneMark), NEW p \in Seq(0..DoneMark), NEW c \in Nat,
         \A j \in DOMAIN s : s[j] < c /\ s[j] < Last,
         \A j \in DOMAIN p : p[j] >= c /\ (p[j] = WholeText => s = <<>> \/ outcome = "both"),
         Ordered(s), Ordered(p)
  PROVE  Ordered(s \o p)
<1> DEFINE t == s \o p
<1>1. /\ Len(t) = Len(s) + Len(p) /\ t \in Seq(0..DoneMark)
      /\ \A i \in DOMAIN t :
           \/ i \in DOMAIN s /\ t[i] = s[i]
           \/ i > Len(s) /\ i - Len(s) \in DOMAIN p /\ t[i] = p[i - Len(s)]
  BY ConcatParts
<1> HIDE DEF t
<1>2. SUFFICES ASSUME NEW i \in DOMAIN t, NEW j \in DOMAIN t, i < j
               PROVE  \/ t[i] < t[j] /\ (t[j] = WholeText => outcome = "both")
                      \/ t[i] = WholeText /\ t[j] = Last
                      \/ t[j] = Truncated
  BY DEF t, Ordered
<1>3. i \in Nat /\ j \in Nat /\ Len(s) \in Nat /\ Last \in Nat /\ DoneMark \in Nat
  BY <1>1, <1>2 DEF DoneMark
<1>4. CASE i \in DOMAIN s /\ j \in DOMAIN s
  <2>1. t[i] = s[i] /\ t[j] = s[j]
    <3>1. ASSUME NEW k \in DOMAIN t, k \in DOMAIN s
          PROVE  t[k] = s[k]
      <4>1. ~(k > Len(s))
        BY <1>3, <3>1
      <4>2. QED
        BY <1>1, <3>1, <4>1
    <3>2. QED
      BY <1>4, <3>1
  <2>2. QED
    BY <1>2, <1>4, <2>1 DEF Ordered
<1>5. CASE i \in DOMAIN s /\ j \notin DOMAIN s
  <2>1. t[i] = s[i] /\ j - Len(s) \in DOMAIN p /\ t[j] = p[j - Len(s)]
    BY <1>1, <1>3, <1>5
  <2>2. s[i] \in Nat /\ p[j - Len(s)] \in Nat /\ s # <<>>
    BY <1>3, <1>5, <2>1
  <2>3. QED
    BY <1>5, <2>1, <2>2
<1>6. CASE i \notin DOMAIN s
  <2>1. /\ i - Len(s) \in DOMAIN p /\ t[i] = p[i - Len(s)]
        /\ j - Len(s) \in DOMAIN p /\ t[j] = p[j - Len(s)]
        /\ i - Len(s) < j - Len(s)
    <3>1. i > Len(s) /\ i - Len(s) \in DOMAIN p /\ t[i] = p[i - Len(s)]
      BY <1>1, <1>6
    <3>2. j > Len(s) /\ i - Len(s) < j - Len(s)
      BY <1>2, <1>3, <3>1
    <3>3. j \notin DOMAIN s
      BY <1>3, <3>2
    <3>4. j - Len(s) \in DOMAIN p /\ t[j] = p[j - Len(s)]
      BY <1>1, <3>3
    <3>5. QED
      BY <3>1, <3>2, <3>4
  <2>2. QED
    BY <2>1 DEF Ordered
<1>7. QED
  BY <1>4, <1>5, <1>6

\* A chunk is taken.
LEMMA TakeChunkKeepsJobInv ==
  ASSUME IInv, IInv', JobInv, TakeChunk
  PROVE  JobInv'
<1> DEFINE c == out[taken + 1]
<1>1. /\ Take /\ reply = "none" /\ handler = "reads" /\ handler' = handler
      /\ taken' = taken + 1 /\ taken \in Nat /\ taken + 1 \in 1..Len(out)
      /\ UNCHANGED <<emitted, at, hold, out, front, outcome>>
  BY DEF TakeChunk, Take, producer, IInv, TypeOK
<1>2. /\ c \in Chunk /\ ~Ended
      /\ \A j \in DOMAIN sent : sent[j] < Last /\ sent[j] < c
      /\ outcome = "whole" => sent = <<>>
  BY <1>1, TakenNext
<1>3. PICK decodes \in BOOLEAN :
        IF front = "wait" THEN UNCHANGED <<sent, reply>>
        ELSE IF IsError(c) THEN
          /\ reply' = "internal"
          /\ sent' = IF front = "sse" THEN Append(sent, Truncated) ELSE sent
        ELSE
          /\ sent' = sent \o Parts(c, decodes)
          /\ reply' \in {"internal", "none"}
  BY DEF TakeChunk
<1>4. taken' > 0 /\ out'[taken'] = c /\ (Ended' <=> c >= Last)
  BY <1>1, <1>2 DEF Ended
<1>5. /\ sent \in Seq(0..DoneMark) /\ Len(sent) \in Nat /\ TextOnce
      /\ \A j \in DOMAIN sent : sent[j] \in Nat
      /\ DoneMark \in Nat /\ Truncated \in 0..DoneMark /\ Truncated # DoneMark
      /\ Truncated > Last /\ DoneMark > Last
      /\ 0..Last \subseteq Chunk /\ \A k \in Chunk : k = Truncated \/ k \in 0..Last
  BY DEF JobInv, JobTypeOK, Written, DoneMark, Truncated, Chunk
<1> HIDE DEF c
<1>6. Durable' /\ TypeOK'
  BY <1>1 DEF JobInv, Durable, IInv
<1>7. CASE front = "wait"
  <2>1. UNCHANGED <<sent, reply>>
    BY <1>3, <1>7
  <2>2. Written'
    <3>1. TextOnce'
      BY <1>1, <1>5, <2>1 DEF TextOnce
    <3>2. \A j \in DOMAIN sent' : sent'[j] < Last /\ sent'[j] <= c
      BY <1>2, <1>5, <2>1 DEF Chunk, Truncated
    <3>3. QED
      BY <1>1, <1>2, <1>4, <2>1, <3>1, <3>2 DEF Written
  <2>3. Marked' /\ Answered' /\ WaitedForResult' /\ JobTypeOK'
    BY <1>1, <1>6, <1>7, <2>1 DEF JobInv, JobTypeOK, Marked, Answered, WaitedForResult
  <2>4. QED
    BY <1>6, <2>2, <2>3 DEF JobInv
<1>8. CASE front # "wait" /\ IsError(c)
  <2>1. reply' = "internal" /\ sent' = IF front = "sse" THEN Append(sent, Truncated) ELSE sent
    BY <1>3, <1>8
  <2>2. Ended'
    BY <1>4, <1>5, <1>8 DEF IsError
  <2>3. /\ sent' \in Seq(0..DoneMark)
        /\ \A i \in DOMAIN sent' :
             (i \in DOMAIN sent /\ sent'[i] = sent[i]) \/ (i = Len(sent) + 1 /\ sent'[i] = Truncated)
    <3>1. CASE front = "sse"
      <4>1. sent' = Append(sent, Truncated)
        BY <2>1, <3>1
      <4>2. QED
        BY <1>5, <4>1
    <3>2. CASE front # "sse"
      BY <1>5, <2>1, <3>2
    <3>3. QED
      BY <3>1, <3>2
  <2>4. TextOnce'
    <3>1. SUFFICES ASSUME NEW i \in DOMAIN sent', NEW j \in DOMAIN sent', i < j, sent'[j] # Truncated
                   PROVE  \/ sent'[i] < sent'[j] /\ (sent'[j] = WholeText => outcome = "both")
                          \/ sent'[i] = WholeText /\ sent'[j] = Last
      BY <1>1 DEF TextOnce
    <3>2. j \in DOMAIN sent /\ sent'[j] = sent[j]
      BY <2>3, <3>1
    <3>3. i \in DOMAIN sent /\ sent'[i] = sent[i]
      BY <1>5, <2>3, <3>1, <3>2
    <3>4. QED
      BY <1>5, <3>1, <3>2, <3>3 DEF TextOnce
  <2>5. Marked'
    BY <1>2, <1>5, <2>1, <2>3 DEF Marked
  <2>6. Written' /\ Answered' /\ WaitedForResult' /\ JobTypeOK'
    BY <1>1, <1>6, <2>1, <2>2, <2>3, <2>4
       DEF JobTypeOK, Written, Answered, WaitedForResult
  <2>7. QED
    BY <1>6, <2>5, <2>6 DEF JobInv
<1>9. CASE front # "wait" /\ ~IsError(c)
  <2> DEFINE p == Parts(c, decodes)
  <2>1. sent' = sent \o p /\ reply' \in {"internal", "none"}
    BY <1>3, <1>9
  <2>2. c \in 0..Last /\ (c = Last => outcome # "fails")
    BY <1>2, <1>5, <1>9 DEF IsError
  <2>3. /\ p \in Seq(0..DoneMark) /\ Ordered(p)
        /\ \A j \in DOMAIN p :
             /\ p[j] >= c
             /\ p[j] = WholeText => outcome \in {"whole", "both"}
             /\ c < Last => p[j] = c /\ outcome # "whole"
             /\ front = "sse" /\ p[j] = DoneMark => j = Len(p) /\ c = Last
        /\ front = "sse" /\ c = Last => \E j \in DOMAIN p : p[j] = DoneMark
    BY <2>2, PartsFit
  <2> HIDE DEF p
  <2>4. /\ sent' \in Seq(0..DoneMark)
        /\ Len(sent') = Len(sent) + Len(p)
        /\ \A i \in DOMAIN sent' :
             \/ i \in DOMAIN sent /\ sent'[i] = sent[i]
             \/ i > Len(sent) /\ i - Len(sent) \in DOMAIN p /\ sent'[i] = p[i - Len(sent)]
        /\ \A j \in DOMAIN p : Len(sent) + j \in DOMAIN sent' /\ sent'[Len(sent) + j] = p[j]
    <3>1. sent \in Seq(0..DoneMark) /\ p \in Seq(0..DoneMark)
      BY <1>5, <2>3
    <3>2. QED
      BY <2>1, <3>1, ConcatParts
  <2>5. TextOnce'
    <3>1. Ordered(sent)
      BY <1>5 DEF TextOnce, Ordered
    <3>2. \A j \in DOMAIN p : p[j] >= c /\ (p[j] = WholeText => sent = <<>> \/ outcome = "both")
      BY <1>2, <2>3
    <3>3. c \in Nat
      BY <2>2
    <3>4. Ordered(sent \o p)
      BY <1>2, <1>5, <2>3, <3>1, <3>2, <3>3, OrderedConcat
    <3>5. QED
      BY <1>1, <2>1, <3>4 DEF TextOnce, Ordered
  <2>6. Written'
    <3>1. ASSUME c < Last
          PROVE  /\ \A j \in DOMAIN sent' : sent'[j] < Last /\ sent'[j] <= c
                 /\ outcome = "whole" => sent' = <<>>
      <4>1. \A j \in DOMAIN sent' : sent'[j] < Last /\ sent'[j] <= c
        <5>1. ASSUME NEW j \in DOMAIN sent'
              PROVE  sent'[j] < Last /\ sent'[j] <= c
          <6>1. CASE j \in DOMAIN sent /\ sent'[j] = sent[j]
            BY <1>2, <1>5, <2>2, <6>1
          <6>2. CASE j - Len(sent) \in DOMAIN p /\ sent'[j] = p[j - Len(sent)]
            BY <2>2, <2>3, <3>1, <6>2
          <6>3. QED
            BY <2>4, <6>1, <6>2
        <5>2. QED
          BY <5>1
      <4>2. ASSUME outcome = "whole"
            PROVE  sent' = <<>>
        <5>1. sent = <<>> /\ p = <<>>
          BY <1>2, <2>3, <3>1, <4>2
        <5>2. QED
          BY <2>1, <5>1
      <4>3. QED
        BY <4>1, <4>2
    <3>2. ~Ended' => c < Last
      BY <1>4, <2>2
    <3>3. QED
      BY <1>1, <1>4, <2>5, <3>1, <3>2 DEF Written
  <2>7. Marked'
    <3>1. ASSUME front = "sse", NEW i \in DOMAIN sent', sent'[i] = DoneMark
          PROVE  i = Len(sent') /\ outcome # "fails"
      <4>1. ~(i \in DOMAIN sent /\ sent'[i] = sent[i])
        BY <1>2, <1>5, <3>1
      <4>2. i > Len(sent) /\ i - Len(sent) \in DOMAIN p /\ p[i - Len(sent)] = DoneMark
        BY <2>4, <3>1, <4>1
      <4>3. i - Len(sent) = Len(p) /\ c = Last
        BY <2>3, <3>1, <4>2
      <4>4. i \in Nat /\ Len(p) \in Nat
        BY <2>3, <2>4, <3>1
      <4>5. QED
        BY <1>5, <2>2, <2>4, <4>3, <4>4
    <3>2. ASSUME front = "sse", c = Last
          PROVE  \E i \in DOMAIN sent' : sent'[i] = DoneMark
      BY <2>3, <2>4, <3>2
    <3>3. QED
      BY <1>1, <1>4, <3>1, <3>2 DEF Marked
  <2>8. Answered'
    <3>1. \A i \in 1..taken : ~IsError(out[i])
      BY <1>1, <1>9 DEF JobInv, Answered
    <3>2. \A i \in 1..taken' : ~IsError(out[i])
      BY <1>1, <1>9, <3>1 DEF c
    <3>3. (\A i \in 1..taken : ~IsError(out[i]))'
      BY <1>1, <3>2 DEF IsError
    <3>4. QED
      BY <1>1, <1>9, <2>1, <3>3 DEF Answered
  <2>9. WaitedForResult' /\ JobTypeOK'
    BY <1>6, <2>1, <2>4 DEF WaitedForResult, JobTypeOK
  <2>10. QED
    BY <1>6, <2>5, <2>6, <2>7, <2>8, <2>9 DEF JobInv
<1>10. QED
  BY <1>7, <1>8, <1>9

------------------------------------------------------------------------------
(* The answers.                                                            *)

\* A send to a client that has gone fails.
LEMMA SendFailsKeepsJobInv ==
  ASSUME IInv, IInv', JobInv, SendFails
  PROVE  JobInv'
<1>1. /\ reply = "none" /\ reply' = "gone" /\ front = "chat_stream"
      /\ UNCHANGED <<emitted, at, hold, out, taken, handler, front, outcome, sent>>
  BY DEF SendFails, vars
<1>2. Written'
  BY <1>1 DEF JobInv, Written, TextOnce, Ended
<1>3. JobTypeOK' /\ Marked' /\ Durable' /\ WaitedForResult'
  BY <1>1 DEF JobInv, JobTypeOK, Marked, Durable, WaitedForResult, IInv
<1>4. Answered'
  BY <1>1 DEF JobInv, Answered
<1>5. QED
  BY <1>2, <1>3, <1>4 DEF JobInv

\* The handler sees the channel closed.  What it says then is for a close
\* that has a cause, its request's end or a chunk it has taken.
LEMMA SeeEndKeepsJobInv ==
  ASSUME IInv, IInv', JobInv, SeeEnd
  PROVE  JobInv'
<1>1. /\ reply = "none" /\ handler = "reads" /\ handler' = "done"
      /\ at = "closed" /\ taken = Len(out)
      /\ UNCHANGED <<emitted, at, hold, out, taken, ctx, front, outcome, sent>>
      /\ reply' = IF front # "wait" THEN "ok" ELSE IF ContextEnded THEN "gone" ELSE "none"
  BY DEF SeeEnd, SeeClose, producer
<1>2. Written'
  BY <1>1 DEF JobInv, Written, TextOnce, Ended
<1>3. Marked'
  BY <1>1 DEF JobInv, Marked
<1>4. Answered'
  <2>1. front # "wait" => \A i \in 1..taken : ~IsError(out[i])
    BY <1>1 DEF JobInv, Answered
  <2>2. front # "wait" => (\A i \in 1..taken : ~IsError(out[i]))'
    BY <1>1, <2>1 DEF IsError
  <2>3. ctx = "live" => out # <<>> /\ out[Len(out)] >= Last
    BY <1>1 DEF IInv, ClosedExplained
  <2>4. QED
    BY <1>1, <2>2, <2>3 DEF Answered, ContextEnded
<1>5. JobTypeOK' /\ Durable' /\ WaitedForResult'
  BY <1>1 DEF JobInv, JobTypeOK, Durable, WaitedForResult, IInv
<1>6. QED
  BY <1>2, <1>3, <1>4, <1>5 DEF JobInv

\* The result is read after a drain that saw a terminal chunk: the job's own,
\* which MASS then has, or the one made up after a second break.
LEMMA GetResultKeepsJobInv ==
  ASSUME IInv, IInv', JobInv, GetResult
  PROVE  JobInv'
<1>1. /\ reply = "none" /\ handler = "done" /\ front = "wait"
      /\ UNCHANGED <<emitted, at, hold, out, taken, handler, front, outcome, sent>>
      /\ \/ reply' = "pending" /\ emitted <= Last
         \/ reply' \in {"error", "done", "not_found", "internal"}
  BY DEF GetResult, Drained, vars
<1>2. Written'
  BY <1>1 DEF JobInv, Written, TextOnce, Ended
<1>3. Marked' /\ Answered' /\ Durable'
  BY <1>1 DEF JobInv, Marked, Answered, Durable
<1>4. JobTypeOK'
  BY <1>1 DEF JobInv, JobTypeOK, IInv
<1>5. ASSUME reply' = "pending"
      PROVE  \E i \in DOMAIN out : out[i] = Truncated
  <2>1. emitted <= Last /\ emitted \in Nat
    BY <1>1, <1>5 DEF IInv, TypeOK
  <2>2. out # <<>> /\ out[Len(out)] >= Last
    BY <1>1 DEF JobInv, Answered
  <2>3. out \in Seq(Chunk) /\ Len(out) \in 1..Len(out) /\ Len(out) \in DOMAIN out
    BY <2>2 DEF IInv, TypeOK
  <2>4. out[Len(out)] \in Chunk
    BY <2>3
  <2>5. out[Len(out)] = Last => Last < emitted
    BY <2>3 DEF JobInv, Durable
  <2>6. QED
    BY <2>1, <2>2, <2>3, <2>4, <2>5, LastAssumption DEF Chunk, Truncated
<1>6. WaitedForResult'
  BY <1>1, <1>5 DEF WaitedForResult
<1>7. QED
  BY <1>2, <1>3, <1>4, <1>6 DEF JobInv

\* Both inductive invariants hold in every reachable state.
LEMMA AlwaysJobInv == JobSpec => [](IInv /\ JobInv)
<1>1. IInv /\ IInv' /\ JobInv /\ [JobNext]_jobVars => JobInv'
  <2> SUFFICES ASSUME IInv, IInv', JobInv, [JobNext]_jobVars
               PROVE  JobInv'
    OBVIOUS
  <2>1. CASE TakeChunk
    BY <2>1, TakeChunkKeepsJobInv
  <2>2. CASE SendFails
    BY <2>2, SendFailsKeepsJobInv
  <2>3. CASE SeeEnd
    BY <2>3, SeeEndKeepsJobInv
  <2>4. CASE GetResult
    BY <2>4, GetResultKeepsJobInv
  <2>5. CASE (Emit \/ Produce \/ RecvBreaks \/ EndContext) /\ UNCHANGED frontVars
    BY <2>5, ReaderKeepsJobInv
  <2>6. CASE Leave
    BY <2>6, ReaderKeepsJobInv DEF Leave
  <2>7. CASE UNCHANGED jobVars
    BY <2>7, ReaderKeepsJobInv DEF jobVars
  <2>8. QED
    BY <2>1, <2>2, <2>3, <2>4, <2>5, <2>6, <2>7 DEF JobNext
<1>2. QED
  BY <1>1, JobIsReader, AlwaysIInv, InitJobInv, PTL DEF JobSpec

------------------------------------------------------------------------------
(* What the clients of the handlers get.                                   *)

\* The chunks stay sound and every close explained whichever handler reads
\* them, one that returns early on an error included.
THEOREM JobStreamSound == JobSpec => []StreamSound
BY AlwaysJobInv, PTL DEF IInv, StreamSound

\* Read by any of the handlers the client of MASS implements its promise.
THEOREM JobImplementsJobStream == JobSpec => ImplementsJobStream
BY JobIsReader, ResumeImplementsJobStream

\* No client is sent a part of a job's text twice or out of order, over any
\* reconnect, and the whole text behind its parts only from a worker that
\* has it on the final message too, for every length of the job and front.
THEOREM TextSentOnce == JobSpec => []TextOnce
BY AlwaysJobInv, PTL DEF JobInv, Written

\* An answer tells what became of the job: success means it completed, the
\* mark ends a stream that did, and only a second break leaves a waiting
\* read with an unfinished job.
THEOREM AnswersAreHonest == JobSpec => []AnswersHonest
<1>1. ASSUME IInv, JobInv
      PROVE  AnswersHonest
  <2>1. ASSUME reply = "ok", ctx # "cancelled"
        PROVE  outcome # "fails" /\ taken > 0 /\ taken \in 1..taken /\ out[taken] = Last
    <3>1. handler = "done" /\ front # "wait" /\ at = "closed" /\ taken = Len(out)
      BY <1>1, <2>1 DEF JobInv, Answered
    <3>2. out # <<>> /\ out[Len(out)] >= Last
      BY <1>1, <2>1, <3>1 DEF IInv, ClosedExplained
    <3>3. taken > 0 /\ taken \in 1..taken /\ out[taken] \in Chunk
      BY <1>1, <3>1, <3>2 DEF IInv, TypeOK
    <3>4. ~IsError(out[taken])
      BY <1>1, <2>1, <3>1, <3>3 DEF JobInv, Answered
    <3>5. QED
      BY <3>1, <3>2, <3>3, <3>4 DEF IsError, Chunk, Truncated
  <2>2. SuccessMeansCompleted
    BY <2>1 DEF SuccessMeansCompleted
  <2>3. DoneMeansCompleted
    BY <1>1, <2>1 DEF DoneMeansCompleted, JobInv, Marked
  <2>4. QED
    BY <1>1, <2>2, <2>3 DEF AnswersHonest, JobInv
<1>2. QED
  BY <1>1, AlwaysJobInv, PTL
=============================================================================
