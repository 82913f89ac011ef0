----------------------------- MODULE JobRequest ------------------------------
(***************************************************************************)
(* The handlers at the far end of StreamResume's channel, and what their   *)
(* clients get: gRPC ChatStream, the OpenAI chat endpoint with and without *)
(* stream (its embeddings are read like the latter), and a read of a job's *)
(* result that waits for the job (handleJobResult and GetResult).          *)
(*                                                                         *)
(* A worker streams its job's text, delivers it whole on the terminal      *)
(* frame, does both, or fails there.  Any frame may turn out undecodable   *)
(* when it is taken.                                                       *)
(***************************************************************************)
EXTENDS StreamResume

VARIABLES
  front,      \* which handler this is
  outcome,    \* what kind of job it reads
  sent,       \* what it has written to its client
  reply       \* how it answered, "none" before it did

frontVars == <<front, outcome, sent, reply>>
jobVars == <<vars, frontVars>>

\* Beside the chunks: the whole text in one part, and OpenAI's [DONE].
WholeText == Last + 2
DoneMark == Last + 3

Fronts == {"chat_stream", "sse", "plain", "wait"}

JobInit ==
  /\ Init
  /\ front \in Fronts
  /\ outcome \in {"streams", "whole", "both", "bare", "fails"}
  /\ sent = <<>>
  /\ reply = "none"

------------------------------------------------------------------------------
(* What a chunk becomes.                                                   *)

\* Mutant: the final message is sent whether or not it has a text.
ReemitAlways == <<WholeText>>

\* ChatStream re-emits the text of the final message, if that has one,
\* whatever it has sent before.
Reemit == IF outcome \in {"whole", "both"} THEN <<WholeText>> ELSE <<>>

\* A body frame is a delta, which a job that does not stream has none of.
Delta(c) == IF outcome = "whole" THEN <<>> ELSE <<c>>

\* The terminal frame may come without a final chunk.
Ending == IF outcome = "bare" THEN <<>> ELSE <<Last>>

\* Mutant: a worker's failure is passed over.
SurfacesNothing(c) == FALSE

\* sched.ChunkError.
IsError(c) == c = Truncated \/ (c = Last /\ outcome = "fails")

\* The parts written for a chunk that is no error.
Parts(c, decodes) ==
  CASE front = "chat_stream" /\ decodes -> IF c < Last THEN Delta(c) ELSE Reemit \o Ending
    [] front = "sse" /\ c < Last        -> IF decodes THEN Delta(c) ELSE <<>>
    [] front = "sse" /\ c = Last        -> (IF decodes THEN Ending ELSE <<>>) \o <<DoneMark>>
    [] front = "plain" /\ c = Last      -> IF decodes THEN Ending ELSE <<>>
    [] OTHER                            -> <<>>

------------------------------------------------------------------------------

\* wait=1: the result is read when the drain has ended.
Drained == handler = "done"

TakeChunk ==
  /\ Take
  /\ reply = "none"
  /\ LET c == out[taken + 1] IN
     \E decodes \in BOOLEAN :
       IF front = "wait" THEN UNCHANGED <<sent, reply>>
       ELSE IF IsError(c) THEN
         /\ reply' = "internal"
         /\ sent' = IF front = "sse" THEN Append(sent, Truncated) ELSE sent
       ELSE
         /\ sent' = sent \o Parts(c, decodes)
         /\ reply' = IF front = "chat_stream" /\ Ending = <<c>> /\ ~decodes THEN "internal" ELSE "none"
  /\ UNCHANGED <<front, outcome>>

\* ChatStream cannot send to a client that has gone.
SendFails ==
  /\ front = "chat_stream"
  /\ ContextEnded
  /\ reply = "none"
  /\ taken < Len(out)
  /\ reply' = "gone"
  /\ UNCHANGED <<vars, front, outcome, sent>>

\* A handler that has answered an error returns from its loop.
Leave ==
  /\ reply # "none"
  /\ Quit
  /\ UNCHANGED frontVars

\* The loop ends with the channel: return nil, or the response is written.
SeeEnd ==
  /\ SeeClose
  /\ reply = "none"
  /\ reply' = IF front # "wait" THEN "ok" ELSE IF ContextEnded THEN "gone" ELSE "none"
  /\ UNCHANGED <<front, outcome, sent>>

\* The durable result: MASS has it when the terminal frame is there.
GetResult ==
  /\ front = "wait"
  /\ Drained
  /\ reply = "none"
  /\ \/ reply' = (IF emitted <= Last THEN "pending" ELSE IF outcome = "fails" THEN "error" ELSE "done")
     \/ reply' \in {"not_found", "internal"}
  /\ UNCHANGED <<vars, front, outcome, sent>>

JobNext ==
  \/ (Emit \/ Produce \/ RecvBreaks \/ EndContext) /\ UNCHANGED frontVars
  \/ TakeChunk \/ SendFails \/ Leave \/ SeeEnd \/ GetResult

JobSpec == JobInit /\ [][JobNext]_jobVars

\* As in StreamResume; the handler's own steps are taken too.
JobFairness ==
  /\ WF_jobVars(Produce /\ UNCHANGED frontVars)
  /\ WF_jobVars(RecvEnds /\ UNCHANGED frontVars)
  /\ WF_jobVars(TakeChunk \/ SeeEnd \/ Leave)
  /\ WF_jobVars(GetResult)

JobFairSpec == JobSpec /\ JobFairness

------------------------------------------------------------------------------
(* Properties.                                                             *)

JobTypeOK ==
  /\ TypeOK
  /\ sent \in Seq(0..DoneMark)
  /\ reply \in {"none", "ok", "internal", "gone", "pending", "error", "done", "not_found"}

\* A client is sent the parts in order, each once over any reconnect, and
\* the whole text behind its parts only if the worker had it on the final
\* message too: ChatStream does not look whether it has sent it already.
TextOnce ==
  \A i, j \in DOMAIN sent :
    i < j /\ sent[j] # Truncated =>
      \/ sent[i] < sent[j] /\ (sent[j] = WholeText => outcome = "both")
      \/ sent[i] = WholeText /\ sent[j] = Last

\* A success means that the job completed, unless its client has gone: no
\* break, no error and no failure of the worker passes for an answer.
SuccessMeansCompleted ==
  reply = "ok" /\ ctx # "cancelled" =>
    outcome # "fails" /\ \E i \in 1..taken : out[i] = Last

\* [DONE] ends a stream that completed, and no other.
DoneMeansCompleted ==
  front = "sse" =>
    /\ \A i \in DOMAIN sent : sent[i] = DoneMark => i = Len(sent) /\ outcome # "fails"
    /\ reply = "ok" /\ ctx # "cancelled" => \E i \in DOMAIN sent : sent[i] = DoneMark

\* A read that waited answers with an unfinished job only after a second
\* break of its stream; handleJobResult says never.
WaitedForResult == reply = "pending" => \E i \in DOMAIN out : out[i] = Truncated

\* What a client is told is what became of the job, by every handler.
AnswersHonest ==
  /\ JobTypeOK
  /\ SuccessMeansCompleted /\ DoneMeansCompleted /\ WaitedForResult

\* Every request about a job that has finished is answered, whatever broke
\* on the way, and its handler does not wait for ever.
FinishedJobAnswered == (emitted > Last) ~> (reply # "none" /\ handler # "reads")
=============================================================================
