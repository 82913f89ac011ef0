----------------------------- MODULE JobResults ------------------------------
(***************************************************************************)
(* The durable result of a submitted job, as its readers get it: GetResult *)
(* and CancelJob of the sched client under handleJobResult and             *)
(* handleJobCancel (HTTP) and GetResult and CancelJob (gRPC).  Calls come  *)
(* from several clients, at any time of the job's life; what a read does   *)
(* with wait=1 before it comes here is in module JobRequest.               *)
(*                                                                         *)
(* MASS owns the job and is external.  It may put a job back to pending    *)
(* when its worker is lost, and forgets a result when its time is up.      *)
(***************************************************************************)
EXTENDS Naturals, Sequences

CONSTANTS
  Finals,        \* a chat final, or the vector or tokens of another kind
  MaxReplies    \* reads and cancels, in all

ASSUME ItemsAssumption == Finals \subseteq [role: STRING, text: STRING, finish: STRING]
ASSUME RepliesAssumption == MaxReplies \in Nat

VARIABLES
  stored,       \* MASS: the job's status and body
  replies       \* what clients were answered, with what MASS then had

resultVars == <<stored, replies>>

\* Bodies of a finished job: none, bytes that are no chunk, a chunk that is
\* not a final one, and the finals.
Bodies ==
  { [kind |-> k, of |-> <<>>] : k \in {"empty", "garbage", "delta"} }
    \cup { [kind |-> k, of |-> <<i>>] : k \in {"chat", "embed", "tokenize"}, i \in Finals }
    \cup { [kind |-> k, of |-> <<i, j>>] : k \in {"batch_chat", "batch_embed"}, i, j \in Finals }

NoBody == [kind |-> "empty", of |-> <<>>]
Alive == stored.status \in {"pending", "processing"}

------------------------------------------------------------------------------
(* MASS.                                                                   *)

ResultInit ==
  /\ stored = [status |-> "pending", body |-> NoBody]
  /\ replies = <<>>

Run ==
  /\ stored.status = "pending"
  /\ stored' = [stored EXCEPT !.status = "processing"]
  /\ UNCHANGED replies

Requeue ==
  /\ stored.status = "processing"
  /\ stored' = [stored EXCEPT !.status = "pending"]
  /\ UNCHANGED replies

Complete ==
  /\ stored.status = "processing"
  /\ \/ \E b \in Bodies : stored' = [status |-> "done", body |-> b]
     \/ stored' = [status |-> "error", body |-> NoBody]
  /\ UNCHANGED replies

Forget ==
  /\ stored.status \in {"done", "error"}
  /\ stored' = [status |-> "gone", body |-> NoBody]
  /\ UNCHANGED replies

------------------------------------------------------------------------------
(* Conversions.                                                            *)

\* resultStatusFromProto; a status it does not know is pending.
StatusFromProto(s) == IF s \in {"processing", "done", "error"} THEN s ELSE "pending"

\* jobStatusString and jobStatusToProto.
StatusShown(s) == IF s \in {"processing", "done", "error"} THEN s ELSE "pending"

KnownRoles == {"system", "user", "assistant", "tool"}
KnownFinishes == {"stop", "length", "content_filter", "tool_calls"}

\* roleString and finishReasonString: the empty string, here "none", for others.
RoleString(r) == IF r \in KnownRoles THEN r ELSE "none"
FinishString(f) == IF f \in KnownFinishes THEN f ELSE "none"

\* Mutant: one reason is missing in the mirror.
FinishToProtoMisses(f) == IF f \in KnownFinishes \ {"tool_calls"} THEN f ELSE "unspecified"

\* roleToProto and finishReasonToProto: unspecified for others.
RoleToProto(r) == IF r \in KnownRoles THEN r ELSE "unspecified"
FinishToProto(f) == IF f \in KnownFinishes THEN f ELSE "unspecified"

\* applyChatFinal.
ChatHTTP(i) == [role |-> RoleString(i.role), text |-> i.text, finish |-> FinishString(i.finish)]

\* applyChatFinalProto.
ChatGRPC(i) == [role |-> RoleToProto(i.role), text |-> i.text, finish |-> FinishToProto(i.finish)]

Vector(i) == [role |-> "none", text |-> i.text, finish |-> "none"]

\* decodeJobResult, of a body that decodes.
DecodeHTTP(b) ==
  CASE b.kind \in {"chat", "batch_chat"} -> [kind |-> b.kind, of |-> [n \in DOMAIN b.of |-> ChatHTTP(b.of[n])]]
    [] b.kind \in {"empty", "delta"}     -> NoBody
    [] OTHER                             -> [kind |-> b.kind, of |-> [n \in DOMAIN b.of |-> Vector(b.of[n])]]

\* applyJobResultProto, likewise.
DecodeGRPC(b) ==
  CASE b.kind \in {"chat", "batch_chat"} -> [kind |-> b.kind, of |-> [n \in DOMAIN b.of |-> ChatGRPC(b.of[n])]]
    [] b.kind \in {"empty", "delta"}     -> NoBody
    [] OTHER                             -> [kind |-> b.kind, of |-> [n \in DOMAIN b.of |-> Vector(b.of[n])]]

------------------------------------------------------------------------------
(* The handlers.                                                           *)

Tell(call, front, code, status, result) ==
  replies' = Append(replies, [call |-> call, front |-> front, code |-> code, saw |-> stored,
                              status |-> status, result |-> result])

TellError(call, front, code) == Tell(call, front, code, "none", NoBody)

\* What is answered once client.GetResult has the result.
Show(front) ==
  LET status == StatusFromProto(stored.status)
      body == stored.body
  IN  IF status # "done" THEN Tell("read", front, "ok", StatusShown(status), NoBody)
      ELSE IF body.kind = "garbage" THEN TellError("read", front, "internal")
      ELSE Tell("read", front, "ok", StatusShown(status),
                  IF front = "http" THEN DecodeHTTP(body) ELSE DecodeGRPC(body))

\* ErrResultNotFound.
ResultNotFound(front) == TellError("read", front, "not_found")

Read(front) ==
  /\ \/ stored.status = "gone" /\ ResultNotFound(front)
     \/ stored.status # "gone" /\ Show(front)
     \/ TellError("read", front, "unavailable")
  /\ UNCHANGED stored

\* Mutant: a job that cannot be cancelled any more counts as cancelled.
SwallowsNotFound(front) == TellError("cancel", front, "ok")

\* ErrResultNotFound.
NotCancellable(front) == TellError("cancel", front, "not_found")

\* CancelJob: MASS stops a live job; its answer may be lost.
Cancel(front) ==
  \/ /\ Alive
     /\ TellError("cancel", front, "ok")
     /\ stored' = [status |-> "error", body |-> NoBody]
  \/ /\ ~Alive
     /\ NotCancellable(front)
     /\ UNCHANGED stored
  \/ /\ TellError("cancel", front, "unavailable")
     /\ \/ UNCHANGED stored
        \/ Alive /\ stored' = [status |-> "error", body |-> NoBody]

ResultNext ==
  \/ Run \/ Requeue \/ Complete \/ Forget
  \/ Len(replies) < MaxReplies /\ \E front \in {"http", "grpc"} : Read(front) \/ Cancel(front)

ResultSpec == ResultInit /\ [][ResultNext]_resultVars

------------------------------------------------------------------------------
(* Properties.                                                             *)

ResultTypeOK ==
  /\ stored.status \in {"pending", "processing", "done", "error", "gone"}
  /\ stored.body \in Bodies
  /\ \A n \in DOMAIN replies :
       /\ replies[n].code \in {"ok", "not_found", "internal", "unavailable"}
       /\ replies[n].status \in {"none", "pending", "processing", "done", "error"}

IsRead(n) == n \in DOMAIN replies /\ replies[n].call = "read" /\ replies[n].code # "unavailable"
Final(n) == IsRead(n) /\ replies[n].status \in {"done", "error"}

\* A word, an item and a result, with what either front end says for "not known"
\* made one.
PlainWord(w) == IF w = "unspecified" THEN "none" ELSE w
PlainItem(i) == [role |-> PlainWord(i.role), text |-> i.text, finish |-> PlainWord(i.finish)]
Plain(result) == [result EXCEPT !.of = [n \in DOMAIN result.of |-> PlainItem(result.of[n])]]

\* "The proto mirror of decodeJobResult": of one stored result the HTTP and
\* the gRPC reader are told the same, but for the id of a chat, which gRPC
\* makes up at every read.
ReadersAgree ==
  \A i, j \in DOMAIN replies :
    IsRead(i) /\ IsRead(j) /\ replies[i].saw = replies[j].saw =>
      /\ replies[i].code = replies[j].code
      /\ replies[i].status = replies[j].status
      /\ Plain(replies[i].result) = Plain(replies[j].result)

\* Once a reader was told that the job has finished, no reader is told later
\* that it runs or that it ended otherwise; its result may be gone.
FinalStays ==
  \A i, j \in DOMAIN replies :
    i < j /\ Final(i) /\ IsRead(j) =>
      replies[j].code = "not_found" \/ replies[j].status = replies[i].status

\* A client whose cancel was answered OK stopped a live job: no reader had
\* seen it finished, and no later reader finds it running or done.
CancelHonest ==
  \A i, j \in DOMAIN replies :
    replies[j].call = "cancel" /\ replies[j].code = "ok" =>
      /\ i < j => ~Final(i)
      /\ j < i /\ IsRead(i) => replies[i].status \in {"none", "error"}

\* What the readers and cancellers of a job are told, one after the other,
\* is one history of that job.
ReadsHonest == FinalStays /\ CancelHonest
=============================================================================
