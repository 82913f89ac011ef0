------------------------------ MODULE JobStream ------------------------------
(***************************************************************************)
(* What sched.Client promises the handlers that read a job's chunks        *)
(* (Schedule, Reattach): the job's frames in their order, each once, and   *)
(* nothing after the terminal one.  A job that finished before the stream  *)
(* was opened may give its terminal frame alone.                           *)
(*                                                                         *)
(* Frames are numbered as MASS numbers them, 0..Last, Last the terminal    *)
(* one (Completed or Error).  Truncated is the ChunkError the client makes *)
(* up when it cannot get at the rest.                                      *)
(***************************************************************************)
EXTENDS Naturals, Sequences

CONSTANT Last     \* a natural number

Truncated == Last + 1
Chunk == 0..Truncated

VARIABLES
  out,      \* chunks sent so far
  closed    \* the channel is closed

\* The frame that comes next after the chunks of s.
Expected(s) == IF s = <<>> THEN 0 ELSE s[Len(s)] + 1

\* c may follow the chunks of s: the next frame, the terminal one or the
\* made-up error, if s has none of these yet.
MayFollow(c, s) ==
  /\ Expected(s) <= Last
  /\ c = Expected(s) \/ c \in {Last, Truncated}

Init == out = <<>> /\ closed = FALSE

Deliver ==
  /\ ~closed
  /\ \E c \in Chunk :
       /\ MayFollow(c, out)
       /\ out' = Append(out, c)
       /\ closed' = (c >= Last)

\* The caller's context was cancelled.
Close ==
  /\ ~closed
  /\ closed' = TRUE
  /\ UNCHANGED out

Next == Deliver \/ Close

Spec == Init /\ [][Next]_<<out, closed>>
=============================================================================
