--------------------------- MODULE CatalogueStore ---------------------------
(***************************************************************************)
(* What saveToDisk and loadFromDisk of internal/gateway/cache.go promise   *)
(* ("Atomic write (temp + rename)"): one catalogue on disk that goes in    *)
(* one step from a whole snapshot to the next, whatever files lie behind   *)
(* it.  A save takes the catalogue as it is and then lands or is given up; *)
(* a change in between, or a save given up, leaves the catalogue marked    *)
(* for a later one; and a restart finds what landed last, or, if it cannot *)
(* be read, nothing.                                                       *)
(*                                                                         *)
(* The promise is made to one save at a time: once two have overlapped     *)
(* (alone is false) nothing is said any more.                              *)
(***************************************************************************)
CONSTANT Items     \* catalogue entries

VARIABLES
  mem,       \* the catalogue
  dirty,     \* it has changed since it was taken
  taken,     \* the snapshot of the save in progress, if there is one
  stored,    \* the catalogue on disk
  alone      \* no two saves have overlapped

Init ==
  /\ mem = {} /\ stored = {}
  /\ dirty = FALSE
  /\ taken = {}
  /\ alone = TRUE

Change ==
  /\ mem' \in SUBSET Items
  /\ dirty' = TRUE
  /\ UNCHANGED <<taken, stored, alone>>

Take ==
  /\ dirty /\ taken = {}
  /\ taken' = {mem}
  /\ dirty' = FALSE
  /\ UNCHANGED <<mem, stored, alone>>

Land ==
  /\ taken = {stored'}
  /\ taken' = {}
  /\ UNCHANGED <<mem, dirty, alone>>

GiveUp ==
  /\ taken # {}
  /\ taken' = {}
  /\ dirty' = TRUE
  /\ UNCHANGED <<mem, stored, alone>>

Restart ==
  /\ mem' \in {stored, {}}
  /\ dirty' = FALSE
  /\ taken' = {}
  /\ UNCHANGED <<stored, alone>>

Overlap == alone' = FALSE

Next == Change \/ Take \/ Land \/ GiveUp \/ Restart \/ Overlap

Spec == Init /\ [][Next]_<<mem, dirty, taken, stored, alone>>
=============================================================================
