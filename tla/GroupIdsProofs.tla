---------------------------- MODULE GroupIdsProofs ----------------------------
(***************************************************************************)
(* Ids keep naming what they were given for, in orderly use: operators     *)
(* give no slug to a second group and rename no group onto another.        *)
(***************************************************************************)
EXTENDS GroupIds, TLAPS

\* What a group goes by: its directory and its slug.
Tags(k) == {k[1], SlugOf[name[k]]}

\* No two groups share any of these, and a group has one directory.
Apart ==
  \A j, k \in Grouped : Tags(j) \cap Tags(k) # {} => name[j] = name[k]
OneDir ==
  \A j, k \in Grouped : name[j] = name[k] => j[1] = k[1]
Slugged == \A k \in Grouped : SlugOf[name[k]] # 0

\* An id in use is tagged by nobody but the group of the file it was given for.
Held ==
  \A c \in Clients : client[c].of # NoKey =>
    /\ client[c].of \in Grouped
    /\ client[c].id \in Ids
    /\ client[c].id[2] \in {NoBase, client[c].of[2]}
    /\ \A j \in Grouped : client[c].id[1] \in Tags(j) => name[j] = name[client[c].of]

\* The name a rename is about to give is nobody's; its slug is no other
\* group's directory, and in no other group's id unless that group has the
\* slug still, and the rename will be refused.
Ready(old, new) ==
  /\ old # new
  /\ KeysOf(new) = {}
  /\ \A k \in Grouped \ KeysOf(old) : k[1] # SlugOf[new]
  /\ \A d \in Clients :
       /\ client[d].of \notin KeysOf(old) \cup {NoKey}
       /\ client[d].id[1] = SlugOf[new]
       => SlugOf[name[client[d].of]] = SlugOf[new]

Pending ==
  \A c \in Clients : client[c].at = "rename" =>
    \E old, new \in Names :
      old = client[c].old /\ new = client[c].new /\ Ready(old, new)

\* Renames in progress do not meet.
RenamesApart ==
  \A c, d \in Clients :
    c # d /\ client[c].at = "rename" /\ client[d].at = "rename" =>
      {SlugOf[client[c].old], SlugOf[client[c].new]}
        \cap {SlugOf[client[d].old], SlugOf[client[d].new]} = {}

IInv ==
  TypeOK /\ Apart /\ OneDir /\ Slugged /\ Held /\ Pending /\ RenamesApart

------------------------------------------------------------------------------

LEMMA LeastIn ==
  ASSUME NEW K \in SUBSET Keys, NEW k \in K, \A j \in K : j[1] = k[1]
  PROVE  Least(K) \in K /\ Least(K)[1] = k[1]
<1>1. k[1] \in Nat
  BY SlugAssumption DEF Keys
<1>2. \A j \in K : k[1] <= j[1]
  BY <1>1
<1> QED
  BY <1>2 DEF Least

\* Of the keys with one slug and one file name there is at most one.
LEMMA MatchesOne ==
  ASSUME TypeOK, Apart, OneDir, NEW id, NEW j \in Matches(id), NEW k \in Matches(id)
  PROVE  j = k
<1>1. /\ j \in Keys /\ k \in Keys /\ j[2] = k[2]
      /\ j \in Grouped /\ k \in Grouped
      /\ SlugOf[name[j]] = SlugOf[name[k]]
  BY DEF Matches, SlugKeys, Grouped
<1>2. name[j] = name[k]
  BY <1>1 DEF Apart, Tags
<1>3. j[1] = k[1]
  BY <1>1, <1>2 DEF OneDir
<1> QED
  BY <1>1, <1>3 DEF Keys

LEMMA StorePathMatch ==
  ASSUME TypeOK, Apart, OneDir, NEW id
  PROVE  /\ Matches(id) = {} => StorePath(id) = id
         /\ \A k \in Matches(id) : StorePath(id) = k
<1>1. Matches(id) = {} => StorePath(id) = id
  BY DEF StorePath
<1>2. ASSUME NEW k \in Matches(id) PROVE StorePath(id) = k
  <2>1. \A j \in Matches(id) : j = k
    BY <1>2, MatchesOne
  <2>2. Matches(id) \in SUBSET Keys
    BY DEF Matches, SlugKeys, Grouped
  <2>3. Least(Matches(id)) \in Matches(id)
    BY <2>1, <2>2, LeastIn
  <2> QED
    BY <2>1, <2>3 DEF StorePath
<1> QED
  BY <1>1, <1>2

LEMMA StorePathType ==
  ASSUME TypeOK, Apart, OneDir, NEW id \in Ids \cup {NoKey}
  PROVE  StorePath(id) \in Ids \cup {NoKey}
<1>1. \A k \in Matches(id) : k \in Ids
  BY DEF Matches, SlugKeys, Grouped, Keys, Ids
<1> QED
  BY <1>1, StorePathMatch

------------------------------------------------------------------------------

\* IInv gives what the runs check.
LEMMA IInvPublished == IInv => PublishedResolves
<1> SUFFICES ASSUME IInv, NEW k \in Grouped PROVE StorePath(Published(k)) = k
  BY DEF PublishedResolves
<1>1. k \in Matches(Published(k))
  BY DEF Matches, SlugKeys, Published
<1> QED
  BY <1>1, StorePathMatch DEF IInv

LEMMA IInvHeld == IInv => HeldIdNeverWrong
<1> SUFFICES ASSUME IInv, NEW c \in Clients, client[c].of # NoKey, client[c].id[2] # NoBase
             PROVE  StorePath(client[c].id) \in {client[c].of} \cup (Ids \ Grouped)
  BY DEF HeldIdNeverWrong
<1> DEFINE id == client[c].id
           of == client[c].of
<1>1. /\ of \in Grouped /\ id \in Ids /\ id[2] = of[2]
      /\ \A j \in Grouped : id[1] \in Tags(j) => name[j] = name[of]
  BY DEF IInv, Held
<1>2. ASSUME NEW j \in Grouped, id[1] \in Tags(j), j[2] = id[2] PROVE j = of
  <2>1. j[1] = of[1]
    BY <1>1, <1>2 DEF IInv, OneDir
  <2> QED
    BY <1>1, <1>2, <2>1 DEF Grouped, Keys
<1>3. CASE Matches(id) = {}
  <2>1. StorePath(id) = id
    BY <1>3, StorePathMatch DEF IInv
  <2>2. id \in Grouped => id = of
    BY <1>2 DEF Tags
  <2> QED
    BY <1>1, <2>1, <2>2
<1>4. ASSUME NEW k \in Matches(id) PROVE StorePath(id) = of
  <2>1. k \in Grouped /\ id[1] \in Tags(k) /\ k[2] = id[2]
    BY <1>4 DEF Matches, SlugKeys, Tags
  <2> QED
    BY <1>2, <1>4, <2>1, StorePathMatch DEF IInv
<1> QED
  BY <1>3, <1>4

------------------------------------------------------------------------------
(* Types.                                                                  *)

USE BoundsAssumption

LEMMA HolderType ==
  ASSUME NEW id \in Ids \cup {NoKey}, NEW k \in Keys \cup {NoKey}
  PROVE  Holder(id, k) \in ClientState /\ NoClient \in ClientState
BY DEF Holder, NoClient, ClientState

LEMMA GroupDirType ==
  ASSUME TypeOK, OneDir, NEW n \in Names, SlugOf[n] # 0
  PROVE  /\ KeysOf(n) = {} => GroupDir(n) = SlugOf[n]
         /\ \A j \in KeysOf(n) : GroupDir(n) = j[1]
         /\ GroupDir(n) \in Slugs
<1>1. CASE KeysOf(n) = {}
  BY <1>1, SlugAssumption DEF GroupDir
<1>2. ASSUME NEW j \in KeysOf(n)
      PROVE  GroupDir(n) = j[1] /\ GroupDir(n) \in Slugs
  <2>1. KeysOf(n) \in SUBSET Keys
    BY DEF KeysOf
  <2>2. \A i \in KeysOf(n) : i[1] = j[1]
    BY <1>2, NamesAssumption DEF KeysOf, OneDir, Grouped, Has
  <2>3. Least(KeysOf(n))[1] = j[1]
    BY <1>2, <2>1, <2>2, LeastIn
  <2>4. j[1] \in Slugs
    BY <1>2, <2>1 DEF Keys
  <2> QED
    BY <1>2, <2>3, <2>4 DEF GroupDir
<1> QED
  BY <1>1, <1>2

LEMMA InitIInv == Init => IInv
<1> SUFFICES ASSUME Init PROVE IInv
  OBVIOUS
<1>1. Grouped = {}
  BY DEF Init, Grouped, Has
<1>2. \A c \in Clients : client[c].of = NoKey /\ client[c].at = "none"
  BY DEF Init, NoClient, Holder
<1>3. TypeOK
  <2>1. NoClient \in ClientState
    BY DEF Holder, NoClient, ClientState
  <2> QED
    BY <2>1 DEF Init, TypeOK
<1>4. Apart /\ OneDir /\ Slugged
  BY <1>1 DEF Apart, OneDir, Slugged
<1>5. Held /\ Pending /\ RenamesApart
  BY <1>2 DEF Held, Pending, RenamesApart
<1> QED
  BY <1>3, <1>4, <1>5 DEF IInv

\* A step that gives no file another name and no client another id.
LEMMA Quiet ==
  ASSUME IInv, TypeOK', name' = name,
         \A c \in Clients :
           /\ client'[c].id = client[c].id /\ client'[c].of = client[c].of
           /\ client'[c].at = "rename" =>
                /\ client[c].at = "rename"
                /\ client'[c].old = client[c].old /\ client'[c].new = client[c].new
  PROVE  IInv'
<1>1. Grouped' = Grouped /\ \A n : KeysOf(n)' = KeysOf(n)
  BY DEF Grouped, Has, KeysOf
<1>2. Apart' /\ OneDir' /\ Slugged'
  BY <1>1 DEF IInv, Apart, OneDir, Slugged, Tags
<1>3. Held'
  BY <1>1 DEF IInv, Held, Tags
<1>4. Pending'
  BY <1>1 DEF IInv, Pending, Ready
<1>5. RenamesApart'
  BY DEF IInv, RenamesApart
<1> QED
  BY <1>2, <1>3, <1>4, <1>5 DEF IInv

LEMMA RequestSteps ==
  ASSUME IInv, NEW c \in Clients,
         Resolve(c) \/ ResolveFiles(c) \/ Submit(c) \/ Answered(c) \/ PlanDelete(c)
  PROVE  IInv'
<1> USE DEF IInv
<1>0. client[c] \in ClientState /\ client \in [Clients -> ClientState]
  BY DEF TypeOK
<1>1. CASE Resolve(c)
  <2>1. PICK kind \in {"chat", "bench"} :
          client' = [client EXCEPT ![c] = [client[c] EXCEPT
                       !.at = kind, !.model = StorePath(client[c].id)]]
    BY <1>1 DEF Resolve
  <2>2. StorePath(client[c].id) \in Ids \cup {NoKey}
    BY <1>0, StorePathType DEF ClientState
  <2>3. TypeOK'
    BY <1>0, <1>1, <2>1, <2>2 DEF TypeOK, Resolve, ClientState
  <2> QED
    BY <1>0, <1>1, <2>1, <2>3, Quiet DEF Resolve, ClientState
<1>2. CASE ResolveFiles(c)
  <2>1. client[c].id \in Ids \cup {NoKey} /\ client[c].model \in Ids \cup {NoKey}
    BY <1>0 DEF ClientState
  <2>2. PICK p \in Ids \cup {NoKey} :
          client' = [client EXCEPT ![c] = [client[c] EXCEPT
                       !.at = "files", !.primary = p]]
    BY <1>2, <2>1, StorePathType DEF ResolveFiles
  <2>3. UNCHANGED <<name, doomed, budget>>
    BY <1>2 DEF ResolveFiles
  <2>4. TypeOK'
    BY <1>0, <2>2, <2>3 DEF TypeOK, ClientState
  <2> QED
    BY <1>0, <2>2, <2>3, <2>4, Quiet DEF ClientState
<1>3. CASE Submit(c)
  <2>1. PICK p \in Keys \cup {NoKey} :
          client' = [client EXCEPT ![c] = [client[c] EXCEPT
                       !.at = "sent", !.projector = p]]
    BY <1>3 DEF Submit, Companions, GroupOf, KeysOf
  <2>2. TypeOK'
    BY <1>0, <1>3, <2>1 DEF TypeOK, Submit, ClientState
  <2> QED
    BY <1>0, <1>3, <2>1, <2>2, Quiet DEF Submit, ClientState
<1>4. CASE Answered(c)
  <2>1. Holder(client[c].id, client[c].of) \in ClientState
    BY <1>0, HolderType DEF ClientState
  <2>2. TypeOK'
    BY <1>0, <1>4, <2>1 DEF TypeOK, Answered
  <2> QED
    BY <1>0, <1>4, <2>2, Quiet DEF Answered, Holder
<1>5. CASE PlanDelete(c)
  <2>1. RelPaths(client[c].id) \in SUBSET Keys
    BY DEF RelPaths, SlugKeys, Grouped
  <2>2. TypeOK'
    BY <1>5, <2>1 DEF TypeOK, PlanDelete
  <2> QED
    BY <1>5, <2>2, Quiet DEF PlanDelete
<1> QED
  BY <1>1, <1>2, <1>3, <1>4, <1>5

------------------------------------------------------------------------------
(* Ids given out, and files removed.                                       *)

\* A client takes an id that only the group of its file goes by.
LEMMA TakesId ==
  ASSUME IInv, NEW c \in Clients, NEW k \in Grouped, NEW id \in Ids,
         id[1] \in Tags(k), id[2] \in {NoBase, k[2]},
         client' = [client EXCEPT ![c] = Holder(id, k)],
         UNCHANGED <<name, doomed, budget>>
  PROVE  IInv'
<1> USE DEF IInv
<1>1. /\ Grouped' = Grouped /\ \A n : KeysOf(n)' = KeysOf(n)
      /\ \A j : Tags(j)' = Tags(j)
  BY DEF Grouped, Has, KeysOf, Tags
<1>2. client \in [Clients -> ClientState] /\ k \in Keys
  BY DEF TypeOK, Grouped
<1>3. /\ Holder(id, k) \in ClientState
      /\ client'[c] = Holder(id, k)
      /\ \A d \in Clients \ {c} : client'[d] = client[d]
  BY <1>2, HolderType
<1>4. Holder(id, k).id = id /\ Holder(id, k).of = k /\ Holder(id, k).at = "holds"
  BY DEF Holder
<1>5. TypeOK'
  BY <1>2, <1>3 DEF TypeOK
<1>6. Apart' /\ OneDir' /\ Slugged'
  BY <1>1 DEF Apart, OneDir, Slugged
<1>7. \A j \in Grouped : id[1] \in Tags(j) => name[j] = name[k]
  BY DEF Apart
<1>8. Held'
  <2>1. ASSUME NEW d \in Clients, client'[d].of # NoKey
        PROVE  /\ client'[d].of \in Grouped
               /\ client'[d].id \in Ids
               /\ client'[d].id[2] \in {NoBase, client'[d].of[2]}
               /\ \A j \in Grouped : client'[d].id[1] \in Tags(j)
                                       => name[j] = name[client'[d].of]
    <3>1. CASE d = c
      BY <1>3, <1>4, <1>7, <3>1
    <3>2. CASE d # c
      BY <1>3, <2>1, <3>2 DEF Held
    <3> QED
      BY <3>1, <3>2
  <2> QED
    BY <1>1, <2>1 DEF Held
<1>9. Pending'
  <2> SUFFICES ASSUME NEW e \in Clients, client'[e].at = "rename"
               PROVE  \E old, new \in Names :
                 old = client'[e].old /\ new = client'[e].new /\ Ready(old, new)'
    BY DEF Pending
  <2>1. e # c /\ client'[e] = client[e] /\ client[e].at = "rename"
    BY <1>3, <1>4
  <2>2. PICK old, new \in Names :
          old = client[e].old /\ new = client[e].new /\ Ready(old, new)
    BY <2>1 DEF Pending
  <2>3. ASSUME NEW d \in Clients,
               client'[d].of \notin KeysOf(old) \cup {NoKey},
               client'[d].id[1] = SlugOf[new]
        PROVE  SlugOf[name[client'[d].of]] = SlugOf[new]
    <3>1. CASE d = c
      <4>1. k \in Grouped \ KeysOf(old) /\ id[1] = SlugOf[new]
        BY <1>3, <1>4, <2>3, <3>1
      <4>2. k[1] # SlugOf[new]
        BY <2>2, <4>1 DEF Ready
      <4> QED
        BY <1>3, <1>4, <3>1, <4>1, <4>2 DEF Tags
    <3>2. CASE d # c
      BY <1>3, <2>2, <2>3, <3>2 DEF Ready
    <3> QED
      BY <3>1, <3>2
  <2> QED
    BY <1>1, <2>1, <2>2, <2>3 DEF Ready
<1>10. RenamesApart'
  BY <1>3, <1>4 DEF RenamesApart
<1> QED
  BY <1>5, <1>6, <1>8, <1>9, <1>10

LEMMA TakingSteps ==
  ASSUME IInv, NEW c \in Clients, List(c) \/ \E k \in Keys : UsePath(c, k)
  PROVE  IInv'
<1>1. CASE List(c)
  <2>1. CASE UNCHANGED client
    <3>1. TypeOK'
      BY <1>1, <2>1 DEF IInv, TypeOK, List
    <3> QED
      BY <1>1, <2>1, <3>1, Quiet DEF List
  <2>2. ASSUME NEW k \in Grouped,
               NEW id \in {Published(k), <<SlugOf[name[k]], NoBase>>},
               client' = [client EXCEPT ![c] = Holder(id, k)]
        PROVE  IInv'
    <3>1. k \in Keys /\ name[k] \in Names /\ SlugOf[name[k]] \in Slugs
      BY SlugAssumption DEF IInv, TypeOK, Slugged, Grouped, Has
    <3>2. /\ id \in Ids /\ id[1] = SlugOf[name[k]] /\ id[2] \in {NoBase, k[2]}
      BY <3>1 DEF Published, Ids, Keys
    <3> QED
      BY <1>1, <2>2, <3>2, TakesId DEF List, Tags
  <2> QED
    BY <1>1, <2>1, <2>2 DEF List
<1>2. ASSUME NEW k \in Keys, UsePath(c, k) PROVE IInv'
  <2>1. k \in Grouped /\ k \in Ids /\ k[1] \in Tags(k)
    BY <1>2 DEF UsePath, Grouped, Keys, Ids, Tags
  <2> QED
    BY <1>2, <2>1, TakesId DEF UsePath
<1> QED
  BY <1>1, <1>2

LEMMA RemovedStep ==
  ASSUME IInv, NEW k \in Keys, Removed(k)
  PROVE  IInv'
<1> USE DEF IInv
<1>1. /\ name' = [name EXCEPT ![k] = NoName] /\ name \in [Keys -> Names \cup {NoName}]
      /\ \A j \in Keys \ {k} : name'[j] = name[j]
      /\ name'[k] = NoName
  BY DEF Removed, TypeOK
<1>2. /\ Grouped' = Grouped \ {k}
      /\ \A n \in Names : KeysOf(n)' = KeysOf(n) \ {k}
      /\ \A j \in Grouped' : Tags(j)' = Tags(j)
  BY <1>1, NamesAssumption DEF Grouped, Has, KeysOf, Tags
<1>3. \A c \in Clients :
        /\ client'[c].id = client[c].id /\ client'[c].at = client[c].at
        /\ client'[c].old = client[c].old /\ client'[c].new = client[c].new
        /\ client'[c].of = IF client[c].of = k THEN NoKey ELSE client[c].of
  BY DEF Removed, TypeOK, ClientState
<1>4. TypeOK'
  <2>1. \A c \in Clients : [client[c] EXCEPT !.of = NoKey] \in ClientState
    BY DEF TypeOK, ClientState
  <2>2. client' \in [Clients -> ClientState]
    BY <2>1 DEF Removed, TypeOK
  <2> QED
    BY <1>1, <2>2 DEF Removed, TypeOK
<1>5. Apart' /\ OneDir' /\ Slugged'
  BY <1>1, <1>2 DEF Apart, OneDir, Slugged, Grouped
<1>6. Held'
  BY <1>1, <1>2, <1>3 DEF Held, Grouped
<1>7. Pending'
  <2> SUFFICES ASSUME NEW e \in Clients, client'[e].at = "rename"
               PROVE  \E old, new \in Names :
                 old = client'[e].old /\ new = client'[e].new /\ Ready(old, new)'
    BY DEF Pending
  <2>1. client[e].at = "rename"
    BY <1>3
  <2>2. PICK old, new \in Names :
          old = client[e].old /\ new = client[e].new /\ Ready(old, new)
    BY <2>1 DEF Pending
  <2>3. ASSUME NEW d \in Clients,
               client'[d].of \notin KeysOf(old)' \cup {NoKey},
               client'[d].id[1] = SlugOf[new]
        PROVE  SlugOf[name'[client'[d].of]] = SlugOf[new]
    <3>1. client'[d].of = client[d].of /\ client[d].of # k /\ client[d].id = client'[d].id
      BY <1>3, <2>3
    <3>2. client[d].of \in Keys
      BY <2>3, <3>1 DEF Held, Grouped
    <3>3. client[d].of \notin KeysOf(old) \cup {NoKey}
      BY <1>2, <2>3, <3>1
    <3> QED
      BY <1>1, <2>2, <2>3, <3>1, <3>2, <3>3 DEF Ready
  <2>4. KeysOf(new)' = {} /\ \A j \in Grouped' \ KeysOf(old)' : j[1] # SlugOf[new]
    BY <1>2, <2>2 DEF Ready
  <2> QED
    BY <1>3, <2>2, <2>3, <2>4 DEF Ready
<1>8. RenamesApart'
  BY <1>3 DEF RenamesApart
<1> QED
  BY <1>4, <1>5, <1>6, <1>7, <1>8

------------------------------------------------------------------------------
(* Installs.                                                               *)

LEMMA InstallStep ==
  ASSUME IInv, Overlap = {}, NEW n \in Names, NEW b \in Bases, Install(n, b)
  PROVE  IInv'
<1> USE DEF IInv
<1>1. /\ SlugOf[n] # 0
      /\ \A j \in Grouped : name[j] # n => SlugOf[name[j]] # SlugOf[n]
      /\ UNCHANGED <<doomed, client>>
  BY DEF Install, SlugAvailable
<1>2. /\ GroupDir(n) \in Slugs
      /\ KeysOf(n) = {} => GroupDir(n) = SlugOf[n]
      /\ \A j \in KeysOf(n) : GroupDir(n) = j[1]
  BY <1>1, GroupDirType
<1>3. PICK k \in Keys :
        /\ k[1] = GroupDir(n) /\ ~Has(k)
        /\ KeysOf(n) # {} \/ Unused(SlugOf[n], {k})
        /\ name' = [name EXCEPT ![k] = n]
  <2>1. <<GroupDir(n), b>> \in Keys
    BY <1>2 DEF Keys
  <2> QED
    BY <2>1 DEF Install
<1>4. /\ name'[k] = n
      /\ \A j \in Keys \ {k} : name'[j] = name[j]
      /\ name' \in [Keys -> Names \cup {NoName}]
  BY <1>3 DEF TypeOK
<1>5. /\ Grouped' = Grouped \cup {k} /\ k \notin Grouped
      /\ KeysOf(n)' = KeysOf(n) \cup {k}
      /\ \A m \in Names \ {n} : KeysOf(m)' = KeysOf(m)
      /\ \A j \in Grouped : Tags(j)' = Tags(j)
      /\ Tags(k)' = {GroupDir(n), SlugOf[n]}
  <2>1. Grouped' = Grouped \cup {k} /\ k \notin Grouped
    BY <1>1, <1>3, <1>4, NamesAssumption DEF Grouped, Has
  <2>2. KeysOf(n)' = KeysOf(n) \cup {k}
    BY <1>3, <1>4 DEF KeysOf
  <2>3. name[k] = NoName
    BY <1>3 DEF Has
  <2>4. \A m \in Names \ {n} : KeysOf(m)' = KeysOf(m)
    BY <1>3, <1>4, <2>3, NamesAssumption DEF KeysOf
  <2>5. \A j \in Grouped : Tags(j)' = Tags(j)
    <3> SUFFICES ASSUME NEW j \in Grouped PROVE Tags(j)' = Tags(j)
      OBVIOUS
    <3>1. j \in Keys \ {k}
      BY <2>1 DEF Grouped
    <3>2. name'[j] = name[j]
      BY <1>4, <3>1
    <3> QED
      BY <3>2 DEF Tags
  <2>6. Tags(k)' = {GroupDir(n), SlugOf[n]}
    BY <1>3, <1>4 DEF Tags
  <2> QED
    BY <2>1, <2>2, <2>4, <2>5, <2>6
<1>6. \A j \in Grouped : name[j] # n => Tags(j) \cap {GroupDir(n), SlugOf[n]} = {}
  <2> SUFFICES ASSUME NEW j \in Grouped, name[j] # n
               PROVE  Tags(j) \cap {GroupDir(n), SlugOf[n]} = {}
    OBVIOUS
  <2>1. CASE KeysOf(n) = {}
    BY <1>1, <1>2, <1>3, <1>5, <2>1 DEF Unused, Tags
  <2>2. ASSUME NEW i \in KeysOf(n)
        PROVE  Tags(j) \cap {GroupDir(n), SlugOf[n]} = {}
    <3>1. i \in Grouped /\ name[i] = n /\ Tags(i) = {GroupDir(n), SlugOf[n]}
      BY <1>2, NamesAssumption DEF KeysOf, Grouped, Has, Tags
    <3> QED
      BY <3>1 DEF Apart
  <2> QED
    BY <2>1, <2>2
<1>7. TypeOK'
  BY <1>1, <1>4, BoundsAssumption DEF TypeOK, Install
<1>8. Apart'
  <2> SUFFICES ASSUME NEW i \in Grouped \cup {k}, NEW j \in Grouped \cup {k},
                      Tags(i)' \cap Tags(j)' # {}
               PROVE  name'[i] = name'[j]
    BY <1>5 DEF Apart
  <2>1. \A j1 \in Grouped : name'[j1] = name[j1]
    BY <1>4, <1>5 DEF Grouped
  <2>2. CASE i \in Grouped /\ j \in Grouped
    BY <1>5, <2>1, <2>2 DEF Apart
  <2>3. \A j1 \in Grouped : Tags(j1) \cap Tags(k)' # {} => name[j1] = n
    BY <1>5, <1>6
  <2>4. CASE i = k /\ j \in Grouped
    BY <1>4, <1>5, <2>1, <2>3, <2>4
  <2>5. CASE j = k /\ i \in Grouped
    BY <1>4, <1>5, <2>1, <2>3, <2>5
  <2>6. CASE i = k /\ j = k
    BY <2>6
  <2> QED
    BY <2>2, <2>4, <2>5, <2>6
<1>9. OneDir'
  <2>1. \A j \in Grouped : name[j] = n => j[1] = k[1]
    BY <1>2, <1>3 DEF KeysOf, Grouped
  <2> QED
    BY <1>4, <1>5, <2>1 DEF OneDir, Grouped
<1>10. Slugged'
  BY <1>1, <1>4, <1>5 DEF Slugged, Grouped
<1>11. Held'
  <2> SUFFICES ASSUME NEW c \in Clients, client[c].of # NoKey
               PROVE  /\ client[c].of \in Grouped'
                      /\ client[c].id \in Ids
                      /\ client[c].id[2] \in {NoBase, client[c].of[2]}
                      /\ \A j \in Grouped' : client[c].id[1] \in Tags(j)'
                                               => name'[j] = name'[client[c].of]
    BY <1>1 DEF Held
  <2>1. /\ client[c].of \in Grouped /\ client[c].id \in Ids
        /\ client[c].id[2] \in {NoBase, client[c].of[2]}
        /\ \A j \in Grouped : client[c].id[1] \in Tags(j) => name[j] = name[client[c].of]
        /\ client[c].of # k /\ name'[client[c].of] = name[client[c].of]
    BY <1>4, <1>5 DEF Held, Grouped
  <2>2. client[c].id[1] \in {GroupDir(n), SlugOf[n]} => name[client[c].of] = n
    <3>1. CASE KeysOf(n) = {}
      BY <1>2, <1>3, <2>1, <3>1 DEF Unused
    <3>2. ASSUME NEW i \in KeysOf(n), client[c].id[1] \in {GroupDir(n), SlugOf[n]}
          PROVE  name[client[c].of] = n
      <4>1. i \in Grouped /\ name[i] = n /\ Tags(i) = {GroupDir(n), SlugOf[n]}
        BY <1>2, NamesAssumption DEF KeysOf, Grouped, Has, Tags
      <4> QED
        BY <2>1, <3>2, <4>1
    <3> QED
      BY <3>1, <3>2
  <2>3. ASSUME NEW j \in Grouped', client[c].id[1] \in Tags(j)'
        PROVE  name'[j] = name'[client[c].of]
    <3>1. CASE j = k
      BY <1>4, <1>5, <2>1, <2>2, <2>3, <3>1
    <3>2. CASE j \in Grouped
      <4>1. name'[j] = name[j]
        BY <1>4, <1>5, <3>2 DEF Grouped
      <4> QED
        BY <1>5, <2>1, <2>3, <3>2, <4>1
    <3> QED
      BY <1>5, <2>3, <3>1, <3>2
  <2> QED
    BY <1>5, <2>1, <2>3
<1>12. Pending'
  <2> SUFFICES ASSUME NEW e \in Clients, client[e].at = "rename"
               PROVE  \E old, new \in Names :
                 old = client[e].old /\ new = client[e].new /\ Ready(old, new)'
    BY <1>1 DEF Pending
  <2>1. PICK old, new \in Names :
          old = client[e].old /\ new = client[e].new /\ Ready(old, new)
    BY DEF Pending
  <2>2. KeysOf(n) = {} => SlugOf[n] \notin {SlugOf[old], SlugOf[new]}
    BY <1>3, <2>1 DEF Unused, Unclaimed
  <2>3. n # new
    BY <2>1, <2>2 DEF Ready
  <2>4. \A j \in Grouped' \ KeysOf(old)' : j[1] # SlugOf[new]
    <3>1. \A j \in Grouped \ KeysOf(old) : j[1] # SlugOf[new]
      BY <2>1 DEF Ready
    <3>2. n # old => k[1] # SlugOf[new]
      <4>1. CASE KeysOf(n) = {}
        BY <1>2, <1>3, <2>2, <4>1
      <4>2. ASSUME NEW i \in KeysOf(n), n # old PROVE k[1] # SlugOf[new]
        <5>1. i \in Grouped \ KeysOf(old) /\ i[1] = k[1]
          BY <1>2, <1>3, <4>2, NamesAssumption DEF KeysOf, Grouped, Has
        <5> QED
          BY <3>1, <5>1
      <4> QED
        BY <4>1, <4>2
    <3> QED
      BY <1>5, <3>1, <3>2
  <2>5. ASSUME NEW d \in Clients,
               client[d].of \notin KeysOf(old)' \cup {NoKey},
               client[d].id[1] = SlugOf[new]
        PROVE  SlugOf[name'[client[d].of]] = SlugOf[new]
    <3>1. client[d].of \in Grouped
      BY <2>5 DEF Held
    <3>2. client[d].of \notin KeysOf(old) \cup {NoKey}
      BY <1>5, <2>5
    <3>3. name'[client[d].of] = name[client[d].of]
      BY <1>4, <1>5, <3>1 DEF Grouped
    <3> QED
      BY <2>1, <2>5, <3>2, <3>3 DEF Ready
  <2>6. KeysOf(new)' = {}
    BY <1>5, <2>1, <2>3 DEF Ready
  <2> QED
    BY <1>1, <2>1, <2>4, <2>5, <2>6 DEF Ready
<1>13. RenamesApart'
  BY <1>1 DEF RenamesApart
<1> QED
  BY <1>7, <1>8, <1>9, <1>10, <1>11, <1>12, <1>13

------------------------------------------------------------------------------
(* Renames.                                                                *)

LEMMA RenameLookupStep ==
  ASSUME IInv, Overlap = {}, NEW c \in Clients, NEW new \in Names, RenameLookup(c, new)
  PROVE  IInv'
<1> USE DEF IInv
<1>1. PICK old \in Names :
        /\ old # new /\ KeysOf(new) = {}
        /\ Unused(SlugOf[new], KeysOf(old)) /\ Unclaimed(SlugOf[old])
        /\ client' = [client EXCEPT ![c] = [client[c] EXCEPT
             !.at = "rename", !.old = old, !.new = new]]
  <2>1. \A k \in SlugKeys(client[c].id[1]) : name[k] \in Names
    BY DEF SlugKeys, Grouped, Has, TypeOK
  <2> QED
    BY <2>1 DEF RenameLookup
<1>2. client \in [Clients -> ClientState] /\ UNCHANGED <<name, doomed>>
  BY DEF TypeOK, RenameLookup
<1>3. /\ client'[c].at = "rename" /\ client'[c].old = old /\ client'[c].new = new
      /\ \A d \in Clients : client'[d].id = client[d].id /\ client'[d].of = client[d].of
      /\ \A d \in Clients \ {c} : client'[d] = client[d]
  BY <1>1, <1>2 DEF ClientState
<1>4. /\ Grouped' = Grouped /\ \A n : KeysOf(n)' = KeysOf(n)
      /\ \A j : Tags(j)' = Tags(j)
  BY <1>2 DEF Grouped, Has, KeysOf, Tags
<1>5. TypeOK'
  <2>1. client' \in [Clients -> ClientState]
    <3>1. [client[c] EXCEPT !.at = "rename", !.old = old, !.new = new] \in ClientState
      BY <1>2 DEF ClientState
    <3> QED
      BY <1>1, <1>2, <3>1
  <2>2. budget' \in [installs: 0..MaxInstalls, renames: 0..MaxRenames, deletes: 0..MaxDeletes]
    BY DEF TypeOK, RenameLookup
  <2> QED
    BY <1>2, <2>1, <2>2 DEF TypeOK
<1>6. Apart' /\ OneDir' /\ Slugged'
  BY <1>2, <1>4 DEF Apart, OneDir, Slugged
<1>7. Held'
  BY <1>2, <1>3, <1>4 DEF Held
<1>8. Pending'
  <2>1. Ready(old, new)'
    BY <1>1, <1>2, <1>3, <1>4 DEF Ready, Unused
  <2>2. ASSUME NEW e \in Clients \ {c}, client[e].at = "rename"
        PROVE  \E o, m \in Names :
                 o = client'[e].old /\ m = client'[e].new /\ Ready(o, m)'
    <3>1. PICK o, m \in Names : o = client[e].old /\ m = client[e].new /\ Ready(o, m)
      BY <2>2 DEF Pending
    <3>2. Ready(o, m)'
      BY <1>2, <1>3, <1>4, <3>1 DEF Ready
    <3> QED
      BY <1>3, <3>1, <3>2
  <2> QED
    BY <1>3, <2>1, <2>2 DEF Pending
<1>9. RenamesApart'
  <2>1. \A d \in Clients \ {c} : client[d].at = "rename" =>
          {SlugOf[old], SlugOf[new]} \cap {SlugOf[client[d].old], SlugOf[client[d].new]} = {}
    BY <1>1 DEF Unused, Unclaimed
  <2> QED
    BY <1>3, <2>1 DEF RenamesApart
<1> QED
  BY <1>5, <1>6, <1>7, <1>8, <1>9

LEMMA RenameApplyStep ==
  ASSUME IInv, NEW c \in Clients, RenameApply(c)
  PROVE  IInv'
<1> USE DEF IInv
<1>1. PICK old, new \in Names :
        old = client[c].old /\ new = client[c].new /\ Ready(old, new)
  BY DEF RenameApply, Pending
<1>2. /\ client \in [Clients -> ClientState] /\ name \in [Keys -> Names \cup {NoName}]
      /\ client' = [client EXCEPT ![c] = Holder(client[c].id, client[c].of)]
      /\ UNCHANGED <<doomed, budget>>
  BY DEF TypeOK, RenameApply
<1>3. Holder(client[c].id, client[c].of) \in ClientState
  BY <1>2, HolderType DEF ClientState
<1>4. /\ \A d \in Clients : client'[d].id = client[d].id /\ client'[d].of = client[d].of
      /\ client'[c].at # "rename"
      /\ \A d \in Clients \ {c} : client'[d] = client[d]
  BY <1>2 DEF Holder
<1>5. client' \in [Clients -> ClientState]
  BY <1>2, <1>3
<1>6. CASE name' = name
  <2>1. TypeOK'
    BY <1>2, <1>5, <1>6 DEF TypeOK
  <2> QED
    BY <1>4, <1>6, <2>1, Quiet
<1>7. CASE /\ SlugAvailable(new, {old})
           /\ name' = [k \in Keys |-> IF k \in KeysOf(old) THEN new ELSE name[k]]
  <2>1. /\ \A k \in Keys : name[k] = old => name'[k] = new
        /\ \A k \in Keys : name[k] # old => name'[k] = name[k]
    BY <1>7 DEF KeysOf
  <2>2. Grouped' = Grouped
    BY <2>1, NamesAssumption DEF Grouped, Has
  <2>3. /\ SlugOf[new] # 0
        /\ \A k \in Grouped : name[k] # old =>
             k[1] # SlugOf[new] /\ SlugOf[name[k]] # SlugOf[new]
        /\ \A k \in Grouped : name[k] # new
    BY <1>1, <1>7 DEF Ready, SlugAvailable, KeysOf, Grouped
  <2>4. \A j, k \in Grouped : name[j] = name[k] <=> name'[j] = name'[k]
    BY <2>1, <2>3 DEF Grouped
  <2>5. /\ \A k \in Grouped : name[k] = old => Tags(k)' = {k[1], SlugOf[new]}
        /\ \A k \in Grouped : name[k] # old => Tags(k)' = Tags(k)
    BY <2>1 DEF Tags, Grouped
  <2>6. TypeOK'
    BY <1>2, <1>5, <1>7 DEF TypeOK
  <2>7. Apart'
    <3> SUFFICES ASSUME NEW i \in Grouped, NEW j \in Grouped, Tags(i)' \cap Tags(j)' # {}
                 PROVE  name[i] = name[j]
      BY <2>2, <2>4 DEF Apart
    <3>1. \A k, l \in Grouped : name[k] = old /\ name[l] # old => Tags(k)' \cap Tags(l)' = {}
      <4> SUFFICES ASSUME NEW k \in Grouped, NEW l \in Grouped, name[k] = old, name[l] # old
                   PROVE  Tags(k)' \cap Tags(l)' = {}
        OBVIOUS
      <4>1. k[1] \notin Tags(l)
        BY DEF Apart, Tags
      <4>2. SlugOf[new] \notin Tags(l)
        BY <2>3 DEF Tags
      <4> QED
        BY <2>5, <4>1, <4>2
    <3>2. name[i] # old /\ name[j] # old => name[i] = name[j]
      BY <2>5 DEF Apart
    <3> QED
      BY <3>1, <3>2
  <2>8. OneDir'
    BY <2>2, <2>4 DEF OneDir
  <2>9. Slugged'
    BY <2>1, <2>2, <2>3 DEF Slugged, Grouped
  <2>10. Held'
    <3>1. ASSUME NEW d \in Clients, client[d].of # NoKey,
                 NEW j \in Grouped, client[d].id[1] \in Tags(j)'
          PROVE  name[j] = name[client[d].of]
      <4>1. /\ client[d].of \in Grouped
            /\ client[d].id[1] \in Tags(j) => name[j] = name[client[d].of]
        BY <3>1 DEF Held
      <4>2. CASE client[d].id[1] \in Tags(j)
        BY <4>1, <4>2
      <4>3. CASE client[d].id[1] \notin Tags(j)
        <5>1. name[j] = old /\ client[d].id[1] = SlugOf[new]
          BY <2>5, <3>1, <4>3 DEF Tags
        <5>2. ASSUME name[client[d].of] # old PROVE FALSE
          <6>1. client[d].of \notin KeysOf(old) \cup {NoKey}
            BY <3>1, <5>2 DEF KeysOf
          <6>2. SlugOf[name[client[d].of]] = SlugOf[new]
            BY <1>1, <5>1, <6>1 DEF Ready
          <6> QED
            BY <2>3, <4>1, <5>2, <6>2
        <5> QED
          BY <5>1, <5>2
      <4> QED
        BY <4>2, <4>3
    <3> QED
      BY <1>4, <2>2, <2>4, <3>1 DEF Held
  <2>11. Pending'
    <3> SUFFICES ASSUME NEW e \in Clients, client'[e].at = "rename"
                 PROVE  \E o, m \in Names :
                   o = client'[e].old /\ m = client'[e].new /\ Ready(o, m)'
      BY DEF Pending
    <3>1. e # c /\ client'[e] = client[e] /\ client[e].at = "rename"
      BY <1>4
    <3>2. PICK o, m \in Names : o = client[e].old /\ m = client[e].new /\ Ready(o, m)
      BY <3>1 DEF Pending
    <3>3. {SlugOf[old], SlugOf[new]} \cap {SlugOf[o], SlugOf[m]} = {}
      BY <1>1, <3>1, <3>2 DEF RenameApply, RenamesApart
    <3>4. o \notin {old, new} /\ m \notin {old, new}
      BY <3>3
    <3>5. KeysOf(o)' = KeysOf(o) /\ KeysOf(m)' = KeysOf(m)
      BY <2>1, <3>4 DEF KeysOf
    <3>6. ASSUME NEW d \in Clients,
                 client[d].of \notin KeysOf(o) \cup {NoKey},
                 client[d].id[1] = SlugOf[m]
          PROVE  SlugOf[name'[client[d].of]] = SlugOf[m]
      <4>1. SlugOf[name[client[d].of]] = SlugOf[m]
        BY <3>2, <3>6 DEF Ready
      <4>2. client[d].of \in Keys
        BY <3>6 DEF Held, Grouped
      <4>3. name[client[d].of] # old
        BY <3>3, <4>1
      <4> QED
        BY <2>1, <4>1, <4>2, <4>3
    <3>7. Ready(o, m)'
      BY <1>4, <2>2, <3>2, <3>5, <3>6 DEF Ready
    <3> QED
      BY <3>1, <3>2, <3>7
  <2>12. RenamesApart'
    BY <1>4 DEF RenamesApart
  <2> QED
    BY <2>6, <2>7, <2>8, <2>9, <2>10, <2>11, <2>12
<1> QED
  BY <1>1, <1>6, <1>7 DEF RenameApply

LEMMA NextIInv == IInv /\ Overlap = {} /\ [Next]_vars => IInv'
<1> SUFFICES ASSUME IInv, Overlap = {}, [Next]_vars PROVE IInv'
  OBVIOUS
<1>1. CASE UNCHANGED vars
  <2>1. TypeOK'
    BY <1>1 DEF vars, IInv, TypeOK
  <2> QED
    BY <1>1, <2>1, Quiet DEF vars
<1>2. ASSUME NEW n \in Names, NEW b \in Bases, Install(n, b) PROVE IInv'
  BY <1>2, InstallStep
<1>3. ASSUME NEW c \in Clients, NEW n \in Names, RenameLookup(c, n) PROVE IInv'
  BY <1>3, RenameLookupStep
<1>4. ASSUME NEW c \in Clients, RenameApply(c) PROVE IInv'
  BY <1>4, RenameApplyStep
<1>5. ASSUME NEW c \in Clients, List(c) \/ \E k \in Keys : UsePath(c, k) PROVE IInv'
  BY <1>5, TakingSteps
<1>6. ASSUME NEW c \in Clients,
             Resolve(c) \/ ResolveFiles(c) \/ Submit(c) \/ Answered(c) \/ PlanDelete(c)
      PROVE  IInv'
  BY <1>6, RequestSteps
<1>7. ASSUME NEW k \in Keys, Removed(k) PROVE IInv'
  BY <1>7, RemovedStep
<1> QED
  BY <1>1, <1>2, <1>3, <1>4, <1>5, <1>6, <1>7 DEF Next

------------------------------------------------------------------------------

\* In orderly use the invariant holds of every state.
THEOREM IdsInvariant == ASSUME Overlap = {} PROVE Spec => []IInv
<1>1. Init => IInv
  BY InitIInv
<1>2. IInv /\ [Next]_vars => IInv'
  BY NextIInv
<1> QED
  BY <1>1, <1>2, PTL DEF Spec

\* The catalogue, the plans and the clients keep their types.
THEOREM IdsTypeOK == ASSUME Overlap = {} PROVE Spec => []TypeOK
<1>1. IInv => TypeOK
  BY DEF IInv
<1> QED
  BY <1>1, IdsInvariant, PTL

\* storePathForID finds the file parseModelInfo listed under an id, whatever
\* renames its group has been through.
THEOREM PublishedIdsResolve == ASSUME Overlap = {} PROVE Spec => []PublishedResolves
BY IInvPublished, IdsInvariant, PTL

\* An id somebody still holds resolves to its file or to nothing, never to
\* another file, whatever is renamed, deleted and installed meanwhile.
THEOREM HeldIdsNeverWrong == ASSUME Overlap = {} PROVE Spec => []HeldIdNeverWrong
BY IInvHeld, IdsInvariant, PTL

\* PlanDelete decides on the files of the group the id it is given belongs to
\* (relPathsForModel), and on no others, however old the id.
THEOREM DeletesHitTheirTarget == ASSUME Overlap = {} PROVE Spec => DeleteHitsTarget
<1>1. ASSUME IInv, NEW c \in Clients, PlanDelete(c), client[c].of # NoKey
      PROVE  doomed' \ doomed \subseteq GroupOf(client[c].of)
  <2> DEFINE id == client[c].id
             of == client[c].of
  <2>1. /\ of \in Grouped
        /\ \A j \in Grouped : id[1] \in Tags(j) => name[j] = name[of]
    BY <1>1 DEF IInv, Held
  <2>2. doomed' \ doomed \subseteq RelPaths(id)
    BY <1>1 DEF PlanDelete
  <2>3. ASSUME NEW k \in RelPaths(id) PROVE k \in Keys /\ name[k] = name[of]
    <3>1. CASE id[2] = NoBase
      BY <2>1, <2>3, <3>1 DEF RelPaths, SlugKeys, Grouped, Tags
    <3>2. CASE id[2] # NoBase
      <4>1. k \in Grouped /\ StorePath(id) \in Keys /\ name[StorePath(id)] = name[k]
        BY <2>3, <3>2 DEF RelPaths, GroupOf, KeysOf
      <4>2. StorePath(id) \in Grouped
        BY <4>1 DEF Grouped, Has
      <4>3. StorePath(id) = of
        BY <1>1, <3>2, <4>2, IInvHeld DEF HeldIdNeverWrong
      <4> QED
        BY <4>1, <4>3 DEF Grouped
    <3> QED
      BY <3>1, <3>2
  <2> QED
    BY <2>2, <2>3 DEF GroupOf, KeysOf
<1>2. IInv => \A c \in Clients : PlanDelete(c) /\ client[c].of # NoKey
                => doomed' \ doomed \subseteq GroupOf(client[c].of)
  BY <1>1
<1>3. IInv => [\A c \in Clients : PlanDelete(c) /\ client[c].of # NoKey
                => doomed' \ doomed \subseteq GroupOf(client[c].of)]_vars
  BY <1>2
<1> QED
  BY <1>3, IdsInvariant, PTL DEF DeleteHitsTarget

------------------------------------------------------------------------------
(***************************************************************************)
(* Requests in progress.  Whatever the two resolutions of one request, at  *)
(* two times, have found, each is the file the id was given for or the id  *)
(* itself, taken for a path; and no other file can come to be at that path *)
(* while the id is in use.                                                 *)
(***************************************************************************)
RequestInv ==
  \A c \in Clients :
    /\ client[c].projector # NoKey =>
         client[c].at = "sent" /\ client[c].projector[1] = client[c].primary[1]
    /\ client[c].of # NoKey /\ client[c].at \in {"chat", "bench", "files", "sent"} =>
         client[c].id[2] # NoBase /\ client[c].model \in {client[c].of, client[c].id}
    /\ client[c].of # NoKey /\ client[c].at \in {"files", "sent"} =>
         client[c].primary \in {client[c].of, client[c].id}

LEMMA IdOrFile ==
  ASSUME IInv, NEW c \in Clients, client[c].of # NoKey, client[c].id[2] # NoBase
  PROVE  /\ client[c].of \in Grouped
         /\ client[c].id \in Grouped => client[c].id = client[c].of
         /\ \A x \in {client[c].of, client[c].id} :
              StorePath(x) \in {client[c].of, client[c].id}
<1>. DEFINE id == client[c].id
            of == client[c].of
<1>1. /\ of \in Grouped /\ id \in Ids /\ id[2] = of[2]
      /\ \A j \in Grouped : id[1] \in Tags(j) => name[j] = name[of]
  BY DEF IInv, Held
<1>2. ASSUME NEW j \in Grouped, {id[1], of[1]} \cap Tags(j) # {}, j[2] = of[2]
      PROVE  j = of
  <2>1. name[j] = name[of]
    BY <1>1, <1>2 DEF IInv, Apart, Tags
  <2>2. j[1] = of[1]
    BY <1>1, <2>1 DEF IInv, OneDir
  <2>. QED
    BY <1>1, <1>2, <2>2 DEF Grouped, Keys
<1>3. id \in Grouped => id = of
  BY <1>1, <1>2 DEF Tags
<1>4. ASSUME NEW x \in {of, id}
      PROVE  StorePath(x) \in {of, id}
  <2>1. ASSUME NEW k \in Matches(x)
        PROVE  k = of
    BY <1>1, <1>2, <1>4, <2>1 DEF Matches, SlugKeys, Tags
  <2>. QED
    BY <1>4, <2>1, StorePathMatch DEF IInv
<1>. QED
  BY <1>1, <1>3, <1>4

\* A request keeps its id and its file, unless that goes.
LEMMA RequestKept ==
  ASSUME IInv, RequestInv,
         \A c \in Clients :
           \/ /\ client'[c].projector = NoKey
              /\ client'[c].at \notin {"chat", "bench", "files", "sent"}
           \/ /\ client'[c].at = client[c].at /\ client'[c].of \in {client[c].of, NoKey}
              /\ client'[c].id = client[c].id /\ client'[c].model = client[c].model
              /\ client'[c].primary = client[c].primary
              /\ client'[c].projector = client[c].projector
  PROVE  RequestInv'
BY DEF RequestInv

LEMMA ClientFields ==
  ASSUME NEW id, NEW k
  PROVE  /\ Holder(id, k).projector = NoKey /\ Holder(id, k).at = "holds"
         /\ NoClient.projector = NoKey /\ NoClient.at = "none"
BY DEF Holder, NoClient

LEMMA RequestStep ==
  ASSUME IInv, RequestInv, [Next]_vars
  PROVE  RequestInv'
<1>0. client \in [Clients -> ClientState] /\ \A c \in Clients : client[c] \in ClientState
  BY DEF IInv, TypeOK
<1>1. CASE UNCHANGED client
  BY <1>1, RequestKept
<1>2. ASSUME NEW c \in Clients, NEW n \in Names, RenameLookup(c, n)
      PROVE  RequestInv'
  <2>1. PICK old : client' = [client EXCEPT ![c] = [client[c] EXCEPT
                                !.at = "rename", !.old = old, !.new = n]]
    BY <1>2 DEF RenameLookup
  <2>. DEFINE q == [client[c] EXCEPT !.at = "rename", !.old = old, !.new = n]
  <2>2. q.at = "rename" /\ q.projector = client[c].projector
    BY <1>0 DEF ClientState
  <2>3. client[c].projector = NoKey
    BY <1>2 DEF RenameLookup, RequestInv
  <2>4. client' = [client EXCEPT ![c] = q]
    BY <2>1
  <2>. HIDE DEF q
  <2>. QED
    BY <1>0, <2>2, <2>3, <2>4, RequestKept
<1>3. ASSUME NEW c \in Clients, RenameApply(c) \/ Answered(c)
      PROVE  RequestInv'
  <2>1. client' = [client EXCEPT ![c] = Holder(client[c].id, client[c].of)]
    BY <1>3 DEF RenameApply, Answered
  <2>. QED
    BY <1>0, <2>1, ClientFields, RequestKept
<1>4. ASSUME NEW c \in Clients, List(c) \/ \E k \in Keys : UsePath(c, k)
      PROVE  RequestInv'
  <2>1. UNCHANGED client \/ \E id, k : client' = [client EXCEPT ![c] = Holder(id, k)]
    BY <1>4 DEF List, UsePath
  <2>. QED
    BY <1>0, <2>1, ClientFields, RequestKept
<1>5. ASSUME NEW k \in Keys, Removed(k)
      PROVE  RequestInv'
  <2>1. \A c \in Clients : client'[c] = IF client[c].of = k
                            THEN [client[c] EXCEPT !.of = NoKey] ELSE client[c]
    BY <1>5 DEF Removed
  <2>2. ASSUME NEW c \in Clients
        PROVE  LET q == [client[c] EXCEPT !.of = NoKey]
               IN  /\ q.at = client[c].at /\ q.of = NoKey /\ q.id = client[c].id
                   /\ q.model = client[c].model /\ q.primary = client[c].primary
                   /\ q.projector = client[c].projector
    BY <1>0 DEF ClientState
  <2>. QED
    BY <2>1, <2>2, RequestKept
<1>6. ASSUME NEW c \in Clients, Resolve(c)
      PROVE  RequestInv'
  <2>1. PICK kind \in {"chat", "bench"} : client' = [client EXCEPT ![c] = [client[c] EXCEPT
                       !.at = kind, !.model = StorePath(client[c].id)]]
    BY <1>6 DEF Resolve
  <2>2. /\ client'[c].at \in {"chat", "bench"} /\ client'[c].of = client[c].of
        /\ client'[c].id = client[c].id /\ client'[c].model = StorePath(client[c].id)
        /\ client'[c].projector = client[c].projector
        /\ \A d \in Clients \ {c} : client'[d] = client[d]
    BY <1>0, <2>1 DEF ClientState
  <2>3. client[c].projector = NoKey /\ client[c].id[2] # NoBase
    BY <1>6 DEF Resolve, RequestInv
  <2>4. client[c].of # NoKey => StorePath(client[c].id) \in {client[c].of, client[c].id}
    BY <2>3, IdOrFile
  <2>. QED
    BY <2>2, <2>3, <2>4 DEF RequestInv
<1>7. ASSUME NEW c \in Clients, ResolveFiles(c)
      PROVE  RequestInv'
  <2>. DEFINE x == IF client[c].at = "chat" THEN client[c].id ELSE client[c].model
  <2>1. /\ client[c].at \in {"chat", "bench"}
        /\ client' = [client EXCEPT ![c] = [client[c] EXCEPT !.at = "files", !.primary = StorePath(x)]]
    BY <1>7 DEF ResolveFiles
  <2>2. /\ client'[c].at = "files" /\ client'[c].of = client[c].of
        /\ client'[c].id = client[c].id /\ client'[c].model = client[c].model
        /\ client'[c].primary = StorePath(x)
        /\ client'[c].projector = client[c].projector
        /\ \A d \in Clients \ {c} : client'[d] = client[d]
    BY <1>0, <2>1 DEF ClientState
  <2>3. client[c].projector = NoKey
    BY <2>1 DEF RequestInv
  <2>4. client[c].of # NoKey =>
          /\ client[c].id[2] # NoBase /\ client[c].model \in {client[c].of, client[c].id}
          /\ StorePath(x) \in {client[c].of, client[c].id}
    BY <2>1, IdOrFile DEF RequestInv
  <2>. QED
    BY <2>2, <2>3, <2>4 DEF RequestInv
<1>8. ASSUME NEW c \in Clients, Submit(c)
      PROVE  RequestInv'
  <2>1. PICK p \in Companions(client[c].primary) \cup {NoKey} :
          client' = [client EXCEPT ![c] = [client[c] EXCEPT !.at = "sent", !.projector = p]]
    BY <1>8 DEF Submit
  <2>2. /\ client'[c].at = "sent" /\ client'[c].of = client[c].of
        /\ client'[c].id = client[c].id /\ client'[c].model = client[c].model
        /\ client'[c].primary = client[c].primary /\ client'[c].projector = p
        /\ \A d \in Clients \ {c} : client'[d] = client[d]
    BY <1>0, <2>1 DEF ClientState
  <2>3. p # NoKey => p[1] = client[c].primary[1]
    BY <2>1 DEF Companions, GroupOf, KeysOf, Grouped, Has, IInv, OneDir
  <2>4. client[c].at = "files"
    BY <1>8 DEF Submit
  <2>. QED
    BY <2>2, <2>3, <2>4 DEF RequestInv
<1>9. CASE \E n \in Names, b \in Bases : Install(n, b)
  BY <1>1, <1>9 DEF Install
<1>10. CASE \E c \in Clients : PlanDelete(c)
  BY <1>1, <1>10 DEF PlanDelete
<1>. QED
  BY <1>1, <1>2, <1>3, <1>4, <1>5, <1>6, <1>7, <1>8, <1>9, <1>10 DEF Next, vars

LEMMA RequestInit == Init => RequestInv
BY DEF Init, RequestInv, NoClient, Holder

LEMMA RequestFiles == IInv /\ RequestInv => FilesOfOneModel
<1> SUFFICES ASSUME IInv, RequestInv PROVE FilesOfOneModel
  OBVIOUS
<1>1. ProjectorBesidePrimary
  BY DEF RequestInv, ProjectorBesidePrimary
<1>2. ASSUME NEW c \in Clients, client[c].of # NoKey, client[c].at \in {"files", "sent"},
             client[c].model # client[c].primary
      PROVE  {client[c].model, client[c].primary} \cap Grouped # {client[c].model, client[c].primary}
  <2>1. /\ client[c].id[2] # NoBase
        /\ client[c].model \in {client[c].of, client[c].id}
        /\ client[c].primary \in {client[c].of, client[c].id}
    BY <1>2 DEF RequestInv
  <2>2. client[c].id \notin Grouped
    BY <1>2, <2>1, IdOrFile
  <2>. QED
    BY <1>2, <2>1, <2>2
<1>. QED
  BY <1>1, <1>2 DEF FilesOfOneModel, JobOfOneModel

\* The model id a job is scheduled under, the primary file and the projector
\* sent with it are of one model, although each is looked up under a lock of
\* its own while groups are renamed, deleted and installed.
THEOREM JobsLoadOneModel == ASSUME Overlap = {} PROVE Spec => []FilesOfOneModel
<1>1. Init => RequestInv
  BY RequestInit
<1>2. IInv /\ RequestInv /\ [Next]_vars => RequestInv'
  BY RequestStep
<1> QED
  BY <1>1, <1>2, IdsInvariant, RequestFiles, PTL DEF Spec
===============================================================================
