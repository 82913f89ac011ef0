------------------------- MODULE InstallSearchProofs --------------------------
(***************************************************************************)
(* Proofs about the install page's search: the bound of its cache, and the *)
(* lists and buttons of the pages (PagingSound), for every number of       *)
(* pages, queries, calls and cached states.                                *)
(***************************************************************************)
EXTENDS InstallSearch, TLAPS

CallRecords ==
  [kind: {"search", "more"}, page: Pages, query: Queries,
   at: {"sent", "found", "asked", "append", "store", "answered", "done"},
   ref: 0..MaxCalls, seen: SUBSET Repos, rows: SUBSET Repos, more: BOOLEAN]

PageRecords ==
  [query: Queries \cup {NoQuery}, rows: SUBSET Repos, odd: BOOLEAN,
   button: Queries \cup {NoQuery}, alone: BOOLEAN]

SearchTypes ==
  /\ stateOf \in [Queries -> 0..MaxCalls]
  /\ order \in Seq(Queries)
  /\ states \in [Calls -> [shown: SUBSET Repos, more: BOOLEAN]]
  /\ calls \in Seq(CallRecords) /\ Len(calls) <= MaxCalls
  /\ page \in [Pages -> PageRecords]

\* CacheBounded, element by element.
CacheInv ==
  /\ Len(order) <= Cap
  /\ \A q \in Queries : stateOf[q] # 0 <=> \E i \in DOMAIN order : order[i] = q
  /\ \A i, j \in DOMAIN order : order[i] = order[j] => i = j

\* A state belongs to the query it is cached for, and that a call found it by.
RefsInv ==
  /\ \A q \in Queries : stateOf[q] # 0 =>
       stateOf[q] <= Len(calls) /\ calls[stateOf[q]].query = q
  /\ \A c \in DOMAIN calls : calls[c].at \in {"found", "asked", "append", "store"} =>
       /\ calls[c].kind = "more"
       /\ calls[c].ref \in DOMAIN calls /\ calls[calls[c].ref].query = calls[c].query

\* A page has at most one call under way, and no other page one about its query.
Undisturbed(p) ==
  /\ \A c, d \in Calls :
       /\ Live(c) /\ Live(d) /\ calls[c].page = p
       /\ calls[d].page = p \/ calls[d].query = calls[c].query
       => c = d
  /\ \A d \in Calls : Live(d) /\ calls[d].query = page[p].query => calls[d].page = p

\* Where the call of such a page is: what it read and wrote covers the rows
\* that the page shows, so what it brings is new.
Placed(p, c) ==
  /\ page[p].button = NoQuery
  /\ calls[c].kind = "search" => page[p].query = NoQuery /\ page[p].rows = {}
  /\ calls[c].kind = "more" => page[p].query = calls[c].query
  /\ calls[c].at \in {"found", "asked", "append", "store"} =>
       page[p].rows \subseteq states[calls[c].ref].shown
  /\ calls[c].at \in {"asked", "append"} => page[p].rows \subseteq calls[c].seen
  /\ calls[c].at \in {"append", "store", "answered"} => page[p].rows \cap calls[c].rows = {}
  /\ calls[c].at = "store" =>
       /\ calls[c].rows \subseteq states[calls[c].ref].shown
       /\ calls[c].more = states[calls[c].ref].more
  /\ calls[c].at = "answered" /\ stateOf[calls[c].query] # 0 =>
       /\ calls[c].rows \subseteq states[stateOf[calls[c].query]].shown
       /\ calls[c].more => states[stateOf[calls[c].query]].more

\* What it shows agrees with the state of its query, unless that was evicted.
Remembered(p) ==
  /\ ~page[p].odd
  /\ page[p].button \in {NoQuery, page[p].query}
  /\ page[p].query # NoQuery /\ stateOf[page[p].query] # 0 =>
       /\ page[p].rows \subseteq states[stateOf[page[p].query]].shown
       /\ page[p].button # NoQuery => states[stateOf[page[p].query]].more

AloneSound(p) ==
  /\ Undisturbed(p)
  /\ \A c \in Calls : Live(c) /\ calls[c].page = p => Placed(p, c)
  /\ Remembered(p)

PagesInv == \A p \in Pages : page[p].alone => AloneSound(p)

SearchInv == SearchTypes /\ CacheInv /\ RefsInv /\ PagesInv

USE CapAssumption, QueryAssumption

------------------------------------------------------------------------------
(* Helpers.                                                                *)

LEMMA SearchStarts == SearchInit => SearchInv
<1> SUFFICES ASSUME SearchInit
             PROVE  SearchInv
  OBVIOUS
<1>1. <<>> \in Seq(Queries) /\ <<>> \in Seq(CallRecords) /\ Len(<<>>) = 0 /\ DOMAIN <<>> = {}
  OBVIOUS
<1>2. SearchTypes
  BY <1>1 DEF SearchInit, SearchTypes, PageRecords
<1>3. CacheInv /\ RefsInv
  BY <1>1 DEF SearchInit, CacheInv, RefsInv
<1>4. PagesInv
  BY DEF SearchInit, PagesInv
<1>5. QED
  BY <1>2, <1>3, <1>4 DEF SearchInv

\* The history of a call that moves on: everything but where it is stays.
Moved(c, r) ==
  /\ r \in CallRecords
  /\ r.kind = calls[c].kind /\ r.page = calls[c].page /\ r.query = calls[c].query
  /\ Goes(c, r)

LEMMA CallMoves ==
  ASSUME SearchTypes, NEW c \in Calls, Live(c), NEW r, Moved(c, r)
  PROVE  /\ calls' \in Seq(CallRecords) /\ Len(calls') = Len(calls) /\ DOMAIN calls' = DOMAIN calls
         /\ c \in DOMAIN calls /\ DOMAIN calls = 1..Len(calls) /\ Len(calls) \in Nat
         /\ calls'[c] = r
         /\ \A d \in DOMAIN calls :
              /\ d # c => calls'[d] = calls[d]
              /\ calls'[d].page = calls[d].page /\ calls'[d].query = calls[d].query
              /\ calls'[d].kind = calls[d].kind
         /\ \A d \in Calls : Live(d) <=> d \in DOMAIN calls /\ calls[d].at # "done"
         /\ \A d \in Calls : Live(d)' => Live(d)
         /\ \A d \in Calls : Live(d)' <=> d \in DOMAIN calls /\ calls'[d].at # "done"
<1>1. Len(calls) \in Nat /\ DOMAIN calls = 1..Len(calls) /\ calls \in Seq(CallRecords)
  BY DEF SearchTypes
<1>2. c \in DOMAIN calls /\ calls[c].at # "done"
  BY <1>1 DEF Live, Calls
<1>3. calls' = [calls EXCEPT ![c] = r] /\ r \in CallRecords
  BY DEF Moved, Goes
<1>4. calls' \in Seq(CallRecords) /\ Len(calls') = Len(calls) /\ DOMAIN calls' = DOMAIN calls
  BY <1>1, <1>2, <1>3
<1>5. calls'[c] = r /\ \A d \in DOMAIN calls : d # c => calls'[d] = calls[d]
  BY <1>1, <1>2, <1>3
<1>6. \A d \in Calls : /\ Live(d) <=> d \in DOMAIN calls /\ calls[d].at # "done"
                       /\ Live(d)' <=> d \in DOMAIN calls /\ calls'[d].at # "done"
  BY <1>1, <1>4 DEF Live, Calls
<1>7. \A d \in Calls : Live(d)' => Live(d)
  BY <1>2, <1>5, <1>6
<1>8. QED
  BY <1>1, <1>2, <1>4, <1>5, <1>6, <1>7 DEF Moved

\* A call that moves on leaves a page undisturbed that was.
LEMMA UndisturbedKept ==
  ASSUME SearchTypes, NEW c \in Calls, Live(c), NEW r, Moved(c, r),
         NEW p \in Pages, Undisturbed(p),
         \/ page'[p].query \in {page[p].query, NoQuery}
         \/ calls[c].page = p /\ page'[p].query = calls[c].query
  PROVE  Undisturbed(p)'
<1>1. /\ \A d \in Calls : Live(d)' => Live(d) /\ d \in DOMAIN calls
      /\ \A d \in DOMAIN calls : calls'[d].page = calls[d].page /\ calls'[d].query = calls[d].query
  BY CallMoves
<1>2. ASSUME NEW d \in Calls, NEW e \in Calls, Live(d)', Live(e)', calls'[d].page = p,
             calls'[e].page = p \/ calls'[e].query = calls'[d].query
      PROVE  d = e
  BY <1>1, <1>2 DEF Undisturbed
<1>3. ASSUME NEW d \in Calls, Live(d)', calls'[d].query = page'[p].query
      PROVE  calls'[d].page = p
  <2>1. Live(d) /\ d \in DOMAIN calls /\ calls[d].query = page'[p].query /\ calls'[d].page = calls[d].page
    BY <1>1, <1>3
  <2>2. calls[d].query \in Queries
    <3>1. calls[d] \in CallRecords
      BY <2>1 DEF SearchTypes
    <3>2. QED
      BY <3>1 DEF CallRecords
  <2>3. CASE page'[p].query = page[p].query
    BY <2>1, <2>3 DEF Undisturbed
  <2>4. CASE calls[c].page = p /\ page'[p].query = calls[c].query
    BY <2>1, <2>4 DEF Undisturbed
  <2>5. QED
    BY <2>1, <2>2, <2>3, <2>4
<1>4. QED
  BY <1>2, <1>3 DEF Undisturbed

\* The states a call may write are those of its query.
Within(c) ==
  /\ \A n \in Calls : states'[n] = states[n] \/ (n \in DOMAIN calls /\ calls[n].query = calls[c].query)
  /\ \A q \in Queries : stateOf'[q] \in {stateOf[q], 0} \/ q = calls[c].query

\* What one page's call does is nothing to the pages that are undisturbed.
LEMMA OthersKept ==
  ASSUME SearchInv, NEW c \in Calls, Live(c), NEW r, Moved(c, r), Within(c),
         NEW p \in Pages, p # calls[c].page, page'[p] = page[p], page[p].alone
  PROVE  AloneSound(p)'
<1>1. /\ \A d \in Calls : Live(d)' => Live(d) /\ d \in DOMAIN calls
      /\ \A d \in DOMAIN calls : d # c => calls'[d] = calls[d]
      /\ \A d \in DOMAIN calls : calls'[d].page = calls[d].page /\ calls[d].query \in Queries
      /\ DOMAIN calls \subseteq Calls
  <2>1. SearchTypes
    BY DEF SearchInv
  <2>2. \A d \in DOMAIN calls : calls[d] \in CallRecords
    BY <2>1 DEF SearchTypes
  <2>3. \A d \in DOMAIN calls : calls[d].query \in Queries
    BY <2>2 DEF CallRecords
  <2>4. DOMAIN calls \subseteq Calls
    BY <2>1 DEF SearchTypes, Calls
  <2>5. QED
    BY <2>1, <2>3, <2>4, CallMoves
<1>2. AloneSound(p) /\ page[p].query \in Queries \cup {NoQuery}
  BY DEF SearchInv, PagesInv, SearchTypes, PageRecords
<1>3. Undisturbed(p)'
  BY <1>2, UndisturbedKept DEF SearchInv, AloneSound
<1>4. page[p].query # calls[c].query
  BY <1>2 DEF AloneSound, Undisturbed
<1>5. ASSUME NEW q \in Queries, q # calls[c].query, stateOf'[q] # 0
      PROVE  stateOf'[q] = stateOf[q] /\ states'[stateOf[q]] = states[stateOf[q]]
  <2>1. stateOf'[q] = stateOf[q]
    BY <1>5 DEF Within
  <2>2. stateOf[q] \in Calls /\ calls[stateOf[q]].query = q
    BY <1>5, <2>1 DEF SearchInv, SearchTypes, RefsInv, Calls
  <2>3. QED
    BY <1>5, <2>1, <2>2 DEF Within
<1>6. ASSUME NEW d \in Calls, Live(d)', calls'[d].page = p
      PROVE  Placed(p, d)'
  <2>1. Live(d) /\ d \in DOMAIN calls /\ d # c /\ calls'[d] = calls[d] /\ calls[d].page = p
        /\ calls[d].query \in Queries
    BY <1>1, <1>6
  <2>2. calls[d].query # calls[c].query
    BY <1>2, <2>1 DEF AloneSound, Undisturbed
  <2>3. Placed(p, d)
    BY <1>2, <2>1 DEF AloneSound
  <2>4. calls[d].at \in {"found", "asked", "append", "store"} =>
          states'[calls[d].ref] = states[calls[d].ref]
    <3> SUFFICES ASSUME calls[d].at \in {"found", "asked", "append", "store"}
                 PROVE  states'[calls[d].ref] = states[calls[d].ref]
      OBVIOUS
    <3>1. calls[d].ref \in DOMAIN calls /\ calls[calls[d].ref].query = calls[d].query
      BY <2>1 DEF SearchInv, RefsInv
    <3>2. QED
      BY <1>1, <2>2, <3>1 DEF Within
  <2>5. stateOf'[calls[d].query] # 0 =>
          /\ stateOf'[calls[d].query] = stateOf[calls[d].query]
          /\ states'[stateOf[calls[d].query]] = states[stateOf[calls[d].query]]
    BY <1>5, <2>1, <2>2
  <2>6. QED
    BY <2>1, <2>3, <2>4, <2>5 DEF Placed
<1>7. Remembered(p)'
  BY <1>2, <1>4, <1>5 DEF AloneSound, Remembered
<1>8. QED
  BY <1>3, <1>6, <1>7 DEF AloneSound

\* The only call of an undisturbed page moves on.
LEMMA OwnKept ==
  ASSUME SearchInv, NEW c \in Calls, Live(c), NEW r, Moved(c, r),
         NEW p \in Pages, p = calls[c].page, page[p].alone,
         page'[p].query \in {page[p].query, NoQuery, calls[c].query},
         Live(c)' => Placed(p, c)', Remembered(p)'
  PROVE  AloneSound(p)'
<1>1. AloneSound(p)
  BY DEF SearchInv, PagesInv
<1>2. Undisturbed(p)'
  BY <1>1, UndisturbedKept DEF SearchInv, AloneSound
<1>3. ASSUME NEW d \in Calls, Live(d)', calls'[d].page = p
      PROVE  d = c
  <2>1. Live(d) /\ calls[d].page = p
    BY <1>3, CallMoves DEF SearchInv
  <2>2. QED
    BY <1>1, <2>1 DEF AloneSound, Undisturbed
<1>4. QED
  BY <1>2, <1>3 DEF AloneSound

\* Both together: a call moves on, and answers to its own page alone.
LEMMA PagesKept ==
  ASSUME SearchInv, NEW c \in Calls, Live(c), NEW r, Moved(c, r), Within(c),
         NEW own \in Pages, own = calls[c].page,
         \A p \in Pages : p # own => page'[p] = page[p],
         page'[own].alone => page[own].alone,
         page'[own].query \in {page[own].query, NoQuery, calls[c].query},
         page[own].alone => (Live(c)' => Placed(own, c)') /\ Remembered(own)'
  PROVE  PagesInv'
<1>1. SUFFICES ASSUME NEW p \in Pages, page'[p].alone
               PROVE  AloneSound(p)'
  BY DEF PagesInv
<1>2. page[p].alone
  BY <1>1
<1>3. CASE p # own
  <2>1. page'[p] = page[p]
    BY <1>3
  <2>2. QED
    BY <1>2, <1>3, <2>1, OthersKept
<1>4. CASE p = own
  <2>1. page'[p].query \in {page[p].query, NoQuery, calls[c].query}
    BY <1>4
  <2>2. (Live(c)' => Placed(p, c)') /\ Remembered(p)'
    BY <1>2, <1>4
  <2>3. QED
    BY <1>2, <1>4, <2>1, <2>2, OwnKept
<1>5. QED
  BY <1>3, <1>4

\* The cached states keep to their queries.
LEMMA RefsKept ==
  ASSUME SearchInv, NEW c \in Calls, Live(c), NEW r, Moved(c, r),
         \A q \in Queries :
           \/ stateOf'[q] \in {stateOf[q], 0}
           \/ q = calls[c].query /\ stateOf'[q] \in DOMAIN calls /\ calls[stateOf'[q]].query = q,
         r.at \in {"found", "asked", "append", "store"} =>
           r.kind = "more" /\ r.ref \in DOMAIN calls /\ calls[r.ref].query = r.query
  PROVE  RefsInv'
<1>1. /\ Len(calls') = Len(calls) /\ DOMAIN calls' = DOMAIN calls /\ calls'[c] = r
      /\ DOMAIN calls = 1..Len(calls) /\ Len(calls) \in Nat
      /\ \A d \in DOMAIN calls : d # c => calls'[d] = calls[d]
      /\ \A d \in DOMAIN calls : calls'[d].query = calls[d].query
  BY CallMoves DEF SearchInv
<1>2. ASSUME NEW q \in Queries, stateOf'[q] # 0
      PROVE  stateOf'[q] <= Len(calls') /\ calls'[stateOf'[q]].query = q
  <2>1. stateOf[q] # 0 => stateOf[q] \in DOMAIN calls /\ calls[stateOf[q]].query = q
    BY <1>1 DEF SearchInv, SearchTypes, RefsInv
  <2>2. stateOf'[q] \in DOMAIN calls /\ calls[stateOf'[q]].query = q
    BY <1>2, <2>1
  <2>3. QED
    BY <1>1, <2>2
<1>3. ASSUME NEW d \in DOMAIN calls', calls'[d].at \in {"found", "asked", "append", "store"}
      PROVE  /\ calls'[d].kind = "more"
             /\ calls'[d].ref \in DOMAIN calls' /\ calls'[calls'[d].ref].query = calls'[d].query
  BY <1>1, <1>3 DEF SearchInv, RefsInv
<1>4. QED
  BY <1>2, <1>3 DEF RefsInv

------------------------------------------------------------------------------
(* The cache.                                                              *)

\* Storing a query's state drops at most the oldest query, never that one.
LEMMA StoreKeeps ==
  ASSUME SearchTypes, CacheInv, NEW q \in Queries, NEW ref \in Calls, Store(q, ref)
  PROVE  /\ CacheInv'
         /\ order' \in Seq(Queries) /\ stateOf' \in [Queries -> 0..MaxCalls]
         /\ stateOf'[q] = ref
         /\ \A x \in Queries : x # q => stateOf'[x] \in {stateOf[x], 0}
<1> DEFINE grown == IF Unlisted(q) THEN Append(order, q) ELSE order
           gone == IF Len(grown) > Cap THEN {Head(grown)} ELSE {}
<1>1. /\ order \in Seq(Queries) /\ stateOf \in [Queries -> 0..MaxCalls]
      /\ Len(order) \in Nat /\ DOMAIN order = 1..Len(order)
      /\ ref \in 0..MaxCalls /\ ref # 0 /\ MaxCalls \in Nat /\ Cap \in Nat /\ Cap > 0
  BY DEF SearchTypes, Calls
<1>2. /\ grown \in Seq(Queries) /\ Len(grown) \in Nat /\ DOMAIN grown = 1..Len(grown)
      /\ Len(grown) <= Cap + 1
      /\ \A i, j \in DOMAIN grown : grown[i] = grown[j] => i = j
      /\ \A x \in Queries : (x = q \/ stateOf[x] # 0) <=> \E i \in DOMAIN grown : grown[i] = x
      /\ Len(grown) > Cap => Len(grown) > 1 /\ grown[Len(grown)] = q
  <2>1. CASE Unlisted(q)
    <3>1. /\ grown = Append(order, q) /\ grown \in Seq(Queries) /\ Len(grown) = Len(order) + 1
          /\ DOMAIN grown = 1..(Len(order) + 1) /\ grown[Len(order) + 1] = q
          /\ \A i \in DOMAIN order : grown[i] = order[i]
      BY <1>1, <2>1
    <3>2. \A i \in DOMAIN order : order[i] # q
      BY <2>1, <1>1 DEF Unlisted, CacheInv
    <3> HIDE DEF grown
    <3>3. \A i \in DOMAIN grown : i \in DOMAIN order \/ i = Len(order) + 1
      BY <1>1, <3>1
    <3>4. Len(order) <= Cap
      BY DEF CacheInv
    <3>5. \A i, j \in DOMAIN grown : grown[i] = grown[j] => i = j
      BY <3>1, <3>2, <3>3 DEF CacheInv
    <3>6. ASSUME NEW x \in Queries
          PROVE  (x = q \/ stateOf[x] # 0) <=> \E i \in DOMAIN grown : grown[i] = x
      <4>1. x = q => \E i \in DOMAIN grown : grown[i] = x
        BY <1>1, <3>1
      <4>2. stateOf[x] # 0 => \E i \in DOMAIN grown : grown[i] = x
        <5> SUFFICES ASSUME stateOf[x] # 0
                     PROVE  \E i \in DOMAIN grown : grown[i] = x
          OBVIOUS
        <5>1. PICK i \in DOMAIN order : order[i] = x
          BY DEF CacheInv
        <5>2. i \in DOMAIN grown /\ grown[i] = x
          BY <1>1, <3>1, <5>1
        <5>3. QED
          BY <5>2
      <4>3. ASSUME NEW i \in DOMAIN grown, grown[i] = x
            PROVE  x = q \/ stateOf[x] # 0
        BY <3>1, <3>3, <4>3 DEF CacheInv
      <4>4. QED
        BY <4>1, <4>2, <4>3
    <3>7. QED
      BY <1>1, <3>1, <3>4, <3>5, <3>6
  <2>2. CASE ~Unlisted(q)
    <3>1. grown = order /\ stateOf[q] # 0
      BY <2>2 DEF Unlisted
    <3> HIDE DEF grown
    <3>2. QED
      BY <1>1, <3>1 DEF CacheInv
  <2>3. QED
    BY <2>1, <2>2
<1>3. /\ order' = IF gone # {} THEN Tail(grown) ELSE grown
      /\ stateOf' = [x \in Queries |-> IF x = q THEN ref ELSE IF x \in gone THEN 0 ELSE stateOf[x]]
  BY DEF Store
<1> HIDE DEF grown
<1>4. /\ stateOf' \in [Queries -> 0..MaxCalls] /\ stateOf'[q] = ref
      /\ \A x \in Queries : x # q => stateOf'[x] \in {stateOf[x], 0}
  BY <1>1, <1>3
<1>5. CASE Len(grown) <= Cap
  <2>1. gone = {} /\ order' = grown
    <3>1. ~(Len(grown) > Cap)
      BY <1>1, <1>2, <1>5
    <3>2. gone = {}
      BY <3>1, Zenon
    <3> HIDE DEF gone
    <3>3. QED
      BY <1>3, <3>2
  <2>2. \A x \in Queries : stateOf'[x] # 0 <=> (x = q \/ stateOf[x] # 0)
    BY <1>1, <1>3, <2>1
  <2>3. CacheInv'
    BY <1>2, <1>5, <2>1, <2>2 DEF CacheInv
  <2>4. QED
    BY <1>2, <1>4, <2>1, <2>3
<1>6. CASE Len(grown) > Cap
  <2> DEFINE old == grown[1]
  <2>1. /\ gone = {old} /\ order' = Tail(grown) /\ Len(grown) = Cap + 1 /\ 1 \in DOMAIN grown
        /\ Len(grown) \in DOMAIN grown
    <3>1. gone = {Head(grown)}
      BY <1>6, Zenon
    <3>2. Len(grown) = Cap + 1 /\ 1 \in DOMAIN grown /\ Len(grown) \in DOMAIN grown
      <4>1. Len(grown) \in Nat /\ Len(grown) <= Cap + 1 /\ DOMAIN grown = 1..Len(grown)
        BY <1>2
      <4> HIDE DEF gone
      <4>2. ASSUME NEW n \in Nat, n <= Cap + 1, n > Cap
            PROVE  n = Cap + 1
        BY <1>1, <4>2
      <4>3. Len(grown) = Cap + 1
        BY <1>6, <4>1, <4>2
      <4>4. QED
        BY <1>1, <4>1, <4>3
    <3>3. Head(grown) = old
      BY <1>2
    <3> HIDE DEF gone
    <3>4. order' = Tail(grown)
      BY <1>3, <3>1
    <3>5. QED
      BY <3>1, <3>2, <3>3, <3>4
  <2>2. /\ order' \in Seq(Queries) /\ Len(order') = Cap /\ DOMAIN order' = 1..Cap
        /\ \A i \in DOMAIN order' : i + 1 \in DOMAIN grown /\ order'[i] = grown[i + 1]
    BY <1>1, <1>2, <2>1
  <2>3. old # q /\ old \in Queries
    BY <1>2, <1>6, <2>1
  <2> HIDE DEF old
  <2>4. \A x \in Queries : stateOf'[x] # 0 <=> (x = q \/ stateOf[x] # 0) /\ x # old
    BY <1>1, <1>3, <2>1, <2>3
  <2>5. \A i, j \in DOMAIN order' : order'[i] = order'[j] => i = j
    BY <1>2, <2>2
  <2>6. ASSUME NEW x \in Queries
        PROVE  stateOf'[x] # 0 <=> \E i \in DOMAIN order' : order'[i] = x
    <3>1. ASSUME stateOf'[x] # 0
          PROVE  \E i \in DOMAIN order' : order'[i] = x
      <4>1. PICK j \in DOMAIN grown : grown[j] = x
        BY <1>2, <2>4, <3>1
      <4>2. j # 1
        BY <2>4, <3>1, <4>1 DEF old
      <4>3. j - 1 \in DOMAIN order' /\ (j - 1) + 1 = j
        BY <1>1, <1>2, <2>1, <2>2, <4>2
      <4>4. QED
        BY <2>2, <4>1, <4>3
    <3>2. ASSUME NEW i \in DOMAIN order', order'[i] = x
          PROVE  stateOf'[x] # 0
      <4>1. i + 1 \in DOMAIN grown /\ grown[i + 1] = x /\ i + 1 # 1
        BY <2>2, <3>2
      <4>2. x # old
        BY <1>2, <2>1, <4>1 DEF old
      <4>3. QED
        BY <1>2, <2>4, <4>1, <4>2
    <3>3. QED
      BY <3>1, <3>2
  <2>7. CacheInv'
    BY <1>1, <2>2, <2>5, <2>6 DEF CacheInv
  <2>8. QED
    BY <1>4, <2>2, <2>7
<1>7. QED
  BY <1>1, <1>2, <1>5, <1>6

------------------------------------------------------------------------------
(* The handlers.                                                           *)

LEMMA LiveTyped ==
  ASSUME SearchTypes, NEW c \in Calls, Live(c)
  PROVE  /\ c \in DOMAIN calls /\ calls[c] \in CallRecords /\ calls[c].at # "done"
         /\ calls[c].page \in Pages /\ calls[c].query \in Queries
<1>1. c \in DOMAIN calls /\ calls[c].at # "done" /\ calls \in Seq(CallRecords)
  BY DEF SearchTypes, Live, Calls
<1>2. calls[c] \in CallRecords
  BY <1>1
<1>3. QED
  BY <1>1, <1>2 DEF CallRecords

\* A step of a call that nobody sees yet.
LEMMA CallAlone ==
  ASSUME SearchInv, NEW c \in Calls, Live(c), NEW r, Moved(c, r),
         UNCHANGED <<stateOf, order, states, page>>,
         r.at \in {"found", "asked", "append", "store"} =>
           r.kind = "more" /\ r.ref \in DOMAIN calls /\ calls[r.ref].query = r.query,
         \A p \in Pages : p = r.page /\ Placed(p, c) /\ Remembered(p) => Placed(p, c)'
  PROVE  SearchInv'
<1>1. SearchTypes'
  BY CallMoves DEF SearchInv, SearchTypes
<1>2. CacheInv'
  BY DEF SearchInv, CacheInv
<1>3. RefsInv'
  BY RefsKept
<1>4. PagesInv'
  <2>1. Within(c)
    BY DEF Within
  <2>2. PICK own \in Pages : own = calls[c].page
    BY LiveTyped DEF SearchInv
  <2>3. own = r.page
    BY <2>2 DEF Moved
  <2>4. page[own].alone => (Live(c)' => Placed(own, c)') /\ Remembered(own)'
    <3> SUFFICES ASSUME page[own].alone
                 PROVE  Placed(own, c)' /\ Remembered(own)'
      OBVIOUS
    <3>1. Placed(own, c) /\ Remembered(own)
      BY <2>2 DEF SearchInv, PagesInv, AloneSound
    <3>2. Remembered(own)'
      BY <3>1 DEF Remembered
    <3>3. QED
      BY <2>3, <3>1, <3>2
  <2>5. QED
    BY <2>1, <2>2, <2>4, PagesKept
<1>5. QED
  BY <1>1, <1>2, <1>3, <1>4 DEF SearchInv

LEMMA BlankKept ==
  ASSUME SearchInv, NEW c \in Calls, Live(c), Blank(c), UNCHANGED <<stateOf, order, states, page>>
  PROVE  SearchInv'
<1> DEFINE r == [calls[c] EXCEPT !.at = "answered", !.ref = 0, !.seen = {}, !.rows = {}, !.more = FALSE]
<1>1. c \in DOMAIN calls /\ calls[c] \in CallRecords
  BY LiveTyped DEF SearchInv
<1>2. /\ r \in CallRecords
      /\ r.kind = calls[c].kind /\ r.page = calls[c].page /\ r.query = calls[c].query
      /\ r.at = "answered" /\ r.rows = {} /\ r.more = FALSE
  <2>1. 0 \in 0..MaxCalls /\ {} \in SUBSET Repos
    OBVIOUS
  <2>2. QED
    BY <1>1, <2>1 DEF CallRecords
<1>3. Goes(c, r)
  BY DEF Blank, Answered
<1> HIDE DEF r
<1>4. Moved(c, r)
  BY <1>2, <1>3 DEF Moved
<1>5. calls'[c] = r
  BY <1>4, CallMoves DEF SearchInv
<1>6. \A p \in Pages : p = r.page /\ Placed(p, c) => Placed(p, c)'
  BY <1>2, <1>5 DEF Placed
<1>7. QED
  BY <1>2, <1>4, <1>6, CallAlone

LEMMA MoreLooksKept == ASSUME SearchInv, NEW c \in Calls, MoreLooks(c) PROVE SearchInv'
<1>1. /\ Live(c) /\ c \in DOMAIN calls /\ calls[c] \in CallRecords /\ calls[c].query \in Queries
      /\ calls[c].kind = "more" /\ calls[c].at = "sent" /\ UNCHANGED <<stateOf, order, states, page>>
  BY LiveTyped DEF SearchInv, MoreLooks
<1>2. CASE stateOf[calls[c].query] = 0
  BY <1>1, <1>2, BlankKept DEF MoreLooks
<1>3. CASE stateOf[calls[c].query] # 0
  <2> DEFINE r == [calls[c] EXCEPT !.at = "found", !.ref = stateOf[calls[c].query]]
  <2>1. /\ stateOf[calls[c].query] \in 0..MaxCalls
        /\ stateOf[calls[c].query] \in DOMAIN calls /\ calls[stateOf[calls[c].query]].query = calls[c].query
    BY <1>1, <1>3 DEF SearchInv, SearchTypes, RefsInv
  <2>2. /\ r \in CallRecords
        /\ r.kind = calls[c].kind /\ r.page = calls[c].page /\ r.query = calls[c].query
        /\ r.at = "found" /\ r.ref = stateOf[calls[c].query]
    BY <1>1, <2>1 DEF CallRecords
  <2>3. Goes(c, r)
    BY <1>3 DEF MoreLooks
  <2> HIDE DEF r
  <2>4. Moved(c, r)
    BY <2>2, <2>3 DEF Moved
  <2>5. calls'[c] = r
    BY <1>1, <2>4, CallMoves DEF SearchInv
  <2>6. ASSUME NEW p \in Pages, Placed(p, c), Remembered(p)
        PROVE  Placed(p, c)'
    <3>1. page[p].query = calls[c].query /\ calls[c].query # NoQuery
      BY <1>1, <2>6 DEF Placed
    <3>2. page[p].rows \subseteq states[stateOf[calls[c].query]].shown
      BY <1>3, <2>6, <3>1 DEF Remembered
    <3>3. QED
      BY <1>1, <2>2, <2>5, <2>6, <3>2 DEF Placed
  <2>7. QED
    BY <1>1, <2>1, <2>2, <2>4, <2>6, CallAlone
<1>4. QED
  BY <1>2, <1>3

LEMMA MoreReadsKept == ASSUME SearchInv, NEW c \in Calls, MoreReads(c) PROVE SearchInv'
<1>1. /\ Live(c) /\ c \in DOMAIN calls /\ calls[c] \in CallRecords
      /\ calls[c].at = "found" /\ UNCHANGED <<stateOf, order, states, page>>
  BY LiveTyped DEF SearchInv, MoreReads
<1>2. /\ calls[c].kind = "more" /\ calls[c].ref \in DOMAIN calls
      /\ calls[calls[c].ref].query = calls[c].query
  BY <1>1 DEF SearchInv, RefsInv
<1>3. CASE ~states[calls[c].ref].more
  BY <1>1, <1>3, BlankKept DEF MoreReads
<1>4. CASE states[calls[c].ref].more
  <2> DEFINE r == [calls[c] EXCEPT !.at = "asked", !.seen = states[calls[c].ref].shown]
  <2>1. states[calls[c].ref].shown \in SUBSET Repos
    <3>1. calls[c].ref \in Calls
      BY <1>2 DEF SearchInv, SearchTypes, Calls
    <3>2. QED
      BY <3>1 DEF SearchInv, SearchTypes
  <2>2. /\ r \in CallRecords
        /\ r.kind = calls[c].kind /\ r.page = calls[c].page /\ r.query = calls[c].query
        /\ r.at = "asked" /\ r.ref = calls[c].ref /\ r.seen = states[calls[c].ref].shown
    BY <1>1, <2>1 DEF CallRecords
  <2>3. Goes(c, r)
    BY <1>4 DEF MoreReads
  <2> HIDE DEF r
  <2>4. Moved(c, r)
    BY <2>2, <2>3 DEF Moved
  <2>5. calls'[c] = r
    BY <1>1, <2>4, CallMoves DEF SearchInv
  <2>6. ASSUME NEW p \in Pages, Placed(p, c)
        PROVE  Placed(p, c)'
    BY <1>1, <1>2, <2>2, <2>5, <2>6 DEF Placed
  <2>7. QED
    BY <1>1, <1>2, <2>2, <2>4, <2>6, CallAlone
<1>5. QED
  BY <1>3, <1>4

LEMMA MoreAnswersKept == ASSUME SearchInv, NEW c \in Calls, MoreAnswers(c) PROVE SearchInv'
<1>1. /\ Live(c) /\ c \in DOMAIN calls /\ calls[c] \in CallRecords
      /\ calls[c].at = "asked" /\ UNCHANGED <<stateOf, order, states, page>>
  BY LiveTyped DEF SearchInv, MoreAnswers
<1>2. /\ calls[c].kind = "more" /\ calls[c].ref \in DOMAIN calls
      /\ calls[calls[c].ref].query = calls[c].query
  BY <1>1 DEF SearchInv, RefsInv
<1>3. PICK found \in SUBSET (Repos \ calls[c].seen), more \in BOOLEAN :
        Goes(c, [calls[c] EXCEPT !.at = "append", !.rows = found, !.more = more,
                                 !.seen = states[calls[c].ref].shown])
  BY DEF MoreAnswers
<1> DEFINE r == [calls[c] EXCEPT !.at = "append", !.rows = found, !.more = more,
                                 !.seen = states[calls[c].ref].shown]
<1>4. states[calls[c].ref].shown \in SUBSET Repos
  <2>1. calls[c].ref \in Calls
    BY <1>2 DEF SearchInv, SearchTypes, Calls
  <2>2. QED
    BY <2>1 DEF SearchInv, SearchTypes
<1>5. found \in SUBSET Repos /\ found \cap calls[c].seen = {}
  OBVIOUS
<1>6. /\ r \in CallRecords
      /\ r.kind = calls[c].kind /\ r.page = calls[c].page /\ r.query = calls[c].query
      /\ r.at = "append" /\ r.ref = calls[c].ref /\ r.seen = states[calls[c].ref].shown
      /\ r.rows = found /\ r.more = more
  BY <1>1, <1>4, <1>5 DEF CallRecords
<1>7. Goes(c, r)
  BY <1>3
<1> HIDE DEF r
<1>8. Moved(c, r)
  BY <1>6, <1>7 DEF Moved
<1>9. calls'[c] = r
  BY <1>1, <1>8, CallMoves DEF SearchInv
<1>10. ASSUME NEW p \in Pages, Placed(p, c)
       PROVE  Placed(p, c)'
  <2>1. page[p].rows \subseteq calls[c].seen /\ page[p].rows \subseteq states[calls[c].ref].shown
    BY <1>1, <1>10 DEF Placed
  <2>2. page[p].rows \cap found = {}
    BY <1>5, <2>1
  <2>3. QED
    BY <1>1, <1>2, <1>6, <1>9, <1>10, <2>1, <2>2 DEF Placed
<1>11. QED
  BY <1>1, <1>2, <1>6, <1>8, <1>10, CallAlone

LEMMA FailKept ==
  ASSUME SearchInv, NEW c \in Calls, SearchFails(c) \/ MoreFails(c)
  PROVE  SearchInv'
BY BlankKept DEF SearchFails, MoreFails

LEMMA MoreWritesKept == ASSUME SearchInv, NEW c \in Calls, MoreWrites(c) PROVE SearchInv'
<1>1. /\ Live(c) /\ c \in DOMAIN calls /\ calls[c] \in CallRecords /\ calls[c].page \in Pages
      /\ calls[c].at = "append" /\ UNCHANGED <<stateOf, order, page>>
  BY LiveTyped DEF SearchInv, MoreWrites
<1>2. /\ calls[c].kind = "more" /\ calls[c].ref \in DOMAIN calls /\ calls[c].ref \in Calls
      /\ calls[calls[c].ref].query = calls[c].query
  BY <1>1 DEF SearchInv, RefsInv, SearchTypes, Calls
<1> DEFINE r == [calls[c] EXCEPT !.at = "store"]
           new == [shown |-> calls[c].seen \cup calls[c].rows, more |-> calls[c].more]
<1>3. /\ r \in CallRecords
      /\ r.kind = calls[c].kind /\ r.page = calls[c].page /\ r.query = calls[c].query
      /\ r.at = "store" /\ r.ref = calls[c].ref /\ r.rows = calls[c].rows /\ r.more = calls[c].more
      /\ new \in [shown: SUBSET Repos, more: BOOLEAN]
      /\ new.shown = calls[c].seen \cup calls[c].rows /\ new.more = calls[c].more
  BY <1>1 DEF CallRecords
<1>4. Goes(c, r) /\ states' = [states EXCEPT ![calls[c].ref] = new]
  BY DEF MoreWrites
<1> HIDE DEF r, new
<1>5. Moved(c, r)
  BY <1>3, <1>4 DEF Moved
<1>6. calls'[c] = r
  BY <1>1, <1>5, CallMoves DEF SearchInv
<1>7. /\ states' \in [Calls -> [shown: SUBSET Repos, more: BOOLEAN]]
      /\ states'[calls[c].ref] = new
      /\ \A n \in Calls : n # calls[c].ref => states'[n] = states[n]
  BY <1>2, <1>3, <1>4 DEF SearchInv, SearchTypes
<1>8. SearchTypes' /\ CacheInv'
  BY <1>1, <1>5, <1>7, CallMoves DEF SearchInv, SearchTypes, CacheInv
<1>9. RefsInv'
  BY <1>1, <1>2, <1>3, <1>5, RefsKept
<1>10. PagesInv'
  <2>1. Within(c)
    BY <1>1, <1>2, <1>7 DEF Within
  <2>2. PICK own \in Pages : own = calls[c].page
    BY <1>1
  <2>3. ASSUME page[own].alone
        PROVE  Placed(own, c)' /\ Remembered(own)'
    <3>1. Placed(own, c) /\ Remembered(own)
      BY <1>1, <2>2, <2>3 DEF SearchInv, PagesInv, AloneSound
    <3>2. /\ page[own].rows \subseteq calls[c].seen /\ page[own].rows \cap calls[c].rows = {}
          /\ page[own].button = NoQuery /\ page[own].query = calls[c].query
      BY <1>1, <1>2, <3>1 DEF Placed
    <3>3. Placed(own, c)'
      BY <1>1, <1>2, <1>3, <1>6, <1>7, <3>2 DEF Placed
    <3>4. Remembered(own)'
      <4>1. stateOf[page[own].query] # 0 /\ page[own].query # NoQuery =>
              page[own].rows \subseteq states'[stateOf[page[own].query]].shown
        <5>1. CASE stateOf[page[own].query] = calls[c].ref
          BY <1>3, <1>7, <3>2, <5>1
        <5>2. CASE stateOf[page[own].query] # calls[c].ref
          <6>1. page[own].query # NoQuery => stateOf[page[own].query] \in 0..MaxCalls
            BY DEF SearchInv, SearchTypes, PageRecords
          <6>2. page[own].query # NoQuery /\ stateOf[page[own].query] # 0
                  => stateOf[page[own].query] \in Calls
            BY <6>1 DEF Calls
          <6>3. QED
            BY <1>7, <3>1, <5>2, <6>2 DEF Remembered
        <5>3. QED
          BY <5>1, <5>2
      <4>2. QED
        BY <1>1, <3>1, <3>2, <4>1 DEF Remembered
    <3>5. QED
      BY <3>3, <3>4
  <2>4. QED
    BY <1>1, <1>5, <2>1, <2>2, <2>3, PagesKept
<1>11. QED
  BY <1>8, <1>9, <1>10 DEF SearchInv

LEMMA MoreStoresKept == ASSUME SearchInv, NEW c \in Calls, MoreStores(c) PROVE SearchInv'
<1>1. /\ Live(c) /\ c \in DOMAIN calls /\ calls[c] \in CallRecords /\ calls[c].page \in Pages
      /\ calls[c].query \in Queries
      /\ calls[c].at = "store" /\ UNCHANGED <<states, page>> /\ Store(calls[c].query, calls[c].ref)
  BY LiveTyped DEF SearchInv, MoreStores
<1>2. /\ calls[c].kind = "more" /\ calls[c].ref \in DOMAIN calls /\ calls[c].ref \in Calls
      /\ calls[calls[c].ref].query = calls[c].query
  BY <1>1 DEF SearchInv, RefsInv, SearchTypes, Calls
<1> DEFINE q == calls[c].query
           r == [calls[c] EXCEPT !.at = "answered", !.ref = 0, !.seen = {},
                                 !.rows = calls[c].rows, !.more = calls[c].more]
<1>3. /\ r \in CallRecords
      /\ r.kind = calls[c].kind /\ r.page = calls[c].page /\ r.query = q
      /\ r.at = "answered" /\ r.rows = calls[c].rows /\ r.more = calls[c].more
  <2>1. 0 \in 0..MaxCalls /\ {} \in SUBSET Repos
    OBVIOUS
  <2>2. QED
    BY <1>1, <2>1 DEF CallRecords
<1>4. Goes(c, r)
  BY DEF MoreStores, Answered
<1> HIDE DEF r
<1>5. Moved(c, r)
  BY <1>3, <1>4 DEF Moved
<1>6. calls'[c] = r
  BY <1>1, <1>5, CallMoves DEF SearchInv
<1>7. /\ CacheInv'
      /\ order' \in Seq(Queries) /\ stateOf' \in [Queries -> 0..MaxCalls]
      /\ stateOf'[q] = calls[c].ref
      /\ \A x \in Queries : x # q => stateOf'[x] \in {stateOf[x], 0}
  BY <1>1, <1>2, StoreKeeps DEF SearchInv
<1>8. SearchTypes'
  BY <1>1, <1>5, <1>7, CallMoves DEF SearchInv, SearchTypes
<1>9. RefsInv'
  BY <1>1, <1>2, <1>3, <1>5, <1>7, RefsKept
<1>10. PagesInv'
  <2>1. Within(c)
    BY <1>1, <1>7 DEF Within
  <2>2. PICK own \in Pages : own = calls[c].page
    BY <1>1
  <2>3. ASSUME page[own].alone
        PROVE  Placed(own, c)' /\ Remembered(own)'
    <3>1. Placed(own, c) /\ Remembered(own)
      BY <1>1, <2>2, <2>3 DEF SearchInv, PagesInv, AloneSound
    <3>2. Placed(own, c)'
      BY <1>1, <1>2, <1>3, <1>6, <1>7, <3>1 DEF Placed
    <3>3. Remembered(own)'
      BY <1>1, <1>2, <1>7, <3>1 DEF Placed, Remembered
    <3>4. QED
      BY <3>2, <3>3
  <2>4. QED
    BY <1>1, <1>5, <2>1, <2>2, <2>3, PagesKept
<1>11. QED
  BY <1>7, <1>8, <1>9, <1>10 DEF SearchInv

LEMMA SearchAnswersKept == ASSUME SearchInv, NEW c \in Calls, SearchAnswers(c) PROVE SearchInv'
<1>1. /\ Live(c) /\ c \in DOMAIN calls /\ calls[c] \in CallRecords /\ calls[c].page \in Pages
      /\ calls[c].query \in Queries
      /\ calls[c].kind = "search" /\ calls[c].at = "sent" /\ page' = page /\ Store(calls[c].query, c)
  BY LiveTyped DEF SearchInv, SearchAnswers
<1>2. PICK found \in SUBSET Repos, more \in BOOLEAN :
        /\ states' = [states EXCEPT ![c] = [shown |-> FirstShown(found), more |-> FirstMore(more)]]
        /\ Answered(c, found, more)
  BY DEF SearchAnswers
<1> DEFINE q == calls[c].query
           r == [calls[c] EXCEPT !.at = "answered", !.ref = 0, !.seen = {}, !.rows = found, !.more = more]
<1>3. /\ r \in CallRecords
      /\ r.kind = calls[c].kind /\ r.page = calls[c].page /\ r.query = q
      /\ r.at = "answered" /\ r.rows = found /\ r.more = more
  <2>1. 0 \in 0..MaxCalls /\ {} \in SUBSET Repos
    OBVIOUS
  <2>2. QED
    BY <1>1, <2>1 DEF CallRecords
<1>4. Goes(c, r)
  BY <1>2 DEF Answered
<1> HIDE DEF r
<1>5. Moved(c, r)
  BY <1>3, <1>4 DEF Moved
<1>6. calls'[c] = r
  BY <1>1, <1>5, CallMoves DEF SearchInv
<1>7. /\ CacheInv'
      /\ order' \in Seq(Queries) /\ stateOf' \in [Queries -> 0..MaxCalls]
      /\ stateOf'[q] = c
      /\ \A x \in Queries : x # q => stateOf'[x] \in {stateOf[x], 0}
  BY <1>1, StoreKeeps DEF SearchInv
<1>8. /\ states' \in [Calls -> [shown: SUBSET Repos, more: BOOLEAN]]
      /\ states'[c].shown = found /\ states'[c].more = more
      /\ \A n \in Calls : n # c => states'[n] = states[n]
  BY <1>2 DEF SearchInv, SearchTypes, FirstShown, FirstMore
<1>9. SearchTypes'
  BY <1>1, <1>5, <1>7, <1>8, CallMoves DEF SearchInv, SearchTypes
<1>10. RefsInv'
  BY <1>1, <1>3, <1>5, <1>7, RefsKept
<1>11. PagesInv'
  <2>1. Within(c)
    BY <1>1, <1>7, <1>8 DEF Within
  <2>2. PICK own \in Pages : own = calls[c].page
    BY <1>1
  <2>3. ASSUME page[own].alone
        PROVE  Placed(own, c)' /\ Remembered(own)'
    <3>1. Placed(own, c) /\ Remembered(own)
      BY <1>1, <2>2, <2>3 DEF SearchInv, PagesInv, AloneSound
    <3>2. Placed(own, c)'
      BY <1>1, <1>3, <1>6, <1>7, <1>8, <3>1 DEF Placed
    <3>3. Remembered(own)'
      BY <1>1, <3>1 DEF Placed, Remembered
    <3>4. QED
      BY <3>2, <3>3
  <2>4. QED
    BY <1>1, <1>5, <2>1, <2>2, <2>3, PagesKept
<1>12. QED
  BY <1>7, <1>9, <1>10, <1>11 DEF SearchInv

------------------------------------------------------------------------------
(* The pages.                                                              *)

\* An answer reaches its page, and the call is over.
LEMMA AnswerShown ==
  ASSUME SearchInv, NEW c \in Calls, Live(c), Ends(c), UNCHANGED <<stateOf, order, states>>,
         NEW own \in Pages, own = calls[c].page, page' \in [Pages -> PageRecords],
         \A p \in Pages : p # own => page'[p] = page[p], page'[own].alone = page[own].alone,
         page'[own].query \in {page[own].query, NoQuery, calls[c].query},
         page[own].alone => Remembered(own)'
  PROVE  SearchInv'
<1> DEFINE r == [calls[c] EXCEPT !.at = "done", !.rows = {}, !.more = FALSE]
<1>1. c \in DOMAIN calls /\ calls[c] \in CallRecords
  BY LiveTyped DEF SearchInv
<1>2. /\ r \in CallRecords
      /\ r.kind = calls[c].kind /\ r.page = calls[c].page /\ r.query = calls[c].query
      /\ r.at = "done"
  <2>1. {} \in SUBSET Repos
    OBVIOUS
  <2>2. QED
    BY <1>1, <2>1 DEF CallRecords
<1>3. Goes(c, r)
  BY DEF Ends
<1> HIDE DEF r
<1>4. Moved(c, r)
  BY <1>2, <1>3 DEF Moved
<1>5. calls'[c] = r /\ ~Live(c)'
  BY <1>2, <1>4, CallMoves DEF SearchInv
<1>7. SearchTypes' /\ CacheInv'
  BY <1>4, CallMoves DEF SearchInv, SearchTypes, CacheInv
<1>8. RefsInv'
  BY <1>2, <1>4, RefsKept
<1>9. PagesInv'
  <2>1. Within(c)
    BY DEF Within
  <2>2. QED
    BY <1>4, <1>5, <2>1, PagesKept
<1>10. QED
  BY <1>7, <1>8, <1>9 DEF SearchInv

LEMMA InjectSearchKept == ASSUME SearchInv, NEW c \in Calls, InjectSearch(c) PROVE SearchInv'
<1>1. /\ Live(c) /\ Ends(c) /\ UNCHANGED <<stateOf, order, states>>
      /\ c \in DOMAIN calls /\ calls[c] \in CallRecords /\ calls[c].query \in Queries
      /\ calls[c].at = "answered"
  BY LiveTyped DEF SearchInv, InjectSearch
<1>2. PICK own \in Pages : own = calls[c].page
  BY <1>1, LiveTyped DEF SearchInv
<1> DEFINE q == calls[c].query
           button == IF calls[c].more THEN q ELSE NoQuery
           new == [page[own] EXCEPT !.query = q, !.rows = calls[c].rows, !.odd = FALSE, !.button = button]
<1>3. page[own] \in PageRecords /\ button \in Queries \cup {NoQuery}
  BY <1>1 DEF SearchInv, SearchTypes
<1>4. page' = [page EXCEPT ![own] = new]
  BY <1>2 DEF InjectSearch
<1>5. calls[c].rows \in SUBSET Repos /\ calls[c].more \in BOOLEAN
  BY <1>1 DEF CallRecords
<1>6. button # NoQuery => button = q /\ calls[c].more
  OBVIOUS
<1>7. button \in {NoQuery, q}
  OBVIOUS
<1> HIDE DEF button
<1>8. /\ new \in PageRecords
      /\ new.query = q /\ new.rows = calls[c].rows /\ new.odd = FALSE /\ new.button = button
      /\ new.alone = page[own].alone
  BY <1>1, <1>3, <1>5 DEF PageRecords
<1> HIDE DEF new
<1>9. /\ page' \in [Pages -> PageRecords] /\ page'[own] = new
      /\ \A p \in Pages : p # own => page'[p] = page[p]
  BY <1>4, <1>8 DEF SearchInv, SearchTypes
<1>10. page[own].alone => Remembered(own)'
  <2> SUFFICES ASSUME page[own].alone
               PROVE  Remembered(own)'
    OBVIOUS
  <2>1. Placed(own, c)
    BY <1>1, <1>2 DEF SearchInv, PagesInv, AloneSound
  <2>2. stateOf[q] # 0 => /\ calls[c].rows \subseteq states[stateOf[q]].shown
                          /\ calls[c].more => states[stateOf[q]].more
    BY <1>1, <2>1 DEF Placed
  <2>3. QED
    BY <1>1, <1>6, <1>7, <1>8, <1>9, <2>2 DEF Remembered
<1>11. QED
  BY <1>1, <1>2, <1>8, <1>9, <1>10, AnswerShown

LEMMA PatchMoreKept == ASSUME SearchInv, NEW c \in Calls, PatchMore(c) PROVE SearchInv'
<1>1. /\ Live(c) /\ Ends(c) /\ UNCHANGED <<stateOf, order, states>>
      /\ c \in DOMAIN calls /\ calls[c] \in CallRecords /\ calls[c].query \in Queries
      /\ calls[c].at = "answered" /\ calls[c].kind = "more"
  BY LiveTyped DEF SearchInv, PatchMore
<1>2. PICK own \in Pages : own = calls[c].page
  BY <1>1, LiveTyped DEF SearchInv
<1> DEFINE q == calls[c].query
           was == page[own]
           rows == IF was.query = NoQuery THEN {} ELSE was.rows \cup calls[c].rows
           odd == (was.odd \/ was.rows \cap calls[c].rows # {})
                    \/ (calls[c].rows # {} /\ was.query \notin {NoQuery, q})
           button == IF calls[c].more THEN q ELSE NoQuery
<1>3. /\ was \in PageRecords /\ calls[c].rows \in SUBSET Repos /\ calls[c].more \in BOOLEAN
      /\ was.rows \in SUBSET Repos /\ was.odd \in BOOLEAN
  <2>1. was \in PageRecords /\ calls[c].rows \in SUBSET Repos /\ calls[c].more \in BOOLEAN
    BY <1>1 DEF SearchInv, SearchTypes, CallRecords
  <2> HIDE DEF was
  <2>2. QED
    BY <2>1 DEF PageRecords
<1>4. page' = [page EXCEPT
         ![own].rows = IF page[own].query = NoQuery THEN {} ELSE @ \cup calls[c].rows,
         ![own].odd = @ \/ page[own].rows \cap calls[c].rows # {}
                        \/ (calls[c].rows # {} /\ page[own].query \notin {NoQuery, calls[c].query}),
         ![own].button = IF calls[c].more THEN calls[c].query ELSE NoQuery]
  BY <1>2 DEF PatchMore
<1>5. rows \in SUBSET Repos /\ odd \in BOOLEAN /\ button \in Queries \cup {NoQuery}
  BY <1>1, <1>3
<1>6. /\ button # NoQuery => button = q /\ calls[c].more
      /\ button \in {NoQuery, q}
  OBVIOUS
<1>7. page \in [Pages -> PageRecords]
  BY DEF SearchInv, SearchTypes
<1>8. /\ \A p \in Pages : p # own => page'[p] = page[p]
      /\ page'[own].query = was.query /\ page'[own].rows = rows /\ page'[own].button = button
      /\ page'[own].alone = was.alone /\ page'[own] \in PageRecords
      /\ page'[own].odd = odd
  <2>1. \A p \in Pages : p # own => page'[p] = page[p]
    BY <1>4, <1>7
  <2>2. DOMAIN was = {"query", "rows", "odd", "button", "alone"}
    BY <1>3 DEF PageRecords
  <2>3. page'[own].query = was.query /\ page'[own].alone = was.alone
    BY <1>4, <1>7, <2>2
  <2>4. page'[own].rows = rows
    BY <1>4, <1>7, <2>2
  <2>5. page'[own].button = button
    BY <1>4, <1>7, <2>2
  <2>6. page'[own].odd = odd
    BY <1>4, <1>7, <2>2
  <2>7. page'[own] = [query |-> was.query, rows |-> rows, odd |-> odd, button |-> button,
                      alone |-> was.alone]
    BY <1>4, <1>7, <2>2
  <2>8. QED
    BY <1>3, <1>5, <2>1, <2>3, <2>4, <2>5, <2>6, <2>7 DEF PageRecords
<1> HIDE DEF was, button
<1>9. page[own].alone => Placed(own, c) /\ Remembered(own)
  BY <1>1, <1>2 DEF SearchInv, PagesInv, AloneSound
<1>10. page[own].alone => was.query = q /\ ~odd /\ rows = was.rows \cup calls[c].rows
  <2> SUFFICES ASSUME page[own].alone
               PROVE  was.query = q /\ ~odd /\ rows = was.rows \cup calls[c].rows
    OBVIOUS
  <2>1. was.query = q /\ was.rows \cap calls[c].rows = {} /\ ~was.odd
    BY <1>1, <1>9 DEF Placed, Remembered, was
  <2>2. QED
    BY <1>1, <2>1
<1> HIDE DEF rows, odd
<1>11. page' \in [Pages -> PageRecords]
  BY <1>4, <1>7, <1>8
<1>12. page[own].alone => Remembered(own)'
  <2> SUFFICES ASSUME page[own].alone
               PROVE  Remembered(own)'
    OBVIOUS
  <2>1. stateOf[q] # 0 => /\ was.rows \cup calls[c].rows \subseteq states[stateOf[q]].shown
                          /\ calls[c].more => states[stateOf[q]].more
    BY <1>1, <1>9, <1>10 DEF Placed, Remembered, was
  <2>2. QED
    BY <1>1, <1>6, <1>10, <1>8, <2>1 DEF Remembered
<1>13. QED
  BY <1>1, <1>2, <1>8, <1>11, <1>12, AnswerShown DEF was

\* A new call: what was under way goes on.
LEMMA Starts ==
  ASSUME SearchInv, Len(calls) < MaxCalls, NEW kind \in {"search", "more"}, NEW p \in Pages,
         NEW q \in Queries, Start(kind, p, q), UNCHANGED <<stateOf, order, states>>
  PROVE  /\ calls' \in Seq(CallRecords) /\ Len(calls') <= MaxCalls
         /\ CacheInv' /\ RefsInv'
         /\ \E n \in Calls :
              /\ n \notin DOMAIN calls
              /\ calls'[n].kind = kind /\ calls'[n].page = p /\ calls'[n].query = q
              /\ calls'[n].at = "sent"
              /\ \A d \in Calls : Live(d)' => d = n \/ (d \in DOMAIN calls /\ Live(d))
         /\ \A d \in DOMAIN calls : calls'[d] = calls[d]
<1> DEFINE r == [kind |-> kind, page |-> p, query |-> q, at |-> "sent", ref |-> 0, seen |-> {},
                 rows |-> {}, more |-> FALSE]
           L == Len(calls)
<1>1. /\ calls \in Seq(CallRecords) /\ L \in Nat /\ DOMAIN calls = 1..L /\ L + 1 \in Calls
  BY DEF SearchInv, SearchTypes, Calls
<1>2. /\ r \in CallRecords /\ calls' = Append(calls, r)
      /\ r.kind = kind /\ r.page = p /\ r.query = q /\ r.at = "sent"
  BY DEF Start, CallRecords
<1> HIDE DEF r
<1>3. /\ calls' \in Seq(CallRecords) /\ Len(calls') = L + 1 /\ DOMAIN calls' = 1..(L + 1)
      /\ calls'[L + 1] = r
      /\ \A d \in DOMAIN calls : calls'[d] = calls[d]
  BY <1>1, <1>2
<1>4. \A d \in 1..(L + 1) : d = L + 1 \/ d \in DOMAIN calls
  BY <1>1
<1>5. CacheInv'
  BY DEF SearchInv, CacheInv
<1>6. RefsInv'
  <2>1. ASSUME NEW x \in Queries, stateOf'[x] # 0
        PROVE  stateOf'[x] <= Len(calls') /\ calls'[stateOf'[x]].query = x
    <3>1. stateOf[x] \in DOMAIN calls /\ calls[stateOf[x]].query = x
      BY <1>1, <2>1 DEF SearchInv, SearchTypes, RefsInv
    <3>2. QED
      BY <1>1, <1>3, <3>1
  <2>2. ASSUME NEW d \in DOMAIN calls', calls'[d].at \in {"found", "asked", "append", "store"}
        PROVE  /\ calls'[d].kind = "more"
               /\ calls'[d].ref \in DOMAIN calls' /\ calls'[calls'[d].ref].query = calls'[d].query
    <3>1. d \in DOMAIN calls /\ calls'[d] = calls[d]
      BY <1>2, <1>3, <1>4, <2>2
    <3>2. /\ calls[d].kind = "more" /\ calls[d].ref \in DOMAIN calls
          /\ calls[calls[d].ref].query = calls[d].query
      BY <2>2, <3>1 DEF SearchInv, RefsInv
    <3>3. calls[d].ref \in DOMAIN calls'
      BY <1>1, <1>3, <3>2
    <3>4. QED
      BY <1>3, <3>1, <3>2, <3>3
  <2>3. QED
    BY <2>1, <2>2 DEF RefsInv
<1>7. \A d \in Calls : Live(d)' => d = L + 1 \/ (d \in DOMAIN calls /\ Live(d))
  BY <1>1, <1>3, <1>4 DEF Live, Calls
<1>8. L + 1 \notin DOMAIN calls
  BY <1>1
<1>9. QED
  BY <1>1, <1>2, <1>3, <1>5, <1>6, <1>7, <1>8

\* A page loses its standing when another one starts about its query.
LEMMA OthersNoticed ==
  ASSUME SearchInv, Len(calls) < MaxCalls, NEW kind \in {"search", "more"}, NEW p \in Pages,
         NEW q \in Queries, Start(kind, p, q), UNCHANGED <<stateOf, order, states>>,
         NEW x \in Pages, x # p, page'[x] = [page[x] EXCEPT !.alone = @ /\ ~About(x, q)],
         page'[x].alone
  PROVE  AloneSound(x)'
<1>1. page[x] \in PageRecords
  BY DEF SearchInv, SearchTypes
<1>2. /\ page'[x].query = page[x].query /\ page'[x].rows = page[x].rows /\ page'[x].odd = page[x].odd
      /\ page'[x].button = page[x].button /\ page[x].alone /\ ~About(x, q)
  BY <1>1 DEF PageRecords
<1>3. AloneSound(x)
  BY <1>2 DEF SearchInv, PagesInv
<1>4. page[x].query # q /\ \A c \in Calls : Live(c) /\ calls[c].page = x => calls[c].query # q
  BY <1>2 DEF About
<1>5. /\ \A d \in DOMAIN calls : calls'[d] = calls[d]
      /\ \E n \in Calls :
           /\ calls'[n].page = p /\ calls'[n].query = q
           /\ \A d \in Calls : Live(d)' => d = n \/ (d \in DOMAIN calls /\ Live(d))
  BY Starts
<1>6. PICK n \in Calls :
        /\ calls'[n].page = p /\ calls'[n].query = q
        /\ \A d \in Calls : Live(d)' => d = n \/ (d \in DOMAIN calls /\ Live(d))
  BY <1>5
<1>7. \A d \in Calls : Live(d)' /\ calls'[d].page = x => d \in DOMAIN calls /\ Live(d) /\ calls'[d] = calls[d]
  BY <1>5, <1>6
<1>8. Undisturbed(x)'
  <2>1. ASSUME NEW d \in Calls, NEW e \in Calls, Live(d)', Live(e)', calls'[d].page = x,
               calls'[e].page = x \/ calls'[e].query = calls'[d].query
        PROVE  d = e
    <3>1. d \in DOMAIN calls /\ Live(d) /\ calls'[d] = calls[d] /\ calls[d].query # q
      BY <1>4, <1>7, <2>1
    <3>2. e \in DOMAIN calls /\ Live(e) /\ calls'[e] = calls[e]
      BY <1>5, <1>6, <2>1, <3>1
    <3>3. QED
      BY <1>3, <2>1, <3>1, <3>2 DEF AloneSound, Undisturbed
  <2>2. ASSUME NEW d \in Calls, Live(d)', calls'[d].query = page'[x].query
        PROVE  calls'[d].page = x
    <3>1. d \in DOMAIN calls /\ Live(d) /\ calls'[d] = calls[d]
      BY <1>2, <1>4, <1>5, <1>6, <2>2
    <3>2. QED
      BY <1>2, <1>3, <2>2, <3>1 DEF AloneSound, Undisturbed
  <2>3. QED
    BY <2>1, <2>2 DEF Undisturbed
<1>9. \A d \in Calls : Live(d)' /\ calls'[d].page = x => Placed(x, d)'
  BY <1>2, <1>3, <1>7 DEF AloneSound, Placed
<1>10. Remembered(x)'
  BY <1>2, <1>3 DEF AloneSound, Remembered
<1>11. QED
  BY <1>8, <1>9, <1>10 DEF AloneSound

\* A page that starts a call while nobody is about its query.
LEMMA OwnStarts ==
  ASSUME SearchInv, Len(calls) < MaxCalls, NEW kind \in {"search", "more"}, NEW p \in Pages,
         NEW q \in Queries, Start(kind, p, q), UNCHANGED <<stateOf, order, states>>,
         Quiet(p, q), page'[p].button = NoQuery,
         kind = "search" => page'[p].query = NoQuery /\ page'[p].rows = {},
         kind = "more" => page'[p].query = q, Remembered(p)'
  PROVE  AloneSound(p)'
<1>1. PICK n \in Calls :
        /\ calls'[n].kind = kind /\ calls'[n].page = p /\ calls'[n].query = q
        /\ calls'[n].at = "sent"
        /\ \A d \in Calls : Live(d)' => d = n \/ (d \in DOMAIN calls /\ Live(d))
  BY Starts
<1>2. \A d \in DOMAIN calls : calls'[d] = calls[d]
  BY Starts
<1>3. ASSUME NEW d \in Calls, Live(d)', calls'[d].page = p \/ calls'[d].query = q
      PROVE  d = n
  BY <1>1, <1>2, <1>3 DEF Quiet
<1>4. ASSUME NEW d \in Calls, Live(d)', calls'[d].query = page'[p].query
      PROVE  calls'[d].page = p
  <2>1. CASE kind = "more"
    BY <1>1, <1>3, <1>4, <2>1
  <2>2. CASE kind = "search"
    <3>1. calls'[d].query \in Queries
      <4>1. d = n \/ (d \in DOMAIN calls /\ calls'[d] = calls[d] /\ Live(d))
        BY <1>1, <1>2, <1>4
      <4>2. QED
        BY <1>1, <4>1, LiveTyped DEF SearchInv
    <3>2. QED
      BY <1>4, <2>2, <3>1
  <2>3. QED
    BY <2>1, <2>2
<1>5. Undisturbed(p)'
  BY <1>1, <1>3, <1>4 DEF Undisturbed
<1>6. ASSUME NEW d \in Calls, Live(d)', calls'[d].page = p
      PROVE  Placed(p, d)'
  BY <1>1, <1>3, <1>6 DEF Placed
<1>7. QED
  BY <1>5, <1>6 DEF AloneSound

LEMMA ClickSearchKept ==
  ASSUME SearchInv, NEW p \in Pages, NEW q \in Queries, ClickSearch(p, q)
  PROVE  SearchInv'
<1> DEFINE fresh == [query |-> NoQuery, rows |-> {}, odd |-> FALSE, button |-> NoQuery,
                     alone |-> Quiet(p, q)]
<1>1. /\ Len(calls) < MaxCalls /\ Start("search", p, q) /\ UNCHANGED <<stateOf, order, states>>
      /\ page' = [Disturb(p, q) EXCEPT ![p] = fresh] /\ page \in [Pages -> PageRecords]
  BY DEF ClickSearch, SearchInv, SearchTypes
<1>2. /\ DOMAIN page' = Pages /\ page'[p] = fresh
      /\ \A x \in Pages : x # p => page'[x] = [page[x] EXCEPT !.alone = @ /\ ~About(x, q)]
  BY <1>1 DEF Disturb
<1>3. page' \in [Pages -> PageRecords]
  <2>1. fresh \in PageRecords
    BY DEF PageRecords, Quiet
  <2>2. ASSUME NEW x \in Pages, x # p
        PROVE  page'[x] \in PageRecords
    <3> DEFINE alone == page[x].alone /\ ~About(x, q)
    <3>1. page'[x] = [page[x] EXCEPT !.alone = alone] /\ alone \in BOOLEAN /\ page[x] \in PageRecords
      BY <1>1, <1>2, <2>2
    <3> HIDE DEF alone
    <3>2. QED
      BY <3>1 DEF PageRecords
  <2>3. QED
    BY <1>1, <1>2, <2>1, <2>2 DEF Disturb
<1>4. SearchTypes' /\ CacheInv' /\ RefsInv'
  BY <1>1, <1>3, Starts DEF SearchInv, SearchTypes
<1>5. PagesInv'
  <2> SUFFICES ASSUME NEW x \in Pages, page'[x].alone
               PROVE  AloneSound(x)'
    BY DEF PagesInv
  <2>1. CASE x # p
    BY <1>1, <1>2, <2>1, OthersNoticed
  <2>2. CASE x = p
    <3>1. /\ Quiet(p, q) /\ page'[p].button = NoQuery /\ page'[p].query = NoQuery
          /\ page'[p].rows = {} /\ ~page'[p].odd
      BY <1>2, <2>2
    <3>2. Remembered(p)'
      BY <3>1 DEF Remembered
    <3>3. QED
      BY <1>1, <2>2, <3>1, <3>2, OwnStarts
  <2>3. QED
    BY <2>1, <2>2
<1>6. QED
  BY <1>4, <1>5 DEF SearchInv

LEMMA ClickMoreKept == ASSUME SearchInv, NEW p \in Pages, ClickMore(p) PROVE SearchInv'
<1>0. PICK q \in Queries : q = page[p].button
  <2>1. page[p] \in PageRecords /\ page[p].button # NoQuery
    BY DEF ClickMore, SearchInv, SearchTypes
  <2>2. QED
    BY <2>1 DEF PageRecords
<1>1. /\ Len(calls) < MaxCalls /\ Start("more", p, q) /\ UNCHANGED <<stateOf, order, states>>
      /\ page \in [Pages -> PageRecords]
      /\ page' = [Disturb(p, q) EXCEPT ![p].button = NoQuery, ![p].alone = @ /\ Quiet(p, q)]
  BY <1>0 DEF ClickMore, SearchInv, SearchTypes
<1>2. /\ DOMAIN page' = Pages
      /\ \A x \in Pages : x # p => page'[x] = [page[x] EXCEPT !.alone = @ /\ ~About(x, q)]
  BY <1>1 DEF Disturb
<1>3. /\ page'[p].query = page[p].query /\ page'[p].rows = page[p].rows /\ page'[p].odd = page[p].odd
      /\ page'[p].button = NoQuery /\ page'[p].alone = (page[p].alone /\ Quiet(p, q))
      /\ page'[p] \in PageRecords
  BY <1>1 DEF Disturb, PageRecords
<1>4. page' \in [Pages -> PageRecords]
  <2>1. ASSUME NEW x \in Pages, x # p
        PROVE  page'[x] \in PageRecords
    <3> DEFINE alone == page[x].alone /\ ~About(x, q)
    <3>1. page'[x] = [page[x] EXCEPT !.alone = alone] /\ alone \in BOOLEAN /\ page[x] \in PageRecords
      BY <1>1, <1>2, <2>1
    <3> HIDE DEF alone
    <3>2. QED
      BY <3>1 DEF PageRecords
  <2>2. QED
    BY <1>1, <1>3, <2>1 DEF Disturb
<1>5. SearchTypes' /\ CacheInv' /\ RefsInv'
  BY <1>1, <1>4, Starts DEF SearchInv, SearchTypes
<1>6. PagesInv'
  <2> SUFFICES ASSUME NEW x \in Pages, page'[x].alone
               PROVE  AloneSound(x)'
    BY DEF PagesInv
  <2>1. CASE x # p
    BY <1>1, <1>2, <2>1, OthersNoticed
  <2>2. CASE x = p
    <3>1. page[p].alone /\ Quiet(p, q)
      BY <1>3, <2>2
    <3>2. Remembered(p)
      BY <3>1 DEF SearchInv, PagesInv, AloneSound
    <3>3. page'[p].query = q
      BY <1>0, <1>3, <3>2 DEF Remembered
    <3>4. Remembered(p)'
      BY <1>1, <1>3, <3>2 DEF Remembered
    <3>5. QED
      BY <1>1, <1>3, <2>2, <3>1, <3>3, <3>4, OwnStarts
  <2>3. QED
    BY <2>1, <2>2
<1>7. QED
  BY <1>5, <1>6 DEF SearchInv

------------------------------------------------------------------------------

LEMMA SearchSteps == SearchInv /\ [SearchNext]_searchVars => SearchInv'
<1> SUFFICES ASSUME SearchInv, [SearchNext]_searchVars
             PROVE  SearchInv'
  OBVIOUS
<1>1. ASSUME NEW p \in Pages, ClickMore(p)
      PROVE  SearchInv'
  BY <1>1, ClickMoreKept
<1>2. ASSUME NEW p \in Pages, NEW q \in Queries, ClickSearch(p, q)
      PROVE  SearchInv'
  BY <1>2, ClickSearchKept
<1>3. ASSUME NEW c \in Calls, InjectSearch(c) \/ PatchMore(c)
      PROVE  SearchInv'
  BY <1>3, InjectSearchKept, PatchMoreKept
<1>4. ASSUME NEW c \in Calls, SearchAnswers(c) \/ SearchFails(c)
      PROVE  SearchInv'
  BY <1>4, SearchAnswersKept, FailKept
<1>5. ASSUME NEW c \in Calls, MoreLooks(c) \/ MoreReads(c) \/ MoreAnswers(c) \/ MoreFails(c)
      PROVE  SearchInv'
  BY <1>5, MoreLooksKept, MoreReadsKept, MoreAnswersKept, FailKept
<1>6. ASSUME NEW c \in Calls, MoreWrites(c) \/ MoreStores(c)
      PROVE  SearchInv'
  BY <1>6, MoreWritesKept, MoreStoresKept
<1>7. CASE UNCHANGED searchVars
  <2>1. UNCHANGED <<stateOf, order, states, calls, page>>
    BY <1>7 DEF searchVars
  <2>2. \A d \in Calls : Live(d)' = Live(d)
    BY <2>1 DEF Live
  <2>3. PagesInv'
    BY <2>1, <2>2 DEF SearchInv, PagesInv, AloneSound, Undisturbed, Placed, Remembered
  <2>4. QED
    BY <2>1, <2>3 DEF SearchInv, SearchTypes, CacheInv, RefsInv
<1>8. QED
  BY <1>1, <1>2, <1>3, <1>4, <1>5, <1>6, <1>7 DEF SearchNext

LEMMA AlwaysSearchInv == SearchSpec => []SearchInv
BY SearchStarts, SearchSteps, PTL DEF SearchSpec

\* The states, calls and pages are what the two handlers make of them.
THEOREM SearchTypesHold == SearchSpec => []SearchTypeOK
<1>1. ASSUME SearchInv
      PROVE  SearchTypeOK
  <2>1. \A c \in 1..Len(calls) : calls[c] \in CallRecords
    BY <1>1 DEF SearchInv, SearchTypes
  <2>2. \A c \in 1..Len(calls) : calls[c].rows \subseteq Repos /\ calls[c].ref \in 0..MaxCalls
    BY <2>1 DEF CallRecords
  <2>3. \A p \in Pages : page[p].query \in Queries \cup {NoQuery} /\ page[p].rows \subseteq Repos
    BY <1>1 DEF SearchInv, SearchTypes, PageRecords
  <2>4. QED
    BY <1>1, <2>2, <2>3 DEF SearchInv, SearchTypes, SearchTypeOK
<1>2. QED
  BY <1>1, AlwaysSearchInv, PTL

\* The cache of pagination states keeps its bound, and the lists and Show
\* More buttons of the pages stay right, however many pages search for
\* whatever at once, and whichever states are evicted or stored again under
\* a call.
THEOREM SearchPagesRight == SearchSpec => []PagingSound
<1>1. SearchInv => CacheBounded
  BY DEF SearchInv, SearchTypes, CacheInv, CacheBounded, ToSet, IsInjective
<1>2. SearchInv => ListSound
  BY DEF SearchInv, PagesInv, AloneSound, Remembered, ListSound
<1>3. SearchInv => ButtonLeadsOn
  BY DEF SearchInv, SearchTypes, PageRecords, PagesInv, AloneSound, Remembered, ButtonLeadsOn
<1>4. QED
  BY <1>1, <1>2, <1>3, AlwaysSearchInv, PTL DEF PagingSound
=============================================================================
