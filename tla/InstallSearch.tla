---------------------------- MODULE InstallSearch ----------------------------
(***************************************************************************)
(* The install page's search: handleInstallSearch and handleInstallMore    *)
(* with the bounded cache of pagination states they share, and the pages   *)
(* in the browsers that post to them and inject what comes back.           *)
(*                                                                         *)
(* A pagination state is reached through a pointer, which a Show More      *)
(* reads and writes without the lock.  The registry (Hugging Face) is      *)
(* external: it answers with any models that are not excluded, so the      *)
(* cursor, which only it interprets, is left out.  A call's number also    *)
(* names the state a search makes.                                         *)
(***************************************************************************)
EXTENDS Naturals, Sequences, FiniteSets, SequencesExt

CONSTANTS
  Pages,         \* open install pages
  Queries,
  Repos,         \* models the registry knows
  Cap,           \* installSearchStateCap
  MaxCalls       \* searches and Show Mores, in all

ASSUME CapAssumption == Cap \in Nat \ {0} /\ MaxCalls \in Nat

VARIABLES
  stateOf,       \* installSearchByKey: the state of a query, or 0
  order,         \* installSearchOrder
  states,        \* the pagination states
  calls,         \* requests made so far
  page           \* what a browser shows

searchVars == <<stateOf, order, states, calls, page>>

Calls == 1..MaxCalls
NoQuery == "none"
ASSUME QueryAssumption == NoQuery \notin Queries

Live(c) == c <= Len(calls) /\ calls[c].at # "done"
About(p, q) == page[p].query = q \/ \E c \in Calls : Live(c) /\ calls[c].page = p /\ calls[c].query = q

------------------------------------------------------------------------------

\* Mutant: a Show More takes its query, found in the cache, to be listed still.
StillListed(q) ==
  stateOf[q] = 0 /\ ~\E c \in Calls : Live(c) /\ calls[c].at = "store" /\ calls[c].query = q

\* storeInstallSearchState lists a query it has no state of.
Unlisted(q) == stateOf[q] = 0

\* storeInstallSearchState, under the lock.
Store(q, ref) ==
  LET grown == IF Unlisted(q) THEN Append(order, q) ELSE order
      gone == IF Len(grown) > Cap THEN {Head(grown)} ELSE {}
  IN  /\ order' = IF gone # {} THEN Tail(grown) ELSE grown
      /\ stateOf' = [x \in Queries |-> IF x = q THEN ref ELSE IF x \in gone THEN 0 ELSE stateOf[x]]

\* History: a page's list stays its own as long as no other call about its
\* query runs beside its calls.
Disturb(p, q) ==
  [x \in Pages |->
     [page[x] EXCEPT !.alone = @ /\ (x = p \/ ~About(x, q))]]

Quiet(p, q) ==
  \A c \in Calls : Live(c) => calls[c].page # p /\ calls[c].query # q

SearchInit ==
  /\ stateOf = [q \in Queries |-> 0]
  /\ order = <<>>
  /\ states = [c \in Calls |-> [shown |-> {}, more |-> FALSE]]
  /\ calls = <<>>
  /\ page = [p \in Pages |->
       [query |-> NoQuery, rows |-> {}, odd |-> FALSE, button |-> NoQuery, alone |-> FALSE]]

Start(kind, p, q) ==
  calls' = Append(calls, [kind |-> kind, page |-> p, query |-> q, at |-> "sent",
                          ref |-> 0, seen |-> {}, rows |-> {}, more |-> FALSE])

Goes(c, r) == calls' = [calls EXCEPT ![c] = r]

Answered(c, found, more) ==
  Goes(c, [calls[c] EXCEPT !.at = "answered", !.ref = 0, !.seen = {},
                           !.rows = found, !.more = more])

Ends(c) == Goes(c, [calls[c] EXCEPT !.at = "done", !.rows = {}, !.more = FALSE])

\* An answer without rows and without a button: an alert or an empty footer.
Blank(c) == Answered(c, {}, FALSE)

------------------------------------------------------------------------------
(* The page: search() and the injection of its answer; the button of the   *)
(* footer and the patches it is answered with.                             *)

ClickSearch(p, q) ==
  /\ Len(calls) < MaxCalls
  /\ Start("search", p, q)
  /\ page' = [Disturb(p, q) EXCEPT ![p] =
       [query |-> NoQuery, rows |-> {}, odd |-> FALSE, button |-> NoQuery,
        alone |-> Quiet(p, q)]]
  /\ UNCHANGED <<stateOf, order, states>>

\* The button is hidden while its request runs.
ClickMore(p) ==
  /\ Len(calls) < MaxCalls
  /\ page[p].button # NoQuery
  /\ Start("more", p, page[p].button)
  /\ page' = [Disturb(p, page[p].button) EXCEPT ![p].button = NoQuery,
                ![p].alone = @ /\ Quiet(p, page[p].button)]
  /\ UNCHANGED <<stateOf, order, states>>

InjectSearch(c) ==
  /\ Live(c)
  /\ calls[c].kind = "search"
  /\ calls[c].at = "answered"
  /\ Ends(c)
  /\ page' = [page EXCEPT ![calls[c].page] =
       [@ EXCEPT !.query = calls[c].query, !.rows = calls[c].rows, !.odd = FALSE,
                 !.button = IF calls[c].more THEN calls[c].query ELSE NoQuery]]
  /\ UNCHANGED <<stateOf, order, states>>

\* Rows go below those of the list, if there is one.
PatchMore(c) ==
  LET p == calls[c].page IN
  /\ Live(c)
  /\ calls[c].kind = "more"
  /\ calls[c].at = "answered"
  /\ Ends(c)
  /\ page' = [page EXCEPT
       ![p].rows = IF page[p].query = NoQuery THEN {} ELSE @ \cup calls[c].rows,
       ![p].odd = @ \/ page[p].rows \cap calls[c].rows # {}
                    \/ (calls[c].rows # {} /\ page[p].query \notin {NoQuery, calls[c].query}),
       ![p].button = IF calls[c].more THEN calls[c].query ELSE NoQuery]
  /\ UNCHANGED <<stateOf, order, states>>

------------------------------------------------------------------------------
(* handleInstallSearch.                                                    *)

\* shownIDs of a new state.
FirstShown(found) == found

\* hasMore of a new state.
FirstMore(more) == more

SearchAnswers(c) ==
  /\ Live(c)
  /\ calls[c].kind = "search"
  /\ calls[c].at = "sent"
  /\ \E found \in SUBSET Repos, more \in BOOLEAN :
       /\ states' = [states EXCEPT ![c] = [shown |-> FirstShown(found), more |-> FirstMore(more)]]
       /\ Answered(c, found, more)
  /\ Store(calls[c].query, c)
  /\ UNCHANGED page

SearchFails(c) ==
  /\ Live(c)
  /\ calls[c].kind = "search"
  /\ calls[c].at = "sent"
  /\ Blank(c)
  /\ UNCHANGED <<stateOf, order, states, page>>

------------------------------------------------------------------------------
(* handleInstallMore.                                                      *)

\* The state is looked up under the lock ...
MoreLooks(c) ==
  /\ Live(c)
  /\ calls[c].kind = "more"
  /\ calls[c].at = "sent"
  /\ IF stateOf[calls[c].query] = 0
       THEN Blank(c)
       ELSE Goes(c, [calls[c] EXCEPT !.at = "found", !.ref = stateOf[calls[c].query]])
  /\ UNCHANGED <<stateOf, order, states, page>>

\* ... and read without it.
MoreReads(c) ==
  /\ Live(c)
  /\ calls[c].at = "found"
  /\ IF states[calls[c].ref].more
       THEN Goes(c, [calls[c] EXCEPT !.at = "asked", !.seen = states[calls[c].ref].shown])
       ELSE Blank(c)
  /\ UNCHANGED <<stateOf, order, states, page>>

\* The registry answers, and the loop starts to append to what it then reads.
MoreAnswers(c) ==
  /\ Live(c)
  /\ calls[c].at = "asked"
  /\ \E found \in SUBSET (Repos \ calls[c].seen), more \in BOOLEAN :
       Goes(c, [calls[c] EXCEPT !.at = "append", !.rows = found, !.more = more,
                                !.seen = states[calls[c].ref].shown])
  /\ UNCHANGED <<stateOf, order, states, page>>

MoreFails(c) ==
  /\ Live(c)
  /\ calls[c].at = "asked"
  /\ Blank(c)
  /\ UNCHANGED <<stateOf, order, states, page>>

\* The appends and state.hasMore = res.HasMore, which nothing keeps apart
\* from another call's reads; each is taken as one step.
MoreWrites(c) ==
  /\ Live(c)
  /\ calls[c].at = "append"
  /\ states' = [states EXCEPT ![calls[c].ref] =
                  [shown |-> calls[c].seen \cup calls[c].rows, more |-> calls[c].more]]
  /\ Goes(c, [calls[c] EXCEPT !.at = "store"])
  /\ UNCHANGED <<stateOf, order, page>>

\* The state is stored again: by now it may have been evicted or replaced.
MoreStores(c) ==
  /\ Live(c)
  /\ calls[c].at = "store"
  /\ Store(calls[c].query, calls[c].ref)
  /\ Answered(c, calls[c].rows, calls[c].more)
  /\ UNCHANGED <<states, page>>

SearchNext ==
  \/ \E p \in Pages : ClickMore(p) \/ \E q \in Queries : ClickSearch(p, q)
  \/ \E c \in Calls :
       \/ InjectSearch(c) \/ PatchMore(c)
       \/ SearchAnswers(c) \/ SearchFails(c)
       \/ MoreLooks(c) \/ MoreReads(c) \/ MoreAnswers(c) \/ MoreFails(c)
       \/ MoreWrites(c) \/ MoreStores(c)

SearchSpec == SearchInit /\ [][SearchNext]_searchVars

------------------------------------------------------------------------------
(* Properties.                                                             *)

SearchTypeOK ==
  /\ stateOf \in [Queries -> 0..MaxCalls]
  /\ order \in Seq(Queries)
  /\ states \in [Calls -> [shown: SUBSET Repos, more: BOOLEAN]]
  /\ \A c \in 1..Len(calls) : calls[c].rows \subseteq Repos /\ calls[c].ref \in 0..MaxCalls
  /\ \A p \in Pages : page[p].query \in Queries \cup {NoQuery} /\ page[p].rows \subseteq Repos

\* The cache stays within its cap and its order lists exactly the queries it
\* has, once each, although a request may store again a query that was
\* evicted under it.
CacheBounded ==
  /\ Len(order) <= Cap
  /\ ToSet(order) = { q \in Queries : stateOf[q] # 0 }
  /\ IsInjective(order)

\* A page whose query nobody else is paging lists the results of one query,
\* none twice.
ListSound == \A p \in Pages : page[p].alone => ~page[p].odd

\* Such a page has a Show More button only if there is more to show, unless
\* the query was evicted.
ButtonLeadsOn ==
  \A p \in Pages :
    page[p].alone /\ page[p].button # NoQuery /\ stateOf[page[p].button] # 0
      => states[stateOf[page[p].button]].more

\* The cache keeps its bound, and what it remembers keeps the pages right.
PagingSound == CacheBounded /\ ListSound /\ ButtonLeadsOn
=============================================================================
