--------------------------- MODULE AdaptivePaging --------------------------
(***************************************************************************)
(* Paginated fetches of one endpoint (go/internal/common/rawclient.go).  A *)
(* page that fails as too heavy moves the fetch to the next smaller page   *)
(* size and on from where it stopped; the size that worked is remembered   *)
(* for the fetches after it.  Fetches run concurrently and share only the  *)
(* table of learned sizes, each access to which holds its mutex.           *)
(***************************************************************************)
EXTENDS Integers, Sequences, SequencesExt, FiniteSetsExt

CONSTANTS Fetches,
          FallbackPageSizes,       \* fallbackPageSizes, largest first
          MinPageSizeSlowRetries,
          ResultWindowLimit,
          RequestedSizes, PageLimits,
          Totals, HiddenItems      \* what the server may hold

ASSUME PagingAssumption ==
  /\ FallbackPageSizes \in Seq(Nat \ {0}) /\ FallbackPageSizes # <<>>
  /\ \A i \in 1 .. Len(FallbackPageSizes) - 1 : FallbackPageSizes[i] > FallbackPageSizes[i + 1]
  /\ MinPageSizeSlowRetries \in Nat /\ ResultWindowLimit \in Nat
  /\ RequestedSizes \subseteq Nat \ {0} /\ PageLimits \subseteq Nat /\ Totals \subseteq Nat

VARIABLES server,   \* its items, those it hides from a page, whether it tells the total
          table,    \* learnedPageSize of the endpoint
          fetch,    \* the state of each call of GetPaginatedResult
          slowest   \* smallest size that failed slowly in a fetch that fell back and succeeded (history)

vars == <<server, table, fetch, slowest>>

None == 0

\* What a page request at page p of size s returns: the server counts the items
\* the caller may not see, and leaves them out of the page.
Shown(from, to) ==
  LET shown[n \in from .. to] == IF n = from THEN <<>>
                                 ELSE IF n \in server.hidden THEN shown[n - 1]
                                 ELSE Append(shown[n - 1], n)
  IN  shown[to]

Page(p, s) == Shown(Min({(p - 1) * s, server.total}), Min({p * s, server.total}))

CeilDiv(a, b) == (a + b - 1) \div b

Smaller(size) == {s \in ToSet(FallbackPageSizes) : s < size}
NextSmaller(size) == Max(Smaller(size))

NoWalk == [items |-> <<>>, started |-> FALSE, nextPage |-> 1, aligned |-> TRUE, lastFull |-> FALSE]

Idle == [pc |-> "idle", requested |-> 0, limit |-> 0, stop |-> FALSE, start |-> 0, size |-> 0,
         walk |-> NoWalk, slowAt |-> None, retries |-> 0, reason |-> ""]

Init == /\ server \in [total : Totals, hidden : HiddenItems, known : BOOLEAN]
        /\ server.known \/ server.hidden = {}   \* without a total, a short page is the last
        /\ table = [sticky |-> None, fast |-> None, live |-> FALSE]
        /\ fetch = [f \in Fetches |-> Idle]
        /\ slowest = None

-----------------------------------------------------------------------------

\* pageSizeTable.sizeFor
SizeFor(requested) ==
  Min({requested} \union ({table.sticky} \ {None})
                  \union (IF table.live THEN {table.fast} \ {None} ELSE {}))

\* pageSizeTable.remember
RememberSticky(t, size) ==
  [t EXCEPT !.sticky = IF t.sticky = None \/ size < t.sticky THEN size ELSE t.sticky]
RememberFast(t, size) ==
  IF t.fast = None \/ ~t.live \/ size <= t.fast THEN [t EXCEPT !.fast = size, !.live = TRUE] ELSE t

\* rememberFallback
RememberFallback(size, slowAt) ==
  LET sticky == IF Smaller(slowAt) = {} THEN slowAt ELSE NextSmaller(slowAt)
      kept   == RememberSticky(table, sticky)
  IN  IF slowAt = None THEN RememberFast(table, size)
      ELSE IF size < sticky THEN RememberFast(kept, size) ELSE kept

\* pageLimitAt
PageLimitAt(limit, requested, size) ==
  LET ceiling == limit * requested
      pages   == CeilDiv(ceiling, size)
  IN  IF limit = 0 \/ size >= requested THEN limit
      ELSE IF ceiling <= ResultWindowLimit /\ pages * size > ResultWindowLimit
           THEN ResultWindowLimit \div size ELSE pages

\* paginationWalk.bounds: the pages of an attempt, and whether the cap cut them.
AllPages(c) == IF server.known THEN CeilDiv(server.total, c.size) ELSE CeilDiv(c.requested, c.size)
Cut(c) == LET cap == PageLimitAt(c.limit, c.requested, c.size) IN cap > 0 /\ AllPages(c) > cap
Pages(c) == IF Cut(c) THEN PageLimitAt(c.limit, c.requested, c.size) ELSE AllPages(c)
Clamped(c) == Cut(c) /\ server.known

\* walkPages goes on to request a page: page 1 for the total, then what bounds allow.
MustRead(c) == \/ ~c.walk.started
               \/ /\ ~(Clamped(c) /\ c.stop)
                  /\ c.walk.nextPage <= Pages(c)
                  /\ server.known \/ c.walk.lastFull

\* paginationWalk.add
Add(w, items, size) ==
  [items |-> w.items \o items, started |-> TRUE, nextPage |-> w.nextPage + 1,
   lastFull |-> Len(items) = size, aligned |-> w.aligned /\ Len(items) = size]

ResumeUncut(w, size) ==
  LET keep == (Len(w.items) \div size) * size
  IN  IF ~w.started \/ ~w.aligned \/ keep = 0 THEN NoWalk
      ELSE [w EXCEPT !.nextPage = keep \div size + 1]

\* paginationWalk.resize
Resize(w, size) ==
  LET keep == (Len(w.items) \div size) * size
  IN  IF ~w.started \/ ~w.aligned \/ keep = 0 THEN NoWalk
      ELSE [w EXCEPT !.items = SubSeq(w.items, 1, keep), !.nextPage = keep \div size + 1]

BeginFetch(f) ==
  /\ fetch[f].pc = "idle"
  /\ \E requested \in RequestedSizes, limit \in PageLimits, stop \in BOOLEAN :
       fetch' = [fetch EXCEPT ![f] =
         [Idle EXCEPT !.pc = "reading", !.requested = requested, !.limit = limit, !.stop = stop,
                      !.start = SizeFor(requested), !.size = SizeFor(requested)]]
  /\ UNCHANGED <<server, table, slowest>>

ReadPage(f) ==
  LET c == fetch[f]
  IN  /\ c.pc = "reading" /\ MustRead(c)
      /\ fetch' = [fetch EXCEPT ![f].walk = Add(c.walk, Page(c.walk.nextPage, c.size), c.size)]
      /\ UNCHANGED <<server, table, slowest>>

\* paginationWalk.result
Reason(c) == IF ~server.known /\ c.walk.lastFull THEN "unknown_total"
             ELSE IF Clamped(c) THEN "page_limit_clamp" ELSE ""

Succeed(f) ==
  LET c == fetch[f]
      fellBack == c.size < c.start
  IN  /\ c.pc = "reading" /\ ~MustRead(c)
      /\ fetch' = [fetch EXCEPT ![f].pc = "done", ![f].reason = Reason(c)]
      /\ table' = IF fellBack THEN RememberFallback(c.size, c.slowAt) ELSE table
      /\ slowest' = IF fellBack /\ c.slowAt # None
                    THEN Min({c.slowAt, slowest} \ {None}) ELSE slowest
      /\ UNCHANGED server

RetryAtMinimum(c, slow) == slow /\ c.retries < MinPageSizeSlowRetries

\* Variant: a slow failure at the minimum size starts over at the first one.
StartOver(c) == [c EXCEPT !.size = c.start]

Counted(c) == [c EXCEPT !.retries = @ + 1]

\* fallbackState.next after a 500, 502, 503 or 504 on a page request.
FallBack(f, slow) ==
  LET c == [fetch[f] EXCEPT !.slowAt = IF slow THEN fetch[f].size ELSE @]
  IN  /\ c.pc = "reading" /\ MustRead(c)
      /\ fetch' = [fetch EXCEPT ![f] =
           IF Smaller(c.size) # {}
           THEN [c EXCEPT !.size = NextSmaller(c.size), !.walk = Resize(c.walk, NextSmaller(c.size))]
           ELSE IF RetryAtMinimum(c, slow) THEN Counted(c)
           ELSE [c EXCEPT !.pc = "failed"]]
      /\ UNCHANGED <<server, table, slowest>>

\* Any other error, or a cancelled context, is returned at once.
FailAtOnce(f) == /\ fetch[f].pc = "reading" /\ MustRead(fetch[f])
                 /\ fetch' = [fetch EXCEPT ![f].pc = "failed"]
                 /\ UNCHANGED <<server, table, slowest>>

\* fastFallbackMemory has passed.
ForgetFast == /\ table.live
              /\ table' = [table EXCEPT !.live = FALSE]
              /\ UNCHANGED <<server, fetch, slowest>>

Request(f) == ReadPage(f) \/ FailAtOnce(f) \/ \E slow \in BOOLEAN : FallBack(f, slow)

AllEnded == \A f \in Fetches : fetch[f].pc \in {"done", "failed"}
Quiet == AllEnded /\ ~table.live /\ UNCHANGED vars

Next == \/ \E f \in Fetches : BeginFetch(f) \/ Request(f) \/ Succeed(f)
        \/ ForgetFast
        \/ Quiet

Spec == Init /\ [][Next]_vars
-----------------------------------------------------------------------------
Visible(n) == Shown(0, n)

\* Types of the variables that change.
TypeOK ==
  /\ table \in [sticky : Nat, fast : Nat, live : BOOLEAN]
  /\ slowest \in Nat
  /\ \A f \in Fetches : /\ fetch[f].pc \in {"idle", "reading", "done", "failed"}
                        /\ fetch[f].pc # "idle" =>
                             fetch[f].size \in ToSet(FallbackPageSizes) \union RequestedSizes
                        /\ fetch[f].walk.items \in Seq(1 .. server.total)
                        /\ fetch[f].reason \in {"", "unknown_total", "page_limit_clamp"}

(***************************************************************************)
(* "No item is returned twice or skipped" (GetPaginatedResult): whatever   *)
(* failed on the way, a result is the visible items up to some offset, in  *)
(* order; without a reason it is all of them.                              *)
(***************************************************************************)
NothingTwiceOrSkipped ==
  \A f \in Fetches : fetch[f].pc = "done" =>
    /\ \E n \in 0 .. server.total : fetch[f].walk.items = Visible(n)
    /\ fetch[f].reason = "" => fetch[f].walk.items = Visible(server.total)

(***************************************************************************)
(* A caller's item ceiling survives a fallback (pageLimitAt): nothing      *)
(* below PageLimit x requested size is cut off, unless the caller wanted   *)
(* to stop there, and a caller whose ceiling lies within the server's      *)
(* result window never asks past the window: it gets the whole pages that  *)
(* fit.                                                                    *)
(***************************************************************************)
Ceiling(c) == c.limit * c.requested
WholePages(c) == (ResultWindowLimit \div c.size) * c.size
Promised(c) == IF Ceiling(c) <= ResultWindowLimit THEN Min({Ceiling(c), WholePages(c)})
               ELSE Ceiling(c)

CeilingKept ==
  \A f \in Fetches :
    LET c == fetch[f]
    IN  /\ c.pc = "done" /\ c.reason = "page_limit_clamp" /\ ~c.stop =>
             ToSet(Visible(Min({Promised(c), server.total}))) \subseteq ToSet(c.walk.items)
        /\ c.pc = "reading" /\ c.walk.started /\ MustRead(c) /\ c.limit > 0
             /\ Ceiling(c) <= ResultWindowLimit =>
             c.walk.nextPage * c.size <= ResultWindowLimit

(***************************************************************************)
(* What is remembered for good comes from slow failures alone, and from    *)
(* each of them (comment of pageSizeTable): a burst of fast errors cannot  *)
(* lower the size for the rest of a run, and a gateway timeout is not paid *)
(* for twice.                                                              *)
(***************************************************************************)
StickyIsBelowSlowest ==
  table.sticky = IF slowest = None THEN None
                 ELSE IF Smaller(slowest) = {} THEN slowest ELSE NextSmaller(slowest)

(***************************************************************************)
(* However a fetch falls back through the page sizes, its result is exact, *)
(* its ceiling kept, and what others learn from it is true.                *)
(***************************************************************************)
PagingInv == TypeOK /\ NothingTwiceOrSkipped /\ CeilingKept /\ StickyIsBelowSlowest

(***************************************************************************)
(* Every fetch ends, whatever its requests meet and whatever others have   *)
(* learned meanwhile: a request that does not end it leaves it at a        *)
(* smaller size, or with one of few retries gone, or a page further on.    *)
(***************************************************************************)
Ahead(c, d) == \/ d.size < c.size
               \/ d.size = c.size /\ d.retries > c.retries /\ d.retries <= MinPageSizeSlowRetries
               \/ /\ d.size = c.size /\ d.retries = c.retries
                  /\ d.walk.nextPage > c.walk.nextPage
                  /\ c.walk.nextPage <= Max({1, AllPages(c), CeilDiv(server.total, c.size) + 1})

EveryFetchEnds ==
  [][\A f \in Fetches :
       fetch'[f] # fetch[f] /\ fetch[f].pc = "reading" /\ fetch'[f].pc = "reading"
       => Ahead(fetch[f], fetch'[f])]_fetch
=============================================================================
