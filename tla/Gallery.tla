------------------------------ MODULE Gallery ------------------------------
(***************************************************************************)
(* The screenshot gallery (ScreenshotGallery.tsx): infinite scrolling over *)
(* the cursor pages of GET /screenshots (routes/web/screenshots.ts), while *)
(* uploads arrive late and out of order and the retention job deletes the  *)
(* oldest screenshots.                                                     *)
(*                                                                         *)
(* A screenshot is its position in the order of capture times: 1 is the    *)
(* oldest.  Pages are requested one after the other (useSWRInfinite), each *)
(* under the cursor of the one before it; a request is one step.  A        *)
(* refresh requests all pages again, a larger size only those that the     *)
(* cache does not hold.                                                    *)
(***************************************************************************)
EXTENDS Naturals, Sequences, FiniteSets

CONSTANTS
    MaxShots,         \* bound: screenshots ever taken
    PerPage,          \* screenshots per page (20)
    MaxPages,         \* bound: size of the gallery in pages
    MaxTableChanges,  \* bound: late uploads and deletions while the gallery is open
    Horizons,         \* what the period filter hides: screenshots up to a position
    Top,              \* the null cursor
    NoPage            \* nothing cached, nothing requested

Shots == 1 .. MaxShots
Cursors == Shots \cup {Top}
GalleryPage == [shots : SUBSET Shots, next : Cursors, more : BOOLEAN]
Run == [force : BOOLEAN, pages : Seq(GalleryPage)]

ASSUME GalleryAssumption ==
    /\ MaxShots \in Nat /\ PerPage \in Nat \ {0} /\ MaxPages \in Nat \ {0} /\ MaxTableChanges \in Nat
    /\ Horizons \subseteq 0 .. MaxShots
    /\ Top \notin Shots /\ NoPage \notin GalleryPage /\ NoPage \notin Run

VARIABLES
    screenshots,   \* the screenshots in the database
    tableChanges,  \* number of changes so far
    early,         \* history: those that were there when the gallery was opened
    cache,         \* cache[c]: the page last answered under cursor c
    data,          \* the pages the gallery shows
    size,          \* the number of pages asked for
    run,           \* the requests in progress: forced or not, and the pages so far
    horizon        \* the period filter

galleryVars == <<screenshots, tableChanges, early, cache, data, size, run, horizon>>

GalleryTypeOK ==
    /\ screenshots \subseteq Shots /\ early \subseteq Shots /\ tableChanges \in 0 .. MaxTableChanges
    /\ cache \in [Cursors -> GalleryPage \cup {NoPage}]
    /\ data \in Seq(GalleryPage)
    /\ size \in 1 .. MaxPages
    /\ Len(data) <= MaxPages
    /\ horizon \in Horizons
    /\ run \in Run \cup {NoPage}

-----------------------------------------------------------------------------
(* GET /screenshots: newest first, after the row of the cursor (nothing if *)
(* that row is gone), one more than the limit.                             *)
After(c) == IF c = Top THEN screenshots
            ELSE IF c \in screenshots THEN {s \in screenshots : s < c} ELSE {}

Newer(s, S) == {t \in S : t > s}
Newest(S) == {s \in S : Cardinality(Newer(s, S)) < PerPage}

(* The one more than the limit is taken off, and is the next cursor.       *)
Extra(S) == {s \in S : Cardinality(Newer(s, S)) = PerPage}

AnswerPage(S) ==
    [shots |-> Newest(S), more |-> Extra(S) # {},
     next |-> IF Extra(S) = {} THEN Top ELSE CHOOSE s \in Extra(S) : TRUE]

(* fetcher: an answer with the cursor it was asked with ends the gallery.  *)
Fetched(c) ==
    LET p == AnswerPage(After(c))
    IN IF c # Top /\ p.next = c THEN [p EXCEPT !.more = FALSE, !.next = Top] ELSE p

(* getKey: the first page, or the one after a page that has more.          *)
HasKey(pages) == IF pages = <<>> THEN TRUE ELSE pages[Len(pages)].more

(* Mutant of KeyAfter: the cursor of the page that is shown.               *)
KeyAfterShown(pages) ==
    IF pages = <<>> THEN Top
    ELSE IF Len(pages) <= Len(data) /\ data[Len(pages)].more THEN data[Len(pages)].next
    ELSE pages[Len(pages)].next

KeyAfter(pages) == IF pages = <<>> THEN Top ELSE pages[Len(pages)].next

Listed == UNION {data[k].shots : k \in DOMAIN data}
Shown == {s \in Listed : s > horizon}
IsEmpty == data # <<>> /\ data[1].shots = {}
IsReachingEnd == IsEmpty \/ (data # <<>> /\ ~data[Len(data)].more)
IsLoadingMore == run # NoPage /\ data # <<>> /\ Len(data) >= size

Requested(force) == run' = [force |-> force, pages |-> <<>>]

-----------------------------------------------------------------------------
TableChanges == tableChanges < MaxTableChanges /\ tableChanges' = tableChanges + 1

(* The world: an upload is recorded, the oldest screenshots are deleted.   *)
Arrives(s) ==
    /\ s \notin screenshots \cup early
    /\ TableChanges
    /\ screenshots' = screenshots \cup {s}
    /\ UNCHANGED <<early, cache, data, size, run, horizon>>

Expire ==
    /\ TableChanges
    /\ \E s \in screenshots : screenshots' = Newer(s, screenshots)
    /\ UNCHANGED <<early, cache, data, size, run, horizon>>

-----------------------------------------------------------------------------
(* A page is requested if the run is forced, it is not cached, or what is  *)
(* cached is not what is shown; otherwise the cached page is taken.        *)
Requests(k, c) == \/ run.force
                  \/ cache[c] = NoPage
                  \/ k <= Len(data) /\ data[k] # cache[c]

NextPage ==
    /\ run # NoPage
    /\ Len(run.pages) < size /\ HasKey(run.pages)
    /\ LET c == KeyAfter(run.pages)
           p == IF Requests(Len(run.pages) + 1, c) THEN Fetched(c) ELSE cache[c]
       IN /\ run' = [run EXCEPT !.pages = Append(@, p)]
          /\ cache' = [cache EXCEPT ![c] = p]
    /\ UNCHANGED <<screenshots, tableChanges, early, data, size, horizon>>

PagesDone ==
    /\ run # NoPage
    /\ Len(run.pages) = size \/ ~HasKey(run.pages)
    /\ data' = run.pages
    /\ run' = NoPage
    /\ UNCHANGED <<screenshots, tableChanges, early, cache, size, horizon>>

(* A request fails: the gallery goes on showing what it has.               *)
PageFails ==
    /\ run # NoPage
    /\ run' = NoPage
    /\ UNCHANGED <<screenshots, tableChanges, early, cache, data, size, horizon>>

RetryPages ==
    /\ run = NoPage /\ data = <<>>
    /\ Requested(FALSE)
    /\ UNCHANGED <<screenshots, tableChanges, early, cache, data, size, horizon>>

(* The sentinel comes into sight; a run in progress is superseded.         *)
ScrollDown ==
    /\ data # <<>> /\ ~IsReachingEnd /\ ~IsLoadingMore
    /\ size < MaxPages
    /\ size' = size + 1
    /\ Requested(FALSE)
    /\ UNCHANGED <<screenshots, tableChanges, early, cache, data, horizon>>

(* The refresh button, disabled while pages are requested.                 *)
RefreshGallery ==
    /\ run = NoPage
    /\ Requested(TRUE)
    /\ UNCHANGED <<screenshots, tableChanges, early, cache, data, size, horizon>>

-----------------------------------------------------------------------------
(* The period filter is a matter of the page alone.                        *)
FilterBy(h) ==
    /\ h # horizon
    /\ horizon' = h
    /\ UNCHANGED <<screenshots, tableChanges, early, cache, data, size, run>>

GalleryInit ==
    /\ screenshots \in SUBSET Shots
    /\ tableChanges = 0
    /\ early = screenshots
    /\ cache = [c \in Cursors |-> NoPage]
    /\ data = <<>>
    /\ size = 1
    /\ run = [force |-> FALSE, pages |-> <<>>]
    /\ horizon \in Horizons

GalleryNext ==
    \/ \E s \in Shots : Arrives(s)
    \/ \E h \in Horizons : FilterBy(h)
    \/ Expire \/ NextPage \/ PagesDone \/ PageFails \/ RetryPages
    \/ ScrollDown \/ RefreshGallery

GallerySpec == GalleryInit /\ [][GalleryNext]_galleryVars

-----------------------------------------------------------------------------
(* The pages follow each other from new to old, without one screenshot     *)
(* twice.                                                                  *)
GalleryIsSorted ==
    \A j, k \in DOMAIN data : j < k =>
        \A s \in data[j].shots, t \in data[k].shots : t < s

(* A gallery in order and without holes, but for the cursors: every        *)
(* screenshot that was there before the first request, is still there, is  *)
(* in the period chosen and newer than one that is shown, is shown itself, *)
(* or is the cursor of a page; although the pages were requested at        *)
(* different times, of a table that changed in between, and partly come    *)
(* from the cache.  The cursors are the screenshots that no page ever      *)
(* shows: taken off one page and skipped by the next.                      *)
OnlyCursorsAreMissed ==
    /\ GalleryIsSorted
    /\ \A s \in early \cap screenshots :
         s > horizon /\ (\E t \in Shown : t < s) =>
            s \in Shown \/ \E k \in DOMAIN data : data[k].next = s

============================================================================
