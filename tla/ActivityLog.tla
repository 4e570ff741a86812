----------------------------- MODULE ActivityLog -----------------------------
(***************************************************************************)
(* The activity page of a machine (ActivityPage.tsx, useActivity.ts,       *)
(* mergeActivities.ts): infinite scrolling over the offset pages of        *)
(* GET /activity/:machineId (routes/web/activity.ts) while new sessions    *)
(* are stored.  Nothing deletes sessions, and nothing fetches a page that  *)
(* is cached again.                                                        *)
(*                                                                         *)
(* A session is its position in the order of start times, 1 is the oldest. *)
(***************************************************************************)
EXTENDS Naturals, Sequences, FiniteSets, SequencesExt

CONSTANTS
    WindowOf,       \* WindowOf[s]: process and window title of session s
    PageLimit,      \* sessions of a page (100)
    MaxLogPages,    \* bound: pages asked for
    MaxNewSessions, \* bound: sessions stored while the page is open
    Ranges          \* what the period filter hides: sessions up to a position

Positions == DOMAIN WindowOf

ASSUME ActivityLogAssumption ==
    /\ Len(WindowOf) \in Nat /\ Positions = 1 .. Len(WindowOf)
    /\ {PageLimit, MaxLogPages} \subseteq Nat \ {0} /\ MaxNewSessions \in Nat
    /\ Ranges \subseteq Nat

VARIABLES
    sessionRows,  \* the activity_sessions rows
    olderRows,    \* history: those stored when the page was opened
    logPages,     \* the pages cached, in the order of their offsets
    pagesShown,   \* how many of them the page shows
    logSize,      \* the number of pages asked for
    logLoading,   \* pages are being requested
    rangeShown    \* the period filter

activityLogVars == <<sessionRows, olderRows, logPages, pagesShown, logSize, logLoading, rangeShown>>

ActivityLogTypeOK ==
    /\ olderRows \subseteq sessionRows /\ sessionRows \subseteq Positions
    /\ logPages \in Seq(SUBSET Positions)
    /\ pagesShown \in 0 .. Len(logPages) /\ logSize \in 1 .. MaxLogPages
    /\ logLoading \in BOOLEAN /\ rangeShown \in Ranges

ActivityLogInit ==
    /\ sessionRows \in SUBSET Positions
    /\ olderRows = sessionRows
    /\ logPages = <<>> /\ pagesShown = 0
    /\ logSize = 1
    /\ logLoading = TRUE
    /\ rangeShown \in Ranges

-----------------------------------------------------------------------------
(* Mutant of PageAt: the offset counts pages from one.                     *)
PageAtNext(k) ==
    {s \in sessionRows : Cardinality({r \in sessionRows : r > s})
                            \in k * PageLimit .. (k + 1) * PageLimit - 1}

(* The k-th page: newest first, skip: (k - 1) * limit, take: limit.        *)
PageAt(k) ==
    {s \in sessionRows : Cardinality({r \in sessionRows : r > s})
                            \in (k - 1) * PageLimit .. k * PageLimit - 1}

(* getKey: a page with less than the limit is the last one.                *)
HasNextPage(pages) ==
    IF pages = <<>> THEN TRUE ELSE Cardinality(Last(pages)) = PageLimit

ShownPages == SubSeq(logPages, 1, pagesShown)
LogReachingEnd == pagesShown > 0 /\ ~HasNextPage(ShownPages)
(* isLoadingMore: nothing to show yet, or less than was asked for, also    *)
(* when the request for it failed.                                         *)
LogLoadingMore == (logLoading /\ pagesShown = 0) \/ pagesShown \in 1 .. logSize - 1

(* A session begins, in the order of start times if the clock is right.    *)
SessionStored(s) ==
    /\ s \notin sessionRows
    /\ Cardinality(sessionRows \ olderRows) < MaxNewSessions
    /\ sessionRows' = sessionRows \cup {s}
    /\ UNCHANGED <<olderRows, logPages, pagesShown, logSize, logLoading, rangeShown>>

(* The next missing page is requested, read and cached.                    *)
PageFetched ==
    /\ logLoading
    /\ Len(logPages) < logSize /\ HasNextPage(logPages)
    /\ logPages' = Append(logPages, PageAt(Len(logPages) + 1))
    /\ UNCHANGED <<sessionRows, olderRows, pagesShown, logSize, logLoading, rangeShown>>

(* All pages are there: they are shown.  Or a request fails.               *)
LogFetchEnds ==
    /\ logLoading
    /\ logLoading' = FALSE
    /\ \/ /\ Len(logPages) = logSize \/ ~HasNextPage(logPages)
          /\ pagesShown' = Len(logPages)
       \/ UNCHANGED pagesShown
    /\ UNCHANGED <<sessionRows, olderRows, logPages, logSize, rangeShown>>

(* SWR tries again after an error, and looks when the page is reopened:    *)
(* only missing pages are requested (revalidateFirstPage: false).          *)
LogFetchStarts ==
    /\ ~logLoading
    /\ logLoading' = TRUE
    /\ UNCHANGED <<sessionRows, olderRows, logPages, pagesShown, logSize, rangeShown>>

(* The sentinel comes into sight.                                          *)
ScrollLog ==
    /\ pagesShown > 0 /\ ~LogReachingEnd /\ ~LogLoadingMore
    /\ logSize < MaxLogPages
    /\ logSize' = logSize + 1
    /\ logLoading' = TRUE
    /\ UNCHANGED <<sessionRows, olderRows, logPages, pagesShown, rangeShown>>

FilterRange(h) ==
    /\ h # rangeShown
    /\ rangeShown' = h
    /\ UNCHANGED <<sessionRows, olderRows, logPages, pagesShown, logSize, logLoading>>

ActivityLogNext ==
    \/ \E s \in Positions : SessionStored(s)
    \/ PageFetched \/ LogFetchEnds \/ LogFetchStarts \/ ScrollLog
    \/ \E h \in Ranges : FilterRange(h)

ActivityLogSpec == ActivityLogInit /\ [][ActivityLogNext]_activityLogVars

-----------------------------------------------------------------------------
(* The sessions of all pages within the period; one that a new session has *)
(* pushed over the end of its page is fetched, and its duration counted,   *)
(* twice.                                                                  *)
FilteredActivities ==
    {s \in Positions : s > rangeShown /\ \E k \in 1 .. pagesShown : s \in logPages[k]}

(* mergeSequentialActivities: in the order of time, a session joins the    *)
(* row before it if it is of the same window.                              *)
Merge(rows, s) ==
    IF s \notin FilteredActivities THEN rows
    ELSE IF rows # <<>> /\ Last(rows).window = WindowOf[s]
      THEN Append(Front(rows), [window |-> WindowOf[s], of |-> Last(rows).of \cup {s}])
    ELSE Append(rows, [window |-> WindowOf[s], of |-> {s}])

(* The rows of the sessions up to the n-th.                                *)
MergedTo[n \in 0 .. Len(WindowOf)] ==
    IF n = 0 THEN <<>> ELSE Merge(MergedTo[n - 1], n)

Merged == MergedTo[Len(WindowOf)]

(* A log without holes: every session that was there when the page was     *)
(* opened, is in the period and is newer than one that is listed, is part  *)
(* of exactly one row of its window; the rows follow each other in time    *)
(* and no two of one window stand side by side.  That pages are fetched at *)
(* different times costs a duration twice, never a missing session.        *)
LogHasNoHoles ==
    /\ \A s \in olderRows :
         s > rangeShown /\ (\E r \in FilteredActivities : r < s) =>
            \E k \in DOMAIN Merged : /\ Merged[k].window = WindowOf[s]
                                     /\ s \in Merged[k].of
                                     /\ \A j \in DOMAIN Merged \ {k} : s \notin Merged[j].of
    /\ \A k \in 1 .. Len(Merged) - 1 :
         /\ Merged[k].window # Merged[k + 1].window
         /\ \A r \in Merged[k].of, s \in Merged[k + 1].of : r < s

=============================================================================
