------------------------- MODULE DreamscapeListing -------------------------
(***************************************************************************)
(* The collection of past meditations: GET and DELETE /dreamscapes         *)
(* (api/routers/dreamscapes.py) over the eventually consistent query of    *)
(* shared/db.py, and the page that accumulates the listing and removes     *)
(* cards before it is told they may go (frontend dreamscapes/              *)
(* useDreamscapes.ts).  Meditations finish, in any order, while the        *)
(* listener pages through them.                                            *)
(*                                                                         *)
(* A job is its place in the sort order of the listing - created_at, then  *)
(* job_id - and a cursor is the job it was made of.                        *)
(***************************************************************************)
EXTENDS Integers, SequencesExt

CONSTANTS
    Jobs,                  \* how many jobs the user has
    PageSize               \* PAGE_SIZE

ASSUME ListingAssumption == Jobs \in Nat /\ PageSize \in Nat \ {0}

Job == 1..Jobs
NoCursor == Jobs + 1       \* every job sorts after it

VARIABLES
    status,                \* the JOB items' status
    items,                 \* the cards, newest first
    loaded,                \* has the first page arrived (items # null)?
    cursor, hasMore,       \* the hook's
    page,                  \* the fetch under way
    removal,               \* the DELETE under way for each job
    seen,                  \* history: what every page so far could have listed
    removed,               \* history: removals the API confirmed
    overlapped             \* history: were two removals under way at once?

hook == <<items, loaded, cursor, hasMore>>
history == <<seen, removed, overlapped>>
vars == <<status, hook, page, removal, history>>

NoPage == [at |-> "none", items |-> << >>, next |-> NoCursor]
NoRemoval == [at |-> "none", index |-> 0]

ListingInit ==
    /\ status \in [Job -> {"RUNNING", "DONE"}]
    /\ items = << >> /\ loaded = FALSE
    /\ cursor = NoCursor /\ hasMore = FALSE
    /\ page = NoPage
    /\ removal = [j \in Job |-> NoRemoval]
    /\ seen = {} /\ removed = {} /\ overlapped = FALSE

----------------------------------------------------------------------------
(***************************************************************************)
(* The server.                                                             *)
(***************************************************************************)

\* The pipeline completes a job.
Finish(j) ==
    /\ status[j] = "RUNNING"
    /\ status' = [status EXCEPT ![j] = "DONE"]
    /\ UNCHANGED <<hook, page, removal, history>>

\* What one query may find DONE: of each job that has been, the completion, or
\* not yet, and the deletion, or not yet; two queries see what they see.
Views == SUBSET {j \in Job : status[j] # "RUNNING"}

\* The listing of a set of jobs, newest first.
Sorted(jobs) ==
    [i \in 1..Cardinality(jobs) |->
        CHOOSE j \in jobs : Cardinality({k \in jobs : k > j}) = i - 1]

\* Faulty: an offset, of the cards the page holds, in place of a cursor.
AfterOffset(done, c) ==
    LET listed == Sorted(done)
    IN  {listed[i] : i \in {k \in DOMAIN listed : c # NoCursor => k > Len(items)}}

\* _after_cursor: the strict suffix in the sorted order.
AfterCursor(done, c) == {j \in done : j < c}

\* GET /dreamscapes.
Serve ==
    /\ page.at = "asked"
    /\ \E done \in Views : \E jobs \in {Sorted(AfterCursor(done, cursor))} :
           /\ LET first == SubSeq(jobs, 1, PageSize)
              IN  page' = IF Len(jobs) <= PageSize
                          THEN [at |-> "served", items |-> jobs, next |-> NoCursor]
                          ELSE [at |-> "served", items |-> first, next |-> first[PageSize]]
           /\ seen' = IF cursor = NoCursor THEN done
                      ELSE {j \in seen : j < cursor => j \in done}
    /\ UNCHANGED <<status, hook, removal, removed, overlapped>>

\* DELETE /dreamscapes/{job_id}: DELETED first, and then the sweep, which
\* may fail; or the request never comes through.
Delete(j) ==
    /\ removal[j].at = "asked"
    /\ \/ /\ status' = [status EXCEPT ![j] = "DELETED"]
          /\ \E answer \in {"gone", "refused"} :
                 removal' = [removal EXCEPT ![j].at = answer]
       \/ /\ removal' = [removal EXCEPT ![j].at = "refused"]
          /\ UNCHANGED status
    /\ UNCHANGED <<hook, page, history>>

----------------------------------------------------------------------------
(***************************************************************************)
(* The hook.                                                               *)
(***************************************************************************)

\* On mount, "Try again" and "More dreamscapes"; one fetch at a time.
FetchPage ==
    /\ page.at = "none"
    /\ ~loaded \/ hasMore
    /\ page' = [NoPage EXCEPT !.at = "asked"]
    /\ UNCHANGED <<status, hook, removal, history>>

PageArrives ==
    /\ page.at = "served"
    /\ cursor' = page.next
    /\ hasMore' = (page.next # NoCursor)
    /\ items' = items \o page.items
    /\ loaded' = TRUE
    /\ page' = NoPage
    /\ UNCHANGED <<status, removal, history>>

\* The request or its answer is lost: nothing of it is kept.
PageFails ==
    /\ page.at # "none"
    /\ page' = NoPage
    /\ UNCHANGED <<status, hook, removal, history>>

Removing == {j \in Job : removal[j].at # "none"}

\* The card leaves at once.
RemoveCard(j) ==
    \E i \in DOMAIN items :
        /\ items[i] = j
        /\ removal[j].at = "none"
        /\ removal' = [removal EXCEPT ![j] = [at |-> "asked", index |-> i]]
        /\ items' = RemoveAt(items, i)
        /\ overlapped' = (overlapped \/ Removing # {})
        /\ UNCHANGED <<status, loaded, cursor, hasMore, page, seen, removed>>

\* Faulty: the card is put first, wherever it came from.
PutBackFirst(j) == <<j>> \o items

\* A refused card returns to its old place, "bounded in case a loadMore
\* landed meanwhile".
PutBack(j) ==
    LET i == removal[j].index
    IN  IF i > Len(items) THEN Append(items, j) ELSE InsertAt(items, i, j)

Answered(j) ==
    /\ removal[j].at \in {"gone", "refused"}
    /\ removal' = [removal EXCEPT ![j] = NoRemoval]
    /\ \/ /\ removal[j].at = "gone"
          /\ removed' = removed \union {j}
          /\ UNCHANGED items
       \/ /\ removal[j].at = "refused"
          /\ items' = PutBack(j)
          /\ UNCHANGED removed
    /\ UNCHANGED <<status, loaded, cursor, hasMore, page, seen, overlapped>>

ListingNext ==
    \/ FetchPage \/ Serve \/ PageArrives \/ PageFails
    \/ \E j \in Job :
           \/ Finish(j)
           \/ RemoveCard(j) \/ Delete(j) \/ Answered(j)

ListingSpec == ListingInit /\ [][ListingNext]_vars

----------------------------------------------------------------------------
(***************************************************************************)
(* Properties.                                                             *)
(***************************************************************************)

\* The types of the variables, and no card is there twice: not across two
\* pages, nor after a removal that was refused.
ListingTypeOK ==
    /\ status \in [Job -> {"RUNNING", "DONE", "DELETED"}]
    /\ items \in Seq(Job) /\ IsInjective(items)
    /\ loaded \in BOOLEAN /\ hasMore \in BOOLEAN /\ overlapped \in BOOLEAN
    /\ cursor \in Job \union {NoCursor}
    /\ page.at \in {"none", "asked", "served"}
    /\ page.next \in Job \union {NoCursor}
    /\ \A j \in Job :
           /\ removal[j].at \in {"none", "asked", "gone", "refused"}
           /\ removal[j].index \in 0..Jobs
           /\ removal[j].at # "none" => ~Contains(items, j)
    /\ seen \subseteq Job /\ removed \subseteq Job

\* api/routers/dreamscapes.py: the cursor "stays correct when items are
\* deleted between pages".  Once the listing has no more, every meditation
\* that the query of each page could see has a card, unless it was deleted or
\* is being removed - whatever finished, left or came back meanwhile.
NothingIsSkipped ==
    loaded /\ ~hasMore /\ page.at = "none" =>
        \A j \in seen :
            status[j] = "DONE" => Contains(items, j) \/ j \in Removing

\* The cards stay in the order of the listing, newest first, through
\* removals refused and pages that land meanwhile - as long as no two
\* removals were under way together.
NewestFirst ==
    ~overlapped => \A i, k \in DOMAIN items : i < k => items[i] > items[k]

\* A card whose removal was confirmed does not come back, though the query
\* may still see its job.
RemovedStaysGone == \A j \in removed : ~Contains(items, j)

\* The cards are those of meditations not removed, once each, newest first.
CardsInOrder == ListingTypeOK /\ NewestFirst /\ RemovedStaysGone
=============================================================================
