--------------------------- MODULE OpportunityListing ---------------------------
(***************************************************************************)
(* The pages of the list of opportunities (listOpportunities in            *)
(* packages/db/src/opportunities.ts), newest seen first, while collectors  *)
(* go on seeing postings.  A reader asks for a page at a time and hands    *)
(* back the cursor of the last one.  The lists of watches and of alerts    *)
(* (packages/db/src/personalization.ts) are paged in the same way, by the  *)
(* time their rows were created.                                           *)
(*                                                                         *)
(* PostgreSQL keeps microseconds.  A row reaches the handler as a Date of  *)
(* JavaScript, whose milliseconds become the cursor.  Here an instant is   *)
(* the number of a microsecond and Milli of them make a millisecond.       *)
(* Which opportunities a filter selects stays the same; those it selects   *)
(* are the Listings.                                                       *)
(***************************************************************************)
EXTENDS ApiRequests, Naturals, SequencesExt

CONSTANTS
  Listings,   \* ids of job_opportunities; numbers, for their order
  Milli,      \* microseconds of a millisecond
  PageLimit,  \* options.limit
  LastMoment  \* bound on the time that passes

ASSUME ListingAssumption ==
  /\ Listings \subseteq Nat
  /\ {Milli, PageLimit} \subseteq Nat \ {0}
  /\ LastMoment \in Nat
  /\ IsFiniteSet(Listings)
  /\ Null \notin Nat \cup [at : Nat, id : Nat]

VARIABLES
  moment,  \* the clock of the collectors
  sighted, \* latest_last_seen_at of each opportunity, Null before the first time
  reader   \* what one reader of the list has

listingvars == <<moment, sighted, reader>>

Cursor == [at : 0..LastMoment, id : Listings]

(* "given" is what the pages showed, "steady" what was listed from the      *)
(* first page on and not seen again since, "edges" the last rows of pages  *)
(* as they were; the cursor is Null before the first page and at the end.  *)
ListingTypeOK ==
  /\ moment \in 0..LastMoment
  /\ sighted \in [Listings -> 0..LastMoment \cup {Null}]
  /\ reader.stage \in {"FIRST", "NEXT", "END"}
  /\ IF reader.stage = "NEXT" THEN reader.cursor \in Cursor ELSE reader.cursor = Null
  /\ reader.given \in Seq(Listings)
  /\ reader.steady \subseteq {id \in Listings : sighted[id] # Null}
  /\ reader.edges \subseteq Cursor

Listed == {id \in Listings : sighted[id] # Null}

-----------------------------------------------------------------------------
(* The order of the list, as the comparison of rows in the query.           *)
Older(a, b) == a.at < b.at \/ (a.at = b.at /\ a.id < b.id)

Key(id) == [at |-> sighted[id], id |-> id]

(* toISOString, and the Date that the driver has made of the column.        *)
Timestamp(at) == (at \div Milli) * Milli

EncodedCursor(id) == [at |-> Timestamp(sighted[id]), id |-> id]

NewestFirst(ids) ==
  CHOOSE rows \in [1..Cardinality(ids) -> ids] :
    \A i, j \in DOMAIN rows : i < j => Older(Key(rows[j]), Key(rows[i]))

(* The query asks for one row more than the page holds.                     *)
Rows(cursor) ==
  LET rows == NewestFirst({id \in Listed : cursor = Null \/ Older(Key(id), cursor)})
  IN  SubSeq(rows, 1, Min({Len(rows), PageLimit + 1}))

MoreRows(rows) == Len(rows) > PageLimit

PageRows(rows) == IF MoreRows(rows) THEN SubSeq(rows, 1, PageLimit) ELSE rows

CursorOfTheExtraRow(rows) == IF MoreRows(rows) THEN EncodedCursor(Last(rows)) ELSE Null

CursorAfter(rows) == IF MoreRows(rows) THEN EncodedCursor(Last(PageRows(rows))) ELSE Null

ListOpportunities ==
  /\ reader.stage # "END"
  /\ LET rows == Rows(reader.cursor)
         next == CursorAfter(rows)
     IN  reader' =
           [ stage |-> IF next = Null THEN "END" ELSE "NEXT",
             cursor |-> next,
             given |-> reader.given \o PageRows(rows),
             steady |-> IF reader.stage = "FIRST" THEN Listed ELSE reader.steady,
             edges |-> reader.edges \cup (IF next = Null THEN {} ELSE {Key(Last(PageRows(rows)))}) ]
  /\ UNCHANGED <<moment, sighted>>

(* persist_complete_batch takes the time once, writes it to every posting   *)
(* of a board and commits later; the opportunities take over the latest of *)
(* their postings.                                                         *)
PersistBatch ==
  \E board \in SUBSET Listings \ {{}}, now \in 0..moment :
    /\ \A id \in board \cap Listed : sighted[id] <= now
    /\ sighted' = [id \in Listings |-> IF id \in board THEN now ELSE sighted[id]]
    /\ reader' = [reader EXCEPT !.steady = @ \ board]
    /\ UNCHANGED moment

TimePasses == moment < LastMoment /\ moment' = moment + 1 /\ UNCHANGED <<sighted, reader>>

ListingInit ==
  /\ moment = 0
  /\ sighted = [id \in Listings |-> Null]
  /\ reader = [stage |-> "FIRST", cursor |-> Null, given |-> <<>>, steady |-> {}, edges |-> {}]

ListingNext == ListOpportunities \/ PersistBatch \/ TimePasses

ListingSpec == ListingInit /\ [][ListingNext]_listingvars

-----------------------------------------------------------------------------
(* An opportunity that was listed with the first page and not seen again is *)
(* shown once at most.  Until it is shown it is still ahead of the reader,  *)
(* unless it was seen in the same millisecond as the last row of a page:    *)
(* pages skip nothing else, whatever else is seen and moves to the top      *)
(* between two of them.                                                     *)
SteadyRowsComeOnce ==
  \A id \in reader.steady :
    LET shown == {i \in DOMAIN reader.given : reader.given[i] = id} IN
    IF shown # {} THEN Cardinality(shown) = 1
    ELSE \/ reader.cursor # Null /\ Older(Key(id), reader.cursor)
         \/ \E edge \in reader.edges : sighted[id] \div Milli = edge.at \div Milli

(* Who follows the cursor to its end has seen everything that was there all *)
(* the time (docs/canonical-job-graph.md promises the next cursor).         *)
PagesReachEverything ==
  reader.stage = "END" => reader.steady \subseteq Range(reader.given)
=============================================================================
