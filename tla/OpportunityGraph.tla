--------------------------- MODULE OpportunityGraph ---------------------------
(***************************************************************************)
(* The postings of one company and the opportunities they are postings of  *)
(* (packages/db/src/opportunities.ts, the resolver of the collectors and   *)
(* migration 0010).  A new posting makes an opportunity of its own, its    *)
(* origin, so an opportunity has the name of its origin posting here.      *)
(*                                                                         *)
(* Two hands move postings between opportunities: the resolver, by         *)
(* validated identity keys, and an administrator who merges, splits or     *)
(* finds two postings distinct.  Both lock rows first and the company      *)
(* (pg_advisory_xact_lock) afterwards; PostgreSQL ends one of two          *)
(* transactions that wait for each other, and that one is abandoned.       *)
(*                                                                         *)
(* There is one identity key; a repeated correction with a used            *)
(* idempotency key changes nothing and is no step here.                    *)
(***************************************************************************)
EXTENDS ApiRequests, FiniteSets, Naturals

CONSTANT Postings  \* ids of jobs, and of job_opportunities by origin_job_id

ASSUME PostingAssumption == Null \notin Postings /\ IsFiniteSet(Postings)

VARIABLES
  membership,  \* the open row of public.job_opportunity_postings by job
  superseded,  \* public.job_opportunities.superseded_by_id, null when ACTIVE
  keyed,       \* postings with the identity key in public.job_identity_keys
  reviews,     \* PENDING pairs of public.job_resolution_reviews
  distinct,    \* pairs with a MANUAL_NO_MATCH decision
  correcting   \* the transaction of a request or of the resolver

graph == <<membership, superseded, keyed, reviews, distinct>>

ovars == <<graph, correcting>>

MembershipRow == [of : Postings, singleton : BOOLEAN, pinned : BOOLEAN]

ASSUME MembershipRowAssumption == Null \notin MembershipRow

Pairs == {{p, q} : p, q \in Postings} \ {{p} : p \in Postings}

Correction == {Idle}
  \cup [op : {"RESOLVE", "SPLIT"}, posting : Postings]
  \cup [op : {"MERGE"}, winner : Postings, loser : Postings, review : Pairs \cup {Null}]

GraphTypeOK ==
  /\ membership \in [Postings -> MembershipRow \cup {Null}]
  /\ superseded \in [Postings -> Postings \cup {Null}]
  /\ keyed \subseteq Postings
  /\ reviews \subseteq Pairs
  /\ distinct \subseteq Pairs
  /\ correcting \in [Requests -> Correction]

OInit ==
  /\ membership = [p \in Postings |-> Null]
  /\ superseded = [p \in Postings |-> Null]
  /\ keyed = {}
  /\ reviews = {}
  /\ distinct = {}
  /\ correcting = [r \in Requests |-> Idle]

Collected(p) == membership[p] # Null

ActiveOpportunity(o) == Collected(o) /\ superseded[o] = Null

Members(o) == {p \in Postings : Collected(p) /\ membership[p].of = o}

Apart(p, q) == Collected(p) /\ Collected(q) /\ membership[p].of # membership[q].of

Joined(o, singleton, pinned) == [of |-> o, singleton |-> singleton, pinned |-> pinned]

-----------------------------------------------------------------------------
(* Locks, held until the transaction ends.                                 *)

(* Rows of job_opportunities locked FOR UPDATE by a transaction. *)
LockedOpportunities(r) ==
  CASE correcting[r].op = "MERGE" -> {correcting[r].winner, correcting[r].loser}
    [] correcting[r].op = "RESOLVE" -> {membership[correcting[r].posting].of}
    [] correcting[r].op = "SPLIT" -> {correcting[r].posting}
    [] OTHER -> {}

LockedMemberships(r) ==
  IF correcting[r].op \in {"RESOLVE", "SPLIT"} THEN {correcting[r].posting} ELSE {}

OpportunityFree(r, o) == \A s \in Requests \ {r} : o \notin LockedOpportunities(s)
MembershipFree(r, p) == \A s \in Requests \ {r} : p \notin LockedMemberships(s)
ReviewFree(pair) ==
  \A s \in Requests : correcting[s].op = "MERGE" => correcting[s].review # pair

Corrects(r, transaction) == correcting' = [correcting EXCEPT ![r] = transaction]

-----------------------------------------------------------------------------
(* A new posting: create_singleton_opportunity_for_job.                    *)

Collect(p) ==
  /\ ~Collected(p)
  /\ membership' = [membership EXCEPT ![p] = Joined(p, TRUE, FALSE)]
  /\ UNCHANGED <<superseded, keyed, reviews, distinct, correcting>>

-----------------------------------------------------------------------------
(* resolve_job.                                                            *)

ResolveBegins(r, p) ==
  /\ correcting[r] = Idle
  /\ Collected(p)
  /\ OpportunityFree(r, membership[p].of) /\ MembershipFree(r, p)
  /\ Corrects(r, [op |-> "RESOLVE", posting |-> p])
  /\ UNCHANGED graph

(* The opportunities the validated key points to. *)
MatchTargets(p) ==
  {membership[q].of : q \in {k \in keyed \ {p} : superseded[membership[k].of] = Null}}
    \ {membership[p].of}

WhenAlone(p) == Cardinality(Members(membership[p].of)) = 1
WhenUnpinned(p) == ~membership[p].pinned
MayMove(p) == ~membership[p].pinned /\ Cardinality(Members(membership[p].of)) = 1

(* Under the company's lock.  found: the posting carries the key today; a   *)
(* key once recorded stays.  A posting goes to the one opportunity that     *)
(* matches; with none, every other opportunity of the same title block may  *)
(* become a review with its canonical posting.                              *)
Resolve(r, found) ==
  /\ correcting[r].op = "RESOLVE"
  /\ LET p == correcting[r].posting
         own == membership[p].of
         targets == MatchTargets(p)
     IN /\ keyed' = IF found THEN keyed \cup {p} ELSE keyed
        /\ IF membership[p].singleton /\ found /\ Cardinality(targets) = 1 /\ MayMove(p)
           THEN \E target \in targets :
                  /\ OpportunityFree(r, target)
                  /\ membership' = [membership EXCEPT ![p] = Joined(target, FALSE, FALSE)]
                  /\ superseded' = [superseded EXCEPT ![own] = target]
           ELSE UNCHANGED <<membership, superseded>>
        /\ IF membership[p].singleton /\ found /\ targets = {}
           THEN \E similar \in SUBSET {q \in Postings : Apart(p, q)} :
                  /\ \A a, b \in similar : a # b => Apart(a, b)
                  /\ reviews' = reviews \cup {{p, q} : q \in similar}
           ELSE UNCHANGED reviews
  /\ Corrects(r, Idle)
  /\ UNCHANGED distinct

-----------------------------------------------------------------------------
(* mergeOpportunities.                                                     *)

LoserActive(winner, loser) == ActiveOpportunity(loser)
BothActive(winner, loser) == ActiveOpportunity(winner) /\ ActiveOpportunity(loser)

MergeBegins(r, winner, loser, review) ==
  /\ correcting[r] = Idle
  /\ winner # loser
  /\ OpportunityFree(r, winner) /\ OpportunityFree(r, loser)
  /\ BothActive(winner, loser)
  /\ review # Null =>
       /\ review \in reviews /\ ReviewFree(review)
       /\ \A p, q \in review : p # q =>
            Apart(p, q) /\ {membership[p].of, membership[q].of} = {winner, loser}
  /\ Corrects(r, [op |-> "MERGE", winner |-> winner, loser |-> loser, review |-> review])
  /\ UNCHANGED graph

Merge(r) ==
  /\ correcting[r].op = "MERGE"
  /\ LET w == correcting[r].winner
         l == correcting[r].loser
     IN /\ \A p \in Members(w) \cup Members(l) : MembershipFree(r, p)
        /\ membership' = [p \in Postings |->
             IF p \in Members(w) THEN [membership[p] EXCEPT !.pinned = TRUE]
             ELSE IF p \in Members(l) THEN Joined(w, FALSE, TRUE) ELSE membership[p]]
        /\ superseded' = [superseded EXCEPT ![l] = w]
        /\ reviews' = reviews \ {correcting[r].review}
  /\ Corrects(r, Idle)
  /\ UNCHANGED <<keyed, distinct>>

-----------------------------------------------------------------------------
(* splitOpportunity: the posting goes back to its origin.                  *)

SplitBegins(r, p) ==
  /\ correcting[r] = Idle
  /\ Collected(p)
  /\ MembershipFree(r, p) /\ OpportunityFree(r, p)
  /\ Corrects(r, [op |-> "SPLIT", posting |-> p])
  /\ UNCHANGED graph

Split(r) ==
  /\ correcting[r].op = "SPLIT"
  /\ LET p == correcting[r].posting
         from == membership[p].of
     IN /\ OpportunityFree(r, from)
        /\ membership' = [membership EXCEPT ![p] = Joined(p, FALSE, TRUE)]
        /\ superseded' = [o \in Postings |->
             IF o = p THEN Null
             ELSE IF o = from /\ Members(from) = {p} THEN p ELSE superseded[o]]
  /\ Corrects(r, Idle)
  /\ UNCHANGED <<keyed, reviews, distinct>>

-----------------------------------------------------------------------------
(* dismissOpportunityReview, in one step: it locks before it reads.        *)

DismissReview(r, pair) ==
  /\ correcting[r] = Idle
  /\ pair \in reviews /\ ReviewFree(pair)
  /\ \A p \in pair : MembershipFree(r, p)
  /\ \A p, q \in pair : p # q => Apart(p, q)
  /\ membership' = [p \in Postings |->
       IF p \in pair THEN [membership[p] EXCEPT !.pinned = TRUE] ELSE membership[p]]
  /\ reviews' = reviews \ {pair}
  /\ distinct' = distinct \cup {pair}
  /\ UNCHANGED <<superseded, keyed, correcting>>

(* A transaction that is rolled back.                                       *)
AbandonCorrection(r) ==
  /\ correcting[r] # Idle
  /\ Corrects(r, Idle)
  /\ UNCHANGED graph

ONext ==
  \/ \E p \in Postings : Collect(p)
  \/ \E r \in Requests, p \in Postings : ResolveBegins(r, p)
  \/ \E r \in Requests, found \in BOOLEAN : Resolve(r, found)
  \/ \E r \in Requests, winner, loser \in Postings, review \in reviews \cup {Null} :
       MergeBegins(r, winner, loser, review)
  \/ \E r \in Requests : Merge(r)
  \/ \E r \in Requests, p \in Postings : SplitBegins(r, p)
  \/ \E r \in Requests : Split(r)
  \/ \E r \in Requests, pair \in reviews : DismissReview(r, pair)
  \/ \E r \in Requests : AbandonCorrection(r)

OSpec == OInit /\ [][ONext]_ovars

-----------------------------------------------------------------------------
(* Properties.                                                             *)

(* Where at most n redirects of an opportunity lead, as the watchlist       *)
(* follows them (watchSelect).                                             *)
Walk[n \in 0..Cardinality(Postings)] ==
  IF n = 0
  THEN [o \in Postings |-> o]
  ELSE [o \in Postings |-> IF superseded[o] = Null THEN o ELSE Walk[n - 1][superseded[o]]]

(* An opportunity is active just as long as the posting it came from is one *)
(* of its postings, and no posting is left in one that is superseded: the   *)
(* listings, which leave superseded ones out, miss no posting.  A redirect  *)
(* ends at an active opportunity, whatever corrections were made, undone    *)
(* and made again between its two ends (mergeOpportunities,                 *)
(* splitOpportunity, resolve_job).                                         *)
PostingsAreListed ==
  \A p \in Postings : Collected(p) =>
    /\ superseded[membership[p].of] = Null
    /\ superseded[p] = Null <=> membership[p].of = p
    /\ ActiveOpportunity(Walk[Cardinality(Postings)][p])

(* Two postings an administrator found distinct come together again only by *)
(* a merge, never by the resolver, however their keys and their clusters    *)
(* change (docs/canonical-job-graph.md, "pins the affected memberships").   *)
DistinctStayApart ==
  [][\A pair \in distinct : \A p, q \in pair :
       p # q /\ Apart(p, q) /\ ~Apart(p, q)' =>
         \E r \in Requests : correcting[r].op = "MERGE" /\ correcting'[r] = Idle]_ovars
=============================================================================
