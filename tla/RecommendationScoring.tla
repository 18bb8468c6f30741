------------------------ MODULE RecommendationScoring ------------------------
(***************************************************************************)
(* The priority of an opportunity for a user                               *)
(* (packages/db/src/recommendation-scoring.ts): nine weighted factors over *)
(* the facts of the opportunity and what the user asks for, a score over   *)
(* the factors that are known, and a category.                             *)
(*                                                                         *)
(* The scoring is a function of its arguments.  Here the arguments change, *)
(* one at a time: collectors learn a fact, days pass, the user asks for    *)
(* something else.  The codes of the reasons are left out.                 *)
(***************************************************************************)
EXTENDS Integers, FiniteSetsExt, Functions

CONSTANTS
  Facts,  \* [name |-> the values it may take], of the facts named in Fact
  Wishes  \* what a user may ask for

VARIABLES
  facts,  \* RecommendationOpportunityFacts and the user's watches
  wish,   \* RecruitingPreferenceSnapshot
  ranked  \* RecommendationResult, of the facts and the wish as they are

scorevars == <<facts, wish, ranked>>

Unknown == "UNKNOWN"

Tracks == {"INTERNSHIP", "NEW_GRAD"}
Places == {"CITY_REGION_COUNTRY", "REGION_COUNTRY", "COUNTRY", "REMOTE_REGION"}
Authority == [OFFICIAL_ATS |-> 4, OFFICIAL_COMPANY |-> 3, REVIEWED_DIRECT |-> 2,
              COMMUNITY |-> 1, UNREVIEWED |-> 0]

(* "watched" is what the user's watches name: this opportunity or its       *)
(* company, others only, or nothing.  "agrees" is the kinds of place that   *)
(* agree with the user's, "left" the days to a reliable deadline, if any.   *)
Fact ==
  { "watched", "superseded", "lifecycle", "role", "level", "tracks", "years", "mode",
    "agrees", "age", "left", "authority", "sponsors", "authorization" }

ScoringTypeOK ==
  /\ DOMAIN facts = Fact /\ \A name \in Fact : facts[name] \in Facts[name]
  /\ wish \in Wishes
  /\ ranked.score \in 0..100

(* What the types of RecommendationOpportunityFacts and of                  *)
(* RecruitingPreferenceSnapshot allow.                                     *)
ASSUME ScoringAssumption ==
  /\ \A name \in Fact : Facts[name] # {}
  /\ Facts["watched"] \subseteq {"THIS", "OTHERS", "NOTHING"}
  /\ Facts["authority"] \subseteq DOMAIN Authority
  /\ \A w \in Wishes : w.places \subseteq Places

-----------------------------------------------------------------------------
(* hardEligibility *)

Failures(f, w) ==
  { reason \in {"SUPERSEDED", "CLOSED", "DEADLINE", "SENIORITY", "GRADUATION",
                "SPONSORSHIP", "AUTHORIZATION"} :
      CASE reason = "SUPERSEDED" -> f.superseded
        [] reason = "CLOSED" -> f.lifecycle = "CLOSED"
        [] reason = "DEADLINE" -> \E days \in f.left : days < 0
        [] reason = "SENIORITY" -> w.levels # {} /\ f.level \notin w.levels \cup {Unknown}
        [] reason = "GRADUATION" -> w.graduates /\ f.years = "OTHERS"
        [] reason = "SPONSORSHIP" -> w.needsSponsor /\ f.sponsors = "NEVER"
        [] reason = "AUTHORIZATION" -> w.unauthorized /\ f.authorization = "REQUIRED" }

Doubts(f, w) ==
  { reason \in {"LIFECYCLE", "SENIORITY", "GRADUATION", "SPONSORSHIP", "AUTHORIZATION"} :
      CASE reason = "LIFECYCLE" -> f.lifecycle = Unknown
        [] reason = "SENIORITY" -> w.levels # {} /\ f.level = Unknown
        [] reason = "GRADUATION" -> w.graduates /\ f.years = Unknown
        [] reason = "SPONSORSHIP" -> w.needsSponsor /\ f.sponsors = Unknown
        [] reason = "AUTHORIZATION" -> w.unauthorized /\ f.authorization = Unknown }

Eligibility(f, w) ==
  IF Failures(f, w) # {} THEN "NOT_ELIGIBLE"
  ELSE IF Doubts(f, w) # {} THEN Unknown ELSE "ELIGIBLE"

-----------------------------------------------------------------------------
(* The factors: a state and the weight earned.                              *)

Weights ==
  [ COMPANY_PREFERENCE |-> 18, ROLE_MATCH |-> 20, EARLY_CAREER_TRACK |-> 14,
    EXPERIENCE_LEVEL |-> 12, LOCATION_MATCH |-> 14, WORKPLACE_MODE |-> 8,
    FRESHNESS |-> 6, DEADLINE_URGENCY |-> 4, SOURCE_CONFIDENCE |-> 4 ]

Personal ==
  { "COMPANY_PREFERENCE", "ROLE_MATCH", "EARLY_CAREER_TRACK", "EXPERIENCE_LEVEL",
    "LOCATION_MATCH", "WORKPLACE_MODE" }

Factor(state, earned) == [state |-> state, earned |-> earned]
NotApplicable == Factor("NOT_APPLICABLE", 0)
NotKnown == Factor(Unknown, 0)
Mismatch == Factor("MISMATCH", 0)
Worth(points, full) ==
  IF points = full THEN Factor("MATCH", points)
  ELSE IF points > 0 THEN Factor("PARTIAL", points) ELSE Mismatch

(* A factor of which the user asks for one of some values. *)
Among(value, wanted, unknown, full) ==
  CASE wanted = {} -> NotApplicable
    [] wanted # {} /\ value = unknown -> NotKnown
    [] OTHER -> IF value \in wanted THEN Factor("MATCH", full) ELSE Mismatch

CompanyFactor(f) ==
  CASE f.watched = "THIS" -> Factor("MATCH", 18)
    [] f.watched = "OTHERS" -> Mismatch
    [] f.watched = "NOTHING" -> NotApplicable

EarlyMatch(f, w) == Factor("MATCH", 12)
TrackMatch(f, w) ==
  IF Cardinality(f.tracks) > 1 /\ Cardinality(w.tracks) = 1
  THEN Factor("PARTIAL", 12) ELSE Factor("MATCH", 14)

TrackFactor(f, w) ==
  CASE w.tracks = {} -> NotApplicable
    [] w.tracks # {} /\ f.tracks = {} -> IF f.level = Unknown THEN NotKnown ELSE Mismatch
    [] OTHER -> IF f.tracks \cap w.tracks = {} THEN Mismatch ELSE TrackMatch(f, w)

PlacePoints ==
  [CITY_REGION_COUNTRY |-> 14, REGION_COUNTRY |-> 12, COUNTRY |-> 7, REMOTE_REGION |-> 12]

LocationFactor(f, w) ==
  CASE w.places = {} -> NotApplicable
    [] w.places # {} /\ f.agrees = {Unknown} -> NotKnown
    [] OTHER -> Worth(Max({0} \cup {PlacePoints[k] : k \in f.agrees \cap w.places}), 14)

WorkplaceFactor(f, w) ==
  IF w.modes # {} /\ f.mode = "MIXED" THEN Factor("PARTIAL", 6)
  ELSE Among(f.mode, w.modes, Unknown, 8)

(* The points of the first step of a ladder the number of days is within.  *)
Step(days, ladder) ==
  LET within == {i \in DOMAIN ladder : days <= ladder[i][1]} IN
  IF within = {} THEN 0 ELSE ladder[Min(within)][2]

FreshnessFactor(f) == Worth(Step(f.age, <<<<1, 6>>, <<3, 5>>, <<7, 4>>, <<14, 2>>>>), 6)

DeadlineFactor(f) ==
  IF f.left = {} THEN NotKnown
  ELSE Worth(Step(Min(f.left), <<<<1, 4>>, <<3, 3>>, <<7, 2>>, <<14, 1>>>>), 4)

SourceFactor(f) == Worth(Authority[f.authority], 4)

FactorOf(f, w) ==
  [ COMPANY_PREFERENCE |-> CompanyFactor(f),
    ROLE_MATCH |-> Among(f.role, w.roles, "OTHER", 20),
    EARLY_CAREER_TRACK |-> TrackFactor(f, w),
    EXPERIENCE_LEVEL |-> Among(f.level, w.levels, Unknown, 12),
    LOCATION_MATCH |-> LocationFactor(f, w),
    WORKPLACE_MODE |-> WorkplaceFactor(f, w),
    FRESHNESS |-> FreshnessFactor(f),
    DEADLINE_URGENCY |-> DeadlineFactor(f),
    SOURCE_CONFIDENCE |-> SourceFactor(f) ]

-----------------------------------------------------------------------------
(* scoreOpportunityRecommendation *)

Known(factor) == factor.state \notin {Unknown, "NOT_APPLICABLE"}

Available(factors) ==
  SumFunctionOnSet(Weights, {c \in DOMAIN factors : Known(factors[c])})

Earned(factors) ==
  SumFunctionOnSet([c \in DOMAIN factors |-> factors[c].earned], DOMAIN factors)

(* Math.round of the percentage; 0 stands for no score.  The code rounds a   *)
(* product of floats: next to a half the two may differ by one.            *)
Score(eligibility, factors) ==
  LET available == Available(factors) IN
  IF eligibility = "NOT_ELIGIBLE" \/ available = 0 THEN 0
  ELSE (200 * Earned(factors) + available) \div (2 * available)

Category(eligibility, score, factors) ==
  LET available == Available(factors)
      personal == Cardinality({c \in Personal : Known(factors[c])})
  IN CASE eligibility = "NOT_ELIGIBLE" -> "NOT_ELIGIBLE"
       [] eligibility = Unknown -> "LOW_PRIORITY"
       [] OTHER ->
            IF score >= 70 /\ available >= 50 /\ personal >= 2 THEN "HIGH_PRIORITY"
            ELSE IF score >= 40 /\ available >= 35 THEN "MEDIUM_PRIORITY"
            ELSE "LOW_PRIORITY"

Result(f, w) ==
  LET factors == FactorOf(f, w)
      eligibility == Eligibility(f, w)
      score == Score(eligibility, factors)
  IN [ eligibility |-> eligibility, score |-> score,
       category |-> Category(eligibility, score, factors), factors |-> factors ]

(* eligibilityOrder and categoryOrder of the listing. *)
EligibilityOrder == [ELIGIBLE |-> 3, UNKNOWN |-> 2, NOT_ELIGIBLE |-> 1]
CategoryOrder ==
  [HIGH_PRIORITY |-> 4, MEDIUM_PRIORITY |-> 3, LOW_PRIORITY |-> 2, NOT_ELIGIBLE |-> 1]

-----------------------------------------------------------------------------
ScoreInit ==
  /\ facts = [name \in Fact |-> CHOOSE value \in Facts[name] : TRUE]
  /\ wish \in Wishes
  /\ ranked = Result(facts, wish)

(* The opportunity is refreshed, a day passes, or the user watches.         *)
LearnFact(name, value) ==
  /\ facts[name] # value
  /\ facts' = [facts EXCEPT ![name] = value]
  /\ ranked' = Result(facts', wish)
  /\ UNCHANGED wish

AskForElse(w) ==
  /\ wish # w
  /\ wish' = w
  /\ ranked' = Result(facts, w)
  /\ UNCHANGED facts

ScoreNext ==
  \/ \E name \in Fact : \E value \in Facts[name] : LearnFact(name, value)
  \/ \E w \in Wishes : AskForElse(w)

ScoreSpec == ScoreInit /\ [][ScoreNext]_scorevars

-----------------------------------------------------------------------------
(* Properties.                                                             *)

(* Every factor is what it was, or now matches. *)
OnlyMatches(before, after) ==
  \A c \in DOMAIN before : after[c] = before[c] \/ after[c].state = "MATCH"

(* News that answers a factor in the user's favour, or a doubt about the    *)
(* user's eligibility, never costs an opportunity its place: neither its    *)
(* category nor its score falls, though an unknown factor is left out of    *)
(* the weight the score is divided by (scoreOpportunityRecommendation).     *)
LearningNeverDemotes ==
  [][ OnlyMatches(ranked.factors, ranked'.factors)
        /\ EligibilityOrder[ranked'.eligibility] >= EligibilityOrder[ranked.eligibility]
      => /\ CategoryOrder[ranked'.category] >= CategoryOrder[ranked.category]
         /\ ranked'.score >= ranked.score ]_scorevars
=============================================================================
