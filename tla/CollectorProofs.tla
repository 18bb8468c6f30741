---------------------------- MODULE CollectorProofs ----------------------------
(***************************************************************************)
(* Machine-checked proofs about what the collectors do beside ATS boards:  *)
(* the fan-out of alerts (AlertFanout), for every set of events and users, *)
(* every batch size and every number of lost attempts, with the refinement *)
(* of ExclusiveWork; the evidence about recruiters (RecruiterDirectory);   *)
(* the syncs of a repository (GithubSync); the budget of web searches      *)
(* (WebSearch), for every limit and month; the calendar and its plans      *)
(* (CalendarPlanning); and all of them beside each other, as               *)
(* MCCollectorsAndCalendar runs them.                                      *)
(***************************************************************************)
EXTENDS MCCollectorsAndCalendar, FiniteFacts

-----------------------------------------------------------------------------
(* The batches of an audience.                                             *)

LEMMA CandidatesFinite ==
  ASSUME NEW e \in Events, NEW a \in Cursors
  PROVE  /\ Candidates(e, a) \subseteq Users /\ IsFiniteSet(Candidates(e, a))
         /\ BatchOf(e, a) \subseteq Candidates(e, a)
  <1>1. Candidates(e, a) \subseteq Users /\ BatchOf(e, a) \subseteq Candidates(e, a)
    BY FanoutAssumption DEF Candidates, BatchOf
  <1>2. IsFiniteSet(Users)
    BY FanoutAssumption, FS_Interval DEF Users
  <1>3. QED
    BY <1>1, <1>2, FS_Subset

(* The first candidate is in the batch, and so the batch has a last one.    *)
LEMMA BatchHasLast ==
  ASSUME NEW e \in Events, NEW a \in Cursors, Candidates(e, a) # {}
  PROVE  /\ Max(BatchOf(e, a)) \in BatchOf(e, a)
         /\ BatchOf(e, a) \subseteq Cursors
         /\ \A v \in BatchOf(e, a) : Max(BatchOf(e, a)) >= v
  <1>1. Candidates(e, a) \subseteq Nat
    BY CandidatesFinite DEF Users
  <1>2. PICK v \in Candidates(e, a) :
           \A w \in Candidates(e, a) : ~(<<w, v>> \in OpToRel(<, Nat))
    BY <1>1, NatLessThanWellFounded, WFMin
  <1>3. {w \in Candidates(e, a) : w < v} = {}
    BY <1>1, <1>2 DEF OpToRel
  <1>4. Cardinality({w \in Candidates(e, a) : w < v}) = 0
    BY <1>3, FS_EmptySet
  <1>5. v \in BatchOf(e, a)
    BY <1>4, FanoutAssumption DEF BatchOf
  <1>6. BatchOf(e, a) \subseteq 0..NumUsers
    BY CandidatesFinite, FanoutAssumption DEF Users
  <1>7. QED
    BY <1>5, <1>6, FanoutAssumption, MaxIsLargest DEF Cursors

LEMMA MoreHasLast ==
  ASSUME NEW e \in Events, NEW a \in Cursors, HasMore(e, a)
  PROVE  Max(BatchOf(e, a)) \in Cursors
  <1>1. Candidates(e, a) # {}
    BY FS_EmptySet, FanoutAssumption DEF HasMore
  <1>2. QED
    BY <1>1, BatchHasLast

(* A candidate the batch has no room for comes after all of the batch, and  *)
(* then there is more: the continuation starts between the two.             *)
LEMMA LeftForLater ==
  ASSUME NEW e \in Events, NEW a \in Cursors, NEW u \in Candidates(e, a), u \notin BatchOf(e, a)
  PROVE  /\ HasMore(e, a)
         /\ Max(BatchOf(e, a)) \in Cursors
         /\ a < Max(BatchOf(e, a)) /\ Max(BatchOf(e, a)) < u
  <1> DEFINE Below(v) == {w \in Candidates(e, a) : w < v}
  <1>1. /\ Candidates(e, a) \subseteq Users /\ IsFiniteSet(Candidates(e, a))
        /\ BatchOf(e, a) \subseteq Candidates(e, a)
    BY CandidatesFinite
  <1>2. \A v \in Users : IsFiniteSet(Below(v)) /\ Cardinality(Below(v)) \in Nat
    <2>1. \A v \in Users : Below(v) \in SUBSET Candidates(e, a)
      OBVIOUS
    <2> HIDE DEF Below
    <2>2. QED
      BY <1>1, <2>1, FS_Subset, FS_CardinalityType
  <1>3. u \in Users /\ Cardinality(Below(u)) >= BatchSize
    <2>1. ~(Cardinality(Below(u)) < BatchSize)
      BY DEF BatchOf
    <2> HIDE DEF Below
    <2>2. QED
      BY <1>1, <1>2, <2>1, FanoutAssumption
  <1>4. HasMore(e, a)
    <2>1. /\ IsFiniteSet(Below(u) \cup {u})
          /\ Cardinality(Below(u) \cup {u}) = Cardinality(Below(u)) + 1
      BY <1>2, <1>3, FS_AddElement, SMTT(20) DEF Users
    <2>2. Below(u) \cup {u} \in SUBSET Candidates(e, a)
      OBVIOUS
    <2>3. Cardinality(Below(u) \cup {u}) <= Cardinality(Candidates(e, a))
      BY <1>1, <2>2, FS_Subset
    <2>4. Cardinality(Candidates(e, a)) \in Nat
      BY <1>1, FS_CardinalityType
    <2>5. QED
      BY <1>2, <1>3, <2>1, <2>3, <2>4, FanoutAssumption DEF HasMore
  <1>5. ASSUME NEW v \in BatchOf(e, a) PROVE a < v /\ v < u
    <2>1. v \in Users /\ a < v /\ Cardinality(Below(v)) < BatchSize
      BY <1>1, FanoutAssumption DEF BatchOf, Candidates, Users, Cursors
    <2>2. CASE u < v
      <3>1. Below(u) \in SUBSET Below(v)
        BY <1>1, <1>3, <2>1, <2>2 DEF Users
      <3>2. Cardinality(Below(u)) <= Cardinality(Below(v))
        BY <1>2, <2>1, <3>1, FS_Subset
      <3> HIDE DEF Below
      <3>3. QED
        BY <1>2, <1>3, <2>1, <3>2, FanoutAssumption
    <2>3. QED
      BY <1>3, <2>1, <2>2 DEF Users
  <1>6. Max(BatchOf(e, a)) \in BatchOf(e, a) /\ BatchOf(e, a) \subseteq Cursors
    BY BatchHasLast
  <1>7. QED
    BY <1>4, <1>5, <1>6

-----------------------------------------------------------------------------
(* The invariant.                                                          *)

(* What may be claimed has an attempt left, and a row that is not there is  *)
(* no row at all.                                                           *)
Sound(item) ==
  /\ item \in Item
  /\ item.status = "READY" => item.attempts < MaxAttempts
  /\ item.status = "NONE" => item = Nothing

ItemsSound ==
  \A e \in Events : /\ \A a \in Cursors : Sound(fanout[e][a])
                    /\ \A u \in Users : Sound(evaluation[e][u])

(* A user is evaluated for an event only if a request asks for it.          *)
WorkIsAsked ==
  \A e \in Events, u \in Users : request[e][u] = "NONE" => evaluation[e][u] = Nothing

CommittedIsEvaluated ==
  \A e \in Events, u \in Users : evaluation[e][u].status = "COMMITTED" => <<e, u>> \in evaluated

(* The expansion of an event starts at its first user.                      *)
FirstComesFirst ==
  \A e \in Events, a \in Cursors : fanout[e][a] # Nothing => fanout[e][0] # Nothing

(* What the handler's transaction leaves behind it: the batch was asked     *)
(* for, and the rest has an item.                                           *)
Expanded(e, a) ==
  /\ \A u \in BatchOf(e, a) : request[e][u] # "NONE"
  /\ HasMore(e, a) => fanout[e][Max(BatchOf(e, a))] # Nothing

CommittedIsExpanded ==
  \A e \in Events, a \in Cursors :
    fanout[e][a].status \in {"COMMITTED", "SUCCEEDED"} => Expanded(e, a)

Fanning ==
  /\ TypeOK /\ ItemsSound
  /\ WorkIsAsked /\ ChildrenHaveWork
  /\ CommittedIsEvaluated /\ SucceededIsEvaluated
  /\ FirstComesFirst /\ CommittedIsExpanded

LEMMA CursorsAndUsers == Users \subseteq Cursors /\ 0 \in Cursors /\ 0 \notin Users
  BY FanoutAssumption DEF Users, Cursors

LEMMA ReadySound == Sound(Nothing) /\ Sound(Ready) /\ Ready # Nothing
  BY FanoutAssumption DEF Sound, Nothing, Ready, Item

(* What the ledger makes of an item that is there is sound, and there.      *)
LEMMA LedgerSound ==
  ASSUME NEW item \in Item, Sound(item)
  PROVE  /\ item.status = "READY" => Sound(Claimed(item)) /\ Claimed(item).status = "RUNNING"
         /\ Sound(Failed(item)) /\ Failed(item).status \in {"READY", "DEAD_LETTERED"}
         /\ \A s \in {"COMMITTED", "SUCCEEDED"} :
              Sound([item EXCEPT !.status = s]) /\ [item EXCEPT !.status = s].status = s
  BY FanoutAssumption DEF Sound, Claimed, Failed, Item

LEMMA ProjectionRange ==
  ASSUME NEW s
  PROVE  /\ Projection(s) \in RequestStatus \ {"NONE"}
         /\ Projection(s) = "PENDING" => s = "READY"
         /\ Projection(s) = "SUCCEEDED" => s = "SUCCEEDED"
  BY DEF Projection, RequestStatus

LEMMA InitFanning == Init => Fanning
  <1> SUFFICES ASSUME Init PROVE Fanning
    OBVIOUS
  <1>1. TypeOK
    BY ReadySound, FanoutAssumption DEF Init, TypeOK, Sound, RequestStatus
  <1>2. ItemsSound
    BY ReadySound DEF Init, ItemsSound
  <1>3. WorkIsAsked /\ ChildrenHaveWork /\ SucceededIsEvaluated
    BY CursorsAndUsers DEF Init, WorkIsAsked, ChildrenHaveWork, SucceededIsEvaluated
  <1>4. CommittedIsEvaluated /\ FirstComesFirst /\ CommittedIsExpanded
    BY DEF Init, CommittedIsEvaluated, FirstComesFirst, CommittedIsExpanded, Nothing
  <1>5. QED
    BY <1>1, <1>2, <1>3, <1>4 DEF Fanning

-----------------------------------------------------------------------------
(* The attempts of a fan-out and of an evaluation.                         *)

LEMMA SetFanoutFanning ==
  ASSUME Fanning, NEW e \in Events, NEW a \in Cursors, NEW item \in Item, Sound(item),
         fanout[e][a].status # "NONE", item.status # "NONE",
         item.status \in {"COMMITTED", "SUCCEEDED"} =>
           fanout[e][a].status \in {"COMMITTED", "SUCCEEDED"},
         SetFanout(e, a, item), losses' \in 0..MaxLosses
  PROVE  Fanning'
  <1>1. /\ fanout'[e][a] = item
        /\ \A f \in Events, c \in Cursors : <<f, c>> # <<e, a>> => fanout'[f][c] = fanout[f][c]
        /\ fanout' \in [Events -> [Cursors -> Item]]
    BY DEF Fanning, TypeOK, SetFanout
  <1>2. /\ request' \in [Events -> [Cursors -> RequestStatus]]
        /\ \A f \in Events, u \in Users : request'[f][u] = request[f][u]
    BY CursorsAndUsers, ProjectionRange DEF Fanning, TypeOK, SetFanout
  <1>3. UNCHANGED <<evaluation, evaluated>>
    BY DEF SetFanout
  <1>4. TypeOK' /\ ItemsSound'
    BY <1>1, <1>2, <1>3 DEF Fanning, TypeOK, ItemsSound
  <1>5. WorkIsAsked' /\ ChildrenHaveWork' /\ CommittedIsEvaluated' /\ SucceededIsEvaluated'
    BY <1>2, <1>3 DEF Fanning, WorkIsAsked, ChildrenHaveWork, CommittedIsEvaluated,
       SucceededIsEvaluated
  <1>6. \A f \in Events, c \in Cursors : fanout'[f][c] # Nothing <=> fanout[f][c] # Nothing
    BY <1>1 DEF Nothing
  <1>7. FirstComesFirst'
    BY <1>6, CursorsAndUsers DEF Fanning, FirstComesFirst
  <1>8. CommittedIsExpanded'
    <2> SUFFICES ASSUME NEW f \in Events, NEW c \in Cursors,
                        fanout'[f][c].status \in {"COMMITTED", "SUCCEEDED"}
                 PROVE  /\ \A u \in BatchOf(f, c) : request'[f][u] # "NONE"
                        /\ HasMore(f, c) => fanout'[f][Max(BatchOf(f, c))] # Nothing
      BY DEF CommittedIsExpanded, Expanded
    <2>1. fanout[f][c].status \in {"COMMITTED", "SUCCEEDED"}
      BY <1>1
    <2>2. Expanded(f, c)
      BY <2>1 DEF Fanning, CommittedIsExpanded
    <2>3. \A u \in BatchOf(f, c) : request'[f][u] = request[f][u]
      BY <1>2, CandidatesFinite
    <2>4. HasMore(f, c) => fanout'[f][Max(BatchOf(f, c))] # Nothing
      BY <1>6, <2>2, MoreHasLast DEF Expanded
    <2>5. QED
      BY <2>2, <2>3, <2>4 DEF Expanded
  <1>9. QED
    BY <1>4, <1>5, <1>7, <1>8 DEF Fanning

LEMMA SetEvaluationFanning ==
  ASSUME Fanning, NEW e \in Events, NEW u \in Users, NEW item \in Item, Sound(item),
         evaluation[e][u].status # "NONE",
         item.status \in {"READY", "RUNNING", "SUCCEEDED", "DEAD_LETTERED"},
         item.status = "RUNNING" => evaluation[e][u].status = "READY",
         item.status = "SUCCEEDED" => <<e, u>> \in evaluated,
         SetEvaluation(e, u, item), losses' \in 0..MaxLosses
  PROVE  Fanning'
  <1>1. /\ evaluation'[e][u] = item
        /\ \A f \in Events, v \in Users : <<f, v>> # <<e, u>> => evaluation'[f][v] = evaluation[f][v]
        /\ evaluation' \in [Events -> [Users -> Item]]
    BY DEF Fanning, TypeOK, SetEvaluation
  <1>2. /\ request' \in [Events -> [Cursors -> RequestStatus]]
        /\ \A f \in Events, c \in Cursors : <<f, c>> # <<e, u>> => request'[f][c] = request[f][c]
        /\ request'[e][u] = IF item.status = "RUNNING" THEN request[e][u]
                            ELSE Projection(item.status)
    BY CursorsAndUsers, ProjectionRange DEF Fanning, TypeOK, SetEvaluation
  <1>3. UNCHANGED <<fanout, evaluated>>
    BY DEF SetEvaluation
  <1>4. TypeOK' /\ ItemsSound'
    BY <1>1, <1>2, <1>3 DEF Fanning, TypeOK, ItemsSound
  <1>5. request[e][u] # "NONE" /\ request'[e][u] # "NONE"
    <2>1. request[e][u] # "NONE"
      BY DEF Fanning, WorkIsAsked, Nothing
    <2>2. Projection(item.status) # "NONE"
      BY ProjectionRange
    <2>3. QED
      BY <1>2, <2>1, <2>2
  <1>6. WorkIsAsked'
    BY <1>1, <1>2, <1>5, CursorsAndUsers DEF Fanning, WorkIsAsked
  <1>7. ChildrenHaveWork'
    <2>1. request'[e][u] = "PENDING" => Active(evaluation'[e][u])
      <3>1. CASE item.status = "RUNNING"
        BY <1>1, <3>1 DEF Active
      <3>2. CASE item.status # "RUNNING"
        <4>1. request'[e][u] = "PENDING" => item.status = "READY"
          BY <1>2, <3>2, ProjectionRange
        <4>2. QED
          BY <1>1, <4>1 DEF Active
      <3>3. QED
        BY <3>1, <3>2
    <2>2. QED
      BY <1>1, <1>2, <2>1, CursorsAndUsers DEF Fanning, ChildrenHaveWork
  <1>8. CommittedIsEvaluated'
    BY <1>1, <1>3 DEF Fanning, CommittedIsEvaluated
  <1>9. SucceededIsEvaluated'
    <2>1. request'[e][u] = "SUCCEEDED" => <<e, u>> \in evaluated
      BY <1>2, ProjectionRange DEF Fanning, SucceededIsEvaluated
    <2>2. QED
      BY <1>2, <1>3, <2>1, CursorsAndUsers DEF Fanning, SucceededIsEvaluated
  <1>10. FirstComesFirst'
    BY <1>3 DEF Fanning, FirstComesFirst
  <1>11. CommittedIsExpanded'
    <2>1. \A f \in Events, c \in Cursors, v \in Users :
            request[f][v] # "NONE" => request'[f][v] # "NONE"
      BY <1>2, <1>5, CursorsAndUsers
    <2>2. QED
      BY <1>3, <2>1, CandidatesFinite DEF Fanning, CommittedIsExpanded, Expanded
  <1>12. QED
    BY <1>4, <1>6, <1>7, <1>8, <1>9, <1>10, <1>11 DEF Fanning

-----------------------------------------------------------------------------
(* The handlers and the events.                                            *)

(* The fan-out as it changes each row: the batch and what follows it.       *)
FannedOut(e, a) ==
  /\ \A f \in Events \ {e} : /\ fanout'[f] = fanout[f]
                             /\ evaluation'[f] = evaluation[f]
                             /\ request'[f] = request[f]
  /\ \A u \in Users : evaluation'[e][u] =
       IF u \in BatchOf(e, a) /\ evaluation[e][u] = Nothing THEN Ready ELSE evaluation[e][u]
  /\ \A u \in Users : request'[e][u] =
       IF u \in BatchOf(e, a) /\ request[e][u] = "NONE" THEN "PENDING" ELSE request[e][u]
  /\ fanout'[e][a].status = "COMMITTED" /\ Sound(fanout'[e][a])
  /\ \A c \in Cursors \ {a} : fanout'[e][c] =
       IF NewContinuation(e, a) /\ c = Max(BatchOf(e, a)) THEN Ready ELSE fanout[e][c]
  /\ fanout' \in [Events -> [Cursors -> Item]]
  /\ evaluation' \in [Events -> [Users -> Item]]
  /\ request' \in [Events -> [Cursors -> RequestStatus]]

LEMMA FanOutRows ==
  ASSUME Fanning, NEW e \in Events, NEW a \in Cursors, FanOut(e, a)
  PROVE  FannedOut(e, a)
  <1>1. /\ fanout[e][a] \in Item /\ Sound(fanout[e][a])
        /\ fanout \in [Events -> [Cursors -> Item]]
        /\ evaluation \in [Events -> [Users -> Item]]
        /\ request \in [Events -> [Cursors -> RequestStatus]]
    BY DEF Fanning, TypeOK, ItemsSound
  <1>2. Ready \in Item
    BY ReadySound DEF Sound
  <1>3. /\ Sound([fanout[e][a] EXCEPT !.status = "COMMITTED"])
        /\ [fanout[e][a] EXCEPT !.status = "COMMITTED"].status = "COMMITTED"
        /\ [fanout[e][a] EXCEPT !.status = "COMMITTED"] \in Item
    BY <1>1, LedgerSound DEF Sound
  <1>4. /\ \A f \in Events \ {e} : fanout'[f] = fanout[f]
        /\ fanout'[e] = [c \in Cursors |->
             IF c = a THEN [fanout[e][c] EXCEPT !.status = "COMMITTED"]
             ELSE IF NewContinuation(e, a) /\ c = Max(BatchOf(e, a)) THEN Ready
             ELSE fanout[e][c]]
    BY <1>1 DEF FanOut
  <1>5. /\ \A f \in Events \ {e} : evaluation'[f] = evaluation[f]
        /\ evaluation'[e] = [u \in Users |->
             IF u \in NewEvaluations(e, a) THEN Ready ELSE evaluation[e][u]]
    BY <1>1 DEF FanOut
  <1>6. /\ \A f \in Events \ {e} : request'[f] = request[f]
        /\ request'[e] = [c \in Cursors |->
             IF c = 0 /\ Anonymous(e, a) THEN "SUCCEEDED"
             ELSE IF c \in BatchOf(e, a) /\ request[e][c] = "NONE" THEN "PENDING"
             ELSE request[e][c]]
    BY <1>1 DEF FanOut
  <1>7. fanout' \in [Events -> [Cursors -> Item]]
    <2> DEFINE row == [c \in Cursors |->
                         IF c = a THEN [fanout[e][c] EXCEPT !.status = "COMMITTED"]
                         ELSE IF NewContinuation(e, a) /\ c = Max(BatchOf(e, a)) THEN Ready
                         ELSE fanout[e][c]]
    <2>1. ASSUME NEW c \in Cursors PROVE row[c] \in Item
      <3>1. CASE c = a
        BY <1>3, <3>1
      <3>2. CASE c # a
        <4>1. row[c] \in {Ready, fanout[e][c]}
          BY <3>2
        <4> HIDE DEF row
        <4>2. QED
          BY <1>1, <1>2, <4>1
      <3>3. QED
        BY <3>1, <3>2
    <2>2. row \in [Cursors -> Item]
      BY <2>1
    <2>3. fanout' = [fanout EXCEPT ![e] = row]
      BY <1>1 DEF FanOut
    <2> HIDE DEF row
    <2>4. QED
      BY <1>1, <2>2, <2>3
  <1>8. evaluation' \in [Events -> [Users -> Item]]
    <2>1. evaluation'[e] \in [Users -> Item]
      BY <1>1, <1>2, <1>5
    <2>2. QED
      BY <1>1, <2>1 DEF FanOut
  <1>9. request' \in [Events -> [Cursors -> RequestStatus]]
    <2>1. request'[e] \in [Cursors -> RequestStatus]
      BY <1>1, <1>6 DEF RequestStatus
    <2>2. QED
      BY <1>1, <2>1 DEF FanOut
  <1>10. \A u \in Users : evaluation'[e][u] =
           IF u \in BatchOf(e, a) /\ evaluation[e][u] = Nothing THEN Ready ELSE evaluation[e][u]
    BY <1>5 DEF NewEvaluations
  <1>11. \A u \in Users : request'[e][u] =
           IF u \in BatchOf(e, a) /\ request[e][u] = "NONE" THEN "PENDING" ELSE request[e][u]
    BY <1>6, CursorsAndUsers
  <1>12. QED
    BY <1>3, <1>4, <1>5, <1>6, <1>7, <1>8, <1>9, <1>10, <1>11, ZenonT(40) DEF FannedOut

LEMMA FanOutFanning ==
  ASSUME Fanning, NEW e \in Events, NEW a \in Cursors, FanOut(e, a)
  PROVE  Fanning'
  <1>0. FannedOut(e, a)
    BY FanOutRows
  <1>1. /\ UNCHANGED <<evaluated, losses>>
        /\ fanout[e][a].status = "RUNNING"
        /\ BatchOf(e, a) \subseteq Users
    BY CandidatesFinite DEF FanOut
  <1>2. Sound(Ready) /\ Ready.status = "READY" /\ Ready # Nothing
    BY ReadySound DEF Ready
  <1>3. TypeOK'
    BY <1>1, <1>0 DEF FannedOut, Fanning, TypeOK
  <1>4. ASSUME NEW f \in Events, NEW c \in Cursors PROVE Sound(fanout'[f][c])
    <2>1. CASE f = e /\ c = a
      BY <1>0, <2>1 DEF FannedOut
    <2>2. CASE f = e /\ c # a
      <3>1. fanout'[f][c] \in {Ready, fanout[f][c]}
        BY <1>0, <2>2 DEF FannedOut
      <3>2. QED
        BY <1>2, <3>1 DEF Fanning, ItemsSound
    <2>3. CASE f # e
      BY <1>0, <2>3 DEF FannedOut, Fanning, ItemsSound
    <2>4. QED
      BY <2>1, <2>2, <2>3
  <1>5. \A f \in Events, u \in Users : Sound(evaluation'[f][u])
    BY <1>2, <1>0 DEF FannedOut, Fanning, ItemsSound
  <1>6. WorkIsAsked'
    <2>1. \A u \in Users : request'[e][u] = "NONE" => evaluation'[e][u] = Nothing
      BY <1>0 DEF FannedOut, Fanning, WorkIsAsked
    <2>2. QED
      BY <1>0, <2>1 DEF FannedOut, Fanning, WorkIsAsked
  <1>7. ChildrenHaveWork'
    <2>1. ASSUME NEW u \in Users, Owner[e] = 0, request'[e][u] = "PENDING"
          PROVE  Active(evaluation'[e][u])
      <3>1. CASE u \in BatchOf(e, a) /\ evaluation[e][u] = Nothing
        BY <1>2, <3>1, <1>0 DEF FannedOut, Active
      <3>2. CASE ~(u \in BatchOf(e, a) /\ evaluation[e][u] = Nothing)
        <4>1. evaluation'[e][u] = evaluation[e][u]
          BY <3>2, <1>0 DEF FannedOut
        <4>2. request[e][u] = "PENDING"
          BY <2>1, <3>2, <1>0 DEF FannedOut, Fanning, WorkIsAsked
        <4>3. QED
          BY <2>1, <4>1, <4>2 DEF Fanning, ChildrenHaveWork
      <3>3. QED
        BY <3>1, <3>2
    <2>2. QED
      BY <2>1, <1>0 DEF FannedOut, Fanning, ChildrenHaveWork
  <1>8. CommittedIsEvaluated'
    BY <1>1, <1>2, <1>0, SMTT(20) DEF FannedOut, Fanning, CommittedIsEvaluated
  <1>9. SucceededIsEvaluated'
    BY <1>1, <1>0 DEF FannedOut, Fanning, SucceededIsEvaluated
  <1>10. \A f \in Events, c \in Cursors : fanout[f][c] # Nothing => fanout'[f][c] # Nothing
    BY <1>1, <1>2, <1>0 DEF FannedOut, Nothing
  <1>11. FirstComesFirst'
    <2>1. fanout[e][a] # Nothing
      BY <1>1 DEF Nothing
    <2>2. fanout'[e][0] # Nothing
      BY <1>10, <2>1, CursorsAndUsers DEF Fanning, FirstComesFirst
    <2>3. QED
      BY <2>2, <1>0 DEF FannedOut, Fanning, FirstComesFirst
  <1>12. \A f \in Events, u \in Users : request[f][u] # "NONE" => request'[f][u] # "NONE"
    BY <1>0 DEF FannedOut
  <1>13. Expanded(e, a)'
    <2>1. \A u \in BatchOf(e, a) : request'[e][u] # "NONE"
      BY <1>1, <1>0 DEF FannedOut
    <2>2. ASSUME HasMore(e, a) PROVE fanout'[e][Max(BatchOf(e, a))] # Nothing
      <3>1. Max(BatchOf(e, a)) \in Cursors
        BY <2>2, MoreHasLast
      <3>2. CASE NewContinuation(e, a)
        BY <1>2, <3>1, <3>2, <1>0 DEF FannedOut, Nothing
      <3>3. CASE ~NewContinuation(e, a)
        BY <1>10, <2>2, <3>1, <3>3 DEF NewContinuation
      <3>4. QED
        BY <3>2, <3>3
    <2>3. QED
      BY <2>1, <2>2 DEF Expanded
  <1>14. CommittedIsExpanded'
    <2> SUFFICES ASSUME NEW f \in Events, NEW c \in Cursors,
                        fanout'[f][c].status \in {"COMMITTED", "SUCCEEDED"}
                 PROVE  Expanded(f, c)'
      BY DEF CommittedIsExpanded
    <2>1. CASE f = e /\ c = a
      BY <1>13, <2>1
    <2>2. CASE f # e \/ c # a
      <3>1. fanout'[f][c] = fanout[f][c]
        BY <1>2, <2>2, <1>0 DEF FannedOut
      <3>2. Expanded(f, c)
        BY <3>1 DEF Fanning, CommittedIsExpanded
      <3>3. \A u \in BatchOf(f, c) : request'[f][u] # "NONE"
        BY <1>12, <3>2, CandidatesFinite DEF Expanded
      <3>4. HasMore(f, c) => fanout'[f][Max(BatchOf(f, c))] # Nothing
        BY <1>10, <3>2, MoreHasLast DEF Expanded
      <3>5. QED
        BY <3>3, <3>4 DEF Expanded
    <2>3. QED
      BY <2>1, <2>2
  <1>15. QED
    BY <1>3, <1>4, <1>5, <1>6, <1>7, <1>8, <1>9, <1>11, <1>14 DEF Fanning, ItemsSound

LEMMA EvaluateFanning ==
  ASSUME Fanning, NEW e \in Events, NEW u \in Users, Evaluate(e, u)
  PROVE  Fanning'
  <1>1. evaluation[e][u] \in Item /\ Sound(evaluation[e][u])
    BY DEF Fanning, TypeOK, ItemsSound
  <1>2. /\ Sound(evaluation'[e][u]) /\ evaluation'[e][u].status = "COMMITTED"
        /\ evaluation'[e][u] \in Item
        /\ \A f \in Events, v \in Users : <<f, v>> # <<e, u>> => evaluation'[f][v] = evaluation[f][v]
        /\ evaluation' \in [Events -> [Users -> Item]]
    <2> DEFINE row == [evaluation[e][u] EXCEPT !.status = "COMMITTED"]
    <2>1. Sound(row) /\ row.status = "COMMITTED"
      BY <1>1, LedgerSound
    <2>2. evaluation'[e][u] = row
      BY DEF Fanning, TypeOK, Evaluate
    <2>3. \A f \in Events, v \in Users : <<f, v>> # <<e, u>> => evaluation'[f][v] = evaluation[f][v]
      <3>1. \A f \in Events \ {e} : evaluation'[f] = evaluation[f]
        BY DEF Fanning, TypeOK, Evaluate
      <3>2. \A v \in Users \ {u} : evaluation'[e][v] = evaluation[e][v]
        BY DEF Fanning, TypeOK, Evaluate
      <3>3. QED
        BY <3>1, <3>2
    <2>4. evaluation' \in [Events -> [Users -> Item]]
      <3>1. \A item \in Item : [item EXCEPT !.status = "COMMITTED"] \in Item
        BY DEF Item
      <3>2. QED
        BY <3>1 DEF Fanning, TypeOK, Evaluate
    <2>5. QED
      BY <2>1, <2>2, <2>3, <2>4
  <1>3. evaluated' = evaluated \cup {<<e, u>>} /\ UNCHANGED <<fanout, request, losses>>
    BY DEF Evaluate
  <1>4. TypeOK' /\ ItemsSound'
    <2>1. TypeOK'
      BY <1>2, <1>3 DEF Fanning, TypeOK
    <2>2. \A f \in Events, v \in Users : Sound(evaluation'[f][v])
      BY <1>2 DEF Fanning, ItemsSound
    <2>3. QED
      BY <1>3, <2>1, <2>2 DEF Fanning, ItemsSound
  <1>5. evaluation[e][u] # Nothing
    BY DEF Evaluate, Nothing
  <1>6. WorkIsAsked'
    BY <1>2, <1>3, <1>5 DEF Fanning, WorkIsAsked
  <1>7. ChildrenHaveWork'
    BY <1>2, <1>3 DEF Fanning, ChildrenHaveWork, Active
  <1>8. CommittedIsEvaluated' /\ SucceededIsEvaluated'
    BY <1>2, <1>3 DEF Fanning, CommittedIsEvaluated, SucceededIsEvaluated
  <1>9. FirstComesFirst' /\ CommittedIsExpanded'
    BY <1>3 DEF Fanning, FirstComesFirst, CommittedIsExpanded, Expanded
  <1>10. QED
    BY <1>4, <1>6, <1>7, <1>8, <1>9 DEF Fanning

(* An event, a due scan: the first item of an expansion.                    *)
LEMMA FirstItemFanning ==
  ASSUME Fanning, NEW e \in Events, RecordEvent(e) \/ Scan(e)
  PROVE  Fanning'
  <1>1. /\ fanout' = [fanout EXCEPT ![e][0] = Ready]
        /\ UNCHANGED <<evaluation, evaluated, losses>>
        /\ request' = request \/ request' = [request EXCEPT ![e][0] = "PENDING"]
    BY DEF RecordEvent, Scan
  <1>2. /\ fanout' \in [Events -> [Cursors -> Item]]
        /\ fanout'[e][0] = Ready
        /\ \A f \in Events, c \in Cursors : <<f, c>> # <<e, 0>> => fanout'[f][c] = fanout[f][c]
    <2>1. Ready \in Item
      BY ReadySound DEF Sound
    <2>2. QED
      BY <1>1, <2>1, CursorsAndUsers DEF Fanning, TypeOK
  <1>3. /\ request' \in [Events -> [Cursors -> RequestStatus]]
        /\ \A f \in Events, u \in Users : request'[f][u] = request[f][u]
    <2>1. CASE request' = request
      BY <2>1, CursorsAndUsers DEF Fanning, TypeOK
    <2>2. CASE request' = [request EXCEPT ![e][0] = "PENDING"]
      BY <2>2, CursorsAndUsers DEF Fanning, TypeOK, RequestStatus
    <2>3. QED
      BY <1>1, <2>1, <2>2
  <1>4. TypeOK' /\ ItemsSound'
    <2>1. TypeOK'
      BY <1>1, <1>2, <1>3 DEF Fanning, TypeOK
    <2>2. \A f \in Events, c \in Cursors : Sound(fanout'[f][c])
      BY <1>2, ReadySound DEF Fanning, ItemsSound
    <2>3. QED
      BY <1>1, <2>1, <2>2 DEF Fanning, ItemsSound
  <1>5. WorkIsAsked' /\ ChildrenHaveWork' /\ CommittedIsEvaluated' /\ SucceededIsEvaluated'
    BY <1>1, <1>3 DEF Fanning, WorkIsAsked, ChildrenHaveWork, CommittedIsEvaluated,
       SucceededIsEvaluated
  <1>6. \A f \in Events, c \in Cursors : fanout[f][c] # Nothing => fanout'[f][c] # Nothing
    BY <1>2, ReadySound
  <1>7. FirstComesFirst'
    <2>1. fanout'[e][0] # Nothing
      BY <1>2, ReadySound
    <2>2. \A f \in Events \ {e}, c \in Cursors : fanout'[f][c] = fanout[f][c]
      BY <1>2
    <2>3. QED
      BY <2>1, <2>2, CursorsAndUsers DEF Fanning, FirstComesFirst
  <1>8. CommittedIsExpanded'
    <2> SUFFICES ASSUME NEW f \in Events, NEW c \in Cursors,
                        fanout'[f][c].status \in {"COMMITTED", "SUCCEEDED"}
                 PROVE  Expanded(f, c)'
      BY DEF CommittedIsExpanded
    <2>1. fanout'[f][c] = fanout[f][c]
      BY <1>2 DEF Ready
    <2>2. Expanded(f, c)
      BY <2>1 DEF Fanning, CommittedIsExpanded
    <2>3. \A u \in BatchOf(f, c) : request'[f][u] # "NONE"
      BY <1>3, <2>2, CandidatesFinite DEF Expanded
    <2>4. HasMore(f, c) => fanout'[f][Max(BatchOf(f, c))] # Nothing
      BY <1>6, <2>2, MoreHasLast DEF Expanded
    <2>5. QED
      BY <2>3, <2>4 DEF Expanded
  <1>9. QED
    BY <1>4, <1>5, <1>7, <1>8 DEF Fanning

LEMMA RecordOwnedFanning ==
  ASSUME Fanning, NEW e \in Events, RecordOwned(e)
  PROVE  Fanning'
  <1>1. PICK u \in Users : u = Owner[e] /\ u # 0
    BY FanoutAssumption DEF RecordOwned, Users, Cursors
  <1>2. /\ request[e][u] = "NONE"
        /\ request' = [request EXCEPT ![e][u] = "PENDING"]
        /\ evaluation' = evaluation \/ evaluation' = [evaluation EXCEPT ![e][u] = Ready]
        /\ UNCHANGED <<fanout, evaluated, losses>>
    BY <1>1 DEF RecordOwned
  <1>3. /\ request' \in [Events -> [Cursors -> RequestStatus]]
        /\ request'[e][u] = "PENDING"
        /\ \A f \in Events, c \in Cursors : <<f, c>> # <<e, u>> => request'[f][c] = request[f][c]
    BY <1>2, CursorsAndUsers DEF Fanning, TypeOK, RequestStatus
  <1>4. /\ evaluation' \in [Events -> [Users -> Item]]
        /\ evaluation'[e][u] \in {Ready, evaluation[e][u]}
        /\ \A f \in Events, v \in Users : <<f, v>> # <<e, u>> => evaluation'[f][v] = evaluation[f][v]
    <2>1. Ready \in Item
      BY ReadySound DEF Sound
    <2>2. CASE evaluation' = evaluation
      BY <2>2 DEF Fanning, TypeOK
    <2>3. CASE evaluation' = [evaluation EXCEPT ![e][u] = Ready]
      BY <2>1, <2>3 DEF Fanning, TypeOK
    <2>4. QED
      BY <1>2, <2>2, <2>3
  <1>5. TypeOK'
    BY <1>2, <1>3, <1>4 DEF Fanning, TypeOK
  <1>6. ItemsSound'
    BY <1>2, <1>4, ReadySound DEF Fanning, ItemsSound
  <1>7. WorkIsAsked'
    BY <1>3, <1>4, CursorsAndUsers DEF Fanning, WorkIsAsked
  <1>8. ChildrenHaveWork'
    <2> SUFFICES ASSUME NEW f \in Events, NEW v \in Users,
                        Owner[f] = 0, request'[f][v] = "PENDING"
                 PROVE  Active(evaluation'[f][v])
      BY DEF ChildrenHaveWork
    <2>1. f # e
      BY <1>1
    <2>2. request'[f][v] = request[f][v] /\ evaluation'[f][v] = evaluation[f][v]
      BY <1>3, <1>4, <2>1, CursorsAndUsers
    <2>3. QED
      BY <2>2 DEF Fanning, ChildrenHaveWork
  <1>9. CommittedIsEvaluated'
    BY <1>2, <1>4 DEF Fanning, CommittedIsEvaluated, Ready
  <1>10. SucceededIsEvaluated'
    BY <1>2, <1>3, CursorsAndUsers DEF Fanning, SucceededIsEvaluated
  <1>11. FirstComesFirst'
    BY <1>2 DEF Fanning, FirstComesFirst
  <1>12. CommittedIsExpanded'
    <2>1. \A f \in Events, v \in Users : request[f][v] # "NONE" => request'[f][v] # "NONE"
      BY <1>3, CursorsAndUsers
    <2>2. QED
      BY <1>2, <2>1, CandidatesFinite DEF Fanning, CommittedIsExpanded, Expanded
  <1>13. QED
    BY <1>5, <1>6, <1>7, <1>8, <1>9, <1>10, <1>11, <1>12 DEF Fanning

LEMMA FanoutAttemptFanning ==
  ASSUME Fanning, NEW e \in Events, NEW a \in Cursors,
         ClaimFanout(e, a) \/ FinishFanout(e, a) \/ FailConflicted(e, a) \/ LoseFanout(e, a)
  PROVE  Fanning'
  <1>1. fanout[e][a] \in Item /\ Sound(fanout[e][a])
    BY DEF Fanning, TypeOK, ItemsSound
  <1>2. losses' \in 0..MaxLosses
    BY FanoutAssumption DEF Fanning, TypeOK, ClaimFanout, FinishFanout, FailConflicted, LoseFanout
  <1>3. CASE ClaimFanout(e, a)
    <2>1. Sound(Claimed(fanout[e][a])) /\ Claimed(fanout[e][a]).status = "RUNNING"
      BY <1>1, <1>3, LedgerSound DEF ClaimFanout
    <2>2. QED
      BY <1>2, <1>3, <2>1, SetFanoutFanning DEF ClaimFanout, Sound
  <1>4. CASE FinishFanout(e, a)
    <2> DEFINE item == [fanout[e][a] EXCEPT !.status = "SUCCEEDED"]
    <2>1. Sound(item) /\ item.status = "SUCCEEDED"
      BY <1>1, LedgerSound
    <2>2. SetFanout(e, a, item) /\ fanout[e][a].status = "COMMITTED"
      BY <1>4 DEF FinishFanout, Finishable
    <2> HIDE DEF item
    <2>3. QED
      BY <1>2, <2>1, <2>2, SetFanoutFanning DEF Sound
  <1>5. CASE FailConflicted(e, a) \/ LoseFanout(e, a)
    <2>1. /\ Sound(Failed(fanout[e][a]))
          /\ Failed(fanout[e][a]).status \in {"READY", "DEAD_LETTERED"}
      BY <1>1, LedgerSound
    <2>2. SetFanout(e, a, Failed(fanout[e][a])) /\ fanout[e][a].status # "NONE"
      BY <1>5 DEF FailConflicted, LoseFanout
    <2>3. QED
      BY <1>2, <2>1, <2>2, SetFanoutFanning DEF Sound
  <1>6. QED
    BY <1>3, <1>4, <1>5

LEMMA EvaluationAttemptFanning ==
  ASSUME Fanning, NEW e \in Events, NEW u \in Users,
         ClaimEvaluation(e, u) \/ FinishEvaluation(e, u) \/ LoseEvaluation(e, u)
  PROVE  Fanning'
  <1>1. evaluation[e][u] \in Item /\ Sound(evaluation[e][u])
    BY DEF Fanning, TypeOK, ItemsSound
  <1>2. losses' \in 0..MaxLosses
    BY FanoutAssumption DEF Fanning, TypeOK, ClaimEvaluation, FinishEvaluation, LoseEvaluation
  <1>3. CASE ClaimEvaluation(e, u)
    <2>1. Sound(Claimed(evaluation[e][u])) /\ Claimed(evaluation[e][u]).status = "RUNNING"
      BY <1>1, <1>3, LedgerSound DEF ClaimEvaluation
    <2>2. QED
      BY <1>2, <1>3, <2>1, SetEvaluationFanning DEF ClaimEvaluation, Sound
  <1>4. CASE FinishEvaluation(e, u)
    <2> DEFINE item == [evaluation[e][u] EXCEPT !.status = "SUCCEEDED"]
    <2>1. Sound(item) /\ item.status = "SUCCEEDED"
      BY <1>1, LedgerSound
    <2>2. SetEvaluation(e, u, item) /\ evaluation[e][u].status = "COMMITTED"
      BY <1>4 DEF FinishEvaluation, Finishable
    <2>3. <<e, u>> \in evaluated
      BY <2>2 DEF Fanning, CommittedIsEvaluated
    <2> HIDE DEF item
    <2>4. QED
      BY <1>2, <2>1, <2>2, <2>3, SetEvaluationFanning DEF Sound
  <1>5. CASE LoseEvaluation(e, u)
    <2>1. /\ Sound(Failed(evaluation[e][u]))
          /\ Failed(evaluation[e][u]).status \in {"READY", "DEAD_LETTERED"}
      BY <1>1, LedgerSound
    <2>2. SetEvaluation(e, u, Failed(evaluation[e][u])) /\ evaluation[e][u].status # "NONE"
      BY <1>5 DEF LoseEvaluation
    <2>3. QED
      BY <1>2, <2>1, <2>2, SetEvaluationFanning DEF Sound
  <1>6. QED
    BY <1>3, <1>4, <1>5

LEMMA NextFanning == Fanning /\ [Next]_vars => Fanning'
  <1> SUFFICES ASSUME Fanning, [Next]_vars PROVE Fanning'
    OBVIOUS
  <1>1. CASE UNCHANGED vars
    BY <1>1 DEF vars, Fanning, TypeOK, ItemsSound, WorkIsAsked, ChildrenHaveWork,
       CommittedIsEvaluated, SucceededIsEvaluated, FirstComesFirst, CommittedIsExpanded, Expanded
  <1>2. CASE Next
    BY <1>2, FirstItemFanning, RecordOwnedFanning, FanOutFanning, EvaluateFanning,
       FanoutAttemptFanning, EvaluationAttemptFanning DEF Next, Handle
  <1>3. QED
    BY <1>1, <1>2

LEMMA FanningAlways == Spec => []Fanning
  BY InitFanning, NextFanning, PTL DEF Spec

-----------------------------------------------------------------------------
(* The theorems.                                                           *)

(* Every reachable row is well typed; no item runs past its attempts.       *)
THEOREM FanoutTypeCorrect == Spec => []TypeOK
  <1>1. Fanning => TypeOK
    BY DEF Fanning
  <1>2. QED
    BY <1>1, FanningAlways, PTL

(* A user's request succeeds only after the alerts of its event were        *)
(* inserted, whichever attempts are lost between the two transactions.      *)
THEOREM RequestsSucceedEvaluated == Spec => []SucceededIsEvaluated
  <1>1. Fanning => SucceededIsEvaluated
    BY DEF Fanning
  <1>2. QED
    BY <1>1, FanningAlways, PTL

(* The request a fan-out made for a user is pending only while an           *)
(* evaluation of it is on its way.                                          *)
THEOREM PendingChildrenHaveWork == Spec => []ChildrenHaveWork
  <1>1. Fanning => ChildrenHaveWork
    BY DEF Fanning
  <1>2. QED
    BY <1>1, FanningAlways, PTL

(* When every fan-out item of an event has succeeded, every candidate has a *)
(* request, for every audience and batch size: were one missed, the items   *)
(* that start before him would have no last one.                            *)
THEOREM ExpansionReachesEveryCandidate == Spec => []ExpansionComplete
  <1>1. ASSUME Fanning PROVE ExpansionComplete
    <2> SUFFICES ASSUME NEW e \in Events, NEW first \in Cursors, fanout[e][first] # Nothing,
                        \A a \in Cursors : fanout[e][a].status \in {"NONE", "SUCCEEDED"},
                        NEW u \in Audience[e], request[e][u] = "NONE"
                 PROVE  FALSE
      BY DEF ExpansionComplete
    <2> DEFINE Before == {a \in Cursors : a < u /\ fanout[e][a] # Nothing}
    <2>1. u \in Users
      BY FanoutAssumption
    <2>2. 0 \in Before
      BY <1>1, <2>1, CursorsAndUsers DEF Fanning, FirstComesFirst, Users
    <2>3. PICK a \in Before : \A b \in Before : a >= b
      <3>1. Before \subseteq 0..NumUsers /\ Before # {}
        BY <2>2 DEF Cursors
      <3> HIDE DEF Before
      <3>2. QED
        BY <3>1, LargestBelow, FanoutAssumption
    <2>4. fanout[e][a].status = "SUCCEEDED"
      BY <1>1, <2>3 DEF Fanning, ItemsSound, Sound
    <2>5. Expanded(e, a)
      BY <1>1, <2>3, <2>4 DEF Fanning, CommittedIsExpanded
    <2>6. u \in Candidates(e, a) /\ u \notin BatchOf(e, a)
      BY <2>3, <2>5 DEF Expanded, Candidates
    <2>7. /\ HasMore(e, a) /\ Max(BatchOf(e, a)) \in Cursors
          /\ a < Max(BatchOf(e, a)) /\ Max(BatchOf(e, a)) < u
      BY <2>3, <2>6, LeftForLater
    <2>8. Max(BatchOf(e, a)) \in Before
      BY <2>5, <2>7 DEF Expanded
    <2>9. a >= Max(BatchOf(e, a))
      BY <2>3, <2>8
    <2>10. QED
      BY <2>3, <2>7, <2>9, FanoutAssumption DEF Cursors
  <1>2. QED
    BY <1>1, FanningAlways, PTL

-----------------------------------------------------------------------------
(* The refinement of ExclusiveWork.                                        *)

(* An event that is not a scan's is expanded only if a request asks for it. *)
EventsAreAsked ==
  \A e \in Events : e \notin Scans /\ request[e][0] = "NONE" => fanout[e][0] = Nothing

LEMMA BatchOfUsers ==
  ASSUME NEW e \in Events, NEW a \in Cursors
  PROVE  BatchOf(e, a) \subseteq Users
  BY CandidatesFinite

(* What follows a batch starts after a user of it.                          *)
LEMMA LastIsUser ==
  ASSUME NEW e \in Events, NEW a \in Cursors, HasMore(e, a)
  PROVE  Max(BatchOf(e, a)) \in Users
  <1>1. Candidates(e, a) # {}
    BY FS_EmptySet, FanoutAssumption DEF HasMore
  <1>2. QED
    BY <1>1, BatchHasLast, BatchOfUsers

LEMMA NextAsked ==
  ASSUME Fanning, EventsAreAsked, [Next]_vars
  PROVE  EventsAreAsked'
  <1> SUFFICES ASSUME NEW e \in Events, e \notin Scans, request'[e][0] = "NONE"
               PROVE  fanout'[e][0] = Nothing
    BY DEF EventsAreAsked
  <1>1. ASSUME NEW f \in Events, NEW a \in Cursors, NEW item, SetFanout(f, a, item),
               fanout[f][a] # Nothing
        PROVE  fanout'[e][0] = Nothing
    <2>1. request[e][0] = "NONE"
      BY <1>1, ProjectionRange, CursorsAndUsers DEF SetFanout, Fanning, TypeOK
    <2>2. fanout[e][0] = Nothing
      BY <2>1 DEF EventsAreAsked
    <2>3. QED
      BY <1>1, <2>2, CursorsAndUsers DEF SetFanout, Fanning, TypeOK
  <1>2. ASSUME NEW f \in Events, NEW a \in Cursors, FanOut(f, a) PROVE fanout'[e][0] = Nothing
    <2>1. FannedOut(f, a) /\ fanout[f][a] # Nothing
      BY <1>2, FanOutRows DEF FanOut, Nothing
    <2>2. request[e][0] = "NONE"
      BY <1>2, BatchOfUsers, CursorsAndUsers DEF FanOut, Fanning, TypeOK
    <2>3. fanout[e][0] = Nothing
      BY <2>2 DEF EventsAreAsked
    <2>4. e = f => a # 0 /\ ~(NewContinuation(f, a) /\ 0 = Max(BatchOf(f, a)))
      BY <2>1, <2>3, LastIsUser, CursorsAndUsers DEF NewContinuation
    <2>5. QED
      BY <2>1, <2>3, <2>4, CursorsAndUsers DEF FannedOut
  <1>3. ASSUME UNCHANGED <<fanout, request>> PROVE fanout'[e][0] = Nothing
    BY <1>3 DEF EventsAreAsked
  <1>4. CASE UNCHANGED vars
    BY <1>3, <1>4 DEF vars
  <1>5. ASSUME NEW f \in Events, RecordEvent(f) \/ Scan(f) \/ RecordOwned(f)
        PROVE  fanout'[e][0] = Nothing
    <2>1. CASE RecordEvent(f)
      BY <2>1, CursorsAndUsers DEF RecordEvent, EventsAreAsked, Fanning, TypeOK
    <2>2. CASE Scan(f)
      BY <2>2, CursorsAndUsers DEF Scan, EventsAreAsked, Fanning, TypeOK
    <2>3. CASE RecordOwned(f)
      BY <2>3, FanoutAssumption, CursorsAndUsers DEF RecordOwned, EventsAreAsked, Fanning, TypeOK
    <2>4. QED
      BY <1>5, <2>1, <2>2, <2>3
  <1>6. ASSUME NEW f \in Events, NEW a \in Cursors,
               ClaimFanout(f, a) \/ FinishFanout(f, a) \/ FailConflicted(f, a) \/ LoseFanout(f, a)
        PROVE  fanout'[e][0] = Nothing
    BY <1>1, <1>6 DEF ClaimFanout, FinishFanout, FailConflicted, LoseFanout, Finishable, Nothing
  <1>7. ASSUME NEW f \in Events, NEW u \in Users, NEW item, SetEvaluation(f, u, item)
        PROVE  fanout'[e][0] = Nothing
    <2>1. fanout' = fanout /\ request'[e][0] = request[e][0]
      BY <1>7, CursorsAndUsers DEF SetEvaluation, Fanning, TypeOK
    <2>2. QED
      BY <2>1 DEF EventsAreAsked
  <1>8. ASSUME NEW f \in Events, NEW u \in Users, Evaluate(f, u)
        PROVE  fanout'[e][0] = Nothing
    BY <1>3, <1>8 DEF Evaluate
  <1>9. QED
    BY <1>2, <1>4, <1>5, <1>6, <1>7, <1>8 DEF Next, Handle, ClaimEvaluation, FinishEvaluation,
       LoseEvaluation

LEMMA AskedAlways == Spec => []EventsAreAsked
  <1>1. Init => EventsAreAsked
    BY CursorsAndUsers DEF Init, EventsAreAsked
  <1>2. QED
    BY <1>1, NextAsked, FanningAlways, PTL DEF Spec

(* The rows of the items, by the way they are named.                        *)
LEMMA JobItems ==
  ASSUME NEW i \in WorkItems
  PROVE  \/ \E e \in Events, a \in Cursors : i = <<"FANOUT", e, a>>
         \/ \E e \in Events, u \in Users : i = <<"EVALUATE", e, u>>
  BY DEF WorkItems

LEMMA JobRows ==
  ASSUME NEW e \in Events
  PROVE  /\ \A a \in Cursors :
              /\ <<"FANOUT", e, a>> \in WorkItems
              /\ RowOf(<<"FANOUT", e, a>>) = fanout[e][a]
              /\ RowOf(<<"FANOUT", e, a>>)' = fanout'[e][a]
              /\ LaneOf(<<"FANOUT", e, a>>) = IF Anonymous(e, a) THEN <<"SCAN", e>> ELSE <<"EVENT", e>>
         /\ \A u \in Users :
              /\ <<"EVALUATE", e, u>> \in WorkItems
              /\ RowOf(<<"EVALUATE", e, u>>) = evaluation[e][u]
              /\ RowOf(<<"EVALUATE", e, u>>)' = evaluation'[e][u]
              /\ LaneOf(<<"EVALUATE", e, u>>) = <<"USER", u>>
  BY DEF WorkItems, RowOf, LaneOf

LEMMA JobSound == Fanning => \A i \in WorkItems : Sound(RowOf(i))
  <1> SUFFICES ASSUME Fanning, NEW i \in WorkItems PROVE Sound(RowOf(i))
    OBVIOUS
  <1>1. ASSUME NEW e \in Events, NEW a \in Cursors, i = <<"FANOUT", e, a>> PROVE Sound(RowOf(i))
    <2>1. RowOf(i) = fanout[e][a]
      BY <1>1, JobRows
    <2>2. QED
      BY <2>1 DEF Fanning, ItemsSound
  <1>2. ASSUME NEW e \in Events, NEW u \in Users, i = <<"EVALUATE", e, u>> PROVE Sound(RowOf(i))
    <2>1. RowOf(i) = evaluation[e][u]
      BY <1>2, JobRows
    <2>2. QED
      BY <2>1 DEF Fanning, ItemsSound
  <1>3. QED
    BY <1>1, <1>2, JobItems

LEMMA LanesAreSubjects ==
  ASSUME NEW i \in WorkItems
  PROVE  LaneOf(i) \in KeyedLanes \cup ({"SCAN"} \X Events)
  <1>1. ASSUME NEW e \in Events, NEW a \in Cursors, i = <<"FANOUT", e, a>>
        PROVE  LaneOf(i) \in KeyedLanes \cup ({"SCAN"} \X Events)
    <2>1. LaneOf(i) = <<"SCAN", e>> \/ LaneOf(i) = <<"EVENT", e>>
      BY <1>1, JobRows
    <2>2. QED
      BY <2>1 DEF KeyedLanes
  <1>2. ASSUME NEW e \in Events, NEW u \in Users, i = <<"EVALUATE", e, u>>
        PROVE  LaneOf(i) \in KeyedLanes \cup ({"SCAN"} \X Events)
    <2>1. LaneOf(i) = <<"USER", u>>
      BY <1>2, JobRows
    <2>2. QED
      BY <2>1 DEF KeyedLanes
  <1>3. QED
    BY <1>1, <1>2, JobItems

LEMMA JobPhases ==
  ASSUME NEW s
  PROVE  /\ PhaseOf(s) = "queued" <=> s = "READY"
         /\ PhaseOf(s) = "held" <=> s \in {"RUNNING", "COMMITTED"}
         /\ PhaseOf(s) = "settled" <=> s \in {"SUCCEEDED", "DEAD_LETTERED"}
         /\ PhaseOf(s) \in Jobs!Phases
         /\ s = "NONE" => PhaseOf(s) = "absent"
  BY DEF PhaseOf, Jobs!Phases

LEMMA JobTypes == Fanning => Jobs!TypeOK
  <1> SUFFICES ASSUME Fanning PROVE Jobs!TypeOK
    OBVIOUS
  <1>1. ASSUME NEW i \in WorkItems
        PROVE  /\ PhaseOf(RowOf(i).status) \in Jobs!Phases
               /\ RowOf(i).attempts \in 0..MaxAttempts
               /\ (IF RowOf(i) = Nothing THEN NoLane ELSE LaneOf(i))
                    \in KeyedLanes \cup ({"SCAN"} \X Events) \cup {NoLane}
    BY JobSound, JobPhases, LanesAreSubjects DEF Sound, Item
  <1>2. QED
    BY <1>1 DEF Jobs!TypeOK


(* What a step may do to the row of an item that is there already: it is    *)
(* handed out, given back or settled, or its transaction commits.           *)
RowStays(row, after) ==
  \/ after = row
  \/ /\ row.status = "RUNNING" /\ after.status = "COMMITTED"
     /\ after.attempts = row.attempts

RowMoves(row, after) ==
  \/ /\ row.status = "READY" /\ after.status = "RUNNING"
     /\ row.attempts < MaxAttempts /\ after.attempts = row.attempts + 1
  \/ /\ row.status \in {"RUNNING", "COMMITTED"} /\ after.status = "READY"
     /\ row.attempts < MaxAttempts /\ after.attempts = row.attempts
  \/ /\ Active(row) /\ after.status \in {"SUCCEEDED", "DEAD_LETTERED"}
     /\ after.attempts = row.attempts
  \/ RowStays(row, after)

LEMMA StaysSeen ==
  ASSUME NEW i \in WorkItems, RowStays(RowOf(i), RowOf(i)')
  PROVE  Jobs!Still(i) /\ (RowOf(i)' = Nothing <=> RowOf(i) = Nothing)
  <1>1. /\ PhaseOf(RowOf(i)'.status) = PhaseOf(RowOf(i).status)
        /\ RowOf(i)'.attempts = RowOf(i).attempts
    BY DEF RowStays, PhaseOf
  <1>2. RowOf(i)' = Nothing <=> RowOf(i) = Nothing
    BY DEF RowStays, Nothing
  <1>3. QED
    BY <1>1, <1>2 DEF Jobs!Still

(* Items that move one by one are an Advance.                               *)
LEMMA JobsAdvance ==
  ASSUME Fanning, Fanning', \A i \in WorkItems : RowMoves(RowOf(i), RowOf(i)')
  PROVE  Jobs!Advance
  <1>1. ASSUME NEW i \in WorkItems
        PROVE  /\ Jobs!Handed(i) \/ Jobs!Returned(i) \/ Jobs!SettledNow(i) \/ Jobs!Still(i)
               /\ RowOf(i)' = Nothing <=> RowOf(i) = Nothing
    <2>1. CASE RowStays(RowOf(i), RowOf(i)')
      BY <2>1, StaysSeen
    <2>2. ASSUME RowOf(i).status = "READY", RowOf(i)'.status = "RUNNING",
                 RowOf(i).attempts < MaxAttempts, RowOf(i)'.attempts = RowOf(i).attempts + 1
          PROVE  Jobs!Handed(i)
      BY <2>2, JobPhases DEF Jobs!Handed
    <2>3. ASSUME RowOf(i).status \in {"RUNNING", "COMMITTED"}, RowOf(i)'.status = "READY",
                 RowOf(i).attempts < MaxAttempts, RowOf(i)'.attempts = RowOf(i).attempts
          PROVE  Jobs!Returned(i)
      BY <2>3, JobPhases DEF Jobs!Returned
    <2>4. ASSUME Active(RowOf(i)), RowOf(i)'.status \in {"SUCCEEDED", "DEAD_LETTERED"},
                 RowOf(i)'.attempts = RowOf(i).attempts
          PROVE  Jobs!SettledNow(i)
      BY <2>4, JobPhases DEF Jobs!SettledNow, Jobs!Live, Active
    <2>5. RowMoves(RowOf(i), RowOf(i)')
      OBVIOUS
    <2>6. RowStays(RowOf(i), RowOf(i)') \/ (RowOf(i)' # Nothing /\ RowOf(i) # Nothing)
      BY <2>5 DEF RowMoves, Nothing, Active
    <2>7. QED
      BY <2>1, <2>2, <2>3, <2>4, <2>5, <2>6 DEF RowMoves
  <1>2. Jobs!TypeOK'
    BY JobTypes, PTL
  <1>3. [i \in WorkItems |-> IF RowOf(i) = Nothing THEN NoLane ELSE LaneOf(i)]'
          = [i \in WorkItems |-> IF RowOf(i) = Nothing THEN NoLane ELSE LaneOf(i)]
    BY <1>1 DEF LaneOf, Anonymous, NoLane
  <1>4. QED
    BY <1>1, <1>2, <1>3 DEF Jobs!Advance

(* Items that are inserted together, each into a lane that nobody else is   *)
(* in afterwards, are a Submit.                                             *)
LEMMA JobsSubmit ==
  ASSUME Fanning, Fanning', NEW New \in SUBSET WorkItems,
         \A i \in New : RowOf(i) = Nothing /\ RowOf(i)' = Ready,
         \A i \in WorkItems \ New : RowStays(RowOf(i), RowOf(i)'),
         \A i \in New, j \in WorkItems :
           i # j /\ Active(RowOf(j)') /\ LaneOf(j) = LaneOf(i) => LaneOf(i) \notin KeyedLanes
  PROVE  Jobs!Submit
  <1> DEFINE Subject(i) == IF RowOf(i) = Nothing THEN NoLane ELSE LaneOf(i)
  <1>1. ASSUME NEW i \in New
        PROVE  Jobs!Submitted(i) /\ Subject(i)' = LaneOf(i)
    <2>1. /\ PhaseOf(RowOf(i).status) = "absent" /\ PhaseOf(RowOf(i)'.status) = "queued"
          /\ RowOf(i)'.attempts = 0 /\ RowOf(i)' # Nothing
      BY JobPhases, ReadySound DEF Nothing, Ready
    <2>2. Subject(i)' = LaneOf(i)
      BY <2>1 DEF LaneOf, Anonymous
    <2>3. i \in WorkItems
      OBVIOUS
    <2>4. LaneOf(i) \in KeyedLanes \cup ({"SCAN"} \X Events)
      BY <2>3, LanesAreSubjects
    <2> QED
      BY <2>1, <2>2, <2>3, <2>4 DEF Jobs!Submitted
  <1>2. ASSUME NEW i \in WorkItems \ New
        PROVE  Jobs!Still(i) /\ Subject(i)' = Subject(i)
    BY StaysSeen DEF LaneOf, Anonymous, NoLane
  <1>3. ASSUME NEW i \in WorkItems, Jobs!Submitted(i) PROVE i \in New
    <2>1. CASE i \in WorkItems \ New
      BY <1>2, <1>3, <2>1 DEF Jobs!Submitted, Jobs!Still
    <2>2. QED
      BY <2>1
  <1>4. ASSUME NEW j \in WorkItems, PhaseOf(RowOf(j)'.status) \in {"queued", "held"}
        PROVE  Active(RowOf(j)') /\ Subject(j)' = LaneOf(j)
    <2>1. Active(RowOf(j)')
      BY <1>4, JobPhases DEF Active
    <2>2. RowOf(j)' # Nothing
      BY <2>1 DEF Active, Nothing
    <2>3. QED
      BY <2>1, <2>2 DEF LaneOf, Anonymous
  <1>5. Jobs!TypeOK'
    BY JobTypes, PTL
  <1>6. ASSUME NEW i \in WorkItems, NEW j \in WorkItems, Jobs!Submitted(i), i # j,
               PhaseOf(RowOf(j)'.status) \in {"queued", "held"}, Subject(j)' = Subject(i)'
        PROVE  Subject(i)' \notin KeyedLanes
    <2>1. i \in New /\ Subject(i)' = LaneOf(i)
      BY <1>1, <1>3, <1>6
    <2>2. Active(RowOf(j)') /\ LaneOf(j) = LaneOf(i)
      BY <1>4, <1>6, <2>1
    <2>3. QED
      BY <1>6, <2>1, <2>2
  <1>7. \A i \in WorkItems : Jobs!Submitted(i) \/ (Jobs!Still(i) /\ Subject(i)' = Subject(i))
    BY <1>1, <1>2
  <1>8. QED
    BY <1>5, <1>6, <1>7 DEF Jobs!Submit, Jobs!Live

(* One row of one item changes.                                             *)
LEMMA FanoutMoves ==
  ASSUME Fanning, Fanning', NEW e \in Events, NEW a \in Cursors, NEW item,
         SetFanout(e, a, item), RowMoves(fanout[e][a], item)
  PROVE  Jobs!Advance
  <1>1. /\ fanout'[e][a] = item /\ evaluation' = evaluation
        /\ \A f \in Events, c \in Cursors : <<f, c>> # <<e, a>> => fanout'[f][c] = fanout[f][c]
    BY DEF SetFanout, Fanning, TypeOK
  <1>2. ASSUME NEW i \in WorkItems PROVE RowMoves(RowOf(i), RowOf(i)')
    <2>1. ASSUME NEW f \in Events, NEW c \in Cursors, i = <<"FANOUT", f, c>>
          PROVE  RowMoves(RowOf(i), RowOf(i)')
      <3>1. RowOf(i) = fanout[f][c] /\ RowOf(i)' = fanout'[f][c]
        BY <2>1, JobRows
      <3>2. CASE <<f, c>> = <<e, a>>
        BY <1>1, <3>1, <3>2
      <3>3. CASE <<f, c>> # <<e, a>>
        BY <1>1, <3>1, <3>3 DEF RowMoves, RowStays
      <3>4. QED
        BY <3>2, <3>3
    <2>2. ASSUME NEW f \in Events, NEW u \in Users, i = <<"EVALUATE", f, u>>
          PROVE  RowMoves(RowOf(i), RowOf(i)')
      <3>1. RowOf(i) = evaluation[f][u] /\ RowOf(i)' = evaluation'[f][u]
        BY <2>2, JobRows
      <3>2. QED
        BY <1>1, <3>1 DEF RowMoves, RowStays
    <2>3. QED
      BY <2>1, <2>2, JobItems
  <1>3. QED
    BY <1>2, JobsAdvance

LEMMA EvaluationMoves ==
  ASSUME Fanning, Fanning', NEW e \in Events, NEW u \in Users, NEW item,
         fanout' = fanout, evaluation' = [evaluation EXCEPT ![e][u] = item],
         RowMoves(evaluation[e][u], item)
  PROVE  Jobs!Advance
  <1>1. /\ evaluation'[e][u] = item
        /\ \A f \in Events, v \in Users :
             <<f, v>> # <<e, u>> => evaluation'[f][v] = evaluation[f][v]
    BY DEF Fanning, TypeOK
  <1>2. ASSUME NEW i \in WorkItems PROVE RowMoves(RowOf(i), RowOf(i)')
    <2>1. ASSUME NEW f \in Events, NEW c \in Cursors, i = <<"FANOUT", f, c>>
          PROVE  RowMoves(RowOf(i), RowOf(i)')
      <3>1. RowOf(i) = fanout[f][c] /\ RowOf(i)' = fanout'[f][c]
        BY <2>1, JobRows
      <3>2. QED
        BY <3>1 DEF RowMoves, RowStays
    <2>2. ASSUME NEW f \in Events, NEW v \in Users, i = <<"EVALUATE", f, v>>
          PROVE  RowMoves(RowOf(i), RowOf(i)')
      <3>1. RowOf(i) = evaluation[f][v] /\ RowOf(i)' = evaluation'[f][v]
        BY <2>2, JobRows
      <3>2. CASE <<f, v>> = <<e, u>>
        BY <1>1, <3>1, <3>2
      <3>3. CASE <<f, v>> # <<e, u>>
        BY <1>1, <3>1, <3>3 DEF RowMoves, RowStays
      <3>4. QED
        BY <3>2, <3>3
    <2>3. QED
      BY <2>1, <2>2, JobItems
  <1>3. QED
    BY <1>2, JobsAdvance

(* What the ledger makes of an item is one of its moves.                    *)
LEMMA LedgerMoves ==
  ASSUME NEW item \in Item, Sound(item)
  PROVE  /\ item.status = "READY" => RowMoves(item, Claimed(item))
         /\ item.status \in {"RUNNING", "COMMITTED"} => RowMoves(item, Failed(item))
         /\ item.status = "COMMITTED" => RowMoves(item, [item EXCEPT !.status = "SUCCEEDED"])
         /\ item.status = "RUNNING" => RowMoves(item, [item EXCEPT !.status = "COMMITTED"])
  BY FanoutAssumption DEF Sound, Claimed, Failed, Item, RowMoves, RowStays, Active

LEMMA AttemptsAdvance ==
  ASSUME Fanning, Fanning', NEW e \in Events,
         \/ \E a \in Cursors : \/ ClaimFanout(e, a) \/ FinishFanout(e, a)
                               \/ FailConflicted(e, a) \/ LoseFanout(e, a)
         \/ \E u \in Users : \/ ClaimEvaluation(e, u) \/ FinishEvaluation(e, u)
                             \/ LoseEvaluation(e, u) \/ Evaluate(e, u)
  PROVE  Jobs!Advance
  <1>1. ASSUME NEW a \in Cursors, \/ ClaimFanout(e, a) \/ FinishFanout(e, a)
                                  \/ FailConflicted(e, a) \/ LoseFanout(e, a)
        PROVE  \E item : SetFanout(e, a, item) /\ RowMoves(fanout[e][a], item)
    <2>1. fanout[e][a] \in Item /\ Sound(fanout[e][a])
      BY DEF Fanning, TypeOK, ItemsSound
    <2>2. QED
      BY <1>1, <2>1, LedgerMoves DEF ClaimFanout, FinishFanout, FailConflicted, LoseFanout,
         Finishable
  <1>2. ASSUME NEW u \in Users, \/ ClaimEvaluation(e, u) \/ FinishEvaluation(e, u)
                                \/ LoseEvaluation(e, u) \/ Evaluate(e, u)
        PROVE  \E item : /\ fanout' = fanout /\ evaluation' = [evaluation EXCEPT ![e][u] = item]
                         /\ RowMoves(evaluation[e][u], item)
    <2>1. evaluation[e][u] \in Item /\ Sound(evaluation[e][u])
      BY DEF Fanning, TypeOK, ItemsSound
    <2>2. CASE Evaluate(e, u)
      <3>1. evaluation' = [evaluation EXCEPT ![e][u] = [evaluation[e][u] EXCEPT !.status = "COMMITTED"]]
        BY <2>2 DEF Evaluate, Fanning, TypeOK
      <3>2. QED
        BY <2>1, <2>2, <3>1, LedgerMoves DEF Evaluate
    <2>3. CASE ClaimEvaluation(e, u) \/ FinishEvaluation(e, u) \/ LoseEvaluation(e, u)
      BY <2>1, <2>3, LedgerMoves DEF ClaimEvaluation, FinishEvaluation, LoseEvaluation,
         SetEvaluation, Finishable
    <2>4. QED
      BY <1>2, <2>2, <2>3
  <1>3. QED
    BY <1>1, <1>2, FanoutMoves, EvaluationMoves

(* A new event or scan starts an expansion; nobody else expands it.         *)
LEMMA FirstItemSubmits ==
  ASSUME Fanning, Fanning', EventsAreAsked, NEW e \in Events, RecordEvent(e) \/ Scan(e)
  PROVE  Jobs!Submit
  <1> DEFINE new == <<"FANOUT", e, 0>>
  <1>0. LaneOf(new) = IF e \in Scans THEN <<"SCAN", e>> ELSE <<"EVENT", e>>
    BY CursorsAndUsers, JobRows DEF Anonymous
  <1>1. /\ fanout[e][0] = Nothing /\ fanout'[e][0] = Ready /\ evaluation' = evaluation
        /\ \A f \in Events, c \in Cursors : <<f, c>> # <<e, 0>> => fanout'[f][c] = fanout[f][c]
    BY CursorsAndUsers DEF RecordEvent, Scan, EventsAreAsked, Fanning, TypeOK
  <1>2. new \in WorkItems /\ RowOf(new) = Nothing /\ RowOf(new)' = Ready
    BY <1>1, CursorsAndUsers, JobRows
  <1>3. ASSUME NEW i \in WorkItems \ {new} PROVE RowOf(i)' = RowOf(i)
    <2>1. ASSUME NEW f \in Events, NEW c \in Cursors, i = <<"FANOUT", f, c>>
          PROVE  RowOf(i)' = RowOf(i)
      <3>1. RowOf(i) = fanout[f][c] /\ RowOf(i)' = fanout'[f][c] /\ <<f, c>> # <<e, 0>>
        BY <1>3, <2>1, JobRows
      <3>2. QED
        BY <1>1, <3>1
    <2>2. ASSUME NEW f \in Events, NEW u \in Users, i = <<"EVALUATE", f, u>>
          PROVE  RowOf(i)' = RowOf(i)
      <3>1. RowOf(i) = evaluation[f][u] /\ RowOf(i)' = evaluation'[f][u]
        BY <2>2, JobRows
      <3>2. QED
        BY <1>1, <3>1
    <2>3. QED
      BY <2>1, <2>2, JobItems
  <1>4. ASSUME NEW j \in WorkItems \ {new}, Active(RowOf(j)'), LaneOf(j) = LaneOf(new)
        PROVE  LaneOf(new) \notin KeyedLanes
    <2>1. CASE e \in Scans
      <3>1. LaneOf(new) = <<"SCAN", e>>
        BY <1>0, <2>1
      <3> HIDE DEF new
      <3>2. QED
        BY <3>1 DEF KeyedLanes
    <2>2. ASSUME NEW f \in Events, NEW c \in Cursors, j = <<"FANOUT", f, c>>, e \notin Scans
          PROVE  FALSE
      <3>1. f = e
        <4>1. LaneOf(j) = <<"EVENT", e>>
          BY <1>0, <1>4, <2>2
        <4>2. LaneOf(j) \in {<<"SCAN", f>>, <<"EVENT", f>>}
          BY <2>2, JobRows
        <4>3. QED
          BY <4>1, <4>2
      <3>2. fanout[e][c] # Nothing
        <4>1. RowOf(j)' = RowOf(j) /\ RowOf(j) = fanout[e][c]
          BY <1>3, <2>2, <3>1, JobRows
        <4>2. QED
          BY <1>4, <4>1 DEF Active, Nothing
      <3>3. QED
        BY <1>1, <3>2 DEF Fanning, FirstComesFirst
    <2>3. ASSUME NEW f \in Events, NEW u \in Users, j = <<"EVALUATE", f, u>>
          PROVE  FALSE
      <3>1. LaneOf(j) = <<"USER", u>>
        BY <2>3, JobRows
      <3>2. QED
        BY <1>0, <1>4, <3>1
    <2>4. QED
      BY <2>1, <2>2, <2>3, JobItems
  <1> HIDE DEF new
  <1>5. /\ \A i \in {new} : RowOf(i) = Nothing /\ RowOf(i)' = Ready
        /\ \A i \in WorkItems \ {new} : RowStays(RowOf(i), RowOf(i)')
        /\ \A i \in {new}, j \in WorkItems :
             i # j /\ Active(RowOf(j)') /\ LaneOf(j) = LaneOf(i) => LaneOf(i) \notin KeyedLanes
    BY <1>2, <1>3, <1>4 DEF RowStays
  <1>6. {new} \in SUBSET WorkItems
    BY <1>2
  <1>7. QED
    BY <1>5, <1>6, JobsSubmit

(* A change of a calendar item asks its owner's worker, unless it is busy.   *)
LEMMA OwnedSubmits ==
  ASSUME Fanning, Fanning', NEW e \in Events, RecordOwned(e)
  PROVE  Jobs!Next
  <1>1. PICK u \in Users : u = Owner[e]
    BY FanoutAssumption DEF RecordOwned, Users, Cursors
  <1>2. CASE evaluation' = evaluation
    <2>1. ASSUME NEW i \in WorkItems PROVE RowMoves(RowOf(i), RowOf(i)')
      <3>1. RowOf(i)' = RowOf(i)
        BY <1>2 DEF RowOf, RecordOwned
      <3>2. QED
        BY <3>1 DEF RowMoves, RowStays
    <2>2. QED
      BY <2>1, JobsAdvance DEF Jobs!Next
  <1>3. CASE evaluation' # evaluation
    <2> DEFINE new == <<"EVALUATE", e, u>>
    <2>1. /\ ~LaneBusy(u) /\ fanout' = fanout
          /\ evaluation' = [evaluation EXCEPT ![e][u] = Ready]
      BY <1>1, <1>3 DEF RecordOwned
    <2>2. /\ evaluation'[e][u] = Ready
          /\ \A f \in Events, v \in Users :
               <<f, v>> # <<e, u>> => evaluation'[f][v] = evaluation[f][v]
      BY <2>1 DEF Fanning, TypeOK
    <2>3. evaluation[e][u] = Nothing
      BY <1>1 DEF RecordOwned, Fanning, WorkIsAsked
    <2>4. /\ new \in WorkItems /\ RowOf(new) = Nothing /\ RowOf(new)' = Ready
          /\ LaneOf(new) = <<"USER", u>>
      BY <2>2, <2>3, JobRows
    <2>5. ASSUME NEW i \in WorkItems, i # new
          PROVE  /\ RowOf(i)' = RowOf(i)
                 /\ Active(RowOf(i)) => LaneOf(i) # LaneOf(new)
      <3>1. ASSUME NEW f \in Events, NEW c \in Cursors, i = <<"FANOUT", f, c>>
            PROVE  RowOf(i)' = RowOf(i) /\ LaneOf(i) # LaneOf(new)
        <4>1. LaneOf(i) \in {<<"SCAN", f>>, <<"EVENT", f>>}
          BY <3>1, JobRows
        <4>2. RowOf(i) = fanout[f][c] /\ RowOf(i)' = fanout'[f][c]
          BY <3>1, JobRows
        <4>3. RowOf(i)' = RowOf(i)
          BY <2>1, <4>2
        <4> HIDE DEF new
        <4>4. QED
          BY <2>4, <4>1, <4>3
      <3>2. ASSUME NEW f \in Events, NEW v \in Users, i = <<"EVALUATE", f, v>>
            PROVE  /\ RowOf(i)' = RowOf(i)
                   /\ Active(RowOf(i)) => LaneOf(i) # LaneOf(new)
        <4>1. /\ RowOf(i) = evaluation[f][v] /\ RowOf(i)' = evaluation'[f][v]
              /\ LaneOf(i) = <<"USER", v>> /\ <<f, v>> # <<e, u>>
          BY <2>5, <3>2, JobRows
        <4>2. Active(RowOf(i)) => v # u
          BY <2>1, <4>1 DEF LaneBusy
        <4>3. QED
          BY <2>2, <2>4, <4>1, <4>2
      <3>3. QED
        BY <3>1, <3>2, JobItems
    <2> HIDE DEF new
    <2>6. /\ \A i \in {new} : RowOf(i) = Nothing /\ RowOf(i)' = Ready
          /\ \A i \in WorkItems \ {new} : RowStays(RowOf(i), RowOf(i)')
          /\ \A i \in {new}, j \in WorkItems :
               i # j /\ Active(RowOf(j)') /\ LaneOf(j) = LaneOf(i) => LaneOf(i) \notin KeyedLanes
      BY <2>4, <2>5 DEF RowStays
    <2>7. {new} \in SUBSET WorkItems
      BY <2>4
    <2>8. QED
      BY <2>6, <2>7, JobsSubmit DEF Jobs!Next
  <1>4. QED
    BY <1>2, <1>3

(* The items a fan-out inserts.                                             *)
Inserted(e, a) ==
  {<<"EVALUATE", e, u>> : u \in NewEvaluations(e, a)}
    \cup {<<"FANOUT", e, c>> : c \in {c \in Cursors : NewContinuation(e, a) /\ c = Max(BatchOf(e, a))}}

LEMMA FanOutSubmits ==
  ASSUME Fanning, Fanning', NEW e \in Events, NEW a \in Cursors, FanOut(e, a)
  PROVE  Jobs!Submit
  <1>1. FannedOut(e, a) /\ ~Conflict(e, a) /\ fanout[e][a].status = "RUNNING"
    BY FanOutRows DEF FanOut
  <1>2. NewEvaluations(e, a) \subseteq Users
    BY BatchOfUsers DEF NewEvaluations
  <1>3. NewContinuation(e, a) =>
          /\ Max(BatchOf(e, a)) \in Users /\ Max(BatchOf(e, a)) \in Cursors \ {0}
          /\ Max(BatchOf(e, a)) # a /\ fanout[e][Max(BatchOf(e, a))] = Nothing
    BY <1>1, LastIsUser, CursorsAndUsers DEF NewContinuation, Nothing
  <1>4. /\ fanout'[e][a].status = "COMMITTED" /\ fanout'[e][a].attempts = fanout[e][a].attempts
    <2>1. fanout'[e][a] = [fanout[e][a] EXCEPT !.status = "COMMITTED"]
      BY DEF FanOut, Fanning, TypeOK
    <2>2. fanout[e][a] \in Item
      BY DEF Fanning, TypeOK
    <2>3. QED
      BY <2>1, <2>2 DEF Item
  <1>5. ASSUME NEW f \in Events, NEW v \in Users
        PROVE  IF <<"EVALUATE", f, v>> \in Inserted(e, a)
               THEN /\ f = e /\ v \in NewEvaluations(e, a)
                    /\ evaluation[f][v] = Nothing /\ evaluation'[f][v] = Ready
               ELSE evaluation'[f][v] = evaluation[f][v]
    <2>1. <<"EVALUATE", f, v>> \in Inserted(e, a) <=> f = e /\ v \in NewEvaluations(e, a)
      BY DEF Inserted
    <2>2. QED
      BY <1>1, <2>1 DEF FannedOut, NewEvaluations
  <1>6. ASSUME NEW f \in Events, NEW c \in Cursors
        PROVE  IF <<"FANOUT", f, c>> \in Inserted(e, a)
               THEN /\ f = e /\ c # a /\ c # 0 /\ NewContinuation(e, a)
                    /\ fanout[f][c] = Nothing /\ fanout'[f][c] = Ready
               ELSE RowStays(fanout[f][c], fanout'[f][c])
    <2>1. <<"FANOUT", f, c>> \in Inserted(e, a)
            <=> f = e /\ NewContinuation(e, a) /\ c = Max(BatchOf(e, a))
      BY DEF Inserted
    <2>2. CASE f = e /\ c = a
      BY <1>1, <1>3, <1>4, <2>1, <2>2 DEF RowStays
    <2>3. CASE f = e /\ c # a
      BY <1>1, <1>3, <2>1, <2>3 DEF FannedOut, RowStays
    <2>4. CASE f # e
      BY <1>1, <2>1, <2>4 DEF FannedOut, RowStays
    <2>5. QED
      BY <2>2, <2>3, <2>4
  <1>7. Inserted(e, a) \in SUBSET WorkItems
    BY <1>2 DEF Inserted, WorkItems
  <1>8. ASSUME NEW i \in WorkItems
        PROVE  IF i \in Inserted(e, a) THEN RowOf(i) = Nothing /\ RowOf(i)' = Ready
               ELSE RowStays(RowOf(i), RowOf(i)')
    <2>1. ASSUME NEW f \in Events, NEW c \in Cursors, i = <<"FANOUT", f, c>>
          PROVE  IF i \in Inserted(e, a) THEN RowOf(i) = Nothing /\ RowOf(i)' = Ready
                 ELSE RowStays(RowOf(i), RowOf(i)')
      <3>1. RowOf(i) = fanout[f][c] /\ RowOf(i)' = fanout'[f][c]
        BY <2>1, JobRows
      <3>2. QED
        BY <1>6, <2>1, <3>1
    <2>2. ASSUME NEW f \in Events, NEW v \in Users, i = <<"EVALUATE", f, v>>
          PROVE  IF i \in Inserted(e, a) THEN RowOf(i) = Nothing /\ RowOf(i)' = Ready
                 ELSE RowStays(RowOf(i), RowOf(i)')
      <3>1. RowOf(i) = evaluation[f][v] /\ RowOf(i)' = evaluation'[f][v]
        BY <2>2, JobRows
      <3>2. QED
        BY <1>5, <2>2, <3>1 DEF RowStays
    <2>3. QED
      BY <2>1, <2>2, JobItems
  <1>9. ASSUME NEW u \in NewEvaluations(e, a), NEW j \in WorkItems, j # <<"EVALUATE", e, u>>,
               Active(RowOf(j)'), LaneOf(j) = <<"USER", u>>
        PROVE  FALSE
    <2>1. PICK f \in Events, v \in Users : j = <<"EVALUATE", f, v>>
      <3>1. ASSUME NEW f \in Events, NEW c \in Cursors, j = <<"FANOUT", f, c>> PROVE FALSE
        <4>1. LaneOf(j) \in {<<"SCAN", f>>, <<"EVENT", f>>}
          BY <3>1, JobRows
        <4>2. QED
          BY <1>9, <4>1
      <3>2. QED
        BY <3>1, JobItems
    <2>2. v = u /\ f # e /\ Active(evaluation'[f][v])
      <3>1. LaneOf(j) = <<"USER", v>> /\ RowOf(j)' = evaluation'[f][v]
        BY <2>1, JobRows
      <3>2. QED
        BY <1>9, <2>1, <3>1
    <2>3. evaluation'[f] = evaluation[f]
      BY <1>1, <2>2 DEF FannedOut
    <2>4. LaneBusy(u)
      BY <2>2, <2>3 DEF LaneBusy
    <2>5. QED
      BY <1>1, <2>4 DEF Conflict
  <1>10. ASSUME NEW c \in Cursors, <<"FANOUT", e, c>> \in Inserted(e, a),
                NEW j \in WorkItems, j # <<"FANOUT", e, c>>,
                Active(RowOf(j)'), LaneOf(j) = <<"EVENT", e>>
         PROVE  FALSE
    <2>1. PICK f \in Events, b \in Cursors : j = <<"FANOUT", f, b>>
      <3>1. ASSUME NEW f \in Events, NEW v \in Users, j = <<"EVALUATE", f, v>> PROVE FALSE
        <4>1. LaneOf(j) = <<"USER", v>>
          BY <3>1, JobRows
        <4>2. QED
          BY <1>10, <4>1
      <3>2. QED
        BY <3>1, JobItems
    <2>2. f = e /\ ~Anonymous(e, b) /\ b # c
      <3>1. LaneOf(j) = IF Anonymous(f, b) THEN <<"SCAN", f>> ELSE <<"EVENT", f>>
        BY <2>1, JobRows
      <3>2. f = e /\ ~Anonymous(f, b)
        BY <1>10, <3>1
      <3>3. QED
        BY <1>10, <2>1, <3>2
    <2>3. Active(fanout'[e][b]) /\ NewContinuation(e, a) /\ c = Max(BatchOf(e, a))
      <3>1. RowOf(j)' = fanout'[f][b]
        BY <2>1, JobRows
      <3>2. QED
        BY <1>10, <2>2, <3>1 DEF Inserted
    <2>4. Active(fanout[e][b])
      <3>1. CASE b = a
        BY <1>1, <3>1 DEF Active
      <3>2. CASE b # a
        BY <1>1, <2>2, <2>3, <3>2 DEF FannedOut
      <3>3. QED
        BY <3>1, <3>2
    <2>5. FanoutBusy(e)
      BY <2>2, <2>4 DEF FanoutBusy
    <2>6. QED
      BY <1>1, <2>3, <2>5 DEF Conflict
  <1>11. ASSUME NEW i \in Inserted(e, a), NEW j \in WorkItems, i # j, Active(RowOf(j)'),
                LaneOf(j) = LaneOf(i)
         PROVE  FALSE
    <2>1. ASSUME NEW u \in NewEvaluations(e, a), i = <<"EVALUATE", e, u>> PROVE FALSE
      <3>1. LaneOf(i) = <<"USER", u>>
        BY <1>2, <2>1, JobRows
      <3>2. QED
        BY <1>9, <1>11, <2>1, <3>1
    <2>2. ASSUME NEW c \in Cursors, i = <<"FANOUT", e, c>> PROVE FALSE
      <3>1. LaneOf(i) = <<"EVENT", e>>
        BY <1>6, <1>11, <2>2, JobRows DEF Anonymous
      <3>2. QED
        BY <1>10, <1>11, <2>2, <3>1
    <2>3. QED
      BY <2>1, <2>2 DEF Inserted
  <1>12. QED
    BY <1>7, <1>8, <1>11, JobsSubmit

(* Every step on the items of the alerts is a step of ExclusiveWork: a       *)
(* fan-out's transaction submits a whole batch, and never a second live item *)
(* for a user or an event, whatever was lost or is running beside it.        *)
THEOREM AlertsAreExclusiveWork == Spec => AlertsImplementExclusiveWork
  <1> DEFINE Kept == Fanning /\ EventsAreAsked
  <1>1. Init => Jobs!Init
    <2> SUFFICES ASSUME Init PROVE Jobs!Init
      OBVIOUS
    <2>1. ASSUME NEW i \in WorkItems PROVE RowOf(i) = Nothing
      <3>1. ASSUME NEW e \in Events, NEW a \in Cursors, i = <<"FANOUT", e, a>>
            PROVE  RowOf(i) = Nothing
        BY <3>1, JobRows DEF Init
      <3>2. ASSUME NEW e \in Events, NEW u \in Users, i = <<"EVALUATE", e, u>>
            PROVE  RowOf(i) = Nothing
        BY <3>2, JobRows DEF Init
      <3>3. QED
        BY <3>1, <3>2, JobItems
    <2>2. PhaseOf(Nothing.status) = "absent" /\ Nothing.attempts = 0
      BY JobPhases DEF Nothing
    <2>3. QED
      BY <2>1, <2>2 DEF Jobs!Init
  <1>2. Kept /\ [Next]_vars => [Jobs!Next]_(Jobs!vars)
    <2> SUFFICES ASSUME Kept, [Next]_vars PROVE [Jobs!Next]_(Jobs!vars)
      OBVIOUS
    <2>1. Fanning'
      BY NextFanning
    <2>2. CASE UNCHANGED vars
      BY <2>2 DEF vars, Jobs!vars, RowOf, PhaseOf, LaneOf, Anonymous, NoLane, Nothing
    <2>3. CASE \E e \in Events : RecordEvent(e) \/ Scan(e)
      BY <2>1, <2>3, FirstItemSubmits DEF Jobs!Next
    <2>4. CASE \E e \in Events : RecordOwned(e)
      BY <2>1, <2>4, OwnedSubmits
    <2>5. CASE \E e \in Events, a \in Cursors : FanOut(e, a)
      BY <2>1, <2>5, FanOutSubmits DEF Jobs!Next
    <2>6. CASE \E e \in Events :
                 \/ \E a \in Cursors : \/ ClaimFanout(e, a) \/ FinishFanout(e, a)
                                       \/ FailConflicted(e, a) \/ LoseFanout(e, a)
                 \/ \E u \in Users : \/ ClaimEvaluation(e, u) \/ FinishEvaluation(e, u)
                                     \/ LoseEvaluation(e, u) \/ Evaluate(e, u)
      BY <2>1, <2>6, AttemptsAdvance DEF Jobs!Next
    <2>7. QED
      BY <2>2, <2>3, <2>4, <2>5, <2>6 DEF Next, Handle
  <1> HIDE DEF Kept
  <1>3. Spec => []Kept
    <2>1. Fanning /\ EventsAreAsked => Kept
      BY DEF Kept
    <2>2. QED
      BY <2>1, FanningAlways, AskedAlways, PTL
  <1>4. QED
    BY <1>1, <1>2, <1>3, PTL DEF Spec, AlertsImplementExclusiveWork, Jobs!Spec

(* At most one live item evaluates a user's alerts, and at most one with a   *)
(* key expands an event: what ExclusiveWork promises, for any set of events. *)
THEOREM OneLiveItemPerLane == Spec => []Jobs!OneLive
  <1>1. Jobs!Init => Jobs!OneLive
    BY DEF Jobs!Init, Jobs!OneLive, Jobs!Live
  <1>2. Jobs!OneLive /\ [Jobs!Next]_(Jobs!vars) => Jobs!OneLive'
    <2> SUFFICES ASSUME Jobs!OneLive, [Jobs!Next]_(Jobs!vars) PROVE Jobs!OneLive'
      OBVIOUS
    <2>1. CASE UNCHANGED Jobs!vars
      BY <2>1 DEF Jobs!vars, Jobs!OneLive, Jobs!Live
    <2>2. CASE Jobs!Advance
      BY <2>2 DEF Jobs!Advance, Jobs!Handed, Jobs!Returned, Jobs!SettledNow, Jobs!Still,
         Jobs!OneLive, Jobs!Live
    <2>3. CASE Jobs!Submit
      BY <2>3 DEF Jobs!Submit, Jobs!Submitted, Jobs!Still, Jobs!OneLive, Jobs!Live
    <2>4. QED
      BY <2>1, <2>2, <2>3 DEF Jobs!Next
  <1>3. QED
    BY <1>1, <1>2, AlertsAreExclusiveWork, PTL DEF AlertsImplementExclusiveWork, Jobs!Spec

-----------------------------------------------------------------------------
(* The rows that sum up the evidence about recruiters.                     *)

Linked(rows, p, subject) == {f \in rows : f.profile = p /\ f.subject = subject}

SummaryOf(linked) ==
  [count |-> Cardinality(linked),
   last |-> Max({Observed[f.page] : f \in linked}),
   strength |-> Strength(
     IF \E f \in linked : Reported[f.page] = "HIGH" THEN "HIGH" ELSE "LOW",
     Cardinality({f.page : f \in linked}))]

LEMMA SummaryIsOfLinked ==
  \A rows, p, subject : Summary(rows, p, subject) = SummaryOf(Linked(rows, p, subject))
  BY DEF Summary, SummaryOf, Linked

(* The evidence is finite, and none was observed later than some day.       *)
EvidenceBounded ==
  /\ IsFiniteSet(testimony)
  /\ \E n \in Nat : \A f \in testimony : Observed[f.page] <= n

LEMMA StrengthType ==
  ASSUME NEW reliability, NEW pages
  PROVE  Strength(reliability, pages) \in {"HIGH", "MEDIUM", "LOW", "LIMITED_EVIDENCE"}
  BY DEF Strength

LEMMA SummaryType ==
  ASSUME NEW linked \in SUBSET Prints, linked # {}, IsFiniteSet(linked),
         NEW n \in Nat, \A f \in linked : Observed[f.page] <= n
  PROVE  SummaryOf(linked) \in FocusRow
  <1> DEFINE days == {Observed[f.page] : f \in linked}
  <1>1. \A f \in linked : f.page \in SourcePages
    BY DEF Prints
  <1>2. days \subseteq 0..n /\ days # {} /\ days \subseteq Range(Observed)
    BY <1>1, DirectoryAssumption DEF Range
  <1> HIDE DEF days
  <1>3. Max(days) \in Range(Observed)
    BY <1>2, MaxIsLargest
  <1>4. Cardinality(linked) \in Nat
    BY FS_CardinalityType
  <1>5. QED
    BY <1>3, <1>4, StrengthType DEF days, SummaryOf, FocusRow

LEMMA RecruitingHandlers ==
  ASSUME NEW h \in RecruitingHandler
  PROVE  /\ h.op = "CREATE" => /\ h.name \in Names /\ h.page \in SourcePages
                               /\ h.subject \in Subjects \cup {Null}
         /\ h.op \in {"COLLECT", "COMMIT"} =>
              /\ h.print \in Prints /\ h.name \in Names \cup {Null} /\ h.existing \in BOOLEAN
         /\ h.op = "COMMIT" => h.summary \in FocusRow \cup {Null}
  BY DEF RecruitingHandler, Idle

LEMMA RecruitingHandlerValues ==
  /\ Idle \in RecruitingHandler
  /\ \A name \in Names, page \in SourcePages, subject \in Subjects \cup {Null} :
       [op |-> "CREATE", name |-> name, page |-> page, subject |-> subject] \in RecruitingHandler
  /\ \A print \in Prints, name \in Names \cup {Null}, existing \in BOOLEAN :
       [op |-> "COLLECT", print |-> print, name |-> name, existing |-> existing]
         \in RecruitingHandler
  /\ \A print \in Prints, name \in Names \cup {Null}, existing \in BOOLEAN,
        summary \in FocusRow \cup {Null} :
       [op |-> "COMMIT", print |-> print, name |-> name, existing |-> existing,
        summary |-> summary] \in RecruitingHandler
  BY DEF RecruitingHandler

(* Of a subject a request is about to commit the summary with its own       *)
(* evidence, and no other request is about to commit one of that subject.   *)
Committing(r) == recruiting[r].op = "COMMIT" /\ recruiting[r].print.subject # Null

SummariesCurrent ==
  \A r \in Requests : Committing(r) =>
    recruiting[r].summary =
      SummaryOf(Linked(testimony \cup {recruiting[r].print},
                       recruiting[r].print.profile, recruiting[r].print.subject))

OneCommitting ==
  \A q, r \in Requests :
    /\ Committing(q) /\ Committing(r)
    /\ recruiting[q].print.profile = recruiting[r].print.profile
    /\ recruiting[q].print.subject = recruiting[r].print.subject
    => q = r

FocusCurrent ==
  \A p \in Profiles, s \in Subjects :
    focused[<<p, s>>] = IF Linked(testimony, p, s) = {} THEN Null
                        ELSE SummaryOf(Linked(testimony, p, s))

Summing ==
  /\ DirectoryTypeOK /\ EvidenceBounded
  /\ SummariesCurrent /\ OneCommitting /\ FocusCurrent

LEMMA FocusCurrentSuffices == FocusCurrent => FocusMatchesEvidence
  <1> SUFFICES ASSUME FocusCurrent, NEW p \in Profiles, NEW s \in Subjects
               PROVE  focused[<<p, s>>] =
                        IF {f \in testimony : f.profile = p /\ f.subject = s} = {} THEN Null
                        ELSE Summary(testimony, p, s)
    BY DEF FocusMatchesEvidence
  <1>1. Summary(testimony, p, s) = SummaryOf(Linked(testimony, p, s))
    BY SummaryIsOfLinked
  <1>2. QED
    BY <1>1 DEF FocusCurrent, Linked

LEMMA InitSumming == DInit => Summing
  <1> SUFFICES ASSUME DInit PROVE Summing
    OBVIOUS
  <1>1. DirectoryTypeOK
    BY RecruitingHandlerValues DEF DInit, DirectoryTypeOK
  <1>2. EvidenceBounded
    BY FS_EmptySet DEF DInit, EvidenceBounded
  <1>3. FocusCurrent
    BY DEF DInit, FocusCurrent, Linked
  <1>4. \A r \in Requests : ~Committing(r)
    BY DEF DInit, Committing, Idle
  <1>5. QED
    BY <1>1, <1>2, <1>3, <1>4 DEF Summing, SummariesCurrent, OneCommitting

(* A request that changes no table and is not about to commit a summary.    *)
LEMMA RequestSumming ==
  ASSUME Summing, UNCHANGED directory, NEW r \in Requests, NEW h \in RecruitingHandler,
         Recruits(r, h), h.op # "COMMIT"
  PROVE  Summing'
  <1>1. /\ recruiting'[r] = h
        /\ \A q \in Requests \ {r} : recruiting'[q] = recruiting[q]
    BY DEF Summing, DirectoryTypeOK, Recruits
  <1>2. DirectoryTypeOK' /\ EvidenceBounded' /\ FocusCurrent'
    BY DEF Summing, DirectoryTypeOK, EvidenceBounded, FocusCurrent, directory, Recruits
  <1>3. \A q \in Requests : Committing(q)' => Committing(q) /\ recruiting'[q] = recruiting[q]
    BY <1>1 DEF Committing
  <1>4. SummariesCurrent' /\ OneCommitting'
    BY <1>3 DEF Summing, SummariesCurrent, OneCommitting, directory
  <1>5. QED
    BY <1>2, <1>4 DEF Summing


LEMMA CollectEvidenceSumming ==
  ASSUME Summing, NEW r \in Requests, CollectEvidence(r)
  PROVE  Summing'
  <1> DEFINE print == recruiting[r].print
             subject == print.subject
             linked == Linked(testimony \cup {print}, print.profile, subject)
             summary == IF subject = Null THEN Null ELSE SummaryOf(linked)
             h == [op |-> "COMMIT", print |-> print, name |-> recruiting[r].name,
                   existing |-> recruiting[r].existing, summary |-> summary]
  <1>1. /\ recruiting \in [Requests -> RecruitingHandler] /\ testimony \subseteq Prints
        /\ recruiting[r].op = "COLLECT"
    BY DEF Summing, DirectoryTypeOK, CollectEvidence
  <1>2. /\ print \in Prints /\ recruiting[r].name \in Names \cup {Null}
        /\ recruiting[r].existing \in BOOLEAN
    BY <1>1, RecruitingHandlers
  <1>3. UNCHANGED directory /\ recruiting' = [recruiting EXCEPT ![r] = h]
    BY SummaryIsOfLinked DEF CollectEvidence, Recruits
  <1>4. subject # Null =>
          \A q \in Requests \ {r} :
            ~(/\ recruiting[q].op = "COMMIT" /\ recruiting[q].print.profile = print.profile
              /\ recruiting[q].print.subject = subject)
    BY DEF CollectEvidence, SummaryFree
  <1>5. summary \in FocusRow \cup {Null}
    <2>1. CASE subject # Null
      <3>1. PICK n \in Nat : \A f \in testimony : Observed[f.page] <= n
        BY DEF Summing, EvidenceBounded
      <3>2. Observed[print.page] \in Nat /\ \A f \in testimony : Observed[f.page] \in Nat
        BY <1>1, <1>2, DirectoryAssumption DEF Prints
      <3>3. PICK k \in Nat : \A f \in testimony \cup {print} : Observed[f.page] <= k
        <4>1. CASE Observed[print.page] <= n
          BY <3>1, <4>1
        <4>2. CASE ~(Observed[print.page] <= n)
          <5>1. \A f \in testimony : Observed[f.page] <= Observed[print.page]
            BY <3>1, <3>2, <4>2
          <5>2. QED
            BY <3>2, <5>1
        <4>3. QED
          BY <4>1, <4>2
      <3>4. IsFiniteSet(testimony \cup {print})
        BY FS_AddElement DEF Summing, EvidenceBounded
      <3>5. linked \subseteq testimony \cup {print} /\ print \in linked
        BY DEF Linked
      <3>6. linked \in SUBSET Prints /\ linked # {} /\ IsFiniteSet(linked)
            /\ \A f \in linked : Observed[f.page] <= k
        BY <1>1, <1>2, <3>3, <3>4, <3>5, FS_Subset
      <3> HIDE DEF linked
      <3>7. SummaryOf(linked) \in FocusRow
        BY <3>6, SummaryType
      <3>8. QED
        BY <3>7
    <2>2. CASE subject = Null
      BY <2>2
    <2>3. QED
      BY <2>1, <2>2
  <1>6. h \in RecruitingHandler
    <2> HIDE DEF print, summary
    <2>1. QED
      BY <1>2, <1>5, RecruitingHandlerValues DEF h
  <1>7. h.op = "COMMIT" /\ h.print = print /\ h.summary = summary
    OBVIOUS
  <1> HIDE DEF h
  <1>8. /\ recruiting'[r] = h
        /\ \A q \in Requests \ {r} : recruiting'[q] = recruiting[q]
    BY <1>1, <1>3
  <1>9. DirectoryTypeOK' /\ EvidenceBounded' /\ FocusCurrent'
    BY <1>1, <1>3, <1>6
    DEF Summing, DirectoryTypeOK, EvidenceBounded, FocusCurrent, directory
  <1>10. /\ \A q \in Requests \ {r} :
              (Committing(q)' <=> Committing(q)) /\ recruiting'[q] = recruiting[q]
         /\ Committing(r)' <=> subject # Null
    BY <1>7, <1>8 DEF Committing
  <1>11. SummariesCurrent'
    <2>1. ASSUME NEW q \in Requests \ {r}, Committing(q)
          PROVE  recruiting[q].summary =
                   SummaryOf(Linked(testimony \cup {recruiting[q].print},
                                    recruiting[q].print.profile, recruiting[q].print.subject))
      BY <2>1 DEF Summing, SummariesCurrent
    <2>2. subject # Null => h.summary = SummaryOf(Linked(testimony \cup {h.print},
                                                         h.print.profile, h.print.subject))
      BY <1>7
    <2>3. UNCHANGED testimony
      BY <1>3 DEF directory
    <2> HIDE DEF print, subject, linked, summary
    <2>4. QED
      BY <1>8, <1>10, <2>1, <2>2, <2>3 DEF SummariesCurrent
  <1>12. OneCommitting'
    <2>1. \A q \in Requests \ {r} :
            ~(/\ Committing(q)' /\ Committing(r)'
              /\ recruiting'[q].print.profile = recruiting'[r].print.profile
              /\ recruiting'[q].print.subject = recruiting'[r].print.subject)
      BY <1>4, <1>7, <1>8, <1>10 DEF Committing
    <2>2. QED
      BY <1>10, <2>1 DEF Summing, OneCommitting
  <1>13. QED
    BY <1>9, <1>11, <1>12 DEF Summing

LEMMA CommitRecruiterSumming ==
  ASSUME Summing, NEW r \in Requests, CommitRecruiter(r)
  PROVE  Summing'
  <1> DEFINE print == recruiting[r].print
             name == recruiting[r].name
             p == print.profile
             s == print.subject
  <1>1. /\ recruiting \in [Requests -> RecruitingHandler] /\ testimony \subseteq Prints
        /\ profile \in [Profiles -> Names \cup {Null}]
        /\ focused \in [Profiles \X Subjects -> FocusRow \cup {Null}]
        /\ announced \subseteq Profiles \cup Prints
        /\ recruiting[r].op = "COMMIT"
    BY DEF Summing, DirectoryTypeOK, CommitRecruiter
  <1>2. /\ print \in Prints /\ name \in Names \cup {Null}
        /\ recruiting[r].summary \in FocusRow \cup {Null}
    BY <1>1, RecruitingHandlers
  <1>3. p \in Profiles /\ s \in Subjects \cup {Null} /\ print.page \in SourcePages
    BY <1>2 DEF Prints
  <1>4. /\ testimony' = testimony \cup {print}
        /\ profile' = IF name = Null THEN profile ELSE [profile EXCEPT ![p] = name]
        /\ focused' = IF s = Null THEN focused
                      ELSE [focused EXCEPT ![<<p, s>>] = recruiting[r].summary]
        /\ announced' \subseteq announced \cup {p, print}
        /\ recruiting' = [recruiting EXCEPT ![r] = Idle]
    BY DEF CommitRecruiter, Recruits
  <1>5. /\ recruiting'[r].op = "IDLE"
        /\ \A q \in Requests \ {r} : recruiting'[q] = recruiting[q]
    BY <1>1, <1>4 DEF Idle
  <1> HIDE DEF print, name, p, s
  <1>6. DirectoryTypeOK'
    <2>1. recruiting' \in [Requests -> RecruitingHandler]
      BY <1>1, <1>4, RecruitingHandlerValues
    <2>2. profile' \in [Profiles -> Names \cup {Null}]
      BY <1>1, <1>2, <1>3, <1>4
    <2>3. focused' \in [Profiles \X Subjects -> FocusRow \cup {Null}]
      BY <1>1, <1>2, <1>3, <1>4
    <2>4. QED
      BY <1>1, <1>2, <1>3, <1>4, <2>1, <2>2, <2>3 DEF DirectoryTypeOK
  <1>7. EvidenceBounded'
    <2>1. IsFiniteSet(testimony')
      BY <1>4, FS_AddElement DEF Summing, EvidenceBounded
    <2>2. PICK n \in Nat : \A f \in testimony : Observed[f.page] <= n
      BY DEF Summing, EvidenceBounded
    <2>3. Observed[print.page] \in Nat /\ \A f \in testimony : Observed[f.page] \in Nat
      BY <1>1, <1>3, DirectoryAssumption DEF Prints
    <2>4. \E k \in Nat : \A f \in testimony' : Observed[f.page] <= k
      <3>1. CASE Observed[print.page] <= n
        BY <1>4, <2>2, <3>1
      <3>2. CASE ~(Observed[print.page] <= n)
        <4>1. \A f \in testimony' : Observed[f.page] <= Observed[print.page]
          BY <1>4, <2>2, <2>3, <3>2
        <4>2. QED
          BY <2>3, <4>1
      <3>3. QED
        BY <3>1, <3>2
    <2>5. QED
      BY <2>1, <2>4 DEF EvidenceBounded
  <1>8. \A more, c, t : c # p \/ t # s =>
          Linked(testimony' \cup more, c, t) = Linked(testimony \cup more, c, t)
    BY <1>4 DEF Linked, p, s
  <1>9. \A c, t : c # p \/ t # s => Linked(testimony', c, t) = Linked(testimony, c, t)
    BY <1>4 DEF Linked, p, s
  <1>10. s # Null => Linked(testimony', p, s) # {} /\ recruiting[r].summary = SummaryOf(Linked(testimony', p, s))
    <2>1. print \in Linked(testimony', p, s)
      BY <1>4 DEF Linked, p, s
    <2>2. s # Null => recruiting[r].summary = SummaryOf(Linked(testimony \cup {print}, p, s))
      BY <1>1 DEF Summing, SummariesCurrent, Committing, print, p, s
    <2>3. QED
      BY <1>4, <2>1, <2>2
  <1>11. FocusCurrent'
    <2>1. ASSUME NEW c \in Profiles, NEW t \in Subjects, c # p \/ t # s
          PROVE  focused'[<<c, t>>] = focused[<<c, t>>]
      BY <1>1, <1>3, <1>4, <2>1
    <2>2. s # Null => focused'[<<p, s>>] = recruiting[r].summary
      BY <1>1, <1>3, <1>4
    <2>3. ASSUME NEW c \in Profiles, NEW t \in Subjects
          PROVE  focused'[<<c, t>>] = IF Linked(testimony', c, t) = {} THEN Null
                                      ELSE SummaryOf(Linked(testimony', c, t))
      <3>1. CASE c = p /\ t = s
        <4>1. s # Null
          BY <3>1, DirectoryAssumption
        <4>2. QED
          BY <1>10, <2>2, <3>1, <4>1
      <3>2. CASE c # p \/ t # s
        BY <1>9, <2>1, <3>2 DEF Summing, FocusCurrent
      <3>3. QED
        BY <3>1, <3>2
    <2>4. QED
      BY <2>3 DEF FocusCurrent
  <1>12. /\ \A q \in Requests : Committing(q)' =>
              q # r /\ Committing(q) /\ recruiting'[q] = recruiting[q]
    BY <1>5 DEF Committing
  <1>13. SummariesCurrent'
    <2> SUFFICES ASSUME NEW q \in Requests, Committing(q), q # r, recruiting'[q] = recruiting[q]
                 PROVE  recruiting[q].summary =
                          SummaryOf(Linked(testimony' \cup {recruiting[q].print},
                                           recruiting[q].print.profile, recruiting[q].print.subject))
      BY <1>12 DEF SummariesCurrent
    <2>1. recruiting[q].print.profile # p \/ recruiting[q].print.subject # s
      BY <1>1 DEF Summing, OneCommitting, Committing, print, p, s
    <2>2. Linked(testimony' \cup {recruiting[q].print},
                 recruiting[q].print.profile, recruiting[q].print.subject)
            = Linked(testimony \cup {recruiting[q].print},
                     recruiting[q].print.profile, recruiting[q].print.subject)
      BY <1>8, <2>1
    <2>3. QED
      BY <2>2 DEF Summing, SummariesCurrent
  <1>14. OneCommitting'
    BY <1>12 DEF Summing, OneCommitting
  <1>15. QED
    BY <1>6, <1>7, <1>11, <1>13, <1>14 DEF Summing

LEMMA NextSumming == Summing /\ [DNext]_dvars => Summing'
  <1> SUFFICES ASSUME Summing, [DNext]_dvars PROVE Summing'
    OBVIOUS
  <1>1. CASE UNCHANGED dvars
    BY <1>1 DEF dvars, directory, Summing, DirectoryTypeOK, EvidenceBounded, SummariesCurrent,
                OneCommitting, FocusCurrent, Committing
  <1>2. ASSUME NEW r \in Requests, NEW name \in Names, NEW page \in SourcePages,
               NEW subject \in Subjects \cup {Null}, CreateBegins(r, name, page, subject)
        PROVE  Summing'
    <2> DEFINE h == [op |-> "CREATE", name |-> name, page |-> page, subject |-> subject]
    <2>1. h \in RecruitingHandler /\ h.op # "COMMIT"
      BY RecruitingHandlerValues
    <2>2. Recruits(r, h) /\ UNCHANGED directory
      BY <1>2 DEF CreateBegins
    <2> HIDE DEF h
    <2>3. QED
      BY <2>1, <2>2, RequestSumming
  <1>3. ASSUME NEW r \in Requests, NEW p \in Profiles, FindProfile(r, p) PROVE Summing'
    <2> DEFINE print == [profile |-> p, page |-> recruiting[r].page,
                         subject |-> recruiting[r].subject]
    <2>1. PICK existing \in BOOLEAN :
            Recruits(r, [op |-> "COLLECT", print |-> print, name |-> recruiting[r].name,
                         existing |-> existing])
      BY <1>3 DEF FindProfile
    <2> DEFINE h == [op |-> "COLLECT", print |-> print, name |-> recruiting[r].name,
                     existing |-> existing]
    <2>2. /\ recruiting[r].name \in Names /\ recruiting[r].page \in SourcePages
          /\ recruiting[r].subject \in Subjects \cup {Null}
      BY <1>3, RecruitingHandlers DEF Summing, DirectoryTypeOK, FindProfile
    <2>3. print \in Prints
      BY <2>2 DEF Prints
    <2>4. h.op # "COMMIT"
      OBVIOUS
    <2> HIDE DEF print
    <2>5. h \in RecruitingHandler
      BY <2>2, <2>3, RecruitingHandlerValues
    <2>6. Recruits(r, h) /\ UNCHANGED directory
      BY <1>3, <2>1 DEF FindProfile
    <2> HIDE DEF h
    <2>7. QED
      BY <2>4, <2>5, <2>6, RequestSumming
  <1>4. ASSUME NEW r \in Requests, NEW p \in Profiles, NEW page \in SourcePages,
               NEW subject \in Subjects \cup {Null}, AddEvidenceBegins(r, p, page, subject)
        PROVE  Summing'
    <2> DEFINE print == [profile |-> p, page |-> page, subject |-> subject]
               h == [op |-> "COLLECT", print |-> print, name |-> Null, existing |-> TRUE]
    <2>1. print \in Prints /\ h.op # "COMMIT"
      BY DEF Prints
    <2>2. Recruits(r, h) /\ UNCHANGED directory
      BY <1>4 DEF AddEvidenceBegins
    <2> HIDE DEF print
    <2>3. h \in RecruitingHandler
      BY <2>1, RecruitingHandlerValues
    <2> HIDE DEF h
    <2>4. QED
      BY <2>1, <2>2, <2>3, RequestSumming
  <1>5. ASSUME NEW r \in Requests, AbandonRecruiting(r) PROVE Summing'
    <2>1. Idle.op # "COMMIT"
      BY DEF Idle
    <2>2. QED
      BY <1>5, <2>1, RequestSumming, RecruitingHandlerValues DEF AbandonRecruiting
  <1>6. QED
    BY <1>1, <1>2, <1>3, <1>4, <1>5, CollectEvidenceSumming, CommitRecruiterSumming DEF DNext

LEMMA SummingAlways == DSpec => []Summing
  BY InitSumming, NextSumming, PTL DEF DSpec

(* Every reachable state of the recruiters' tables is well typed.           *)
THEOREM DirectoryTypeCorrect == DSpec => []DirectoryTypeOK
  <1>1. Summing => DirectoryTypeOK
    BY DEF Summing
  <1>2. QED
    BY <1>1, SummingAlways, PTL

(* The row of a school or a role family sums up all the evidence stored for *)
(* it, however many requests collect evidence for it at the same time.      *)
THEOREM FocusSumsUpEvidence == DSpec => []FocusMatchesEvidence
  <1>1. Summing => FocusMatchesEvidence
    BY FocusCurrentSuffices DEF Summing
  <1>2. QED
    BY <1>1, SummingAlways, PTL


-----------------------------------------------------------------------------
(* The syncs of a repository.  The version of a file is a choice that       *)
(* depends on the branch; here the branch is a parameter, so that the        *)
(* branches before and after a step can be compared.                        *)

IsNewest(table, f, c, n) ==
  /\ n \in 0..c /\ f \in table[n]
  /\ \A m \in (n + 1)..c : f \notin table[m]

Newest(table, f, c) ==
  CHOOSE n \in 0..c : f \in table[n] /\ f \notin UNION {table[m] : m \in (n + 1)..c}

(* A file has a newest version, for commit 0 adds every file, and only one.  *)
LEMMA NewestExists ==
  ASSUME NEW table, NEW f \in table[0], NEW c \in Nat
  PROVE  IsNewest(table, f, c, Newest(table, f, c))
  <1> DEFINE S == {n \in 0..c : f \in table[n]}
  <1>1. S \subseteq 0..c /\ 0 \in S
    OBVIOUS
  <1>2. PICK n \in S : \A m \in S : n >= m
    <2> HIDE DEF S
    <2>1. S # {}
      BY <1>1
    <2>2. QED
      BY <1>1, <2>1, LargestBelow
  <1>3. \A m \in (n + 1)..c : f \notin table[m]
    <2>1. ASSUME NEW m \in (n + 1)..c, f \in table[m] PROVE FALSE
      <3>1. m \in 0..c /\ ~(n >= m)
        BY <1>2
      <3>2. QED
        BY <1>2, <2>1, <3>1
    <2>2. QED
      BY <2>1
  <1>4. n \in 0..c /\ f \in table[n] /\ f \notin UNION {table[m] : m \in (n + 1)..c}
    BY <1>2, <1>3
  <1>5. /\ Newest(table, f, c) \in 0..c /\ f \in table[Newest(table, f, c)]
        /\ f \notin UNION {table[m] : m \in (Newest(table, f, c) + 1)..c}
    BY <1>4 DEF Newest
  <1>6. QED
    BY <1>5 DEF IsNewest

LEMMA NewestUnique ==
  ASSUME NEW table, NEW f, NEW c \in Nat, NEW m, NEW n,
         IsNewest(table, f, c, m), IsNewest(table, f, c, n)
  PROVE  m = n
  <1>1. m \in 0..c /\ n \in 0..c
    BY DEF IsNewest
  <1>2. ~(m < n) /\ ~(n < m)
    BY <1>1 DEF IsNewest
  <1>3. QED
    BY <1>1, <1>2

(* The newest version is still the newest at a later commit, and on a        *)
(* branch with the same commits so far, when no commit between changed it.   *)
LEMMA NewestKept ==
  ASSUME NEW table, NEW later, NEW f \in table[0], NEW p \in Nat, NEW c \in Nat, p <= c,
         \A n \in 0..p : later[n] = table[n],
         \A n \in (p + 1)..c : f \notin later[n]
  PROVE  Newest(later, f, c) = Newest(table, f, p)
  <1> DEFINE n == Newest(table, f, p)
  <1>1. IsNewest(table, f, p, n)
    BY NewestExists
  <1> HIDE DEF n
  <1>2. n \in 0..p /\ f \in table[n]
    BY <1>1 DEF IsNewest
  <1>3. n \in 0..c /\ f \in later[n]
    BY <1>2
  <1>4. ASSUME NEW m \in (n + 1)..c PROVE f \notin later[m]
    <2>1. CASE m <= p
      <3>1. m \in 0..p /\ m \in (n + 1)..p
        BY <1>2, <2>1
      <3>2. QED
        BY <1>1, <3>1 DEF IsNewest
    <2>2. CASE ~(m <= p)
      <3>1. m \in (p + 1)..c
        BY <1>2, <2>2
      <3>2. QED
        BY <3>1
    <2>3. QED
      BY <2>1, <2>2
  <1>5. IsNewest(later, f, c, n)
    BY <1>3, <1>4 DEF IsNewest
  <1>6. f \in later[0]
    BY <1>2
  <1>7. Newest(later, f, c) = n
    BY <1>5, <1>6, NewestExists, NewestUnique
  <1>8. QED
    BY <1>7 DEF n

-----------------------------------------------------------------------------
(* What a sync remembers, in the terms the steps change it.                 *)
SyncRow == [at : {"IDLE", "READ", "OPEN", "LOOKED", "DONE", "FAILED"},
            previous : Commits \cup {Null}, files : SUBSET Files,
            current : Commits \cup {Null}]

At(s, place) == [s EXCEPT !.at = place]
LookedAt(s, commit) == [s EXCEPT !.at = "LOOKED", !.current = commit]
TakenAt(previous, files) == [NoSync EXCEPT !.at = "READ", !.previous = previous, !.files = files]

LEMMA RowsOfSyncs ==
  /\ \A s \in SyncRow, place \in {"IDLE", "READ", "OPEN", "LOOKED", "DONE", "FAILED"} :
       /\ At(s, place) \in SyncRow /\ At(s, place).at = place
       /\ At(s, place).previous = s.previous /\ At(s, place).files = s.files
       /\ At(s, place).current = s.current
  /\ \A s \in SyncRow, commit \in Commits :
       /\ LookedAt(s, commit) \in SyncRow /\ LookedAt(s, commit).at = "LOOKED"
       /\ LookedAt(s, commit).previous = s.previous /\ LookedAt(s, commit).files = s.files
       /\ LookedAt(s, commit).current = commit
  /\ \A previous \in Commits \cup {Null}, files \in SUBSET Files :
       /\ TakenAt(previous, files) \in SyncRow /\ TakenAt(previous, files).at = "READ"
       /\ TakenAt(previous, files).previous = previous /\ TakenAt(previous, files).files = files
  /\ NoSync \in SyncRow /\ NoSync.at = "IDLE"
  /\ At(NoSync, "FAILED") \in SyncRow
  <1>1. ASSUME NEW s \in SyncRow, NEW place \in {"IDLE", "READ", "OPEN", "LOOKED", "DONE", "FAILED"}
        PROVE  /\ At(s, place) \in SyncRow /\ At(s, place).at = place
               /\ At(s, place).previous = s.previous /\ At(s, place).files = s.files
               /\ At(s, place).current = s.current
    BY DEF SyncRow, At
  <1>2. ASSUME NEW s \in SyncRow, NEW commit \in Commits
        PROVE  /\ LookedAt(s, commit) \in SyncRow /\ LookedAt(s, commit).at = "LOOKED"
               /\ LookedAt(s, commit).previous = s.previous /\ LookedAt(s, commit).files = s.files
               /\ LookedAt(s, commit).current = commit
    BY DEF SyncRow, LookedAt
  <1>3. NoSync \in SyncRow /\ NoSync.at = "IDLE"
    BY DEF NoSync, SyncRow
  <1>4. ASSUME NEW previous \in Commits \cup {Null}, NEW files \in SUBSET Files
        PROVE  /\ TakenAt(previous, files) \in SyncRow /\ TakenAt(previous, files).at = "READ"
               /\ TakenAt(previous, files).previous = previous
               /\ TakenAt(previous, files).files = files
    BY DEF SyncRow, NoSync, TakenAt
  <1>5. QED
    BY <1>1, <1>2, <1>3, <1>4

LEMMA WatchedAreFiles ==
  ASSUME NEW table \in [Companies -> {Null} \cup [paths : Folders, enabled : BOOLEAN]]
  PROVE  WatchedFiles(table) \subseteq Files
  <1>1. \A c \in Enabled(table) : table[c].paths \in Folders
    BY DEF Enabled
  <1>2. UNION {table[c].paths : c \in Enabled(table)} \subseteq Files
    BY <1>1, GithubAssumption
  <1>3. QED
    BY <1>2 DEF WatchedFiles


LEMMA GithubInitType == GithubInit => GithubTypeOK
  <1> SUFFICES ASSUME GithubInit PROVE GithubTypeOK
    OBVIOUS
  <1>1. head \in Commits /\ changed \in [Commits -> SUBSET Files]
    BY GithubAssumption DEF GithubInit, Commits
  <1>2. syncs \in [Workers -> SyncRow]
    BY RowsOfSyncs DEF GithubInit
  <1>3. QED
    BY <1>1, <1>2 DEF GithubInit, GithubTypeOK, SyncRow

(* Commit 0 adds every file.                                                *)
FirstAddsAll == changed[0] = Files

(* A sync that has looked knows a commit of the branch.                     *)
HeadLooked == \A w \in Workers : syncs[w].at = "LOOKED" => syncs[w].current \in 0..head

LEMMA GithubStepType ==
  GithubTypeOK /\ HeadLooked /\ FirstAddsAll /\ [GithubNext]_githubvars => GithubTypeOK'
  <1> SUFFICES ASSUME GithubTypeOK, HeadLooked, FirstAddsAll, [GithubNext]_githubvars PROVE GithubTypeOK'
    OBVIOUS
  <1>R. \A w \in Workers : syncs[w] \in SyncRow
    BY DEF GithubTypeOK, SyncRow
  <1>S. ASSUME NEW w \in Workers, NEW s \in SyncRow, syncs' = [syncs EXCEPT ![w] = s]
        PROVE  syncs' \in [Workers -> SyncRow]
    BY <1>S DEF GithubTypeOK, SyncRow
  <1>T. ASSUME NEW w \in Workers
        PROVE  Orphaned(w) \in Workers \cup {Null, "ORPHAN"}
    BY DEF GithubTypeOK, Orphaned
  <1>U. ASSUME NEW status \in {"PENDING", "SUCCEEDED", "FAILED"}
        PROVE  Settled(status) \in {"NONE", "PENDING", "RUNNING", "SUCCEEDED", "FAILED"}
    BY DEF GithubTypeOK, Settled
  <1>C. ASSUME NEW w \in Workers, syncs[w].at = "LOOKED"
        PROVE  syncs[w].current \in Commits /\ syncs[w].current # Null
    <2>1. syncs[w].current \in 0..head /\ head \in 0..MaxHead
      BY <1>C DEF HeadLooked, GithubTypeOK, Commits
    <2>2. QED
      BY <2>1, GithubAssumption DEF Commits
  <1>1. ASSUME NEW files \in SUBSET Files \ {{}}, Commit(files) PROVE GithubTypeOK'
    <2>1. head' \in Commits /\ changed' \in [Commits -> SUBSET Files]
      BY <1>1, GithubAssumption DEF GithubTypeOK, Commit, Commits
    <2>2. QED
      BY <1>1, <2>1 DEF GithubTypeOK, Commit
  <1>2. ASSUME NEW c \in Companies, NEW paths \in Folders, NEW enabled \in BOOLEAN,
               Attach(c, paths, enabled)
        PROVE  GithubTypeOK'
    <2>1. links' \in [Companies -> {Null} \cup [paths : Folders, enabled : BOOLEAN]]
      BY <1>2 DEF GithubTypeOK, Attach
    <2>2. WatchedFiles(links') \subseteq Files
      BY <2>1, WatchedAreFiles
    <2>3. steady' \subseteq Files
      BY <1>2, <2>2 DEF GithubTypeOK, Attach
    <2>4. QED
      BY <1>2, <2>1, <2>3 DEF GithubTypeOK, Attach
  <1>3. CASE EnqueueSync
    BY <1>3 DEF GithubTypeOK, EnqueueSync, repovars
  <1>4. ASSUME NEW w \in Workers, Take(w) PROVE GithubTypeOK'
    <2>1. WatchedFiles(links) \in SUBSET Files /\ processed \in Commits \cup {Null}
      BY WatchedAreFiles DEF GithubTypeOK
    <2>2. PICK s \in SyncRow : syncs' = [syncs EXCEPT ![w] = s]
      <3>1. TakenAt(processed, WatchedFiles(links)) \in SyncRow /\ At(NoSync, "FAILED") \in SyncRow
        BY <2>1, RowsOfSyncs
      <3>2. QED
        BY <1>4, <3>1 DEF Take, TakenAt, At
    <2>3. syncs' \in [Workers -> SyncRow]
      BY <1>S, <2>2
    <2>4. QED
      BY <1>4, <2>3 DEF GithubTypeOK, Take, repovars, SyncRow
  <1>5. ASSUME NEW w \in Workers, CreateSyncRun(w) PROVE GithubTypeOK'
    <2>1. PICK s \in SyncRow : syncs' = [syncs EXCEPT ![w] = s]
      <3>1. At(syncs[w], "OPEN") \in SyncRow /\ At(syncs[w], "FAILED") \in SyncRow
        BY <1>R, RowsOfSyncs
      <3>2. QED
        BY <1>5, <3>1 DEF CreateSyncRun, At
    <2>2. syncs' \in [Workers -> SyncRow]
      BY <1>S, <2>1
    <2>3. QED
      BY <1>5, <2>2 DEF GithubTypeOK, CreateSyncRun, repovars, SyncRow
  <1>6. ASSUME NEW w \in Workers, LatestCommit(w) PROVE GithubTypeOK'
    <2>1. LookedAt(syncs[w], head) \in SyncRow
      BY <1>R, RowsOfSyncs DEF GithubTypeOK
    <2>2. syncs' = [syncs EXCEPT ![w] = LookedAt(syncs[w], head)]
      BY <1>6 DEF LatestCommit, LookedAt
    <2>3. syncs' \in [Workers -> SyncRow]
      BY <1>S, <2>1, <2>2
    <2>4. QED
      BY <1>6, <2>3 DEF GithubTypeOK, LatestCommit, repovars, SyncRow
  <1>7. ASSUME NEW w \in Workers, CompleteUnchanged(w) PROVE GithubTypeOK'
    <2>1. At(syncs[w], "DONE") \in SyncRow
      BY <1>R, RowsOfSyncs
    <2>2. syncs' = [syncs EXCEPT ![w] = At(syncs[w], "DONE")]
      BY <1>7 DEF CompleteUnchanged, At
    <2>3. syncs' \in [Workers -> SyncRow]
      BY <1>S, <2>1, <2>2
    <2>4. syncs[w].current \in Commits /\ syncs[w].current # Null
      BY <1>7, <1>C DEF CompleteUnchanged
    <2>5. asked' \in {"NONE", "PENDING", "RUNNING", "SUCCEEDED", "FAILED"}
      BY <1>7, <1>U DEF CompleteUnchanged
    <2>6. QED
      BY <1>7, <2>3, <2>4, <2>5 DEF GithubTypeOK, CompleteUnchanged, repovars, SyncRow
  <1>8. ASSUME NEW w \in Workers, NEW complete \in BOOLEAN, PersistSync(w, complete)
        PROVE  GithubTypeOK'
    <2>1. At(syncs[w], "DONE") \in SyncRow
      BY <1>R, RowsOfSyncs
    <2>2. syncs' = [syncs EXCEPT ![w] = At(syncs[w], "DONE")]
      BY <1>8 DEF PersistSync, At
    <2>3. syncs' \in [Workers -> SyncRow]
      BY <1>S, <2>1, <2>2
    <2>4. syncs[w].current \in Commits /\ syncs[w].current # Null
      BY <1>8, <1>C DEF PersistSync
    <2>5. asked' \in {"NONE", "PENDING", "RUNNING", "SUCCEEDED", "FAILED"}
      BY <1>8, <1>U DEF PersistSync
    <2>6. parsed' \in [Files -> Commits \cup {Null}]
      <3>1. ASSUME NEW f \in Files
            PROVE  VersionAt(f, syncs[w].current) \in Commits
        <4>1. f \in changed[0] /\ syncs[w].current \in Nat
          BY <2>4, GithubAssumption DEF Commits, FirstAddsAll
        <4>2. IsNewest(changed, f, syncs[w].current, VersionAt(f, syncs[w].current))
          BY <4>1, NewestExists DEF VersionAt, ChangedIn, Newest
        <4>3. QED
          BY <4>2, <2>4, GithubAssumption DEF IsNewest, Commits
      <3>2. QED
        BY <1>8, <3>1 DEF PersistSync, GithubTypeOK
    <2>7. QED
      BY <1>8, <2>3, <2>4, <2>5, <2>6 DEF GithubTypeOK, PersistSync, repovars, SyncRow
  <1>9. ASSUME NEW w \in Workers, FailSync(w) PROVE GithubTypeOK'
    <2>1. syncs' = [syncs EXCEPT ![w] = At(syncs[w], "FAILED")]
      BY <1>9 DEF FailSync, At
    <2>2. syncs' \in [Workers -> SyncRow]
      BY <1>S, <1>R, <2>1, RowsOfSyncs
    <2>3. asked' \in {"NONE", "PENDING", "RUNNING", "SUCCEEDED", "FAILED"}
      BY <1>9, <1>U DEF FailSync
    <2>4. QED
      BY <1>9, <2>2, <2>3 DEF GithubTypeOK, FailSync, repovars, SyncRow
  <1>10. ASSUME NEW w \in Workers, HeartbeatFails(w) PROVE GithubTypeOK'
    <2>1. syncs' = [syncs EXCEPT ![w] = At(syncs[w], "FAILED")]
      BY <1>10 DEF HeartbeatFails, At
    <2>2. syncs' \in [Workers -> SyncRow]
      BY <1>S, <1>R, <2>1, RowsOfSyncs
    <2>3. QED
      BY <1>10, <2>2 DEF GithubTypeOK, HeartbeatFails, repovars, SyncRow
  <1>11. ASSUME NEW w \in Workers, NEW retry \in BOOLEAN, FinishAttempt(w, retry)
         PROVE  GithubTypeOK'
    <2>1. syncs' \in [Workers -> SyncRow]
      BY <1>11, <1>S, RowsOfSyncs DEF FinishAttempt
    <2>2. /\ lease' \in {Null, "READY"} \cup Workers
          /\ asked' \in {"NONE", "PENDING", "RUNNING", "SUCCEEDED", "FAILED"}
      BY <1>11 DEF FinishAttempt, GithubTypeOK
    <2>3. QED
      BY <1>11, <1>T, <2>1, <2>2 DEF GithubTypeOK, FinishAttempt, repovars, SyncRow
  <1>12. ASSUME NEW w \in Workers, NEW retry \in BOOLEAN, ReapLease(w, retry)
         PROVE  GithubTypeOK'
    BY <1>12 DEF GithubTypeOK, ReapLease, repovars
  <1>13. ASSUME NEW w \in Workers, Dies(w) PROVE GithubTypeOK'
    <2>1. syncs' \in [Workers -> SyncRow]
      BY <1>13, <1>S, RowsOfSyncs DEF Dies
    <2>2. QED
      BY <1>13, <1>T, <2>1 DEF GithubTypeOK, Dies, repovars, SyncRow
  <1>14. CASE UNCHANGED githubvars
    BY <1>14 DEF GithubTypeOK, githubvars
  <1>15. QED
    BY <1>1, <1>2, <1>3, <1>4, <1>5, <1>6, <1>7, <1>8, <1>9, <1>10, <1>11, <1>12, <1>13, <1>14
    DEF GithubNext


-----------------------------------------------------------------------------
(* What a sync has read stays true of it: what it is to parse includes the  *)
(* files always watched, and the commit it compares with is not after the   *)
(* one processed since.  What it looked at is of the branch, and while its  *)
(* run is the running one nothing newer was processed.  A sync that lost    *)
(* its run may have looked at an older commit; persist_sync refuses it.     *)
ReadBefore(s, always, done) ==
  s.at \in {"READ", "OPEN", "LOOKED"} =>
    /\ always \subseteq s.files
    /\ s.previous # Null => done # Null /\ s.previous <= done

LookedAfter(s, running, done, newest) ==
  s.at = "LOOKED" =>
    /\ s.current \in 0..newest
    /\ running => done = Null \/ done <= s.current

Syncing ==
  /\ GithubTypeOK
  /\ FirstAddsAll
  /\ processed # Null => processed <= head
  /\ steady \subseteq WatchedFiles(links)
  /\ \A w \in Workers : ReadBefore(syncs[w], steady, processed)
  /\ \A w \in Workers : LookedAfter(syncs[w], run = w, processed, head)
  /\ NothingSkipped

LEMMA SyncingLooked == Syncing => HeadLooked /\ GithubTypeOK /\ FirstAddsAll
  BY DEF Syncing, LookedAfter, HeadLooked

LEMMA SkippedByBranch ==
  /\ NothingSkipped <=>
       (processed # Null => \A f \in steady : parsed[f] = Newest(changed, f, processed))
  /\ NothingSkipped' <=>
       (processed' # Null => \A f \in steady' : parsed'[f] = Newest(changed', f, processed'))
  BY DEF NothingSkipped, VersionAt, ChangedIn, Newest

LEMMA SyncingInit == GithubInit => Syncing
  <1> SUFFICES ASSUME GithubInit PROVE Syncing
    OBVIOUS
  <1>1. GithubTypeOK
    BY GithubInitType
  <1>2. FirstAddsAll
    BY GithubAssumption DEF GithubInit, FirstAddsAll, Commits
  <1>3. \A w \in Workers : syncs[w].at = "IDLE"
    BY DEF GithubInit, NoSync
  <1>4. QED
    BY <1>1, <1>2, <1>3 DEF GithubInit, Syncing, ReadBefore, LookedAfter, NothingSkipped

(* A step that changes no branch, no commit processed and no record, and    *)
(* only the row of one sync, keeps what it should when the row does.         *)
LEMMA SyncingRowStep ==
  ASSUME Syncing, GithubTypeOK', NEW w \in Workers, NEW s \in SyncRow,
         syncs' = [syncs EXCEPT ![w] = s],
         UNCHANGED <<repovars, processed, parsed, steady>>,
         ReadBefore(s, steady, processed),
         LookedAfter(s, run' = w, processed, head),
         \A v \in Workers \ {w} : run' = v => run = v
  PROVE  Syncing'
  <1>1. \A v \in Workers : syncs'[v] = IF v = w THEN s ELSE syncs[v]
    BY DEF Syncing, GithubTypeOK
  <1>2. \A v \in Workers : ReadBefore(syncs'[v], steady, processed)
    BY <1>1 DEF Syncing
  <1>3. ASSUME NEW v \in Workers PROVE LookedAfter(syncs'[v], run' = v, processed, head)
    <2>1. LookedAfter(syncs[v], run = v, processed, head)
      BY DEF Syncing
    <2>2. QED
      BY <1>1, <2>1 DEF LookedAfter
  <1>4. FirstAddsAll' /\ NothingSkipped'
    BY SkippedByBranch DEF Syncing, FirstAddsAll, repovars
  <1>5. QED
    BY <1>2, <1>3, <1>4 DEF Syncing, repovars

LEMMA SyncingCommit ==
  ASSUME Syncing, GithubTypeOK', NEW files \in SUBSET Files, Commit(files)
  PROVE  Syncing'
  <1>1. /\ head \in Nat /\ head' = head + 1 /\ head + 1 \in Commits
        /\ changed' = [changed EXCEPT ![head + 1] = files]
        /\ UNCHANGED <<links, watching, processed, parsed, run, syncs, steady>>
    BY GithubAssumption DEF Syncing, GithubTypeOK, Commit, Commits
  <1>2. \A n \in 0..head : changed'[n] = changed[n]
    BY <1>1 DEF Syncing, GithubTypeOK, Commits
  <1>3. FirstAddsAll'
    BY <1>1, <1>2 DEF Syncing, FirstAddsAll
  <1>4. ASSUME NEW w \in Workers
        PROVE  LookedAfter(syncs[w], run = w, processed, head + 1)
    BY <1>1 DEF Syncing, LookedAfter
  <1>5. ASSUME processed # Null, NEW f \in steady
        PROVE  parsed[f] = Newest(changed', f, processed)
    <2>1. processed \in Nat /\ processed <= head
      BY <1>5, GithubAssumption DEF Syncing, GithubTypeOK, Commits
    <2>2. f \in changed[0]
      BY DEF Syncing, GithubTypeOK, FirstAddsAll
    <2>3. \A n \in 0..processed : changed'[n] = changed[n]
      BY <1>1, <1>2, <2>1
    <2>4. \A n \in (processed + 1)..processed : f \notin changed'[n]
      BY <2>1
    <2>5. Newest(changed', f, processed) = Newest(changed, f, processed)
      BY <2>1, <2>2, <2>3, <2>4, NewestKept
    <2>6. QED
      BY <1>5, <2>5, SkippedByBranch DEF Syncing
  <1>6. NothingSkipped'
    BY <1>1, <1>5, SkippedByBranch
  <1>7. processed # Null => processed <= head + 1
    BY <1>1, GithubAssumption DEF Syncing, GithubTypeOK, Commits
  <1>8. QED
    BY <1>1, <1>3, <1>4, <1>6, <1>7 DEF Syncing

(* Attaching a repository only makes the set of files always watched        *)
(* smaller once something was processed or a sync is on its way.             *)
LEMMA SyncingAttach ==
  ASSUME Syncing, GithubTypeOK', NEW c \in Companies, NEW paths \in Folders,
         NEW enabled \in BOOLEAN, Attach(c, paths, enabled)
  PROVE  Syncing'
  <1>1. UNCHANGED <<head, changed, processed, parsed, run, syncs>>
    BY DEF Attach
  <1>2. steady' \subseteq WatchedFiles(links')
    BY DEF Attach
  <1>3. CASE processed = Null /\ \A w \in Workers : syncs[w].at = "IDLE"
    BY <1>1, <1>2, <1>3 DEF Syncing, FirstAddsAll, ReadBefore, LookedAfter, NothingSkipped
  <1>4. CASE ~(processed = Null /\ \A w \in Workers : syncs[w].at = "IDLE")
    <2>1. steady' \subseteq steady
      BY <1>4 DEF Attach
    <2>2. NothingSkipped'
      BY <1>1, <2>1, SkippedByBranch DEF Syncing
    <2>3. \A w \in Workers : ReadBefore(syncs[w], steady', processed)
      BY <2>1 DEF Syncing, ReadBefore
    <2>4. QED
      BY <1>1, <1>2, <2>2, <2>3 DEF Syncing, FirstAddsAll
  <1>5. QED
    BY <1>3, <1>4

(* What a sync persists is, of each file always watched, the version at the *)
(* commit it looked at: it parsed the file now, or no commit since the one   *)
(* it compared with changed it, and so none since the one processed last,    *)
(* which is not before that.                                                *)
LEMMA SyncingPersist ==
  ASSUME Syncing, GithubTypeOK', NEW w \in Workers, NEW complete \in BOOLEAN,
         PersistSync(w, complete)
  PROVE  Syncing'
  <1> DEFINE c == syncs[w].current
             known == Relevant(syncs[w], complete)
  <1>1. /\ syncs[w].at = "LOOKED" /\ run = w
        /\ processed' = c /\ run' = Null
        /\ parsed' = [f \in Files |-> IF f \in known THEN VersionAt(f, c) ELSE parsed[f]]
        /\ syncs' = [syncs EXCEPT ![w] = At(syncs[w], "DONE")]
        /\ UNCHANGED <<head, changed, links, watching, steady>>
    BY DEF PersistSync, RunActive, At, repovars
  <1>2. c \in 0..head /\ head \in Nat /\ (processed = Null \/ processed <= c)
    BY <1>1 DEF Syncing, LookedAfter, GithubTypeOK, Commits
  <1>3. ReadBefore(syncs[w], steady, processed) /\ syncs[w] \in SyncRow
    BY DEF Syncing, GithubTypeOK, SyncRow
  <1>4. ASSUME NEW f \in steady PROVE parsed'[f] = Newest(changed, f, c)
    <2>1. f \in Files /\ f \in changed[0]
      BY DEF Syncing, GithubTypeOK, FirstAddsAll
    <2>2. CASE f \in known
      BY <1>1, <2>1, <2>2 DEF VersionAt, ChangedIn, Newest
    <2>3. CASE f \notin known
      <3>1. f \in syncs[w].files
        BY <1>1, <1>3 DEF ReadBefore
      <3>2. syncs[w].previous # Null /\ f \notin ChangedIn(syncs[w].previous, c)
        BY <2>3, <3>1 DEF Relevant
      <3>3. processed # Null /\ syncs[w].previous <= processed
        BY <1>1, <1>3, <3>2 DEF ReadBefore
      <3>4. processed \in Nat /\ syncs[w].previous \in Nat /\ processed <= c
        BY <1>2, <1>3, <3>2, <3>3, GithubAssumption DEF Syncing, GithubTypeOK, Commits, SyncRow
      <3>5. \A n \in (processed + 1)..c : f \notin changed[n]
        <4>1. ASSUME NEW n \in (processed + 1)..c PROVE n \in (syncs[w].previous + 1)..c
          BY <1>2, <3>3, <3>4
        <4>2. QED
          BY <3>2, <4>1 DEF ChangedIn
      <3>6. Newest(changed, f, c) = Newest(changed, f, processed)
        <4> DEFINE p == processed
                   table == changed
        <4>1. p \in Nat /\ c \in Nat /\ p <= c /\ f \in table[0]
          BY <1>2, <2>1, <3>4
        <4>2. \A n \in (p + 1)..c : f \notin table[n]
          BY <3>5
        <4> HIDE DEF p, c, table
        <4>3. Newest(table, f, c) = Newest(table, f, p)
          BY <4>1, <4>2, NewestKept
        <4>4. QED
          BY <4>3 DEF p, table
      <3>7. parsed[f] = Newest(changed, f, processed)
        BY <3>3, SkippedByBranch DEF Syncing
      <3>8. QED
        BY <1>1, <2>1, <2>3, <3>6, <3>7
    <2>4. QED
      BY <2>2, <2>3
  <1>5. NothingSkipped'
    BY <1>1, <1>4, SkippedByBranch
  <1>6. \A v \in Workers : syncs'[v] = IF v = w THEN At(syncs[w], "DONE") ELSE syncs[v]
    BY <1>1 DEF Syncing, GithubTypeOK
  <1>7. At(syncs[w], "DONE").at = "DONE"
    BY <1>3, RowsOfSyncs
  <1>8. ASSUME NEW v \in Workers PROVE ReadBefore(syncs'[v], steady, c)
    <2>1. CASE v = w
      BY <1>6, <1>7, <2>1 DEF ReadBefore
    <2>2. CASE v # w
      <3>1. ReadBefore(syncs[v], steady, processed) /\ syncs[v] \in SyncRow
        BY DEF Syncing, GithubTypeOK, SyncRow
      <3>2. ASSUME syncs[v].at \in {"READ", "OPEN", "LOOKED"}, syncs[v].previous # Null
            PROVE  syncs[v].previous <= c
        BY <1>2, <3>1, <3>2, GithubAssumption
        DEF ReadBefore, Syncing, GithubTypeOK, Commits, SyncRow
      <3>3. c # Null
        BY <1>2, GithubAssumption
      <3>4. QED
        BY <1>6, <2>2, <3>1, <3>2, <3>3 DEF ReadBefore
    <2>3. QED
      BY <2>1, <2>2
  <1>9. ASSUME NEW v \in Workers PROVE LookedAfter(syncs'[v], run' = v, c, head)
    <2>1. run' # v
      BY <1>1, GithubAssumption
    <2>2. LookedAfter(syncs[v], run = v, processed, head)
      BY DEF Syncing
    <2>3. QED
      BY <1>6, <1>7, <2>1, <2>2 DEF LookedAfter
  <1>10. FirstAddsAll'
    BY <1>1 DEF Syncing, FirstAddsAll
  <1> HIDE DEF c
  <1>11. QED
    BY <1>1, <1>2, <1>5, <1>8, <1>9, <1>10 DEF Syncing


LEMMA SyncingStep == Syncing /\ [GithubNext]_githubvars => Syncing'
  <1> SUFFICES ASSUME Syncing, [GithubNext]_githubvars PROVE Syncing'
    OBVIOUS
  <1>T. GithubTypeOK'
    BY SyncingLooked, GithubStepType
  <1>R. \A w \in Workers : syncs[w] \in SyncRow
    BY DEF Syncing, GithubTypeOK, SyncRow
  <1>Q. \A w \in Workers : /\ ReadBefore(syncs[w], steady, processed)
                            /\ LookedAfter(syncs[w], run = w, processed, head)
    BY DEF Syncing
  <1>N. processed \in Nat \cup {Null} /\ head \in Nat
    BY GithubAssumption DEF Syncing, GithubTypeOK, Commits
  <1>D. ASSUME NEW w \in Workers, NEW place \in {"DONE", "FAILED"}
        PROVE  /\ At(syncs[w], place) \in SyncRow
               /\ ReadBefore(At(syncs[w], place), steady, processed)
               /\ LookedAfter(At(syncs[w], place), run' = w, processed, head)
    BY <1>R, RowsOfSyncs DEF ReadBefore, LookedAfter
  <1>I. /\ NoSync \in SyncRow /\ ReadBefore(NoSync, steady, processed)
        /\ \A w \in Workers : LookedAfter(NoSync, run' = w, processed, head)
    BY RowsOfSyncs DEF ReadBefore, LookedAfter
  <1>O. ASSUME NEW w \in Workers, NEW v \in Workers, Orphaned(w) = v
        PROVE  run = v
    BY <1>O, WorkerNameAssumption DEF Orphaned
  <1>1. ASSUME NEW files \in SUBSET Files \ {{}}, Commit(files) PROVE Syncing'
    BY <1>T, <1>1, SyncingCommit
  <1>2. ASSUME NEW c \in Companies, NEW paths \in Folders, NEW enabled \in BOOLEAN,
               Attach(c, paths, enabled)
        PROVE  Syncing'
    BY <1>T, <1>2, SyncingAttach
  <1>3. CASE EnqueueSync
    BY <1>T, <1>3, SkippedByBranch DEF EnqueueSync, repovars, Syncing, FirstAddsAll
  <1>4. ASSUME NEW w \in Workers, Take(w) PROVE Syncing'
    <2> DEFINE s == TakenAt(processed, WatchedFiles(links))
               t == At(NoSync, "FAILED")
    <2>1. UNCHANGED <<repovars, processed, parsed, run, steady>>
      BY <1>4 DEF Take
    <2>2. WatchedFiles(links) \in SUBSET Files /\ processed \in Commits \cup {Null}
      BY WatchedAreFiles DEF Syncing, GithubTypeOK
    <2>3. /\ s \in SyncRow /\ s.at = "READ" /\ s.previous = processed
          /\ s.files = WatchedFiles(links)
          /\ t \in SyncRow /\ t.at = "FAILED"
      BY <2>2, RowsOfSyncs
    <2>4. ReadBefore(s, steady, processed) /\ LookedAfter(s, run' = w, processed, head)
      <3> HIDE DEF s
      <3>1. QED
        BY <2>3, <1>N DEF ReadBefore, LookedAfter, Syncing
    <2>5. ReadBefore(t, steady, processed) /\ LookedAfter(t, run' = w, processed, head)
      <3> HIDE DEF t
      <3>1. QED
        BY <2>3 DEF ReadBefore, LookedAfter
    <2>6. syncs' = [syncs EXCEPT ![w] = s] \/ syncs' = [syncs EXCEPT ![w] = t]
      BY <1>4 DEF Take, TakenAt, At
    <2> HIDE DEF s, t
    <2>7. QED
      BY <1>T, <2>1, <2>3, <2>4, <2>5, <2>6, SyncingRowStep
  <1>5. ASSUME NEW w \in Workers, CreateSyncRun(w) PROVE Syncing'
    <2>1. UNCHANGED <<repovars, processed, parsed, steady>> /\ run' \in {run, w}
      BY <1>5 DEF CreateSyncRun
    <2>2. \A v \in Workers \ {w} : run' = v => run = v
      BY <2>1
    <2>3. CASE syncs' = [syncs EXCEPT ![w] = At(syncs[w], "OPEN")]
      <3>1. At(syncs[w], "OPEN") \in SyncRow
        BY <1>R, RowsOfSyncs
      <3>2. /\ ReadBefore(At(syncs[w], "OPEN"), steady, processed)
            /\ LookedAfter(At(syncs[w], "OPEN"), run' = w, processed, head)
        BY <1>5, <1>R, <1>Q, RowsOfSyncs DEF CreateSyncRun, ReadBefore, LookedAfter
      <3>3. QED
        BY <1>T, <2>1, <2>2, <2>3, <3>1, <3>2, SyncingRowStep
    <2>4. CASE syncs' = [syncs EXCEPT ![w] = At(syncs[w], "FAILED")]
      BY <1>T, <1>D, <2>1, <2>2, <2>4, SyncingRowStep
    <2>5. QED
      BY <1>5, <2>3, <2>4 DEF CreateSyncRun, At
  <1>6. ASSUME NEW w \in Workers, LatestCommit(w) PROVE Syncing'
    <2> DEFINE s == LookedAt(syncs[w], head)
    <2>1. /\ syncs[w].at = "OPEN" /\ syncs' = [syncs EXCEPT ![w] = s]
          /\ UNCHANGED <<repovars, processed, parsed, run, steady>>
      BY <1>6 DEF LatestCommit, LookedAt
    <2>2. /\ s \in SyncRow /\ s.at = "LOOKED" /\ s.previous = syncs[w].previous
          /\ s.files = syncs[w].files /\ s.current = head
      BY <1>R, RowsOfSyncs DEF Syncing, GithubTypeOK
    <2> HIDE DEF s
    <2>3. ReadBefore(s, steady, processed)
      BY <1>Q, <2>1, <2>2 DEF ReadBefore
    <2>4. LookedAfter(s, run' = w, processed, head)
      BY <1>N, <2>2 DEF LookedAfter, Syncing
    <2>5. QED
      BY <1>T, <2>1, <2>2, <2>3, <2>4, SyncingRowStep
  <1>7. ASSUME NEW w \in Workers, CompleteUnchanged(w) PROVE Syncing'
    <2>1. /\ syncs' = [syncs EXCEPT ![w] = At(syncs[w], "DONE")]
          /\ UNCHANGED <<repovars, processed, parsed, steady>>
          /\ run' \in {run, Null}
      BY <1>7 DEF CompleteUnchanged, At
    <2>2. \A v \in Workers \ {w} : run' = v => run = v
      BY <2>1, GithubAssumption
    <2>3. QED
      BY <1>T, <1>D, <2>1, <2>2, SyncingRowStep
  <1>8. ASSUME NEW w \in Workers, NEW complete \in BOOLEAN, PersistSync(w, complete)
        PROVE  Syncing'
    BY <1>T, <1>8, SyncingPersist
  <1>9. ASSUME NEW w \in Workers, FailSync(w) PROVE Syncing'
    <2>1. /\ syncs' = [syncs EXCEPT ![w] = At(syncs[w], "FAILED")]
          /\ UNCHANGED <<repovars, processed, parsed, steady>>
          /\ run' \in {run, Null}
      BY <1>9 DEF FailSync, At
    <2>2. \A v \in Workers \ {w} : run' = v => run = v
      BY <2>1, GithubAssumption
    <2>3. QED
      BY <1>T, <1>D, <2>1, <2>2, SyncingRowStep
  <1>10. ASSUME NEW w \in Workers, HeartbeatFails(w) PROVE Syncing'
    <2>1. /\ syncs' = [syncs EXCEPT ![w] = At(syncs[w], "FAILED")]
          /\ UNCHANGED <<repovars, processed, parsed, run, steady>>
      BY <1>10 DEF HeartbeatFails, At
    <2>2. QED
      BY <1>T, <1>D, <2>1, SyncingRowStep
  <1>11. ASSUME NEW w \in Workers, NEW retry \in BOOLEAN, FinishAttempt(w, retry)
         PROVE  Syncing'
    <2>1. /\ syncs' = [syncs EXCEPT ![w] = NoSync] /\ run' = Orphaned(w)
          /\ UNCHANGED <<repovars, processed, parsed, steady>>
      BY <1>11 DEF FinishAttempt
    <2>2. \A v \in Workers \ {w} : run' = v => run = v
      BY <1>O, <2>1
    <2>3. QED
      BY <1>T, <1>I, <2>1, <2>2, SyncingRowStep
  <1>12. ASSUME NEW w \in Workers, NEW retry \in BOOLEAN, ReapLease(w, retry) PROVE Syncing'
    <2>1. UNCHANGED <<repovars, processed, parsed, syncs, steady>> /\ run' \in {run, Null}
      BY <1>12 DEF ReapLease
    <2>2. ASSUME NEW v \in Workers PROVE LookedAfter(syncs[v], run' = v, processed, head)
      BY <1>Q, <2>1, GithubAssumption DEF LookedAfter
    <2>3. NothingSkipped'
      BY <2>1, SkippedByBranch DEF Syncing, repovars
    <2>4. QED
      BY <1>T, <2>1, <2>2, <2>3 DEF Syncing, FirstAddsAll, repovars
  <1>13. ASSUME NEW w \in Workers, Dies(w) PROVE Syncing'
    <2>1. /\ syncs' = [syncs EXCEPT ![w] = NoSync] /\ run' \in {run, Orphaned(w)}
          /\ UNCHANGED <<repovars, processed, parsed, steady>>
      BY <1>13 DEF Dies
    <2>2. \A v \in Workers \ {w} : run' = v => run = v
      BY <1>O, <2>1
    <2>3. QED
      BY <1>T, <1>I, <2>1, <2>2, SyncingRowStep
  <1>14. CASE UNCHANGED githubvars
    BY <1>T, <1>14, SkippedByBranch DEF githubvars, Syncing, FirstAddsAll
  <1>15. QED
    BY <1>1, <1>2, <1>3, <1>4, <1>5, <1>6, <1>7, <1>8, <1>9, <1>10, <1>11, <1>12, <1>13, <1>14
    DEF GithubNext

(* The rows about a repository are of the kinds the schema allows, also     *)
(* while a worker that lost its lease goes on (github_postgres.py).          *)
THEOREM GithubTypeCorrect == GithubSpec => []GithubTypeOK
  <1>1. GithubInit => Syncing
    BY SyncingInit
  <1>2. Syncing /\ [GithubNext]_githubvars => Syncing'
    BY SyncingStep
  <1>3. Syncing => GithubTypeOK
    BY DEF Syncing
  <1>4. QED
    BY <1>1, <1>2, <1>3, PTL DEF GithubSpec

(* However syncs are retried, interrupted or overtaken, and whoever attaches *)
(* the repository meanwhile, a file that was always watched is stored as it  *)
(* was at the commit the repository says it was processed up to              *)
(* (persist_sync, complete_unchanged and create_sync_run).                   *)
THEOREM SyncsSkipNothing == GithubSpec => []NothingSkipped
  <1>1. GithubInit => Syncing
    BY SyncingInit
  <1>2. Syncing /\ [GithubNext]_githubvars => Syncing'
    BY SyncingStep
  <1>3. Syncing => NothingSkipped
    BY DEF Syncing
  <1>4. QED
    BY <1>1, <1>2, <1>3, PTL DEF GithubSpec

-----------------------------------------------------------------------------
(* The budget of the web searches.                                          *)

LookupRow ==
  [status : {"ABSENT", "PENDING", "RUNNING", "SUCCEEDED", "FAILED"}, attempts : 0..MaxSearchAttempts]

(* A request that waits has an attempt left.                                *)
LookupOK(row) == row \in LookupRow /\ (row.status = "PENDING" => row.attempts < MaxSearchAttempts)

(* WithinLimits for a table of usage.                                       *)
Limits(table, d) ==
  /\ table[d] + 1 <= DailyLimit
  /\ SumFunctionOnSet(table, {e \in SearchDays : MonthOf[e] = MonthOf[d]}) + 1 <= MonthlyLimit

(* One search at a time holds the budget, and what it saw of it is so: a    *)
(* call it charges stays within the limits.                                 *)
Budgeting ==
  /\ today \in SearchDays
  /\ usage \in [SearchDays -> Nat]
  /\ lookups \in [LookupTargets -> LookupRow] /\ \A t \in LookupTargets : LookupOK(lookups[t])
  /\ resting \subseteq Queries
  /\ searching \in [LookupTargets -> SearchRun]
  /\ \A t \in LookupTargets : searching[t] # NoRun => lookups[t].status = "RUNNING"
  /\ \A p, q \in Queries : searching[p].at = "CHARGING" /\ searching[q].at = "CHARGING" => p = q
  /\ \A q \in Queries : searching[q].at = "CHARGING" => Limits(usage, searching[q].day)
  /\ BudgetKept

LEMMA MonthsAreFinite ==
  ASSUME NEW d \in SearchDays
  PROVE  LET month == {e \in SearchDays : MonthOf[e] = MonthOf[d]} IN
           IsFiniteSet(month) /\ month \subseteq SearchDays
  <1>1. IsFiniteSet(SearchDays)
    BY FS_Interval, WebSearchAssumption DEF SearchDays
  <1>2. QED
    BY <1>1, FS_Subset

LEMMA BudgetingInit == SearchInit => Budgeting
  <1> SUFFICES ASSUME SearchInit PROVE Budgeting
    OBVIOUS
  <1>1. \A t \in LookupTargets : LookupOK(Absent) /\ lookups[t] = Absent /\ searching[t] = NoRun
    BY WebSearchAssumption DEF SearchInit, Absent, LookupOK, LookupRow
  <1>2. BudgetKept
    <2>1. ASSUME NEW d \in SearchDays PROVE usage[d] <= DailyLimit /\ MonthUsage(d) <= MonthlyLimit
      <3>1. MonthUsage(d) = 0
        BY MonthsAreFinite, SumOfZeros DEF MonthUsage, SearchInit
      <3>2. QED
        BY <3>1, WebSearchAssumption DEF SearchInit
    <2>2. QED
      BY <2>1 DEF BudgetKept
  <1>3. NoRun \in SearchRun /\ NoRun.at = "NONE"
    BY DEF NoRun, SearchRun
  <1>4. today \in SearchDays /\ usage \in [SearchDays -> Nat] /\ resting = {}
    BY WebSearchAssumption DEF SearchInit, SearchDays
  <1>5. \A q \in Queries : searching[q].at # "CHARGING"
    BY <1>1, <1>3 DEF LookupTargets
  <1>6. lookups \in [LookupTargets -> LookupRow] /\ searching \in [LookupTargets -> SearchRun]
    BY <1>1, <1>3 DEF SearchInit, LookupOK
  <1>7. QED
    BY <1>1, <1>2, <1>4, <1>5, <1>6 DEF Budgeting

(* The runs of the targets, by the stage they are at.                       *)
LEMMA RunTypes ==
  /\ NoRun \in SearchRun /\ NoRun.at = "NONE"
  /\ \A going \in SearchRun : going.at = "NONE" => going = NoRun
  /\ \A going \in SearchRun : going.at \in {"RESERVING", "CHARGING"} => going.day \in SearchDays
  /\ \A stage \in {"CLAIMED", "STARTED", "ANSWERED", "PERSISTED"} :
       [at |-> stage] \in SearchRun /\ [at |-> stage].at = stage
  /\ \A stage \in {"RESERVING", "CHARGING"}, d \in SearchDays :
       /\ [at |-> stage, day |-> d] \in SearchRun
       /\ [at |-> stage, day |-> d].at = stage /\ [at |-> stage, day |-> d].day = d
  <1>1. /\ NoRun \in SearchRun /\ NoRun.at = "NONE"
        /\ \A going \in SearchRun : going.at = "NONE" => going = NoRun
    BY DEF NoRun, SearchRun
  <1>2. \A going \in SearchRun : going.at \in {"RESERVING", "CHARGING"} => going.day \in SearchDays
    BY DEF NoRun, SearchRun
  <1>3. \A stage \in {"CLAIMED", "STARTED", "ANSWERED", "PERSISTED"} :
          [at |-> stage] \in SearchRun /\ [at |-> stage].at = stage
    BY DEF SearchRun
  <1>4. \A stage \in {"RESERVING", "CHARGING"}, d \in SearchDays :
          /\ [at |-> stage, day |-> d] \in SearchRun
          /\ [at |-> stage, day |-> d].at = stage /\ [at |-> stage, day |-> d].day = d
    BY DEF SearchRun
  <1>5. QED
    BY <1>1, <1>2, <1>3, <1>4

(* One run goes on to a stage other than CHARGING, as its request does.     *)
LEMMA RunStep ==
  ASSUME Budgeting, NEW t \in LookupTargets, NEW going \in SearchRun, going.at # "CHARGING",
         RunIs(t, going), UNCHANGED <<today, usage>>, resting' \subseteq Queries,
         lookups' \in [LookupTargets -> LookupRow],
         \A x \in LookupTargets : LookupOK(lookups'[x]),
         \A x \in LookupTargets :
           x # t /\ lookups[x].status = "RUNNING" => lookups'[x].status = "RUNNING",
         going # NoRun => lookups'[t].status = "RUNNING"
  PROVE  Budgeting'
  <1>1. searching' \in [LookupTargets -> SearchRun]
        /\ \A x \in LookupTargets : searching'[x] = IF x = t THEN going ELSE searching[x]
    BY DEF Budgeting, RunIs
  <1>2. Queries \subseteq LookupTargets
    BY DEF LookupTargets
  <1>3. \A q \in Queries :
          searching'[q].at = "CHARGING" => q # t /\ searching'[q] = searching[q]
    BY <1>1, <1>2
  <1>4. usage' = usage
    OBVIOUS
  <1>5. BudgetKept'
    BY DEF Budgeting, BudgetKept, MonthUsage
  <1>6. \A x \in LookupTargets : searching'[x] # NoRun => lookups'[x].status = "RUNNING"
    BY <1>1 DEF Budgeting
  <1>7. \A p, q \in Queries : searching'[p].at = "CHARGING" /\ searching'[q].at = "CHARGING" => p = q
    BY <1>3 DEF Budgeting
  <1>8. \A q \in Queries : searching'[q].at = "CHARGING" => Limits(usage', searching'[q].day)
    BY <1>3, <1>4 DEF Budgeting
  <1>9. QED
    BY <1>1, <1>5, <1>6, <1>7, <1>8 DEF Budgeting

(* The requests change and no run does.                                     *)
LEMMA LookupStep ==
  ASSUME Budgeting, UNCHANGED <<usage, searching>>, today' \in SearchDays,
         resting' \subseteq Queries,
         lookups' \in [LookupTargets -> LookupRow],
         \A x \in LookupTargets : LookupOK(lookups'[x]),
         \A x \in LookupTargets : searching[x] # NoRun => lookups'[x].status = "RUNNING"
  PROVE  Budgeting'
  <1>1. BudgetKept'
    BY DEF Budgeting, BudgetKept, MonthUsage
  <1>2. QED
    BY <1>1 DEF Budgeting

LEMMA AskedRow ==
  ASSUME Budgeting, NEW t \in LookupTargets
  PROVE  /\ Asked(t) \in [LookupTargets -> LookupRow]
         /\ Asked(t)[t].status = "PENDING" /\ LookupOK(Asked(t)[t])
         /\ \A x \in LookupTargets : x # t => Asked(t)[x] = lookups[x]
  <1> DEFINE row == [status |-> "PENDING", attempts |-> 0]
  <1>1. row \in LookupRow /\ LookupOK(row) /\ row.status = "PENDING"
    BY WebSearchAssumption DEF LookupRow, LookupOK
  <1>2. lookups \in [LookupTargets -> LookupRow] /\ Asked(t) = [lookups EXCEPT ![t] = row]
    BY DEF Asked, Budgeting
  <1> HIDE DEF row
  <1>3. QED
    BY <1>1, <1>2

LEMMA RetriedRow ==
  ASSUME Budgeting, NEW t \in LookupTargets, NEW retryable \in BOOLEAN
  PROVE  /\ Retried(t, retryable) \in [LookupTargets -> LookupRow]
         /\ \A x \in LookupTargets : LookupOK(Retried(t, retryable)[x])
         /\ \A x \in LookupTargets : x # t => Retried(t, retryable)[x] = lookups[x]
  <1> DEFINE old == lookups[t]
             status == IF retryable /\ old.attempts < MaxSearchAttempts THEN "PENDING" ELSE "FAILED"
             row == [old EXCEPT !.status = status]
             next == [lookups EXCEPT ![t] = row]
  <1>1. lookups \in [LookupTargets -> LookupRow] /\ \A x \in LookupTargets : LookupOK(lookups[x])
    BY DEF Budgeting
  <1>2. old \in LookupRow
    BY <1>1
  <1>3. Retried(t, retryable) = next
    BY <1>1 DEF Retried
  <1> HIDE DEF old
  <1>4. status \in {"PENDING", "FAILED"} /\ (status = "PENDING" => old.attempts < MaxSearchAttempts)
    OBVIOUS
  <1> HIDE DEF status
  <1>5. row \in LookupRow /\ row.status = status /\ row.attempts = old.attempts
    BY <1>2, <1>4 DEF LookupRow
  <1> HIDE DEF row
  <1>6. LookupOK(row)
    BY <1>4, <1>5 DEF LookupOK
  <1>7. QED
    BY <1>1, <1>3, <1>5, <1>6

LEMMA AskingSteps ==
  ASSUME Budgeting,
         \/ \E q \in Queries : CreateWebSearchRequest(q)
         \/ \E c \in FoundPages : EnqueueWebCandidateFetch(c)
  PROVE  Budgeting'
  <1>1. ASSUME NEW t \in LookupTargets, ~Open(t), lookups' = Asked(t),
               UNCHANGED <<today, usage, resting, searching>>
        PROVE  Budgeting'
    <2>1. lookups[t].status # "RUNNING"
      BY <1>1 DEF Open
    <2>2. /\ lookups' \in [LookupTargets -> LookupRow]
          /\ \A x \in LookupTargets : LookupOK(lookups'[x])
          /\ \A x \in LookupTargets : lookups[x].status = "RUNNING" => lookups'[x] = lookups[x]
      BY <1>1, <2>1, AskedRow DEF Budgeting
    <2>3. QED
      BY <1>1, <2>2, LookupStep DEF Budgeting
  <1>2. QED
    BY <1>1 DEF CreateWebSearchRequest, EnqueueWebCandidateFetch, LookupTargets

LEMMA ClaimingStep ==
  ASSUME Budgeting, NEW t \in LookupTargets, ClaimRequest(t)
  PROVE  Budgeting'
  <1> DEFINE old == lookups[t]
             row == [status |-> "RUNNING", attempts |-> old.attempts + 1]
  <1>1. lookups \in [LookupTargets -> LookupRow] /\ \A x \in LookupTargets : LookupOK(lookups[x])
    BY DEF Budgeting
  <1>2. old \in LookupRow /\ LookupOK(old) /\ old.status = "PENDING"
        /\ lookups' = [lookups EXCEPT ![t] = row] /\ RunIs(t, [at |-> "CLAIMED"])
        /\ UNCHANGED <<today, usage, resting>>
    BY <1>1 DEF ClaimRequest
  <1> HIDE DEF old
  <1>3. row \in LookupRow /\ LookupOK(row) /\ row.status = "RUNNING"
    BY <1>2, WebSearchAssumption DEF LookupRow, LookupOK
  <1> HIDE DEF row
  <1>4. /\ lookups' \in [LookupTargets -> LookupRow] /\ lookups'[t] = row
        /\ \A x \in LookupTargets : LookupOK(lookups'[x])
        /\ \A x \in LookupTargets : x # t => lookups'[x] = lookups[x]
    BY <1>1, <1>2, <1>3
  <1>5. [at |-> "CLAIMED"] \in SearchRun /\ [at |-> "CLAIMED"].at # "CHARGING"
    BY RunTypes
  <1>6. QED
    BY <1>2, <1>3, <1>4, <1>5, RunStep DEF Budgeting

(* Runs that leave their requests alone, but for the reservation.           *)
LEMMA RunningSteps ==
  ASSUME Budgeting,
         \/ \E t \in LookupTargets : StartRun(t)
         \/ \E q \in Queries : ReserveBegins(q)
         \/ \E c \in FoundPages : PersistFetch(c)
         \/ \E t \in LookupTargets : WorkerDies(t)
  PROVE  Budgeting'
  <1>1. ASSUME NEW t \in LookupTargets, NEW going \in SearchRun, going.at # "CHARGING",
               RunIs(t, going), UNCHANGED searches, searching[t] # NoRun
        PROVE  Budgeting'
    <2>1. UNCHANGED <<today, usage, lookups, resting>>
      BY <1>1 DEF searches
    <2>2. QED
      BY <1>1, <2>1, RunStep DEF Budgeting
  <1>2. \A t \in LookupTargets : searching[t].at # "NONE" => searching[t] # NoRun
    BY RunTypes
  <1>3. today \in SearchDays
    BY DEF Budgeting
  <1>4. ASSUME NEW t \in LookupTargets, StartRun(t) PROVE Budgeting'
    BY <1>1, <1>2, <1>4, RunTypes DEF StartRun
  <1>5. ASSUME NEW q \in Queries, ReserveBegins(q) PROVE Budgeting'
    <2>1. q \in LookupTargets /\ searching[q].at # "NONE" /\ UNCHANGED searches
          /\ RunIs(q, [at |-> "RESERVING", day |-> today])
      BY <1>5 DEF ReserveBegins, LookupTargets
    <2>2. [at |-> "RESERVING", day |-> today] \in SearchRun
          /\ [at |-> "RESERVING", day |-> today].at # "CHARGING"
      BY <1>3, RunTypes
    <2>3. QED
      BY <1>1, <1>2, <2>1, <2>2
  <1>6. ASSUME NEW c \in FoundPages, PersistFetch(c) PROVE Budgeting'
    BY <1>1, <1>2, <1>6, RunTypes DEF PersistFetch, LookupTargets
  <1>7. ASSUME NEW t \in LookupTargets, WorkerDies(t) PROVE Budgeting'
    BY <1>1, <1>7, RunTypes DEF WorkerDies
  <1>8. QED
    BY <1>4, <1>5, <1>6, <1>7

(* The reservation holds the budget's row.                                  *)
LEMMA ReservingStep ==
  ASSUME Budgeting, NEW q \in Queries, Reserve(q)
  PROVE  Budgeting'
  <1> DEFINE day == searching[q].day
             going == [at |-> "CHARGING", day |-> day]
  <1>1. /\ searching[q].at = "RESERVING" /\ BudgetFree(q) /\ WithinLimits(day) /\ RunIs(q, going)
        /\ UNCHANGED <<today, usage, lookups, resting>> /\ q \in LookupTargets
    BY DEF Reserve, LookupTargets, searches
  <1>2. searching[q] \in SearchRun /\ searching[q] # NoRun
    BY <1>1, RunTypes DEF Budgeting
  <1>3. day \in SearchDays
    BY <1>1, <1>2, RunTypes
  <1> HIDE DEF day
  <1>4. going \in SearchRun /\ going.at = "CHARGING" /\ going.day = day /\ going # NoRun
    BY <1>3, RunTypes
  <1> HIDE DEF going
  <1>5. searching' \in [LookupTargets -> SearchRun]
        /\ \A x \in LookupTargets : searching'[x] = IF x = q THEN going ELSE searching[x]
    BY <1>1, <1>4 DEF Budgeting, RunIs
  <1>6. Queries \subseteq LookupTargets
    BY DEF LookupTargets
  <1>7. \A p \in Queries : searching'[p].at = "CHARGING" <=> p = q
    BY <1>1, <1>4, <1>5, <1>6 DEF BudgetFree
  <1>8. Limits(usage', day) /\ BudgetKept'
    BY <1>1 DEF Limits, WithinLimits, MonthUsage, BudgetKept, Budgeting
  <1>9. \A x \in LookupTargets : searching'[x] # NoRun => lookups'[x].status = "RUNNING"
    BY <1>1, <1>2, <1>5 DEF Budgeting
  <1>10. \A p \in Queries : searching'[p].at = "CHARGING" => Limits(usage', searching'[p].day)
    BY <1>4, <1>5, <1>6, <1>7, <1>8
  <1>11. QED
    BY <1>1, <1>5, <1>7, <1>8, <1>9, <1>10 DEF Budgeting

(* One more call of a day is one more of its month, and of no other.        *)
LEMMA ChargingStep ==
  ASSUME Budgeting, NEW q \in Queries, Charge(q)
  PROVE  Budgeting'
  <1> DEFINE day == searching[q].day
             going == [at |-> "ANSWERED"]
  <1>1. /\ searching[q].at = "CHARGING" /\ usage' = [usage EXCEPT ![day] = usage[day] + 1]
        /\ RunIs(q, going) /\ UNCHANGED <<today, lookups, resting>> /\ q \in LookupTargets
    BY DEF Charge, LookupTargets, Budgeting
  <1>2. searching[q] \in SearchRun /\ searching[q] # NoRun /\ Limits(usage, day)
    BY <1>1, RunTypes DEF Budgeting
  <1>3. day \in SearchDays /\ usage \in [SearchDays -> Nat]
    BY <1>1, <1>2, RunTypes DEF Budgeting
  <1> HIDE DEF day
  <1>4. going \in SearchRun /\ going.at = "ANSWERED"
    BY RunTypes
  <1> HIDE DEF going
  <1>5. usage' \in [SearchDays -> Nat]
        /\ \A d \in SearchDays : usage'[d] = IF d = day THEN usage[d] + 1 ELSE usage[d]
    BY <1>1, <1>3
  <1>6. ASSUME NEW d \in SearchDays
        PROVE  usage'[d] <= DailyLimit /\ MonthUsage(d)' <= MonthlyLimit
    <2> DEFINE month == {e \in SearchDays : MonthOf[e] = MonthOf[d]}
    <2>1. IsFiniteSet(month) /\ month \subseteq SearchDays
      BY MonthsAreFinite
    <2>2. usage[d] <= DailyLimit /\ MonthUsage(d) <= MonthlyLimit
      BY DEF Budgeting, BudgetKept
    <2>3. usage[day] + 1 <= DailyLimit /\ MonthUsage(day) + 1 <= MonthlyLimit
      BY <1>2 DEF Limits, MonthUsage
    <2>4. SumFunctionOnSet(usage', month) =
            SumFunctionOnSet(usage, month) + IF day \in month THEN 1 ELSE 0
      <3> HIDE DEF month
      <3>1. QED
        BY <1>3, <1>5, <2>1, SumWithOneMore
    <2>5. MonthUsage(d) = SumFunctionOnSet(usage, month)
          /\ MonthUsage(d)' = SumFunctionOnSet(usage', month)
      BY DEF MonthUsage
    <2>6. MonthUsage(d) \in Nat
      <3> HIDE DEF month
      <3>1. QED
        BY <1>3, <2>1, <2>5, SumOfNaturals
    <2>7. day \in month => MonthUsage(day) = MonthUsage(d)
      <3>1. day \in month => MonthOf[day] = MonthOf[d]
        OBVIOUS
      <3>2. QED
        BY <3>1 DEF MonthUsage
    <2> HIDE DEF month
    <2>8. DailyLimit \in Nat /\ MonthlyLimit \in Nat
      BY WebSearchAssumption
    <2>9. usage'[d] <= DailyLimit
      BY <1>3, <1>5, <2>2, <2>3, <2>8
    <2>10. MonthUsage(d)' <= MonthlyLimit
      BY <2>2, <2>3, <2>4, <2>5, <2>6, <2>7, <2>8
    <2>11. QED
      BY <2>9, <2>10
  <1>7. BudgetKept'
    BY <1>6 DEF BudgetKept
  <1>8. searching' \in [LookupTargets -> SearchRun]
        /\ \A x \in LookupTargets : searching'[x] = IF x = q THEN going ELSE searching[x]
    BY <1>1, <1>4 DEF Budgeting, RunIs
  <1>9. \A p \in Queries : searching'[p].at # "CHARGING"
    BY <1>1, <1>4, <1>8 DEF Budgeting, LookupTargets
  <1>10. \A x \in LookupTargets : searching'[x] # NoRun => lookups'[x].status = "RUNNING"
    BY <1>1, <1>2, <1>8 DEF Budgeting
  <1>11. QED
    BY <1>1, <1>5, <1>7, <1>8, <1>9, <1>10 DEF Budgeting

LEMMA PersistingStep ==
  ASSUME Budgeting, NEW q \in Queries, NEW found \in SUBSET FoundPages, PersistSearch(q, found)
  PROVE  Budgeting'
  <1>1. /\ searching[q].at \in {"STARTED", "ANSWERED"} /\ RunIs(q, [at |-> "PERSISTED"])
        /\ resting' = resting \cup {q} /\ UNCHANGED <<today, usage>> /\ q \in LookupTargets
    BY DEF PersistSearch, LookupTargets
  <1>2. lookups' = [t \in LookupTargets |->
          IF t \in found /\ ~Open(t) THEN Asked(t)[t] ELSE lookups[t]]
    BY DEF PersistSearch
  <1>3. searching[q] # NoRun
    BY <1>1, RunTypes
  <1>4. lookups[q].status = "RUNNING"
    BY <1>1, <1>3 DEF Budgeting
  <1>5. \A t \in LookupTargets : Asked(t)[t] \in LookupRow /\ LookupOK(Asked(t)[t])
    BY AskedRow
  <1>6. /\ lookups' \in [LookupTargets -> LookupRow]
        /\ \A x \in LookupTargets : LookupOK(lookups'[x])
        /\ \A x \in LookupTargets : lookups[x].status = "RUNNING" => lookups'[x] = lookups[x]
    BY <1>2, <1>5 DEF Budgeting, Open
  <1>7. [at |-> "PERSISTED"] \in SearchRun /\ [at |-> "PERSISTED"].at # "CHARGING"
    BY RunTypes
  <1>8. resting' \subseteq Queries
    BY <1>1 DEF Budgeting
  <1>9. QED
    BY <1>1, <1>4, <1>6, <1>7, <1>8, RunStep

LEMMA EndingSteps ==
  ASSUME Budgeting, NEW t \in LookupTargets,
         CompleteRun(t) \/ (\E retryable \in BOOLEAN : FailRun(t, retryable))
  PROVE  Budgeting'
  <1>1. /\ lookups \in [LookupTargets -> LookupRow] /\ \A x \in LookupTargets : LookupOK(lookups[x])
        /\ resting \subseteq Queries
    BY DEF Budgeting
  <1>2. NoRun \in SearchRun /\ NoRun.at # "CHARGING"
    BY RunTypes
  <1>3. ASSUME CompleteRun(t) PROVE Budgeting'
    <2> DEFINE old == lookups[t]
               row == [old EXCEPT !.status = "SUCCEEDED"]
    <2>1. /\ lookups' = [lookups EXCEPT ![t] = row] /\ RunIs(t, NoRun)
          /\ UNCHANGED <<today, usage, resting>> /\ old \in LookupRow
      BY <1>1, <1>3 DEF CompleteRun
    <2> HIDE DEF old
    <2>2. row \in LookupRow /\ row.status = "SUCCEEDED"
      BY <2>1 DEF LookupRow
    <2> HIDE DEF row
    <2>3. LookupOK(row)
      BY <2>2 DEF LookupOK
    <2>4. /\ lookups' \in [LookupTargets -> LookupRow]
          /\ \A x \in LookupTargets : LookupOK(lookups'[x])
          /\ \A x \in LookupTargets : x # t => lookups'[x] = lookups[x]
      BY <1>1, <2>1, <2>2, <2>3
    <2>5. QED
      BY <1>1, <1>2, <2>1, <2>4, RunStep
  <1>4. ASSUME NEW retryable \in BOOLEAN, FailRun(t, retryable) PROVE Budgeting'
    <2>1. /\ lookups' = Retried(t, retryable) /\ RunIs(t, NoRun)
          /\ resting' = resting \cup ({t} \cap Queries) /\ UNCHANGED <<today, usage>>
      BY <1>4 DEF FailRun
    <2>2. /\ lookups' \in [LookupTargets -> LookupRow]
          /\ \A x \in LookupTargets : LookupOK(lookups'[x])
          /\ \A x \in LookupTargets : x # t => lookups'[x] = lookups[x]
      BY <2>1, RetriedRow
    <2>3. resting' \subseteq Queries
      BY <1>1, <2>1
    <2>4. QED
      BY <1>2, <2>1, <2>2, <2>3, RunStep
  <1>5. QED
    BY <1>3, <1>4

LEMMA OutsideSteps ==
  ASSUME Budgeting,
         \/ \E t \in LookupTargets, retried \in BOOLEAN : TakeBack(t, retried)
         \/ \E q \in Queries : QueryRested(q)
         \/ Midnight
  PROVE  Budgeting'
  <1>1. ASSUME NEW t \in LookupTargets, NEW retried \in BOOLEAN, TakeBack(t, retried)
        PROVE  Budgeting'
    <2>1. /\ searching[t] = NoRun /\ lookups' = Retried(t, retried)
          /\ UNCHANGED <<today, usage, resting, searching>>
      BY <1>1 DEF TakeBack
    <2>2. /\ lookups' \in [LookupTargets -> LookupRow]
          /\ \A x \in LookupTargets : LookupOK(lookups'[x])
          /\ \A x \in LookupTargets : x # t => lookups'[x] = lookups[x]
      BY <2>1, RetriedRow
    <2>3. QED
      BY <2>1, <2>2, LookupStep DEF Budgeting
  <1>2. ASSUME NEW q \in Queries, QueryRested(q) PROVE Budgeting'
    <2>1. resting' = resting \ {q} /\ UNCHANGED <<today, usage, lookups, searching>>
      BY <1>2 DEF QueryRested
    <2>2. QED
      BY <2>1, LookupStep DEF Budgeting
  <1>3. ASSUME Midnight PROVE Budgeting'
    <2>1. today < LastDay /\ today' = today + 1 /\ UNCHANGED <<usage, lookups, resting, searching>>
      BY <1>3 DEF Midnight
    <2>2. today' \in SearchDays
      BY <2>1, WebSearchAssumption DEF Budgeting, SearchDays
    <2>3. QED
      BY <2>1, <2>2, LookupStep DEF Budgeting
  <1>4. QED
    BY <1>1, <1>2, <1>3

LEMMA BudgetingStep == Budgeting /\ [SearchNext]_searchvars => Budgeting'
  <1> SUFFICES ASSUME Budgeting, [SearchNext]_searchvars PROVE Budgeting'
    OBVIOUS
  <1>1. ASSUME SearchNext PROVE Budgeting'
    BY <1>1, AskingSteps, ClaimingStep, RunningSteps, ReservingStep, ChargingStep, PersistingStep,
       EndingSteps, OutsideSteps DEF SearchNext
  <1>2. ASSUME UNCHANGED searchvars PROVE Budgeting'
    <2>1. UNCHANGED <<today, usage, lookups, resting, searching>>
      BY <1>2 DEF searchvars, searches
    <2>2. QED
      BY <2>1, LookupStep DEF Budgeting
  <1>3. QED
    BY <1>1, <1>2

LEMMA BudgetingHolds == SearchSpec => []Budgeting
  BY BudgetingInit, BudgetingStep, PTL DEF SearchSpec

(* The type invariant of the public web searches                            *)
(* (infrastructure/public_web_postgres.py): a run works for a request that  *)
(* is RUNNING, and no request is attempted more often than it may be.       *)
THEOREM SearchTypeCorrect == SearchSpec => []SearchTypeOK
  <1>1. Budgeting => SearchTypeOK
    BY DEF Budgeting, SearchTypeOK, LookupRow
  <1>2. QED
    BY <1>1, BudgetingHolds, PTL

(* No day and no month is charged for more calls than the budget allows     *)
(* (reserve_search_provider_usage): the budget's row is locked from the     *)
(* comparison to the commit, and a call adds one to its own month alone,    *)
(* the month the transaction began in.                                      *)
THEOREM BudgetIsKept == SearchSpec => []BudgetKept
  <1>1. Budgeting => BudgetKept
    BY DEF Budgeting
  <1>2. QED
    BY <1>1, BudgetingHolds, PTL

-----------------------------------------------------------------------------
(* The calendar.                                                           *)

(* An entry is DONE just while it has a completion, and CANCELLED when it   *)
(* is deleted.                                                              *)
SoundEntry(row) ==
  /\ row \in EntryRow
  /\ row.status = "DONE" <=> row.done > 0
  /\ row.deleted = TRUE => row.status = "CANCELLED"

(* An update writes the row of an entry that was live when it was read.     *)
LiveRead(h) ==
  h.op = "ITEM" => h.row.deleted = FALSE /\ (h.was = TRUE => h.row.done > 0)

Keeping ==
  /\ CalendarTypeOK
  /\ \A x \in Entries : entry[x] # Null => SoundEntry(entry[x])
  /\ \A r \in Requests : LiveRead(planning[r])

(* What a step does to an entry; a deleted one it does not bring back.      *)
KeepsDeleted(row, after) ==
  \/ after = row
  \/ SoundEntry(after) /\ (row # Null /\ row.deleted = TRUE => after.deleted = TRUE)

Retained ==
  \A x \in Entries : entry[x] # Null /\ entry[x].deleted = TRUE =>
    entry'[x] # Null /\ entry'[x].deleted = TRUE

LEMMA CalendarTables ==
  ASSUME Keeping
  PROVE  /\ published \in [SourceDates -> Days \cup {Null}]
         /\ entry \in [Entries -> EntryRow \cup {Null}]
         /\ plan \in [Plans -> PlanRow \cup {Null}]
         /\ completed \subseteq Entries \X (1..MaxCompletions)
         /\ clock \in 0..MaxCompletions
         /\ planning \in [Requests -> CalendarHandler]
         /\ \A x \in Entries : entry[x] # Null => SoundEntry(entry[x])
         /\ \A r \in Requests : LiveRead(planning[r])
  BY DEF Keeping, CalendarTypeOK

LEMMA CalendarHandlers ==
  ASSUME NEW h \in CalendarHandler
  PROVE  /\ h.op = "ITEM" => h.id \in Entries /\ h.row \in EntryRow /\ h.was \in BOOLEAN
         /\ h.op = "PLAN" => h.id \in Plans /\ h.row \in PlanRow /\ h.moves \in BOOLEAN
         /\ h.op = "CANCEL_TASKS" => h.id \in Plans
  BY DEF CalendarHandler, Idle

LEMMA KeepingInit == PInit => Keeping
  BY CalendarAssumption DEF PInit, Keeping, CalendarTypeOK, CalendarHandler, Idle, LiveRead

LEMMA KeepingStep ==
  ASSUME Keeping,
         published' \in [SourceDates -> Days \cup {Null}],
         plan' \in [Plans -> PlanRow \cup {Null}],
         completed' \subseteq Entries \X (1..MaxCompletions),
         clock' \in 0..MaxCompletions,
         planning' \in [Requests -> CalendarHandler],
         \A r \in Requests : LiveRead(planning'[r]),
         entry' = [x \in Entries |-> entry'[x]],
         \A x \in Entries : KeepsDeleted(entry[x], entry'[x])
  PROVE  Keeping' /\ Retained
  <1>1. ASSUME NEW x \in Entries
        PROVE  /\ entry'[x] # Null => SoundEntry(entry'[x])
               /\ entry'[x] \in EntryRow \cup {Null}
               /\ entry[x] # Null /\ entry[x].deleted = TRUE =>
                    entry'[x] # Null /\ entry'[x].deleted = TRUE
    <2>1. entry[x] \in EntryRow \cup {Null} /\ (entry[x] # Null => SoundEntry(entry[x]))
      BY CalendarTables
    <2>2. \A row : SoundEntry(row) => row \in EntryRow /\ row # Null
      BY CalendarRowAssumption DEF SoundEntry
    <2>3. QED
      BY <2>1, <2>2 DEF KeepsDeleted
  <1>2. entry' \in [Entries -> EntryRow \cup {Null}]
    BY <1>1
  <1>3. \A x \in Entries : entry'[x] # Null => (entry'[x].status = "DONE" <=> entry'[x].done > 0)
    BY <1>1 DEF SoundEntry
  <1>4. CalendarTypeOK'
    BY <1>2, <1>3 DEF CalendarTypeOK
  <1>5. Keeping'
    BY <1>1, <1>4 DEF Keeping
  <1>6. QED
    BY <1>1, <1>5 DEF Retained

(* One request goes on.                                                    *)
LEMMA HandlesRow ==
  ASSUME Keeping, NEW r \in Requests, NEW h \in CalendarHandler, LiveRead(h), Handles(r, h)
  PROVE  /\ planning' \in [Requests -> CalendarHandler]
         /\ \A q \in Requests : LiveRead(planning'[q])
  <1>1. planning \in [Requests -> CalendarHandler] /\ \A q \in Requests : LiveRead(planning[q])
    BY CalendarTables
  <1>2. planning' = [planning EXCEPT ![r] = h]
    BY DEF Handles
  <1>3. planning' \in [Requests -> CalendarHandler]
    BY <1>1, <1>2
  <1>4. \A q \in Requests : planning'[q] = IF q = r THEN h ELSE planning[q]
    BY <1>1, <1>2
  <1>5. QED
    BY <1>1, <1>3, <1>4

LEMMA IdlePlanning == Idle \in CalendarHandler /\ LiveRead(Idle)
  BY DEF CalendarHandler, Idle, LiveRead

(* Rows the handlers write.                                                *)
LEMMA NewEntrySound ==
  ASSUME NEW from \in SourceDates \cup Plans \cup {Null}, NEW day \in Days
  PROVE  SoundEntry(NewEntry(from, day)) /\ NewEntry(from, day).deleted = FALSE
  BY CalendarAssumption DEF SoundEntry, NewEntry, EntryRow, ItemStatus

LEMMA MovedSound ==
  ASSUME NEW row, SoundEntry(row), NEW day \in Days
  PROVE  KeepsDeleted(row, [row EXCEPT !.day = day])
  <1>1. row \in EntryRow
    BY DEF SoundEntry
  <1> DEFINE after == [row EXCEPT !.day = day]
  <1>2. /\ after \in EntryRow /\ after.status = row.status /\ after.done = row.done
        /\ after.deleted = row.deleted
    BY <1>1 DEF EntryRow
  <1> HIDE DEF after
  <1>3. SoundEntry(after)
    BY <1>2 DEF SoundEntry
  <1>4. KeepsDeleted(row, after)
    BY <1>2, <1>3 DEF KeepsDeleted
  <1>5. QED
    BY <1>4 DEF after

LEMMA CancelledSound ==
  ASSUME NEW row, SoundEntry(row)
  PROVE  KeepsDeleted(row, Cancelled(row))
  <1>1. row \in EntryRow
    BY DEF SoundEntry
  <1> DEFINE a == [row EXCEPT !.status = "CANCELLED"]
             b == [a EXCEPT !.done = 0]
             c == [b EXCEPT !.deleted = TRUE]
  <1>2. Cancelled(row) = c
    BY DEF Cancelled
  <1>3. a \in EntryRow /\ a.status = "CANCELLED"
    BY <1>1 DEF EntryRow, ItemStatus
  <1> HIDE DEF a
  <1>4. 0 \in 0..MaxCompletions
    BY CalendarAssumption
  <1>5. b \in EntryRow /\ b.status = "CANCELLED" /\ b.done = 0
    BY <1>3, <1>4 DEF EntryRow
  <1> HIDE DEF b
  <1>6. c \in EntryRow /\ c.status = "CANCELLED" /\ c.done = 0 /\ c.deleted = TRUE
    BY <1>5 DEF EntryRow
  <1> HIDE DEF c
  <1>7. QED
    BY <1>2, <1>6 DEF SoundEntry, KeepsDeleted

(* Steps that write no entry.                                              *)
LEMMA KeepingBeside ==
  ASSUME Keeping, UNCHANGED entry,
         published' \in [SourceDates -> Days \cup {Null}],
         plan' \in [Plans -> PlanRow \cup {Null}],
         UNCHANGED <<completed, clock>>,
         planning' \in [Requests -> CalendarHandler],
         \A r \in Requests : LiveRead(planning'[r])
  PROVE  Keeping' /\ Retained
  <1>1. entry' = [x \in Entries |-> entry'[x]]
    BY CalendarTables
  <1>2. \A x \in Entries : KeepsDeleted(entry[x], entry'[x])
    BY DEF KeepsDeleted
  <1>3. QED
    BY <1>1, <1>2, CalendarTables, KeepingStep

LEMMA KeepingPublish ==
  ASSUME Keeping, NEW d \in SourceDates, NEW day \in Days, Publish(d, day)
  PROVE  Keeping' /\ Retained
  <1>1. /\ published' \in [SourceDates -> Days \cup {Null}]
        /\ UNCHANGED <<entry, plan, completed, clock, planning>>
    BY CalendarTables DEF Publish
  <1>2. QED
    BY <1>1, CalendarTables, KeepingBeside

(* A date finds its own entry, whatever the user did to it.                 *)
LEMMA KeepingMaterialize ==
  ASSUME Keeping, Materialize
  PROVE  Keeping' /\ Retained
  <1>1. PICK x \in [SourceDates -> Entries] :
          /\ \A c, d \in SourceDates : x[c] = x[d] => c = d
          /\ entry' = [y \in Entries |->
               IF \E d \in SourceDates : x[d] = y /\ published[d] # Null
               THEN LET d == CHOOSE c \in SourceDates : x[c] = y
                    IN IF entry[y] = Null THEN NewEntry(d, published[d]) ELSE Upserted(entry[y], d)
               ELSE entry[y]]
          /\ UNCHANGED <<published, plan, completed, clock, planning>>
    BY DEF Materialize
  <1>2. entry' = [y \in Entries |-> entry'[y]]
    BY <1>1
  <1>3. ASSUME NEW y \in Entries PROVE KeepsDeleted(entry[y], entry'[y])
    <2>1. CASE ~\E d \in SourceDates : x[d] = y /\ published[d] # Null
      BY <1>1, <2>1 DEF KeepsDeleted
    <2>2. ASSUME NEW d \in SourceDates, x[d] = y, published[d] # Null
          PROVE  KeepsDeleted(entry[y], entry'[y])
      <3>1. (CHOOSE c \in SourceDates : x[c] = y) = d
        <4>1. \E c \in SourceDates : x[c] = y
          BY <2>2
        <4>2. /\ (CHOOSE c \in SourceDates : x[c] = y) \in SourceDates
              /\ x[CHOOSE c \in SourceDates : x[c] = y] = y
          BY <4>1
        <4>3. QED
          BY <1>1, <2>2, <4>2
      <3>2. entry'[y] = IF entry[y] = Null THEN NewEntry(d, published[d]) ELSE Upserted(entry[y], d)
        BY <1>1, <2>2, <3>1
      <3>3. published[d] \in Days
        BY <2>2, CalendarTables
      <3>4. CASE entry[y] = Null
        BY <3>2, <3>3, <3>4, NewEntrySound DEF KeepsDeleted
      <3>5. CASE entry[y] # Null
        <4>1. SoundEntry(entry[y])
          BY <3>5, CalendarTables
        <4>2. entry'[y] = [entry[y] EXCEPT !.day = published[d]]
          BY <3>2, <3>5 DEF Upserted
        <4>3. QED
          BY <3>3, <4>1, <4>2, MovedSound
      <3>6. QED
        BY <3>4, <3>5
    <2>3. QED
      BY <2>1, <2>2
  <1>4. QED
    BY <1>1, <1>2, <1>3, CalendarTables, KeepingStep
LEMMA KeepingCreate ==
  ASSUME Keeping, NEW x \in Entries, NEW day \in Days, NEW status \in ItemStatus,
         CreateEntry(x, day, status)
  PROVE  Keeping' /\ Retained
  <1> DEFINE done == IF status = "DONE" THEN clock + 1 ELSE 0
             a == [NewEntry(Null, day) EXCEPT !.status = status]
             row == [a EXCEPT !.done = done]
  <1>1. /\ entry[x] = Null /\ done <= MaxCompletions
        /\ clock' = (IF done = 0 THEN clock ELSE done)
        /\ entry' = [entry EXCEPT ![x] = row]
        /\ UNCHANGED <<published, plan, completed, planning>>
    BY DEF CreateEntry
  <1>2. done \in 0..MaxCompletions /\ (status = "DONE" <=> done > 0)
    BY <1>1, CalendarTables, CalendarAssumption
  <1>3. a \in EntryRow /\ a.status = status /\ a.deleted = FALSE
    <2>1. NewEntry(Null, day) \in EntryRow /\ NewEntry(Null, day).deleted = FALSE
      BY NewEntrySound DEF SoundEntry
    <2>2. QED
      BY <2>1 DEF EntryRow
  <1>4. clock' \in 0..MaxCompletions
    BY <1>1, <1>2, CalendarTables
  <1> HIDE DEF done, a
  <1>5. row \in EntryRow /\ row.status = status /\ row.done = done /\ row.deleted = FALSE
    BY <1>2, <1>3 DEF EntryRow
  <1> HIDE DEF row
  <1>6. SoundEntry(row)
    BY <1>2, <1>5 DEF SoundEntry
  <1>7. \A y \in Entries : KeepsDeleted(entry[y], entry'[y])
    BY <1>1, <1>6, CalendarTables DEF KeepsDeleted
  <1>8. entry' = [y \in Entries |-> entry'[y]]
    BY <1>1, CalendarTables
  <1>9. QED
    BY <1>1, <1>4, <1>7, <1>8, CalendarTables, KeepingStep

LEMMA KeepingItemRead ==
  ASSUME Keeping, NEW r \in Requests, NEW x \in Entries, NEW patch \in ItemPatch,
         ItemRead(r, x, patch)
  PROVE  Keeping' /\ Retained
  <1> DEFINE status == Taken(entry[x].status, patch.status)
             day == Taken(entry[x].day, patch.day)
             was == entry[x].status = "DONE"
             a == [entry[x] EXCEPT !.status = status]
             row == [a EXCEPT !.day = day]
             h == [op |-> "ITEM", id |-> x, was |-> was, row |-> row]
  <1>1. entry[x] # Null /\ ~entry[x].deleted
    BY DEF ItemRead, Live
  <1>2. SoundEntry(entry[x]) /\ entry[x] \in EntryRow
    BY <1>1, CalendarTables DEF SoundEntry
  <1>3. row = [entry[x] EXCEPT !.status = Taken(@, patch.status), !.day = Taken(@, patch.day)]
    BY <1>2 DEF EntryRow
  <1>4. Handles(r, h) /\ UNCHANGED <<published, entry, plan, completed, clock>>
    BY <1>3 DEF ItemRead
  <1>5. status \in ItemStatus /\ day \in Days
    BY <1>2 DEF Taken, ItemPatch, EntryRow, ItemStatus
  <1>6. entry[x].deleted = FALSE /\ (was => entry[x].done > 0)
    BY <1>1, <1>2 DEF SoundEntry, EntryRow
  <1>7. was \in BOOLEAN
    OBVIOUS
  <1> HIDE DEF status, day, was
  <1>8. a \in EntryRow /\ a.done = entry[x].done /\ a.deleted = entry[x].deleted
    BY <1>2, <1>5 DEF EntryRow
  <1> HIDE DEF a
  <1>9. row \in EntryRow /\ row.done = entry[x].done /\ row.deleted = FALSE
    BY <1>5, <1>6, <1>8 DEF EntryRow
  <1> HIDE DEF row
  <1>10. h \in CalendarHandler /\ h.row = row /\ h.was = was
    BY <1>7, <1>9 DEF CalendarHandler
  <1> HIDE DEF h
  <1>11. LiveRead(h)
    BY <1>6, <1>9, <1>10 DEF LiveRead
  <1>12. QED
    BY <1>4, <1>10, <1>11, CalendarTables, HandlesRow, KeepingBeside

(* The row that is written has the completion its status needs.             *)
LEMMA KeepingItemWrite ==
  ASSUME Keeping, NEW r \in Requests, ItemWrite(r)
  PROVE  Keeping' /\ Retained
  <1> DEFINE h == planning[r]
             done == CompletedAt(h)
             row == [h.row EXCEPT !.done = done]
  <1>1. /\ h \in CalendarHandler /\ h.op = "ITEM" /\ Handles(r, Idle)
        /\ UNCHANGED <<published, plan>>
    BY CalendarTables DEF ItemWrite
  <1>2. h.id \in Entries /\ h.row \in EntryRow /\ h.was \in BOOLEAN
    BY <1>1, CalendarHandlers
  <1>3. h.row.deleted = FALSE /\ (h.was = TRUE => h.row.done > 0)
    BY <1>1, CalendarTables DEF LiveRead
  <1>4. /\ planning' \in [Requests -> CalendarHandler]
        /\ \A q \in Requests : LiveRead(planning'[q])
    BY <1>1, HandlesRow, IdlePlanning
  <1>5. CASE ~Live(h.id)
    <2>1. UNCHANGED <<entry, clock, completed>>
      BY <1>5 DEF ItemWrite
    <2>2. QED
      BY <1>1, <1>4, <2>1, CalendarTables, KeepingBeside
  <1>6. CASE Live(h.id)
    <2>1. /\ done <= MaxCompletions
          /\ entry' = [entry EXCEPT ![h.id] = row]
          /\ clock' = (IF done > clock THEN done ELSE clock)
          /\ completed' = (IF h.row.status = "DONE" /\ ~h.was
                           THEN completed \cup {<<h.id, done>>} ELSE completed)
      BY <1>6 DEF ItemWrite
    <2>2. done \in Nat /\ (h.row.status = "DONE" <=> done > 0)
      <3>1. h.row.done \in Nat /\ clock \in Nat
        BY <1>2, CalendarTables DEF EntryRow
      <3>2. CASE h.was = TRUE
        BY <1>3, <3>1, <3>2 DEF CompletedAt
      <3>3. CASE h.was = FALSE
        BY <3>1, <3>3 DEF CompletedAt
      <3>4. QED
        BY <1>2, <3>2, <3>3
    <2> HIDE DEF done
    <2>3. done \in 0..MaxCompletions
      BY <2>1, <2>2, CalendarAssumption
    <2>4. row \in EntryRow /\ row.status = h.row.status /\ row.done = done /\ row.deleted = FALSE
      BY <1>2, <1>3, <2>3 DEF EntryRow
    <2>5. completed' \subseteq Entries \X (1..MaxCompletions)
      <3>1. h.row.status = "DONE" => <<h.id, done>> \in Entries \X (1..MaxCompletions)
        BY <1>2, <2>2, <2>3, CalendarAssumption
      <3>2. QED
        BY <2>1, <3>1, CalendarTables
    <2>6. clock' \in 0..MaxCompletions
      BY <2>1, <2>3, CalendarTables
    <2> HIDE DEF row, h
    <2>7. SoundEntry(row)
      BY <2>2, <2>4 DEF SoundEntry
    <2>8. entry[h.id] # Null /\ entry[h.id].deleted # TRUE
      BY <1>6 DEF Live
    <2>9. \A y \in Entries : entry'[y] = IF y = h.id THEN row ELSE entry[y]
      BY <2>1, CalendarTables
    <2>10. \A y \in Entries : KeepsDeleted(entry[y], entry'[y])
      BY <2>7, <2>8, <2>9 DEF KeepsDeleted
    <2>11. entry' = [y \in Entries |-> entry'[y]]
      BY <2>1, CalendarTables
    <2>12. QED
      BY <1>1, <1>4, <2>5, <2>6, <2>10, <2>11, CalendarTables, KeepingStep
  <1>7. QED
    BY <1>5, <1>6

LEMMA KeepingDelete ==
  ASSUME Keeping, NEW x \in Entries, DeleteEntry(x)
  PROVE  Keeping' /\ Retained
  <1>1. /\ entry[x] # Null /\ entry' = [entry EXCEPT ![x] = Cancelled(entry[x])]
        /\ UNCHANGED <<published, plan, completed, clock, planning>>
    BY DEF DeleteEntry, Live
  <1>2. KeepsDeleted(entry[x], Cancelled(entry[x]))
    BY <1>1, CalendarTables, CancelledSound
  <1>3. \A y \in Entries : KeepsDeleted(entry[y], entry'[y])
    BY <1>1, <1>2, CalendarTables DEF KeepsDeleted
  <1>4. entry' = [y \in Entries |-> entry'[y]]
    BY <1>1, CalendarTables
  <1>5. QED
    BY <1>1, <1>3, <1>4, CalendarTables, KeepingStep

LEMMA KeepingCreatePlan ==
  ASSUME Keeping, NEW p \in Plans, NEW x \in Entries, NEW day \in Days, CreatePlan(p, x, day)
  PROVE  Keeping' /\ Retained
  <1>1. /\ entry[x] = Null /\ entry' = [entry EXCEPT ![x] = NewEntry(p, day)]
        /\ plan' = [plan EXCEPT ![p] = [target |-> day, status |-> "DRAFT"]]
        /\ UNCHANGED <<published, completed, clock, planning>>
    BY DEF CreatePlan
  <1>2. plan' \in [Plans -> PlanRow \cup {Null}]
    BY <1>1, CalendarTables DEF PlanRow, PlanStatus
  <1>3. SoundEntry(NewEntry(p, day))
    BY NewEntrySound
  <1>4. \A y \in Entries : KeepsDeleted(entry[y], entry'[y])
    BY <1>1, <1>3, CalendarTables DEF KeepsDeleted
  <1>5. entry' = [y \in Entries |-> entry'[y]]
    BY <1>1, CalendarTables
  <1>6. QED
    BY <1>1, <1>2, <1>4, <1>5, CalendarTables, KeepingStep

LEMMA StatusOfPlan ==
  ASSUME Keeping, NEW p \in Plans, NEW status \in PlanStatus, plan[p] # Null,
         plan' = [plan EXCEPT ![p].status = status]
  PROVE  plan' \in [Plans -> PlanRow \cup {Null}]
  <1>1. plan[p] \in PlanRow
    BY CalendarTables
  <1>2. [plan[p] EXCEPT !.status = status] \in PlanRow
    BY <1>1 DEF PlanRow
  <1>3. QED
    BY <1>2, CalendarTables

LEMMA KeepingActivate ==
  ASSUME Keeping, NEW p \in Plans, ActivatePlan(p)
  PROVE  Keeping' /\ Retained
  <1>1. /\ plan[p] # Null /\ plan' = [plan EXCEPT ![p].status = "ACTIVE"]
        /\ UNCHANGED <<published, entry, completed, clock, planning>>
    BY DEF ActivatePlan
  <1>2. plan' \in [Plans -> PlanRow \cup {Null}]
    BY <1>1, StatusOfPlan DEF PlanStatus
  <1>3. QED
    BY <1>1, <1>2, CalendarTables, KeepingBeside

LEMMA KeepingPlanRead ==
  ASSUME Keeping, NEW r \in Requests, NEW p \in Plans, NEW patch \in PlanPatch,
         PlanRead(r, p, patch)
  PROVE  Keeping' /\ Retained
  <1> DEFINE moves == patch.day # Null
             row == [target |-> Taken(plan[p].target, patch.day),
                     status |-> Taken(plan[p].status, patch.status)]
             h == [op |-> "PLAN", id |-> p, moves |-> moves, row |-> row]
  <1>1. /\ plan[p] # Null /\ Handles(r, h)
        /\ UNCHANGED <<published, entry, plan, completed, clock>>
    BY DEF PlanRead
  <1>2. plan[p] \in PlanRow
    BY <1>1, CalendarTables
  <1>3. row \in PlanRow
    BY <1>2 DEF PlanRow, PlanStatus, PlanPatch, Taken
  <1>4. moves \in BOOLEAN
    OBVIOUS
  <1> HIDE DEF moves, row
  <1>5. h \in CalendarHandler /\ h.op # "ITEM"
    BY <1>3, <1>4 DEF CalendarHandler
  <1> HIDE DEF h
  <1>6. LiveRead(h)
    BY <1>5 DEF LiveRead
  <1>7. QED
    BY <1>1, <1>5, <1>6, CalendarTables, HandlesRow, KeepingBeside

LEMMA KeepingPlanWrite ==
  ASSUME Keeping, NEW r \in Requests, PlanWrite(r)
  PROVE  Keeping' /\ Retained
  <1> DEFINE h == planning[r]
  <1>1. /\ h \in CalendarHandler /\ h.op = "PLAN" /\ Handles(r, Idle)
        /\ plan' = [plan EXCEPT ![h.id] = h.row]
        /\ entry' = [x \in Entries |-> IF h.moves /\ x \in EntriesOf(h.id)
                                       THEN [entry[x] EXCEPT !.day = h.row.target] ELSE entry[x]]
        /\ UNCHANGED <<published, completed, clock>>
    BY CalendarTables DEF PlanWrite
  <1>2. h.id \in Plans /\ h.row \in PlanRow
    BY <1>1, CalendarHandlers
  <1>3. h.row.target \in Days
    BY <1>2 DEF PlanRow
  <1>4. /\ planning' \in [Requests -> CalendarHandler]
        /\ \A q \in Requests : LiveRead(planning'[q])
    BY <1>1, HandlesRow, IdlePlanning
  <1> HIDE DEF h
  <1>5. plan' \in [Plans -> PlanRow \cup {Null}]
    BY <1>1, <1>2, CalendarTables
  <1>6. ASSUME NEW x \in Entries PROVE KeepsDeleted(entry[x], entry'[x])
    <2>1. CASE x \in EntriesOf(h.id) /\ entry'[x] = [entry[x] EXCEPT !.day = h.row.target]
      <3>1. SoundEntry(entry[x])
        BY <2>1, CalendarTables DEF EntriesOf
      <3>2. QED
        BY <1>3, <2>1, <3>1, MovedSound
    <2>2. CASE entry'[x] = entry[x]
      BY <2>2 DEF KeepsDeleted
    <2>3. QED
      BY <1>1, <2>1, <2>2
  <1>7. entry' = [x \in Entries |-> entry'[x]]
    BY <1>1
  <1>8. QED
    BY <1>1, <1>4, <1>5, <1>6, <1>7, CalendarTables, KeepingStep

LEMMA KeepingArchive ==
  ASSUME Keeping, NEW r \in Requests, NEW p \in Plans, ArchivePlan(r, p)
  PROVE  Keeping' /\ Retained
  <1> DEFINE h == [op |-> "CANCEL_TASKS", id |-> p]
  <1>1. /\ plan[p] # Null /\ plan' = [plan EXCEPT ![p].status = "ARCHIVED"] /\ Handles(r, h)
        /\ UNCHANGED <<published, entry, completed, clock>>
    BY DEF ArchivePlan
  <1>2. h \in CalendarHandler /\ LiveRead(h)
    BY DEF CalendarHandler, LiveRead
  <1>3. plan' \in [Plans -> PlanRow \cup {Null}]
    BY <1>1, StatusOfPlan DEF PlanStatus
  <1> HIDE DEF h
  <1>4. QED
    BY <1>1, <1>2, <1>3, CalendarTables, HandlesRow, KeepingBeside

LEMMA KeepingCancelTasks ==
  ASSUME Keeping, NEW r \in Requests, CancelTasks(r)
  PROVE  Keeping' /\ Retained
  <1>1. /\ Handles(r, Idle)
        /\ entry' = [x \in Entries |-> IF x \in EntriesOf(planning[r].id) /\ Live(x)
                                       THEN Cancelled(entry[x]) ELSE entry[x]]
        /\ UNCHANGED <<published, plan, completed, clock>>
    BY DEF CancelTasks
  <1>2. /\ planning' \in [Requests -> CalendarHandler]
        /\ \A q \in Requests : LiveRead(planning'[q])
    BY <1>1, HandlesRow, IdlePlanning
  <1>3. ASSUME NEW x \in Entries PROVE KeepsDeleted(entry[x], entry'[x])
    <2>1. CASE Live(x) /\ entry'[x] = Cancelled(entry[x])
      BY <2>1, CalendarTables, CancelledSound DEF Live
    <2>2. CASE entry'[x] = entry[x]
      BY <2>2 DEF KeepsDeleted
    <2>3. QED
      BY <1>1, <2>1, <2>2
  <1>4. entry' = [x \in Entries |-> entry'[x]]
    BY <1>1
  <1>5. QED
    BY <1>1, <1>2, <1>3, <1>4, CalendarTables, KeepingStep

LEMMA KeepingAbandon ==
  ASSUME Keeping, NEW r \in Requests, AbandonPlanning(r)
  PROVE  Keeping' /\ Retained
  <1>1. Handles(r, Idle) /\ UNCHANGED <<published, entry, plan, completed, clock>>
    BY DEF AbandonPlanning
  <1>2. QED
    BY <1>1, CalendarTables, HandlesRow, IdlePlanning, KeepingBeside

LEMMA KeepingNext ==
  ASSUME Keeping, [PNext]_pvars
  PROVE  Keeping' /\ Retained
  <1>1. CASE UNCHANGED pvars
    BY <1>1, CalendarTables, KeepingBeside DEF pvars
  <1>2. CASE PNext
    BY <1>2, KeepingPublish, KeepingMaterialize, KeepingCreate, KeepingItemRead,
       KeepingItemWrite, KeepingDelete, KeepingCreatePlan, KeepingActivate, KeepingPlanRead,
       KeepingPlanWrite, KeepingArchive, KeepingCancelTasks, KeepingAbandon DEF PNext
  <1>3. QED
    BY <1>1, <1>2

LEMMA KeepingHolds == PSpec => []Keeping
  <1>1. Keeping /\ [PNext]_pvars => Keeping'
    BY KeepingNext
  <1>2. QED
    BY <1>1, KeepingInit, PTL DEF PSpec

(* Every reachable state of the calendar is well typed; an entry is DONE    *)
(* just while it has a completion, whatever an update read before           *)
(* (updateCalendarItem).                                                    *)
THEOREM CalendarTypeCorrect == PSpec => []CalendarTypeOK
  <1>1. Keeping => CalendarTypeOK
    BY DEF Keeping
  <1>2. QED
    BY <1>1, KeepingHolds, PTL

(* What a user deleted stays deleted, for any number of updates that read   *)
(* it before, plans that move it and sources that correct its date          *)
(* (materializeRecruitingDates, updateCalendarItem, updateApplicationPlan). *)
THEOREM DeletedEntriesStay == PSpec => DeletedStaysDeleted
  <1>1. ASSUME Keeping, Keeping', [PNext]_pvars
        PROVE  \A x \in Entries : entry[x] # Null /\ entry[x].deleted =>
                 entry'[x].deleted /\ entry'[x].status = "CANCELLED"
    <2>1. SUFFICES ASSUME NEW x \in Entries, entry[x] # Null, entry[x].deleted
                   PROVE  entry'[x].deleted /\ entry'[x].status = "CANCELLED"
      OBVIOUS
    <2>2. entry[x].deleted = TRUE
      BY <2>1, CalendarTables DEF EntryRow
    <2>3. entry'[x] # Null /\ entry'[x].deleted = TRUE
      BY <1>1, <2>1, <2>2, KeepingNext DEF Retained
    <2>4. SoundEntry(entry'[x])
      BY <1>1, <2>3 DEF Keeping
    <2>5. QED
      BY <2>3, <2>4 DEF SoundEntry
  <1>2. QED
    BY <1>1, KeepingHolds, PTL DEF PSpec, DeletedStaysDeleted


-----------------------------------------------------------------------------
(* The collectors and the calendar beside each other, as                    *)
(* MCCollectorsAndCalendar runs them.                                       *)

(* One of the components is the one that moves.                             *)
Moving == focus \in {"ALERTS", "GITHUB", "SEARCH", "DIRECTORY", "CALENDAR"}

(* A step of the run is for each component a step of its own or none.       *)
LEMMA CollectorsMove ==
  ASSUME [AllNext]_<<focus, vars, githubvars, searchvars, dvars, pvars>>
  PROVE  /\ [Next]_vars /\ [GithubNext]_githubvars /\ [SearchNext]_searchvars
         /\ [DNext]_dvars /\ [PNext]_pvars /\ focus' = focus
  BY DEF AllNext

(* The run is a behaviour of every component.                               *)
THEOREM CollectorsAreComponents ==
  AllSpec => Spec /\ GithubSpec /\ SearchSpec /\ DSpec /\ PSpec
  <1>1. AllInit => Init /\ GithubInit /\ SearchInit /\ DInit /\ PInit
    BY DEF AllInit
  <1>2. QED
    BY <1>1, CollectorsMove, PTL DEF AllSpec, Spec, GithubSpec, SearchSpec, DSpec, PSpec

(* Whichever component moves, its tables hold what their columns, CHECKs    *)
(* and foreign keys allow, and no attempt counter runs past its maximum, at *)
(* every number of users, files, queries and workers and every limit.       *)
THEOREM TablesTypeCorrect == AllSpec => []TablesTypeOK
  <1>1. Moving /\ TypeOK /\ GithubTypeOK /\ SearchTypeOK /\ DirectoryTypeOK /\ CalendarTypeOK
        => TablesTypeOK
    BY DEF TablesTypeOK, Moving
  <1>2. AllInit => Moving
    BY DEF AllInit, Moving
  <1>3. Moving /\ [AllNext]_<<focus, vars, githubvars, searchvars, dvars, pvars>> => Moving'
    BY CollectorsMove DEF Moving
  <1>4. QED
    BY <1>1, <1>2, <1>3, CollectorsAreComponents, FanoutTypeCorrect, GithubTypeCorrect,
       SearchTypeCorrect, DirectoryTypeCorrect, CalendarTypeCorrect, PTL DEF AllSpec
=============================================================================
