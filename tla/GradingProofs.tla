--------------------------- MODULE GradingProofs ---------------------------
(***************************************************************************)
(* Theorems about Grading, for every number of projects, members,          *)
(* submissions and snapshots: snapshots are a history whose states only    *)
(* move forward, a project is graded exactly when its newest snapshot is   *)
(* published, every grade is its baseline and the adjustments recorded,    *)
(* and every decided appeal has a snapshot of its own.                     *)
(***************************************************************************)
EXTENDS Grading, TLAPS, SequenceTheorems, SumTheorems

Adjustment == [member : Members, delta : Int]

(***************************************************************************)
(* One snapshot more: which states it may have after which, and that a     *)
(* published one keeps the adjustments of its predecessor.                 *)
(***************************************************************************)
Follows(p, s) ==
  \/ NewestState(p) \in {"none", "draft"} /\ s.state = "draft"
  \/ NewestState(p) = "draft" /\ s.state = "frozen"
  \/ NewestState(p) = "frozen" /\ s.state = "published"
  \/ /\ NewestState(p) = "published" /\ s.state = "published"
     /\ IsPrefix(Newest(p).adjustments, s.adjustments)

Extends(p, s) == s \in Snapshot /\ Add(p, s) /\ Follows(p, s)

-----------------------------------------------------------------------------
(* Sequences and records.                                                  *)

LEMMA AppendExtends ==
  ASSUME NEW S, NEW s \in Seq(S), NEW e \in S
  PROVE  IsPrefix(s, Append(s, e))
<1>1. Len(Append(s, e)) = Len(s) + 1 /\ Append(s, e) \in Seq(S)
  BY AppendProperties
<1>2. SubSeq(Append(s, e), 1, Len(s)) = SubSeq(s, 1, Len(s))
  BY <1>1
<1> QED BY <1>1, <1>2 DEF IsPrefix

LEMMA PrefixReflexive ==
  ASSUME NEW S, NEW s \in Seq(S)
  PROVE  IsPrefix(s, s)
BY DEF IsPrefix

LEMMA NewestIsSnapshot ==
  ASSUME TypeOK, NEW p \in Projects, NewestState(p) # "none"
  PROVE  /\ Newest(p) \in Snapshot
         /\ NewestState(p) = Newest(p).state
         /\ snapshots[p] # <<>> /\ Len(snapshots[p]) \in Nat \ {0}
         /\ Newest(p) = snapshots[p][Len(snapshots[p])]
<1>1. snapshots[p] \in Seq(Snapshot)
  BY DEF TypeOK
<1>2. snapshots[p] # <<>>
  BY DEF NewestState, Scored
<1>3. Len(snapshots[p]) \in 1 .. Len(snapshots[p])
  BY <1>1, <1>2
<1> QED BY <1>1, <1>2, <1>3 DEF NewestState, Scored, Newest, Last

LEMMA BaselineIsSnapshot ==
  ASSUME NEW b \in Baselines
  PROVE  [state |-> "draft", baseline |-> b, final |-> b, adjustments |-> <<>>] \in Snapshot
BY ScoresAssumption DEF Snapshot, SnapshotStates

LEMMA NextIsSnapshot ==
  ASSUME NEW s \in Snapshot, NEW state \in SnapshotStates
  PROVE  /\ NextSnapshot(s, state) \in Snapshot
         /\ NextSnapshot(s, state).state = state
         /\ NextSnapshot(s, state).final = s.final
         /\ NextSnapshot(s, state).adjustments = s.adjustments
BY DEF NextSnapshot, Snapshot

LEMMA AdjustedIsSnapshot ==
  ASSUME NEW s \in Snapshot, NEW m \in Members, NEW delta \in Int
  PROVE  /\ Adjusted(s, m, delta) \in Snapshot
         /\ Adjusted(s, m, delta).state = s.state
         /\ Adjusted(s, m, delta).adjustments = Append(s.adjustments, [member |-> m, delta |-> delta])
         /\ IsPrefix(s.adjustments, Adjusted(s, m, delta).adjustments)
<1> DEFINE a == [member |-> m, delta |-> delta]
<1>1. a \in Adjustment
  BY DEF Adjustment
<1>2. s.adjustments \in Seq(Adjustment) /\ s.final \in Int
  BY DEF Snapshot, Adjustment
<1>3. Append(s.adjustments, a) \in Seq(Adjustment) /\ s.final + delta \in Int
  BY <1>1, <1>2, AppendProperties
<1>4. IsPrefix(s.adjustments, Append(s.adjustments, a))
  BY <1>1, <1>2, AppendExtends
<1> HIDE DEF a
<1>5. Adjusted(s, m, delta) = [s EXCEPT !.final = s.final + delta, !.adjustments = Append(s.adjustments, a)]
  BY DEF Adjusted, Snapshot, a
<1>6. /\ Adjusted(s, m, delta).adjustments = Append(s.adjustments, a)
      /\ Adjusted(s, m, delta).state = s.state
      /\ Adjusted(s, m, delta) \in Snapshot
  BY <1>3, <1>5 DEF Snapshot, Adjustment
<1> QED BY <1>4, <1>6 DEF a

LEMMA Added ==
  ASSUME TypeOK, NEW p \in Projects, NEW s \in Snapshot, Add(p, s)
  PROVE  /\ snapshots' \in [Projects -> Seq(Snapshot)]
         /\ snapshots'[p] = Append(snapshots[p], s)
         /\ Len(snapshots'[p]) = Len(snapshots[p]) + 1
         /\ \A i \in 1 .. Len(snapshots[p]) : snapshots'[p][i] = snapshots[p][i]
         /\ NewestState(p)' = s.state /\ Newest(p)' = s
         /\ \A q \in Projects \ {p} : snapshots'[q] = snapshots[q]
<1>1. snapshots[p] \in Seq(Snapshot)
  BY DEF TypeOK
<1>2. snapshots'[p] = Append(snapshots[p], s)
  BY DEF Add, TypeOK
<1>3. Append(snapshots[p], s) \in Seq(Snapshot) /\ Append(snapshots[p], s) # <<>>
  BY <1>1, AppendProperties
<1>4. Len(snapshots'[p]) = Len(snapshots[p]) + 1 /\ snapshots'[p][Len(snapshots[p]) + 1] = s
  BY <1>1, <1>2, AppendProperties
<1>5. \A i \in 1 .. Len(snapshots[p]) : snapshots'[p][i] = snapshots[p][i]
  BY <1>1, <1>2, AppendProperties
<1>6. NewestState(p)' = s.state /\ Newest(p)' = s
  BY <1>2, <1>3, <1>4 DEF NewestState, Newest, Scored, Last
<1>7. snapshots' \in [Projects -> Seq(Snapshot)]
  BY <1>2, <1>3 DEF Add, TypeOK
<1>8. \A q \in Projects \ {p} : snapshots'[q] = snapshots[q]
  BY DEF Add, TypeOK
<1> QED BY <1>2, <1>4, <1>5, <1>6, <1>7, <1>8

-----------------------------------------------------------------------------
(* The steps that append a snapshot.                                       *)

LEMMA DraftsExtend ==
  ASSUME TypeOK, NEW p \in Projects, DraftBaseline(p) \/ CalculateScore(p)
  PROVE  \E s \in Snapshot : Extends(p, s) /\ s.state = "draft"
<1>1. NewestState(p) \in {"none", "draft"}
  BY DEF DraftBaseline, CalculateScore, NewestState
<1>2. PICK b \in Baselines :
        Add(p, [state |-> "draft", baseline |-> b, final |-> b, adjustments |-> <<>>])
  BY DEF DraftBaseline, CalculateScore
<1> QED BY <1>1, <1>2, BaselineIsSnapshot DEF Extends, Follows

LEMMA AdjustExtends ==
  ASSUME TypeOK, NEW p \in Projects, AdjustScore(p)
  PROVE  \E s \in Snapshot : Extends(p, s) /\ s.state = "draft"
<1>1. NewestState(p) = "draft" /\ Newest(p) \in Snapshot
  BY NewestIsSnapshot DEF AdjustScore
<1>2. PICK m \in Members, delta \in Deltas : Add(p, Adjusted(NextSnapshot(Newest(p), "draft"), m, delta))
  BY DEF AdjustScore
<1> DEFINE same == NextSnapshot(Newest(p), "draft")
<1>3. same \in Snapshot /\ same.state = "draft" /\ delta \in Int
  BY <1>1, NextIsSnapshot, ScoresAssumption DEF SnapshotStates
<1>4. Adjusted(same, m, delta) \in Snapshot /\ Adjusted(same, m, delta).state = "draft"
  <2> HIDE DEF same
  <2> QED BY <1>3, AdjustedIsSnapshot
<1> QED BY <1>1, <1>2, <1>4 DEF Extends, Follows

LEMMA FreezeExtends ==
  ASSUME TypeOK, NEW p \in Projects, FreezeScore(p)
  PROVE  \E s \in Snapshot : Extends(p, s) /\ s.state = "frozen"
<1>1. NewestState(p) = "draft" /\ Newest(p) \in Snapshot
  BY NewestIsSnapshot DEF FreezeScore
<1>2. NextSnapshot(Newest(p), "frozen") \in Snapshot /\ NextSnapshot(Newest(p), "frozen").state = "frozen"
  BY <1>1, NextIsSnapshot DEF SnapshotStates
<1> QED BY <1>1, <1>2 DEF Extends, Follows, FreezeScore

LEMMA PublishExtends ==
  ASSUME TypeOK, NEW p \in Projects, PublishScore(p)
  PROVE  \E s \in Snapshot : Extends(p, s) /\ s.state = "published"
<1>1. NewestState(p) = "frozen" /\ Newest(p) \in Snapshot
  BY NewestIsSnapshot DEF PublishScore
<1>2. NextSnapshot(Newest(p), "published") \in Snapshot /\ NextSnapshot(Newest(p), "published").state = "published"
  BY <1>1, NextIsSnapshot DEF SnapshotStates
<1> QED BY <1>1, <1>2 DEF Extends, Follows, PublishScore

LEMMA DecisionExtends ==
  ASSUME TypeOK, NEW p \in Projects, NEW m \in Members, DecideAppeal(p, m)
  PROVE  \E s \in Snapshot : Extends(p, s) /\ s.state = "published"
<1> DEFINE old == Newest(p)
           same == NextSnapshot(old, "published")
<1>1. NewestState(p) = "published" /\ old \in Snapshot
  BY NewestIsSnapshot DEF DecideAppeal
<1>2. PICK delta \in Deltas : Add(p, IF delta = 0 THEN same ELSE Adjusted(same, m, delta))
  BY DEF DecideAppeal
<1>3. same \in Snapshot /\ same.state = "published" /\ same.adjustments = old.adjustments
  BY <1>1, NextIsSnapshot DEF SnapshotStates
<1>4. IsPrefix(old.adjustments, old.adjustments)
  <2>1. old.adjustments \in Seq(Adjustment)
    BY <1>1 DEF Snapshot, Adjustment
  <2> QED BY <2>1, PrefixReflexive
<1>5. delta \in Int
  BY ScoresAssumption
<1>6. /\ Adjusted(same, m, delta) \in Snapshot
      /\ Adjusted(same, m, delta).state = "published"
      /\ IsPrefix(old.adjustments, Adjusted(same, m, delta).adjustments)
  <2> HIDE DEF same
  <2> QED BY <1>3, <1>5, AdjustedIsSnapshot
<1> DEFINE new == IF delta = 0 THEN same ELSE Adjusted(same, m, delta)
<1>7. new \in Snapshot /\ new.state = "published" /\ IsPrefix(old.adjustments, new.adjustments)
  <2> HIDE DEF same, old
  <2> QED BY <1>3, <1>4, <1>6
<1>8. Extends(p, new)
  <2> HIDE DEF new
  <2> QED BY <1>1, <1>2, <1>7 DEF Extends, Follows, new
<1> HIDE DEF new
<1> QED BY <1>7, <1>8

\* Every step leaves the snapshots alone or extends those of one project.
LEMMA SnapshotStep ==
  ASSUME TypeOK, [Next]_vars
  PROVE  \/ UNCHANGED snapshots
         \/ \E p \in Projects : \E s \in Snapshot : Extends(p, s)
<1>1. CASE TransitionCourse
  BY <1>1 DEF TransitionCourse
<1>2. CASE UNCHANGED vars
  BY <1>2 DEF vars
<1>3. ASSUME NEW p \in Projects,
             RunEnds(p) \/ Submit(p) \/ SubmissionFails(p)
      PROVE  UNCHANGED snapshots
  BY <1>3 DEF RunEnds, Submit, SubmissionFails
<1>4. ASSUME NEW p \in Projects,
             \/ DraftBaseline(p) \/ CalculateScore(p) \/ AdjustScore(p)
             \/ FreezeScore(p) \/ PublishScore(p)
      PROVE  \E s \in Snapshot : Extends(p, s)
  BY <1>4, DraftsExtend, AdjustExtends, FreezeExtends, PublishExtends
<1>5. ASSUME NEW p \in Projects, NEW m \in Members,
             SubmitAppeal(p, m) \/ CheckFacts(p, m) \/ CloseAppeal(p, m)
      PROVE  UNCHANGED snapshots
  BY <1>5 DEF SubmitAppeal, CheckFacts, CloseAppeal
<1>6. ASSUME NEW p \in Projects, NEW m \in Members, DecideAppeal(p, m)
      PROVE  \E s \in Snapshot : Extends(p, s)
  BY <1>6, DecisionExtends
<1> QED BY <1>1, <1>2, <1>3, <1>4, <1>5, <1>6 DEF Next

-----------------------------------------------------------------------------
(* Types.                                                                  *)

Appeals == [status : {"none", "submitted", "fact_check", "decision", "closed"},
            against : Nat, resolved : Nat]

LEMMA DecidedIsAppeal ==
  ASSUME NEW a \in Appeals, NEW n \in Nat
  PROVE  [a EXCEPT !.status = "decision", !.resolved = n] \in Appeals
BY DEF Appeals

LEMMA CourseStep ==
  ASSUME TypeOK, TransitionCourse
  PROVE  course' \in Range(CourseStates)
<1>1. PICK i \in 1 .. Len(CourseStates) - 1 : course' = CourseStates[i + 1]
  BY DEF TransitionCourse
<1>2. DOMAIN CourseStates = 1 .. Len(CourseStates) /\ Len(CourseStates) = 7
  BY DEF CourseStates
<1>3. i + 1 \in DOMAIN CourseStates
  BY <1>2
<1> QED BY <1>1, <1>3 DEF Range

LEMMA GradingActive == "active" \in Range(CourseStates) /\ "grading" \in Range(CourseStates)
<1>1. 3 \in DOMAIN CourseStates /\ 4 \in DOMAIN CourseStates
  BY DEF CourseStates
<1>2. CourseStates[3] = "active" /\ CourseStates[4] = "grading"
  BY DEF CourseStates
<1> QED BY <1>1, <1>2 DEF Range

LEMMA SnapshotsKeepType ==
  ASSUME TypeOK, [Next]_vars
  PROVE  snapshots' \in [Projects -> Seq(Snapshot)]
BY SnapshotStep, Added DEF Extends, TypeOK

\* TypeOK is not inductive: what is in flight is bounded by what was submitted.
InFlightSubmitted == \A p \in Projects : inFlight[p] <= submitted[p]

LEMMA SubmissionsStep ==
  ASSUME TypeOK, InFlightSubmitted, [Next]_vars
  PROVE  /\ submitted' \in [Projects -> 0 .. MaxSubmissions]
         /\ inFlight' \in [Projects -> 0 .. MaxSubmissions]
         /\ InFlightSubmitted'
<1>1. /\ submitted \in [Projects -> 0 .. MaxSubmissions]
      /\ inFlight \in [Projects -> 0 .. MaxSubmissions]
      /\ MaxSubmissions \in Nat
  BY BoundsAssumption DEF TypeOK
<1>2. ASSUME UNCHANGED <<submitted, inFlight>>
      PROVE  /\ submitted' \in [Projects -> 0 .. MaxSubmissions]
             /\ inFlight' \in [Projects -> 0 .. MaxSubmissions]
             /\ InFlightSubmitted'
  BY <1>1, <1>2 DEF InFlightSubmitted
<1>3. ASSUME NEW p \in Projects, Submit(p)
      PROVE  /\ submitted' \in [Projects -> 0 .. MaxSubmissions]
             /\ inFlight' \in [Projects -> 0 .. MaxSubmissions]
             /\ InFlightSubmitted'
  <2>1. /\ submitted[p] + 1 \in 0 .. MaxSubmissions
        /\ inFlight[p] + 1 \in 0 .. MaxSubmissions
        /\ inFlight[p] + 1 <= submitted[p] + 1
    <3>1. submitted[p] \in 0 .. MaxSubmissions /\ inFlight[p] \in 0 .. MaxSubmissions
      BY <1>1
    <3>2. submitted[p] < MaxSubmissions /\ inFlight[p] <= submitted[p]
      BY <1>3 DEF Submit, InFlightSubmitted
    <3> QED BY <1>1, <3>1, <3>2
  <2>2. /\ submitted' = [submitted EXCEPT ![p] = submitted[p] + 1]
        /\ inFlight' = [inFlight EXCEPT ![p] = inFlight[p] + 1]
    BY <1>3 DEF Submit
  <2>3. \A q \in Projects : inFlight'[q] <= submitted'[q]
    BY <1>1, <2>1, <2>2 DEF InFlightSubmitted
  <2> QED BY <1>1, <2>1, <2>2, <2>3 DEF InFlightSubmitted
<1>4. ASSUME NEW p \in Projects, DraftBaseline(p) \/ SubmissionFails(p)
      PROVE  /\ submitted' \in [Projects -> 0 .. MaxSubmissions]
             /\ inFlight' \in [Projects -> 0 .. MaxSubmissions]
             /\ InFlightSubmitted'
  <2>1. /\ inFlight' = [inFlight EXCEPT ![p] = inFlight[p] - 1] /\ submitted' = submitted
        /\ inFlight[p] > 0
    BY <1>4 DEF DraftBaseline, SubmissionFails
  <2>2. inFlight[p] - 1 \in 0 .. MaxSubmissions /\ inFlight[p] - 1 <= submitted[p]
    <3>1. inFlight[p] \in 0 .. MaxSubmissions /\ submitted[p] \in 0 .. MaxSubmissions
      BY <1>1
    <3>2. inFlight[p] <= submitted[p]
      BY DEF InFlightSubmitted
    <3> QED BY <1>1, <2>1, <3>1, <3>2
  <2>3. \A q \in Projects : inFlight'[q] <= submitted'[q]
    BY <1>1, <2>1, <2>2 DEF InFlightSubmitted
  <2> QED BY <1>1, <2>1, <2>2, <2>3 DEF InFlightSubmitted
<1>5. ASSUME NEW p \in Projects,
             \/ RunEnds(p) \/ CalculateScore(p) \/ AdjustScore(p) \/ FreezeScore(p) \/ PublishScore(p)
             \/ \E m \in Members : \/ SubmitAppeal(p, m) \/ CheckFacts(p, m)
                                   \/ DecideAppeal(p, m) \/ CloseAppeal(p, m)
      PROVE  UNCHANGED <<submitted, inFlight>>
  BY <1>5 DEF RunEnds, CalculateScore, AdjustScore, FreezeScore, PublishScore, SubmitAppeal,
              CheckFacts, DecideAppeal, CloseAppeal, runVars
<1>6. TransitionCourse \/ UNCHANGED vars => UNCHANGED <<submitted, inFlight>>
  BY DEF TransitionCourse, vars, runVars
<1> QED BY <1>2, <1>3, <1>4, <1>5, <1>6 DEF Next

TypeInv == TypeOK /\ InFlightSubmitted

LEMMA TypeStep == TypeInv /\ [Next]_vars => TypeInv'
<1> SUFFICES ASSUME TypeOK, InFlightSubmitted, [Next]_vars PROVE TypeOK' /\ InFlightSubmitted'
  BY DEF TypeInv
<1>0. /\ snapshots' \in [Projects -> Seq(Snapshot)]
      /\ submitted' \in [Projects -> 0 .. MaxSubmissions]
      /\ inFlight' \in [Projects -> 0 .. MaxSubmissions]
      /\ InFlightSubmitted'
  BY SnapshotsKeepType, SubmissionsStep
<1> DEFINE Tables == /\ project \in [Projects -> {"active", "frozen", "graded"}]
                     /\ scoreable \subseteq Projects
           Filed == appeal \in [Projects -> [Members -> Appeals]]
<1>1. course \in Range(CourseStates) /\ Tables /\ Filed
  BY DEF TypeOK, Appeals
<1>2. CASE TransitionCourse
  <2>1. course' \in Range(CourseStates)
    BY <1>2, CourseStep
  <2>2. Tables' /\ Filed'
    BY <1>1, <1>2 DEF TransitionCourse, runVars
  <2> QED BY <1>0, <2>1, <2>2 DEF TypeOK, Appeals
<1>3. CASE UNCHANGED vars
  <2>1. UNCHANGED <<course, project, scoreable, appeal>>
    BY <1>3 DEF vars
  <2> QED BY <1>0, <1>1, <2>1 DEF TypeOK, Appeals
<1>4. ASSUME NEW p \in Projects,
             \/ RunEnds(p) \/ Submit(p) \/ DraftBaseline(p) \/ SubmissionFails(p)
             \/ CalculateScore(p) \/ AdjustScore(p) \/ FreezeScore(p) \/ PublishScore(p)
      PROVE  TypeOK'
  <2>1. course' \in Range(CourseStates)
    BY <1>1, <1>4, GradingActive DEF RunEnds, Submit, DraftBaseline, SubmissionFails, CalculateScore,
         AdjustScore, FreezeScore, PublishScore, courseVars
  <2>2. project' \in [Projects -> {"active", "frozen", "graded"}] /\ scoreable' \subseteq Projects
    BY <1>1, <1>4 DEF RunEnds, Submit, DraftBaseline, SubmissionFails, CalculateScore,
         AdjustScore, FreezeScore, PublishScore, courseVars, runVars
  <2>3. Filed'
    BY <1>1, <1>4 DEF RunEnds, Submit, DraftBaseline, SubmissionFails, CalculateScore,
         AdjustScore, FreezeScore, PublishScore
  <2> QED BY <1>0, <2>1, <2>2, <2>3 DEF TypeOK, Appeals
<1>5. ASSUME NEW p \in Projects, NEW m \in Members,
             SubmitAppeal(p, m) \/ CheckFacts(p, m) \/ DecideAppeal(p, m) \/ CloseAppeal(p, m)
      PROVE  TypeOK'
  <2>1. course' \in Range(CourseStates) /\ Tables'
    BY <1>1, <1>5 DEF SubmitAppeal, CheckFacts, DecideAppeal, CloseAppeal, courseVars, runVars
  <2>2. Len(snapshots[p]) \in Nat
    BY DEF TypeOK
  <2>3. \E a \in Appeals : appeal' = [appeal EXCEPT ![p][m] = a]
    <3>1. appeal[p][m] \in Appeals
      BY <1>1
    <3>2. CASE SubmitAppeal(p, m)
      BY <2>2, <3>2 DEF SubmitAppeal, Appeals
    <3>3. CASE CheckFacts(p, m)
      <4>1. appeal' = [appeal EXCEPT ![p][m] = [appeal[p][m] EXCEPT !.status = "fact_check"]]
        BY <1>1, <3>3 DEF CheckFacts
      <4> QED BY <3>1, <4>1 DEF Appeals
    <3>4. CASE DecideAppeal(p, m)
      <4> DEFINE a == [appeal[p][m] EXCEPT !.status = "decision", !.resolved = Len(snapshots[p]) + 1]
      <4>1. appeal' = [appeal EXCEPT ![p][m] = a]
        BY <3>4 DEF DecideAppeal, Decided
      <4>2. a \in Appeals
        <5>1. Len(snapshots[p]) + 1 \in Nat
          BY <2>2
        <5> QED BY <3>1, <5>1, DecidedIsAppeal
      <4> QED BY <4>1, <4>2
    <3>5. CASE CloseAppeal(p, m)
      <4>1. appeal' = [appeal EXCEPT ![p][m] = [appeal[p][m] EXCEPT !.status = "closed"]]
        BY <1>1, <3>5 DEF CloseAppeal
      <4> QED BY <3>1, <4>1 DEF Appeals
    <3> QED BY <1>5, <3>2, <3>3, <3>4, <3>5
  <2>4. Filed'
    BY <1>1, <2>3
  <2> QED BY <1>0, <2>1, <2>4 DEF TypeOK, Appeals
<1> QED BY <1>0, <1>2, <1>3, <1>4, <1>5 DEF Next

LEMMA TypeInit == Init => TypeInv
BY BoundsAssumption, GradingActive DEF Init, TypeInv, TypeOK, InFlightSubmitted, NoAppeal

LEMMA TypeInvariant == Spec => []TypeInv
BY TypeInit, TypeStep, PTL DEF Spec

\* The course, projects, submissions, snapshots and appeals keep their types,
\* whoever submits, adjusts, freezes, publishes and appeals.
THEOREM GradingTypeCorrect == Spec => []TypeOK
<1>1. TypeInv => TypeOK
  BY DEF TypeInv
<1> QED BY <1>1, TypeInvariant, PTL

-----------------------------------------------------------------------------
(* The project and its grade.                                              *)

LEMMA GradedStep == TypeOK /\ GradedMeansPublished /\ [Next]_vars => GradedMeansPublished'
<1> SUFFICES ASSUME TypeOK, GradedMeansPublished, [Next]_vars PROVE GradedMeansPublished'
  OBVIOUS
<1>1. ASSUME UNCHANGED <<project, snapshots>> PROVE GradedMeansPublished'
  BY <1>1 DEF GradedMeansPublished, NewestState, Scored, Newest
<1>2. ASSUME NEW p \in Projects, NEW s \in Snapshot, Extends(p, s),
             project' \in [Projects -> {"active", "frozen", "graded"}],
             \A q \in Projects \ {p} : project'[q] = project[q],
             project'[p] = "graded" <=> s.state = "published"
      PROVE  GradedMeansPublished'
  <2>1. /\ NewestState(p)' = s.state
        /\ \A q \in Projects \ {p} : snapshots'[q] = snapshots[q]
    BY <1>2, Added DEF Extends
  <2>2. \A q \in Projects \ {p} : NewestState(q)' = NewestState(q)
    BY <2>1 DEF NewestState, Scored, Newest
  <2>3. \A q \in Projects : project'[q] = "graded" <=> NewestState(q)' = "published"
    BY <1>2, <2>1, <2>2 DEF GradedMeansPublished
  <2> QED BY <2>3 DEF GradedMeansPublished
<1>3. project \in [Projects -> {"active", "frozen", "graded"}]
  BY DEF TypeOK
<1>4. ASSUME NEW p \in Projects, DraftBaseline(p) \/ AdjustScore(p) \/ FreezeScore(p)
      PROVE  GradedMeansPublished'
  <2>1. NewestState(p) \in {"none", "draft"} /\ project' = project
    BY <1>4 DEF DraftBaseline, AdjustScore, FreezeScore, courseVars
  <2>2. PICK s \in Snapshot : Extends(p, s) /\ s.state # "published"
    BY <1>4, DraftsExtend, AdjustExtends, FreezeExtends
  <2>3. project[p] # "graded"
    BY <2>1 DEF GradedMeansPublished
  <2> QED BY <1>2, <1>3, <2>1, <2>2, <2>3
<1>5. ASSUME NEW p \in Projects, CalculateScore(p)
      PROVE  GradedMeansPublished'
  <2>1. project' = [project EXCEPT ![p] = "frozen"]
    BY <1>5 DEF CalculateScore
  <2>2. PICK s \in Snapshot : Extends(p, s) /\ s.state # "published"
    BY <1>5, DraftsExtend
  <2> QED BY <1>2, <1>3, <2>1, <2>2
<1>6. ASSUME NEW p \in Projects, PublishScore(p)
      PROVE  GradedMeansPublished'
  <2>1. project' = [project EXCEPT ![p] = "graded"]
    BY <1>6 DEF PublishScore
  <2>2. PICK s \in Snapshot : Extends(p, s) /\ s.state = "published"
    BY <1>6, PublishExtends
  <2> QED BY <1>2, <1>3, <2>1, <2>2
<1>7. ASSUME NEW p \in Projects, NEW m \in Members, DecideAppeal(p, m)
      PROVE  GradedMeansPublished'
  <2>1. NewestState(p) = "published" /\ project' = project
    BY <1>7 DEF DecideAppeal, courseVars
  <2>2. PICK s \in Snapshot : Extends(p, s) /\ s.state = "published"
    BY <1>7, DecisionExtends
  <2>3. project[p] = "graded"
    BY <2>1 DEF GradedMeansPublished
  <2> QED BY <1>2, <1>3, <2>1, <2>2, <2>3
<1>8. ASSUME NEW p \in Projects,
             \/ RunEnds(p) \/ Submit(p) \/ SubmissionFails(p)
             \/ \E m \in Members : SubmitAppeal(p, m) \/ CheckFacts(p, m) \/ CloseAppeal(p, m)
      PROVE  GradedMeansPublished'
  BY <1>1, <1>8 DEF RunEnds, Submit, SubmissionFails, SubmitAppeal, CheckFacts, CloseAppeal, courseVars
<1>9. TransitionCourse \/ UNCHANGED vars => GradedMeansPublished'
  BY <1>1 DEF TransitionCourse, vars
<1> QED BY <1>4, <1>5, <1>6, <1>7, <1>8, <1>9 DEF Next

\* A project is graded exactly when its newest snapshot is published, in every
\* order of submissions, teachers' steps and appeals.
THEOREM GradedWhenPublished == Spec => []GradedMeansPublished
<1>1. Init => GradedMeansPublished
  BY DEF Init, GradedMeansPublished, NewestState, Scored
<1>2. TypeInv => TypeOK
  BY DEF TypeInv
<1> QED BY <1>1, <1>2, GradedStep, TypeInvariant, PTL DEF Spec

-----------------------------------------------------------------------------
(* Grading implements ScoreLifecycle.                                      *)

LEMMA ScoreInit == Init => Lifecycle!Init
BY EmptySeq DEF Init, Lifecycle!Init, StateOfScore, VersionOfScore, NewestState, Scored

LEMMA ScoreSame ==
  ASSUME UNCHANGED snapshots
  PROVE  UNCHANGED <<StateOfScore, VersionOfScore>>
BY DEF StateOfScore, VersionOfScore, NewestState, Scored, Newest

\* A snapshot more is a snapshot more.
LEMMA ScoreExtends ==
  ASSUME TypeOK, NEW p \in Projects, NEW s \in Snapshot, Extends(p, s)
  PROVE  Lifecycle!Snapshot(p, s.state)
<1>1. /\ NewestState(p)' = s.state /\ Len(snapshots'[p]) = Len(snapshots[p]) + 1
      /\ \A q \in Projects \ {p} : snapshots'[q] = snapshots[q]
  BY Added DEF Extends
<1>2. \A q \in Projects \ {p} : NewestState(q)' = NewestState(q)
  BY <1>1 DEF NewestState, Scored, Newest
<1> QED BY <1>1, <1>2 DEF Lifecycle!Snapshot, StateOfScore, VersionOfScore

LEMMA LifecycleStep ==
  ASSUME TypeOK, GradedMeansPublished, [Next]_vars
  PROVE  [Lifecycle!Next]_(Lifecycle!vars)
<1>0. /\ \A p \in Projects : StateOfScore[p] = NewestState(p) /\ VersionOfScore[p] = Len(snapshots[p])
      /\ inFlight \in [Projects -> 0 .. MaxSubmissions]
  BY DEF TypeOK, StateOfScore, VersionOfScore
<1>s. ASSUME NEW p \in Projects, Lifecycle!Step(p) PROVE Lifecycle!Next
  BY <1>s DEF Lifecycle!Next
<1>1. ASSUME TransitionCourse \/ UNCHANGED vars PROVE UNCHANGED Lifecycle!vars
  BY <1>1, ScoreSame DEF TransitionCourse, vars, runVars, Lifecycle!vars
<1>2. ASSUME NEW p \in Projects, NEW m \in Members,
             SubmitAppeal(p, m) \/ CheckFacts(p, m) \/ CloseAppeal(p, m)
      PROVE  UNCHANGED Lifecycle!vars
  BY <1>2, ScoreSame DEF SubmitAppeal, CheckFacts, CloseAppeal, courseVars, runVars, Lifecycle!vars
<1>r. ASSUME NEW p \in Projects, RunEnds(p) PROVE UNCHANGED Lifecycle!vars
  BY <1>r, ScoreSame DEF RunEnds, courseVars, Lifecycle!vars
<1>3. ASSUME NEW p \in Projects, Submit(p) PROVE Lifecycle!Submit(p)
  BY <1>3, ScoreSame DEF Submit, courseVars, Lifecycle!Submit
<1>4. ASSUME NEW p \in Projects, SubmissionFails(p) PROVE Lifecycle!NoBaseline(p)
  BY <1>4, ScoreSame DEF SubmissionFails, courseVars, Lifecycle!NoBaseline, Lifecycle!Evaluated
<1>5. ASSUME NEW p \in Projects, DraftBaseline(p) PROVE Lifecycle!Baseline(p)
  <2>1. Lifecycle!Snapshot(p, "draft")
    BY <1>5, DraftsExtend, ScoreExtends
  <2> QED BY <1>0, <1>5, <2>1 DEF DraftBaseline, courseVars, Lifecycle!Baseline, Lifecycle!Evaluated
<1>6. ASSUME NEW p \in Projects, CalculateScore(p) PROVE Lifecycle!Calculate(p)
  <2>1. Lifecycle!Snapshot(p, "draft")
    BY <1>6, DraftsExtend, ScoreExtends
  <2>2. Len(snapshots[p]) = 0
    BY <1>6 DEF CalculateScore, Scored
  <2> QED BY <1>0, <1>6, <2>1, <2>2 DEF CalculateScore, runVars, Lifecycle!Calculate
<1>7. ASSUME NEW p \in Projects, AdjustScore(p) PROVE Lifecycle!Adjust(p)
  <2>1. Lifecycle!Snapshot(p, "draft")
    BY <1>7, AdjustExtends, ScoreExtends
  <2> QED BY <1>0, <1>7, <2>1 DEF AdjustScore, courseVars, runVars, Lifecycle!Adjust
<1>8. ASSUME NEW p \in Projects, FreezeScore(p) PROVE Lifecycle!Freeze(p)
  <2>1. Lifecycle!Snapshot(p, "frozen")
    BY <1>8, FreezeExtends, ScoreExtends
  <2> QED BY <1>0, <1>8, <2>1 DEF FreezeScore, courseVars, runVars, Lifecycle!Freeze
<1>9. ASSUME NEW p \in Projects, PublishScore(p) PROVE Lifecycle!Publish(p)
  <2>1. Lifecycle!Snapshot(p, "published")
    BY <1>9, PublishExtends, ScoreExtends
  <2> QED BY <1>0, <1>9, <2>1 DEF PublishScore, runVars, Lifecycle!Publish
<1>10. ASSUME NEW p \in Projects, NEW m \in Members, DecideAppeal(p, m) PROVE Lifecycle!Amend(p)
  <2>1. Lifecycle!Snapshot(p, "published")
    BY <1>10, DecisionExtends, ScoreExtends
  <2>2. NewestState(p) = "published" /\ project[p] = "graded"
    BY <1>10 DEF DecideAppeal, GradedMeansPublished
  <2> QED BY <1>0, <1>10, <2>1, <2>2 DEF DecideAppeal, courseVars, runVars, Lifecycle!Amend
<1> QED BY <1>s, <1>1, <1>2, <1>r, <1>3, <1>4, <1>5, <1>6, <1>7, <1>8, <1>9, <1>10
        DEF Next, Lifecycle!Step

\* Whatever teachers, submissions and appeals do, grades are grades as
\* ScoreLifecycle promises them.
THEOREM GradingImplementsScoreLifecycle == Spec => ImplementsScoreLifecycle
<1>1. TypeInv => TypeOK
  BY DEF TypeInv
<1> QED BY <1>1, ScoreInit, LifecycleStep, TypeInvariant, GradedWhenPublished, PTL
        DEF Spec, ImplementsScoreLifecycle, Lifecycle!Spec

-----------------------------------------------------------------------------
(* The history of grades.                                                  *)

\* No snapshot is changed or lost, no frozen grade is a draft again, and a
\* published grade keeps every adjustment made before.
THEOREM GradesStand == Spec => PublishedGradesStand
<1> DEFINE Stands(p) ==
      /\ IsPrefix(snapshots[p], snapshots'[p])
      /\ Scored(p) => LET old == Newest(p) new == Last(snapshots'[p]) IN
           /\ old.state = "frozen" => new.state # "draft"
           /\ old.state = "published" => /\ new.state = "published"
                                         /\ IsPrefix(old.adjustments, new.adjustments)
<1>1. TypeOK /\ [Next]_vars => [\A p \in Projects : Stands(p)]_vars
  <2> SUFFICES ASSUME TypeOK, [Next]_vars, NEW p \in Projects PROVE Stands(p)
    OBVIOUS
  <2>1. snapshots[p] \in Seq(Snapshot)
    BY DEF TypeOK
  <2>2. ASSUME snapshots'[p] = snapshots[p] PROVE Stands(p)
    <3>1. IsPrefix(snapshots[p], snapshots'[p])
      BY <2>1, <2>2, PrefixReflexive
    <3>2. ASSUME Scored(p)
          PROVE  /\ Last(snapshots'[p]) = Newest(p)
                 /\ IsPrefix(Newest(p).adjustments, Newest(p).adjustments)
      <4>1. Newest(p) \in Snapshot
        <5>1. Len(snapshots[p]) \in 1 .. Len(snapshots[p])
          BY <2>1, <3>2 DEF Scored
        <5> QED BY <2>1, <5>1 DEF Newest, Last
      <4>2. Newest(p).adjustments \in Seq(Adjustment)
        BY <4>1 DEF Snapshot, Adjustment
      <4> QED BY <2>2, <4>2, PrefixReflexive DEF Newest
    <3> QED BY <3>1, <3>2
  <2>3. ASSUME NEW s \in Snapshot, Extends(p, s) PROVE Stands(p)
    <3>1. Add(p, s) /\ Follows(p, s)
      BY <2>3 DEF Extends
    <3>2. snapshots'[p] = Append(snapshots[p], s) /\ Newest(p)' = s
      BY <3>1, Added
    <3>3. IsPrefix(snapshots[p], snapshots'[p])
      BY <2>1, <3>2, AppendExtends
    <3>4. Last(snapshots'[p]) = s
      BY <3>2 DEF Newest
    <3>5. Scored(p) => Newest(p).state = NewestState(p)
      BY DEF NewestState
    <3>6. Scored(p) => /\ Newest(p).state = "frozen" => s.state # "draft"
                       /\ Newest(p).state = "published" =>
                            /\ s.state = "published"
                            /\ IsPrefix(Newest(p).adjustments, s.adjustments)
      BY <3>1, <3>5 DEF Follows
    <3> QED BY <3>3, <3>4, <3>6
  <2>4. ASSUME NEW q \in Projects, NEW s \in Snapshot, Extends(q, s), q # p PROVE Stands(p)
    <3>1. snapshots'[p] = snapshots[p]
      BY <2>4, Added DEF Extends
    <3> QED BY <2>2, <3>1
  <2> HIDE DEF Stands
  <2> QED BY <2>2, <2>3, <2>4, SnapshotStep
<1>2. TypeInv => TypeOK
  BY DEF TypeInv
<1> QED BY <1>1, <1>2, TypeInvariant, PTL DEF Spec, PublishedGradesStand

-----------------------------------------------------------------------------
(***************************************************************************)
(* Appeals.  What an appeal refers to lies within the snapshots, and these *)
(* are a history: what was published when it was filed or decided is still *)
(* there.  A decision refers to a snapshot that nothing referred to.       *)
(***************************************************************************)
Refers(a, n) ==
  /\ a.against \in 0 .. n /\ a.resolved \in 0 .. n
  /\ a.status # "none" => a.against > 0
  /\ a.status \in {"decision", "closed"} => a.resolved > a.against

Stays(a, h) ==
  /\ a.status # "none" => h[a.against].state = "published"
  /\ a.status \in {"decision", "closed"} => h[a.resolved].state = "published"

AppealInv ==
  \A p \in Projects, m \in Members :
    /\ Refers(appeal[p][m], Len(snapshots[p]))
    /\ Stays(appeal[p][m], snapshots[p])
    /\ appeal[p][m].status \in {"decision", "closed"} =>
         \A n \in Members \ {m} : appeal[p][n].resolved # appeal[p][m].resolved

\* The snapshots of p only grow.
LEMMA History ==
  ASSUME TypeOK, [Next]_vars, NEW p \in Projects
  PROVE  /\ Len(snapshots[p]) \in Nat /\ Len(snapshots'[p]) \in Nat
         /\ Len(snapshots[p]) <= Len(snapshots'[p])
         /\ \A i \in 1 .. Len(snapshots[p]) : snapshots'[p][i] = snapshots[p][i]
<1>1. snapshots[p] \in Seq(Snapshot)
  BY DEF TypeOK
<1>2. CASE snapshots'[p] = snapshots[p]
  BY <1>1, <1>2
<1>3. ASSUME NEW s \in Snapshot, Extends(p, s)
      PROVE  /\ Len(snapshots'[p]) = Len(snapshots[p]) + 1
             /\ \A i \in 1 .. Len(snapshots[p]) : snapshots'[p][i] = snapshots[p][i]
  BY <1>3, Added DEF Extends
<1>4. ASSUME NEW q \in Projects, NEW s \in Snapshot, Extends(q, s), q # p
      PROVE  snapshots'[p] = snapshots[p]
  BY <1>4, Added DEF Extends
<1> QED BY <1>1, <1>2, <1>3, <1>4, SnapshotStep

\* What an appeal refers to outlasts every step.
LEMMA ReferenceStays ==
  ASSUME TypeOK, [Next]_vars, NEW p \in Projects, NEW a \in Appeals,
         Refers(a, Len(snapshots[p])), Stays(a, snapshots[p])
  PROVE  Refers(a, Len(snapshots'[p])) /\ Stays(a, snapshots'[p])
<1>1. /\ Len(snapshots[p]) \in Nat /\ Len(snapshots'[p]) \in Nat
      /\ Len(snapshots[p]) <= Len(snapshots'[p])
      /\ \A i \in 1 .. Len(snapshots[p]) : snapshots'[p][i] = snapshots[p][i]
  BY History
<1>2. Refers(a, Len(snapshots'[p]))
  BY <1>1 DEF Refers
<1>3. a.status # "none" => a.against \in 1 .. Len(snapshots[p])
  BY <1>1 DEF Refers
<1>4. a.status \in {"decision", "closed"} => a.resolved \in 1 .. Len(snapshots[p])
  BY <1>1 DEF Refers
<1> QED BY <1>1, <1>2, <1>3, <1>4 DEF Stays

LEMMA AppealStep == TypeOK /\ AppealInv /\ [Next]_vars => AppealInv'
<1> SUFFICES ASSUME TypeOK, AppealInv, [Next]_vars PROVE AppealInv'
  OBVIOUS
<1> DEFINE Kept(p, m) == appeal'[p][m].status \in {"decision", "closed"} =>
             \A n \in Members \ {m} : appeal'[p][n].resolved # appeal'[p][m].resolved
           Good(p, m) == Refers(appeal'[p][m], Len(snapshots'[p])) /\ Stays(appeal'[p][m], snapshots'[p])
<1>1. appeal \in [Projects -> [Members -> Appeals]]
  BY DEF TypeOK, Appeals
<1>2. ASSUME NEW p \in Projects, NEW m \in Members, appeal'[p][m] = appeal[p][m]
      PROVE  Good(p, m)
  <2>1. Refers(appeal[p][m], Len(snapshots[p])) /\ Stays(appeal[p][m], snapshots[p])
    BY DEF AppealInv
  <2>2. appeal[p][m] \in Appeals
    BY <1>1
  <2> QED BY <1>2, <2>1, <2>2, ReferenceStays
<1>3. ASSUME appeal' = appeal PROVE AppealInv'
  <2>1. ASSUME NEW p \in Projects, NEW m \in Members PROVE Good(p, m) /\ Kept(p, m)
    BY <1>2, <1>3 DEF AppealInv
  <2> QED BY <2>1 DEF AppealInv
<1>4. ASSUME NEW p \in Projects, NEW m \in Members, NEW a \in Appeals,
             appeal' = [appeal EXCEPT ![p][m] = a],
             Refers(a, Len(snapshots'[p])), Stays(a, snapshots'[p]),
             \A n \in Members \ {m} :
               /\ a.status \in {"decision", "closed"} => appeal[p][n].resolved # a.resolved
               /\ appeal[p][n].status \in {"decision", "closed"} => appeal[p][n].resolved # a.resolved
      PROVE  AppealInv'
  <2>1. ASSUME NEW q \in Projects, NEW n \in Members
        PROVE  appeal'[q][n] = IF q = p /\ n = m THEN a ELSE appeal[q][n]
    BY <1>1, <1>4
  <2>2. ASSUME NEW q \in Projects, NEW n \in Members PROVE Good(q, n)
    BY <1>2, <1>4, <2>1
  <2>3. ASSUME NEW q \in Projects, NEW n \in Members PROVE Kept(q, n)
    <3>1. appeal[q][n].status \in {"decision", "closed"} =>
            \A k \in Members \ {n} : appeal[q][k].resolved # appeal[q][n].resolved
      BY DEF AppealInv
    <3> QED BY <1>4, <2>1, <3>1
  <2> QED BY <2>2, <2>3 DEF AppealInv
<1>5. ASSUME NEW p \in Projects, NEW m \in Members
      PROVE  /\ appeal[p][m] \in Appeals /\ Len(snapshots[p]) \in Nat
             /\ Refers(appeal[p][m], Len(snapshots[p])) /\ Stays(appeal[p][m], snapshots[p])
  BY <1>1, History DEF AppealInv
<1>6. ASSUME NEW p \in Projects, NEW m \in Members, SubmitAppeal(p, m) PROVE AppealInv'
  <2> DEFINE l == Len(snapshots[p])
             a == [status |-> "submitted", resolved |-> 0, against |-> l]
  <2>1. snapshots' = snapshots /\ appeal' = [appeal EXCEPT ![p][m] = a]
    BY <1>6 DEF SubmitAppeal
  <2>2. l \in Nat \ {0} /\ snapshots[p][l].state = "published"
    BY <1>6, NewestIsSnapshot DEF SubmitAppeal
  <2>3. a \in Appeals /\ Refers(a, l) /\ Stays(a, snapshots[p])
    BY <2>2 DEF Appeals, Refers, Stays
  <2>4. \A n \in Members : appeal[p][n].status \in {"decision", "closed"} => appeal[p][n].resolved # 0
    BY <1>5 DEF Refers, Appeals
  <2>5. a.status = "submitted" /\ a.resolved = 0
    OBVIOUS
  <2> HIDE DEF a
  <2> QED BY <1>4, <2>1, <2>3, <2>4, <2>5
<1>7. ASSUME NEW p \in Projects, NEW m \in Members, NEW s,
             \/ s = "fact_check" /\ appeal[p][m].status = "submitted"
             \/ s = "closed" /\ appeal[p][m].status = "decision",
             appeal' = [appeal EXCEPT ![p][m].status = s], snapshots' = snapshots
      PROVE  AppealInv'
  <2> DEFINE a == [appeal[p][m] EXCEPT !.status = s]
  <2>1. appeal' = [appeal EXCEPT ![p][m] = a]
    BY <1>1, <1>7
  <2>2. /\ a \in Appeals /\ a.status = s
        /\ a.resolved = appeal[p][m].resolved /\ a.against = appeal[p][m].against
    BY <1>5, <1>7 DEF Appeals
  <2> HIDE DEF a
  <2>3. Refers(a, Len(snapshots[p])) /\ Stays(a, snapshots[p])
    BY <1>5, <1>7, <2>2 DEF Refers, Stays
  <2>4. ASSUME NEW n \in Members \ {m}
        PROVE  /\ a.status \in {"decision", "closed"} => appeal[p][n].resolved # a.resolved
               /\ appeal[p][n].status \in {"decision", "closed"} => appeal[p][n].resolved # a.resolved
    BY <1>7, <2>2 DEF AppealInv
  <2> QED BY <1>4, <1>7, <2>1, <2>2, <2>3, <2>4
<1>8. ASSUME NEW p \in Projects, NEW m \in Members, CheckFacts(p, m) \/ CloseAppeal(p, m)
      PROVE  AppealInv'
  BY <1>7, <1>8 DEF CheckFacts, CloseAppeal
<1>9. ASSUME NEW p \in Projects, NEW m \in Members, DecideAppeal(p, m) PROVE AppealInv'
  <2> DEFINE l == Len(snapshots[p])
             a == [appeal[p][m] EXCEPT !.status = "decision", !.resolved = l + 1]
  <2>1. appeal' = [appeal EXCEPT ![p][m] = a] /\ appeal[p][m].status = "fact_check"
    BY <1>9 DEF DecideAppeal, Decided
  <2>2. PICK s \in Snapshot : Add(p, s) /\ s.state = "published"
    BY <1>9, DecisionExtends DEF Extends
  <2>3. /\ Len(snapshots'[p]) = l + 1 /\ snapshots'[p][l + 1] = s
        /\ \A i \in 1 .. l : snapshots'[p][i] = snapshots[p][i]
    <3>1. snapshots[p] \in Seq(Snapshot)
      BY DEF TypeOK
    <3>2. snapshots'[p] = Append(snapshots[p], s)
      BY <2>2, Added
    <3> QED BY <3>1, <3>2, AppendProperties
  <2>4. /\ a \in Appeals /\ a.status = "decision"
        /\ a.resolved = l + 1 /\ a.against = appeal[p][m].against
    <3>1. l \in Nat /\ l + 1 \in Nat /\ appeal[p][m] \in Appeals
      BY <1>5
    <3>2. a \in Appeals
      BY <3>1, DecidedIsAppeal
    <3> QED BY <3>1, <3>2 DEF Appeals
  <2>5. l \in Nat /\ appeal[p][m].against \in 1 .. l /\ snapshots[p][appeal[p][m].against].state = "published"
    BY <1>5, <2>1 DEF Refers, Stays
  <2> HIDE DEF a
  <2>6. Refers(a, Len(snapshots'[p])) /\ Stays(a, snapshots'[p])
    BY <2>2, <2>3, <2>4, <2>5 DEF Refers, Stays
  <2>7. \A n \in Members : appeal[p][n].resolved # l + 1
    BY <1>5 DEF Refers
  <2>8. \A n \in Members \ {m} :
          /\ a.status \in {"decision", "closed"} => appeal[p][n].resolved # a.resolved
          /\ appeal[p][n].status \in {"decision", "closed"} => appeal[p][n].resolved # a.resolved
    BY <2>4, <2>7
  <2>9. appeal' = [appeal EXCEPT ![p][m] = a] /\ a \in Appeals
    BY <2>1, <2>4
  <2> HIDE DEF l
  <2> QED BY <1>4, <2>6, <2>8, <2>9
<1>10. ASSUME NEW p \in Projects,
              \/ RunEnds(p) \/ Submit(p) \/ DraftBaseline(p) \/ SubmissionFails(p)
              \/ CalculateScore(p) \/ AdjustScore(p) \/ FreezeScore(p) \/ PublishScore(p)
       PROVE  AppealInv'
  BY <1>3, <1>10 DEF RunEnds, Submit, DraftBaseline, SubmissionFails, CalculateScore, AdjustScore,
                     FreezeScore, PublishScore
<1>11. TransitionCourse \/ UNCHANGED vars => AppealInv'
  BY <1>3 DEF TransitionCourse, vars
<1> QED BY <1>6, <1>8, <1>9, <1>10, <1>11 DEF Next

\* Every decided appeal has a published snapshot of its own, later than the one
\* it was filed against, whatever other appeals are decided meanwhile.
THEOREM AppealsGetSnapshots == Spec => []AppealsAreResolved
<1>1. Init => AppealInv
  BY DEF Init, AppealInv, Refers, Stays, NoAppeal
<1>2. TypeInv => TypeOK
  BY DEF TypeInv
<1>3. TypeOK /\ AppealInv => AppealsAreResolved
  <2> SUFFICES ASSUME TypeOK, AppealInv, NEW p \in Projects, NEW m \in Members
               PROVE  LET a == appeal[p][m] IN
                      /\ a.status \in {"decision", "closed"} =>
                           /\ a.resolved \in a.against + 1 .. Len(snapshots[p])
                           /\ snapshots[p][a.resolved].state = "published"
                           /\ \A n \in Members \ {m} : appeal[p][n].resolved # a.resolved
                      /\ a.status # "none" => snapshots[p][a.against].state = "published"
    BY DEF AppealsAreResolved
  <2>1. /\ Refers(appeal[p][m], Len(snapshots[p])) /\ Stays(appeal[p][m], snapshots[p])
        /\ appeal[p][m].status \in {"decision", "closed"} =>
             \A n \in Members \ {m} : appeal[p][n].resolved # appeal[p][m].resolved
    BY DEF AppealInv
  <2>2. Len(snapshots[p]) \in Nat /\ appeal[p][m] \in Appeals
    BY DEF TypeOK, Appeals
  <2>3. appeal[p][m].against \in Nat /\ appeal[p][m].resolved \in Nat
    BY <2>2 DEF Appeals
  <2> QED BY <2>1, <2>2, <2>3 DEF Refers, Stays
<1> QED BY <1>1, <1>2, <1>3, AppealStep, TypeInvariant, PTL DEF Spec

-----------------------------------------------------------------------------
(* Sums of adjustments.                                                    *)

LEMMA TotalOfNone == Total(<<>>) = 0
BY SumEmpty DEF Total, SumFunction

LEMMA TotalOfAppended ==
  ASSUME NEW s \in Seq(Adjustment), NEW a \in Adjustment
  PROVE  Total(s) \in Int /\ Total(Append(s, a)) = Total(s) + a.delta
<1> DEFINE c == [i \in DOMAIN s |-> s[i].delta]
           t == Append(s, a)
           d == [i \in DOMAIN t |-> t[i].delta]
           n == Len(s) + 1
<1>1. Len(s) \in Nat /\ DOMAIN s = 1 .. Len(s)
  OBVIOUS
<1>2. /\ t \in Seq(Adjustment) /\ DOMAIN t = 1 .. n /\ t[n] = a
      /\ \A i \in 1 .. Len(s) : t[i] = s[i]
  BY <1>1, AppendProperties
<1> HIDE DEF t
<1>3. \A i \in 1 .. Len(s) : c[i] = d[i] /\ c[i] \in Int
  <2> SUFFICES ASSUME NEW i \in 1 .. Len(s) PROVE c[i] = d[i] /\ c[i] \in Int
    OBVIOUS
  <2>1. s[i] \in Adjustment
    BY <1>1
  <2>2. i \in 1 .. n
    BY <1>1
  <2> QED BY <1>1, <1>2, <2>1, <2>2 DEF Adjustment
<1>4. d[n] = a.delta /\ a.delta \in Int /\ n \in 1 .. n
  BY <1>1, <1>2 DEF Adjustment
<1> HIDE DEF c, d
<1>5. \A i \in 1 .. n : d[i] \in Int
  BY <1>1, <1>3, <1>4
<1>6. (1 .. n) \ {n} = 1 .. Len(s)
  BY <1>1
<1>7. IsFiniteSet(1 .. n) /\ IsFiniteSet(1 .. Len(s))
  BY <1>1, FS_Interval
<1>8. SumFunctionOnSet(d, 1 .. n) = d[n] + SumFunctionOnSet(d, (1 .. n) \ {n})
  BY <1>4, <1>5, <1>7, SumRemove
<1>9. SumFunctionOnSet(d, 1 .. Len(s)) = SumFunctionOnSet(c, 1 .. Len(s))
  BY <1>3, <1>7, SumSame
<1>10. SumFunctionOnSet(c, 1 .. Len(s)) \in Int
  BY <1>3, <1>7, SumInt
<1>11. Total(s) = SumFunctionOnSet(c, 1 .. Len(s)) /\ Total(t) = SumFunctionOnSet(d, 1 .. n)
  BY <1>1, <1>2 DEF Total, SumFunction, c, d
<1>12. Total(t) = a.delta + Total(s)
  <2>1. SumFunctionOnSet(d, (1 .. n) \ {n}) = SumFunctionOnSet(d, 1 .. Len(s))
    BY <1>6
  <2> QED BY <1>4, <1>8, <1>9, <1>11, <2>1
<1> QED BY <1>4, <1>10, <1>11, <1>12 DEF t

\* A snapshot that can be accounted for.
AddsUp(s) == s.final = s.baseline + Total(s.adjustments) /\ InRange(s.final)

LEMMA BaselineAddsUp ==
  ASSUME NEW b \in Baselines
  PROVE  AddsUp([state |-> "draft", baseline |-> b, final |-> b, adjustments |-> <<>>])
<1>1. b \in 0 .. MaxScore /\ b + 0 = b
  BY ScoresAssumption
<1> QED BY <1>1, TotalOfNone DEF AddsUp, InRange

LEMMA NextAddsUp ==
  ASSUME NEW s \in Snapshot, NEW state, AddsUp(s)
  PROVE  AddsUp(NextSnapshot(s, state))
BY DEF AddsUp, NextSnapshot, Snapshot

LEMMA AdjustedAddsUp ==
  ASSUME NEW s \in Snapshot, NEW m \in Members, NEW delta \in Int,
         AddsUp(s), InRange(s.final + delta)
  PROVE  AddsUp(Adjusted(s, m, delta))
<1> DEFINE a == [member |-> m, delta |-> delta]
<1>1. a \in Adjustment /\ a.delta = delta
  BY DEF Adjustment
<1>2. s.adjustments \in Seq(Adjustment) /\ s.final \in Int /\ s.baseline \in Int
  BY ScoresAssumption DEF Snapshot, Adjustment
<1> HIDE DEF a
<1>3. /\ Total(s.adjustments) \in Int
      /\ Total(Append(s.adjustments, a)) = Total(s.adjustments) + delta
  BY <1>1, <1>2, TotalOfAppended
<1>4. Adjusted(s, m, delta) =
        [s EXCEPT !.final = s.final + delta, !.adjustments = Append(s.adjustments, a)]
  BY DEF Adjusted, Snapshot, a
<1> DEFINE t == Adjusted(s, m, delta)
<1>5. /\ t.final = s.final + delta /\ t.baseline = s.baseline
      /\ t.adjustments = Append(s.adjustments, a)
  BY <1>4 DEF Snapshot
<1> HIDE DEF t
<1>6. AddsUp(t)
  <2>1. Total(t.adjustments) = Total(s.adjustments) + delta
    BY <1>3, <1>5
  <2> QED BY <1>2, <1>3, <1>5, <2>1 DEF AddsUp
<1> QED BY <1>6 DEF t

\* Whatever a transaction adds can be accounted for if its predecessor can.
LEMMA AddedAddsUp ==
  ASSUME TypeOK, GradesAddUp, NEW p \in Projects,
         \/ DraftBaseline(p) \/ CalculateScore(p) \/ AdjustScore(p) \/ FreezeScore(p)
         \/ PublishScore(p) \/ \E m \in Members : DecideAppeal(p, m)
  PROVE  \E s \in Snapshot : Add(p, s) /\ AddsUp(s)
<1> DEFINE old == Newest(p)
<1>1. ASSUME NewestState(p) # "none"
      PROVE old \in Snapshot /\ AddsUp(old)
  <2>1. old \in Snapshot /\ Len(snapshots[p]) \in 1 .. Len(snapshots[p]) /\ old = snapshots[p][Len(snapshots[p])]
    BY <1>1, NewestIsSnapshot
  <2> HIDE DEF old
  <2> QED BY <2>1 DEF GradesAddUp, AddsUp
<1>2. ASSUME DraftBaseline(p) \/ CalculateScore(p)
      PROVE \E s \in Snapshot : Add(p, s) /\ AddsUp(s)
  <2>1. PICK b \in Baselines :
          Add(p, [state |-> "draft", baseline |-> b, final |-> b, adjustments |-> <<>>])
    BY <1>2 DEF DraftBaseline, CalculateScore
  <2> QED BY <2>1, BaselineIsSnapshot, BaselineAddsUp
<1>3. ASSUME NEW state \in SnapshotStates, Add(p, NextSnapshot(old, state)), NewestState(p) # "none"
      PROVE \E s \in Snapshot : Add(p, s) /\ AddsUp(s)
  <2> HIDE DEF old
  <2> QED BY <1>1, <1>3, NextIsSnapshot, NextAddsUp
<1>4. ASSUME NEW state \in SnapshotStates, NEW m \in Members, NEW delta \in Deltas,
             Add(p, Adjusted(NextSnapshot(old, state), m, delta)),
             InRange(old.final + delta), NewestState(p) # "none"
      PROVE \E s \in Snapshot : Add(p, s) /\ AddsUp(s)
  <2> DEFINE same == NextSnapshot(old, state)
  <2> HIDE DEF old
  <2>1. same \in Snapshot /\ AddsUp(same) /\ same.final = old.final /\ delta \in Int
    BY <1>1, <1>4, NextIsSnapshot, NextAddsUp, ScoresAssumption
  <2>2. Add(p, Adjusted(same, m, delta)) /\ InRange(same.final + delta)
    BY <1>4, <2>1
  <2> HIDE DEF same
  <2>3. Adjusted(same, m, delta) \in Snapshot /\ AddsUp(Adjusted(same, m, delta))
    BY <2>1, <2>2, AdjustedIsSnapshot, AdjustedAddsUp
  <2> QED BY <2>2, <2>3
<1>5. CASE AdjustScore(p)
  <2>1. PICK m \in Members, delta \in Deltas :
          InRange(old.final + delta) /\ Add(p, Adjusted(NextSnapshot(old, "draft"), m, delta))
    BY <1>5 DEF AdjustScore
  <2>2. NewestState(p) # "none" /\ "draft" \in SnapshotStates
    BY <1>5 DEF AdjustScore, SnapshotStates
  <2> HIDE DEF old
  <2> QED BY <1>4, <2>1, <2>2
<1>6. CASE FreezeScore(p) \/ PublishScore(p)
  <2>1. NewestState(p) # "none" /\ \E state \in SnapshotStates : Add(p, NextSnapshot(old, state))
    BY <1>6 DEF FreezeScore, PublishScore, SnapshotStates
  <2> HIDE DEF old
  <2> QED BY <1>3, <2>1
<1>7. ASSUME NEW m \in Members, DecideAppeal(p, m)
      PROVE \E s \in Snapshot : Add(p, s) /\ AddsUp(s)
  <2>1. PICK delta \in Deltas :
          /\ InRange(old.final + delta)
          /\ Add(p, IF delta = 0 THEN NextSnapshot(old, "published")
                    ELSE Adjusted(NextSnapshot(old, "published"), m, delta))
    BY <1>7 DEF DecideAppeal
  <2>2. NewestState(p) # "none" /\ "published" \in SnapshotStates
    BY <1>7 DEF DecideAppeal, SnapshotStates
  <2> HIDE DEF old
  <2>3. CASE delta = 0
    BY <1>3, <2>1, <2>2, <2>3
  <2>4. CASE delta # 0
    BY <1>4, <2>1, <2>2, <2>4
  <2> QED BY <2>3, <2>4
<1> QED BY <1>2, <1>5, <1>6, <1>7

\* Every grade of every snapshot is its baseline plus the adjustments recorded
\* with it, and within the score range, however often it is adjusted, whoever
\* decides appeals against it (adjustScore, copyAdjustments, decideAppeal).
THEOREM GradesAreAccounted == Spec => []GradesAddUp
<1>1. Init => GradesAddUp
  BY DEF Init, GradesAddUp
<1>2. ASSUME TypeOK, GradesAddUp, [Next]_vars PROVE GradesAddUp'
  <2>1. ASSUME NEW p \in Projects, NEW s \in Snapshot, Add(p, s), AddsUp(s) PROVE GradesAddUp'
    <3> SUFFICES ASSUME NEW q \in Projects, NEW i \in 1 .. Len(snapshots'[q])
                 PROVE  AddsUp(snapshots'[q][i])
      BY DEF GradesAddUp, AddsUp, InRange
    <3>1. /\ snapshots'[p] = Append(snapshots[p], s)
          /\ Len(snapshots'[p]) = Len(snapshots[p]) + 1
          /\ \A j \in 1 .. Len(snapshots[p]) : snapshots'[p][j] = snapshots[p][j]
          /\ \A r \in Projects \ {p} : snapshots'[r] = snapshots[r]
      BY <1>2, <2>1, Added
    <3>2. snapshots[p] \in Seq(Snapshot) /\ snapshots[q] \in Seq(Snapshot)
      BY <1>2 DEF TypeOK
    <3>3. \A j \in 1 .. Len(snapshots[q]) : AddsUp(snapshots[q][j])
      BY <1>2 DEF GradesAddUp, AddsUp
    <3>4. CASE q = p /\ i = Len(snapshots[p]) + 1
      BY <2>1, <3>1, <3>2, <3>4, AppendProperties
    <3>5. CASE ~(q = p /\ i = Len(snapshots[p]) + 1)
      <4>1. i \in 1 .. Len(snapshots[q]) /\ snapshots'[q][i] = snapshots[q][i]
        BY <3>1, <3>2, <3>5
      <4> QED BY <3>3, <4>1
    <3> QED BY <3>4, <3>5
  <2>2. ASSUME UNCHANGED snapshots PROVE GradesAddUp'
    BY <1>2, <2>2 DEF GradesAddUp, InRange
  <2>3. ASSUME NEW p \in Projects,
               \/ RunEnds(p) \/ Submit(p) \/ SubmissionFails(p)
               \/ \E m \in Members : SubmitAppeal(p, m) \/ CheckFacts(p, m) \/ CloseAppeal(p, m)
        PROVE UNCHANGED snapshots
    BY <2>3 DEF RunEnds, Submit, SubmissionFails, SubmitAppeal, CheckFacts, CloseAppeal
  <2>4. ASSUME NEW p \in Projects,
               \/ DraftBaseline(p) \/ CalculateScore(p) \/ AdjustScore(p) \/ FreezeScore(p)
               \/ PublishScore(p) \/ \E m \in Members : DecideAppeal(p, m)
        PROVE GradesAddUp'
    BY <1>2, <2>1, <2>4, AddedAddsUp
  <2>5. TransitionCourse \/ UNCHANGED vars => UNCHANGED snapshots
    BY DEF TransitionCourse, vars
  <2> QED BY <1>2, <2>2, <2>3, <2>4, <2>5 DEF Next
<1>3. TypeInv => TypeOK
  BY DEF TypeInv
<1> QED BY <1>1, <1>2, <1>3, TypeInvariant, PTL DEF Spec
=============================================================================
