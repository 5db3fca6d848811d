------------------------------ MODULE Grading ------------------------------
(***************************************************************************)
(* Grades in vos-portal (GradingService): score snapshots are calculated   *)
(* or drafted by passing submissions, adjusted, frozen and published, and  *)
(* students appeal against them.  Every change of a grade appends a        *)
(* snapshot; the newest one counts.  Each action is one transaction: the   *)
(* unique index on (project, snapshot_version) makes two that start from   *)
(* the same snapshot exclude each other.  Scores are in hundredths.        *)
(***************************************************************************)
EXTENDS Integers, Sequences, SequencesExt

CONSTANTS
  Projects, Members,
  MaxScore,        \* the best score
  Baselines,       \* bound: the baselines runs yield
  Deltas,          \* bound: the adjustments teachers make
  MaxVersions,     \* bound: snapshots up to which grades are adjusted
  MaxSubmissions   \* bound: authoritative submissions of each project

ASSUME ScoresAssumption ==
  /\ MaxScore \in Nat
  /\ Baselines \subseteq 0 .. MaxScore
  /\ Deltas \subseteq Int /\ 0 \in Deltas
ASSUME BoundsAssumption == MaxVersions \in Nat /\ MaxSubmissions \in Nat

VARIABLES
  course,      \* courses.status
  project,     \* projects.status
  scoreable,   \* projects with a finished run that has evidence
  submitted,   \* authoritative submissions of each project ever made
  inFlight,    \* those not evaluated yet
  snapshots,   \* score_snapshots of each project, by snapshot_version
  appeal       \* the newest appeal of each project and member

vars == <<course, project, scoreable, submitted, inFlight, snapshots, appeal>>
courseVars == <<course, project>>
runVars    == <<scoreable, submitted, inFlight>>

CourseStates == <<"draft", "published", "active", "grading", "appeal", "closed", "archived">>
NoAppeal == [status |-> "none", against |-> 0, resolved |-> 0]

Init ==
  /\ course    = "active"
  /\ project   = [p \in Projects |-> "active"]
  /\ scoreable = {}
  /\ submitted = [p \in Projects |-> 0]
  /\ inFlight  = [p \in Projects |-> 0]
  /\ snapshots = [p \in Projects |-> <<>>]
  /\ appeal    = [p \in Projects |-> [m \in Members |-> NoAppeal]]

Scored(p) == snapshots[p] # <<>>
Newest(p) == Last(snapshots[p])
NewestState(p) == IF Scored(p) THEN Newest(p).state ELSE "none"

\* Slip: the next snapshot forgets the adjustments of the one before.
NextSnapshot_Forgets(snapshot, state) == [snapshot EXCEPT !.state = state, !.adjustments = <<>>]

\* cloneSnapshot and copyAdjustments.
NextSnapshot(snapshot, state) == [snapshot EXCEPT !.state = state]

\* A further adjustment of a snapshot, recorded and added to the final score.
Adjusted(snapshot, member, delta) ==
  [snapshot EXCEPT !.final = @ + delta,
                   !.adjustments = Append(@, [member |-> member, delta |-> delta])]

Add(p, snapshot) == snapshots' = [snapshots EXCEPT ![p] = Append(@, snapshot)]

InRange(score) == score \in 0 .. MaxScore

-----------------------------------------------------------------------------
(* The course, and what runs do to grades (PipelineRuns has the details).  *)

\* Courses go through their states one by one.
TransitionCourse ==
  /\ \E i \in 1 .. Len(CourseStates) - 1 :
       course = CourseStates[i] /\ course' = CourseStates[i + 1]
  /\ UNCHANGED <<project, runVars, snapshots, appeal>>

\* A run without a submission ends with evidence.
RunEnds(p) ==
  /\ scoreable' = scoreable \cup {p}
  /\ UNCHANGED <<courseVars, submitted, inFlight, snapshots, appeal>>

Submit(p) ==
  /\ project[p] = "active"
  /\ submitted[p] < MaxSubmissions
  /\ submitted' = [submitted EXCEPT ![p] = @ + 1]
  /\ inFlight'  = [inFlight EXCEPT ![p] = @ + 1]
  /\ UNCHANGED <<courseVars, scoreable, snapshots, appeal>>

\* Slip: a baseline replaces whatever is there.
DraftBaseline_Always(p) ==
  /\ inFlight[p] > 0
  /\ \E baseline \in Baselines :
       Add(p, [state |-> "draft", baseline |-> baseline, final |-> baseline, adjustments |-> <<>>])
  /\ inFlight'  = [inFlight EXCEPT ![p] = @ - 1]
  /\ scoreable' = scoreable \cup {p}
  /\ UNCHANGED <<courseVars, submitted, appeal>>

\* A passing submission drafts a new baseline.  It does not look at the project,
\* which may have been frozen meanwhile, and takes over no adjustments.
DraftBaseline(p) ==
  /\ inFlight[p] > 0
  /\ NewestState(p) \in {"none", "draft"}
  /\ \E baseline \in Baselines :
       Add(p, [state |-> "draft", baseline |-> baseline, final |-> baseline, adjustments |-> <<>>])
  /\ inFlight'  = [inFlight EXCEPT ![p] = @ - 1]
  /\ scoreable' = scoreable \cup {p}
  /\ UNCHANGED <<courseVars, submitted, appeal>>

\* A submission fails, or it passes and its baseline may no longer be drafted.
SubmissionFails(p) ==
  /\ inFlight[p] > 0
  /\ inFlight' = [inFlight EXCEPT ![p] = @ - 1]
  /\ UNCHANGED <<courseVars, scoreable, submitted, snapshots, appeal>>

-----------------------------------------------------------------------------
(* What teachers do to grades.                                             *)

\* The calculated draft is always version 1: where a snapshot exists already the
\* unique index rejects it.  It freezes the project and starts grading.
CalculateScore(p) ==
  /\ project[p] = "active"
  /\ p \in scoreable
  /\ ~Scored(p)
  /\ \E baseline \in Baselines :
       Add(p, [state |-> "draft", baseline |-> baseline, final |-> baseline, adjustments |-> <<>>])
  /\ project' = [project EXCEPT ![p] = "frozen"]
  /\ course'  = IF course = "active" THEN "grading" ELSE course
  /\ UNCHANGED <<runVars, appeal>>

AdjustScore(p) ==
  /\ NewestState(p) = "draft"
  /\ Len(snapshots[p]) < MaxVersions
  /\ \E m \in Members, delta \in Deltas :
       /\ InRange(Newest(p).final + delta)
       /\ Add(p, Adjusted(NextSnapshot(Newest(p), "draft"), m, delta))
  /\ UNCHANGED <<courseVars, runVars, appeal>>

\* Slip: freezing a score freezes its project, which a calculation did before.
FreezeScore_WithProject(p) ==
  /\ NewestState(p) = "draft"
  /\ project[p] = "active"
  /\ project' = [project EXCEPT ![p] = "frozen"]
  /\ Add(p, NextSnapshot(Newest(p), "frozen"))
  /\ UNCHANGED <<course, runVars, appeal>>

\* transitionScore to "frozen"; the project is not looked at.
FreezeScore(p) ==
  /\ NewestState(p) = "draft"
  /\ Add(p, NextSnapshot(Newest(p), "frozen"))
  /\ UNCHANGED <<courseVars, runVars, appeal>>

\* Slip: a published score leaves its project frozen.
PublishScore_KeepsProject(p) ==
  /\ NewestState(p) = "frozen"
  /\ project[p] = "frozen"
  /\ Add(p, NextSnapshot(Newest(p), "published"))
  /\ UNCHANGED <<courseVars, runVars, appeal>>

\* transitionScore to "published"; transitionProject wants a frozen project.
PublishScore(p) ==
  /\ NewestState(p) = "frozen"
  /\ project[p] = "frozen"
  /\ project' = [project EXCEPT ![p] = "graded"]
  /\ Add(p, NextSnapshot(Newest(p), "published"))
  /\ UNCHANGED <<course, runVars, appeal>>

-----------------------------------------------------------------------------
(* Appeals.                                                                *)

\* A member has at most one appeal that is not closed (a unique index).
SubmitAppeal(p, m) ==
  /\ project[p] = "graded" /\ course = "appeal"
  /\ NewestState(p) = "published"
  /\ appeal[p][m].status \in {"none", "closed"}
  /\ Len(snapshots[p]) < MaxVersions
  /\ appeal' = [appeal EXCEPT ![p][m] = [status |-> "submitted", resolved |-> 0,
                                         against |-> Len(snapshots[p])]]
  /\ UNCHANGED <<courseVars, runVars, snapshots>>

CheckFacts(p, m) ==
  /\ appeal[p][m].status = "submitted"
  /\ appeal' = [appeal EXCEPT ![p][m].status = "fact_check"]
  /\ UNCHANGED <<courseVars, runVars, snapshots>>

\* Slip: the decision refers to the snapshot it starts from.
Decided_Before(p, m) ==
  appeal' = [appeal EXCEPT ![p][m] = [@ EXCEPT !.status = "decision",
                                               !.resolved = Len(snapshots[p])]]

Decided(p, m) ==
  appeal' = [appeal EXCEPT ![p][m] = [@ EXCEPT !.status = "decision",
                                               !.resolved = Len(snapshots[p]) + 1]]

\* Slip: the decision starts from the snapshot the appeal was filed against.
DecideAppeal_FromAppealed(p, m) ==
  LET old == snapshots[p][appeal[p][m].against] IN
  /\ appeal[p][m].status = "fact_check"
  /\ \E delta \in Deltas :
       /\ InRange(old.final + delta)
       /\ Add(p, IF delta = 0 THEN NextSnapshot(old, "published")
                 ELSE Adjusted(NextSnapshot(old, "published"), m, delta))
  /\ Decided(p, m)
  /\ UNCHANGED <<courseVars, runVars>>

\* The decision makes the successor of the newest published snapshot.
DecideAppeal(p, m) ==
  /\ appeal[p][m].status = "fact_check"
  /\ NewestState(p) = "published"
  /\ \E delta \in Deltas :
       /\ InRange(Newest(p).final + delta)
       /\ Add(p, IF delta = 0 THEN NextSnapshot(Newest(p), "published")
                 ELSE Adjusted(NextSnapshot(Newest(p), "published"), m, delta))
  /\ Decided(p, m)
  /\ UNCHANGED <<courseVars, runVars>>

CloseAppeal(p, m) ==
  /\ appeal[p][m].status = "decision"
  /\ appeal' = [appeal EXCEPT ![p][m].status = "closed"]
  /\ UNCHANGED <<courseVars, runVars, snapshots>>

-----------------------------------------------------------------------------
Next ==
  \/ TransitionCourse
  \/ \E p \in Projects :
       \/ RunEnds(p) \/ Submit(p) \/ DraftBaseline(p) \/ SubmissionFails(p)
       \/ CalculateScore(p) \/ AdjustScore(p) \/ FreezeScore(p) \/ PublishScore(p)
       \/ \E m \in Members : \/ SubmitAppeal(p, m) \/ CheckFacts(p, m)
                             \/ DecideAppeal(p, m) \/ CloseAppeal(p, m)

\* A teacher who wants the grades out calculates, freezes and publishes whatever
\* the portal accepts, for good; nothing else is assumed to happen.
Fairness ==
  \A p \in Projects :
    WF_vars(CalculateScore(p)) /\ WF_vars(FreezeScore(p)) /\ WF_vars(PublishScore(p))

Spec == Init /\ [][Next]_vars /\ Fairness

-----------------------------------------------------------------------------
(* Correctness.                                                            *)

SnapshotStates == {"draft", "frozen", "published"}
Snapshot == [state : SnapshotStates, baseline : 0 .. MaxScore, final : Int,
             adjustments : Seq([member : Members, delta : Int])]

TypeOK ==
  /\ course \in Range(CourseStates)
  /\ project \in [Projects -> {"active", "frozen", "graded"}]
  /\ scoreable \subseteq Projects
  /\ submitted \in [Projects -> 0 .. MaxSubmissions]
  /\ inFlight \in [Projects -> 0 .. MaxSubmissions]
  /\ snapshots \in [Projects -> Seq(Snapshot)]
  /\ appeal \in [Projects -> [Members ->
       [status : {"none", "submitted", "fact_check", "decision", "closed"},
        against : Nat, resolved : Nat]]]

Total(adjustments) == SumFunction([i \in DOMAIN adjustments |-> adjustments[i].delta])

\* Every grade can be accounted for: the final score of each snapshot is its
\* baseline and the adjustments recorded with it, and is a valid score.
GradesAddUp ==
  \A p \in Projects : \A i \in 1 .. Len(snapshots[p]) :
    LET s == snapshots[p][i] IN s.final = s.baseline + Total(s.adjustments) /\ InRange(s.final)

\* The project and its grade move together: it is graded exactly when its newest
\* snapshot is published.
GradedMeansPublished ==
  \A p \in Projects : project[p] = "graded" <=> NewestState(p) = "published"

\* Grades are grades as ScoreLifecycle promises them.
StateOfScore   == [p \in Projects |-> NewestState(p)]
VersionOfScore == [p \in Projects |-> Len(snapshots[p])]
Lifecycle == INSTANCE ScoreLifecycle WITH open <- inFlight, state <- StateOfScore,
                                          version <- VersionOfScore
ImplementsScoreLifecycle == Lifecycle!Spec

\* Snapshots are history: none is ever changed or lost, a frozen grade is never
\* a draft again, and what has been published stays published and keeps every
\* adjustment made before.
PublishedGradesStand ==
  [][\A p \in Projects :
       /\ IsPrefix(snapshots[p], snapshots'[p])
       /\ Scored(p) => LET old == Newest(p) new == Last(snapshots'[p]) IN
            /\ old.state = "frozen" => new.state # "draft"
            /\ old.state = "published" => /\ new.state = "published"
                                          /\ IsPrefix(old.adjustments, new.adjustments)]_vars

\* Every decided appeal has a published snapshot of its own, later than the one
\* it was filed against.
AppealsAreResolved ==
  \A p \in Projects, m \in Members :
    LET a == appeal[p][m] IN
    /\ a.status \in {"decision", "closed"} =>
         /\ a.resolved \in a.against + 1 .. Len(snapshots[p])
         /\ snapshots[p][a.resolved].state = "published"
         /\ \A n \in Members \ {m} : appeal[p][n].resolved # a.resolved
    /\ a.status # "none" => snapshots[p][a.against].state = "published"

\* Once a project is frozen, a teacher who goes on gets its grade published.
FrozenProjectIsGraded == \A p \in Projects : project[p] = "frozen" ~> project[p] = "graded"

-----------------------------------------------------------------------------
\* teaching-closed-loop.md: the baseline an authoritative submission yields waits
\* for publication, and the teacher freezes and publishes it.
BaselineIsPublished == \A p \in Projects : Scored(p) ~> NewestState(p) = "published"
=============================================================================
