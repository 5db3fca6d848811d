---------------------------- MODULE StudentWork ----------------------------
(***************************************************************************)
(* The student's side of vos (vos-core/src/main.ts, submit/student.ts): a  *)
(* Git repository in which `vos agent implement`, `vos verify` and         *)
(* `vos submit` run as separate processes, while the student goes on       *)
(* editing, committing and moving HEAD.                                    *)
(*                                                                         *)
(* A project is its Spec, its vos.yaml and its code.  Hidden tests are     *)
(* kept outside Git, one manifest for each Spec hash.  A command reads     *)
(* HEAD, the working tree and the manifests at different moments; each     *)
(* such moment is an action.                                               *)
(***************************************************************************)
EXTENDS Naturals, Sequences, FiniteSets

CONSTANTS
  Specs, Configs, Codes,
  Binding,      \* Binding[s]: the part of Spec s that the hidden tests are bound to
  Project,      \* the project at the first commit
  MaxCommits,   \* bound on commits
  MaxEdits,     \* bound on what the student does to the working tree and HEAD
  MaxAtOnce,    \* bound on commands that run at the same time
  MaxFaults     \* bound on commands that are killed or fail on their own

Trees == [spec : Specs, config : Configs, code : Codes]
Commands == {"implement", "verify", "submit"}

ASSUME StudentAssumption ==
  /\ Project \in Trees
  /\ Binding \in [Specs -> Specs]
  /\ {MaxCommits, MaxEdits, MaxAtOnce, MaxFaults} \subseteq Nat

VARIABLES
  commits,       \* every commit made, with those it descends from
  head,          \* HEAD
  work,          \* the working tree
  job,           \* job[c]: how far command c is, and what it has read
  generations,   \* the Spec for which each generation of hidden tests was made
  hidden,        \* hidden[s]: .vos/hidden-tests/<s>/manifest.json
  verification,  \* verification[s]: a passed last-verification.json beside it
  verified,      \* the commits that a passed `vos verify` started from or ended on
  pack,          \* the commit that the last submit archive names
  disturbed,     \* history: the commands under which HEAD or the tests moved
  edits, faults

git == <<commits, head, work>>
tests == <<generations, hidden>>
results == <<verification, verified, pack>>
vars == <<git, job, tests, results, disturbed, edits, faults>>

\* base: the commit it started from; commit, spec, config: what it has read
\* since; gen: the hidden tests it runs; on: the commit its copy is of.
Job(at, base, spec) ==
  [at |-> at, base |-> base, commit |-> 0, spec |-> spec,
   config |-> Project.config, gen |-> 0, on |-> 0]
Idle == Job("idle", 0, Project.spec)

\* Generation 0 stands for a file that does not exist.
Manifest(gen, commit, config) == [gen |-> gen, commit |-> commit, config |-> config]
NoManifest == Manifest(0, 0, Project.config)
NoVerification ==
  [commit |-> 0, config |-> Project.config, manifest |-> NoManifest,
   on |-> 0, ran |-> 0, calm |-> FALSE]

Tree(c) == commits[c].tree
On(parent, tree) ==
  [tree |-> tree, past |-> commits[parent].past \cup {Len(commits) + 1}]
Clean == work = Tree(head)
Running == {c \in Commands : job[c].at # "idle"}

Init ==
  /\ commits = <<[tree |-> Project, past |-> {1}]>>
  /\ head = 1
  /\ work = Project
  /\ job = [c \in Commands |-> Idle]
  /\ generations = <<>>
  /\ hidden = [s \in Specs |-> NoManifest]
  /\ verification = [s \in Specs |-> NoVerification]
  /\ verified = {}
  /\ pack = 0
  /\ disturbed = {}
  /\ edits = 0 /\ faults = 0

-----------------------------------------------------------------------------
(* The student.                                                            *)

Disturb == disturbed' = Running \ {"implement"}

Edit(tree) ==
  /\ edits < MaxEdits
  /\ \E f \in DOMAIN work : tree = [work EXCEPT ![f] = tree[f]] /\ tree # work
  /\ edits' = edits + 1
  /\ work' = tree
  /\ UNCHANGED <<commits, head, job, tests, results, disturbed, faults>>

Commit ==
  /\ ~Clean /\ Len(commits) < MaxCommits
  /\ commits' = Append(commits, On(head, work))
  /\ head' = Len(commits) + 1
  /\ Disturb
  /\ UNCHANGED <<work, job, tests, results, edits, faults>>

\* git reset --hard, or a checkout of another commit.
Reset(c) ==
  /\ edits < MaxEdits /\ <<c, Tree(c)>> # <<head, work>>
  /\ edits' = edits + 1
  /\ head' = c
  /\ work' = Tree(c)
  /\ Disturb
  /\ UNCHANGED <<commits, job, tests, results, faults>>

-----------------------------------------------------------------------------
(* What the commands share.                                                *)

Goes(c, at) == job[c].at = at
Ends(c) ==
  /\ job' = [job EXCEPT ![c] = Idle]
  /\ disturbed' = disturbed \ {c}

\* Only the command itself moves.
Quiet == UNCHANGED <<git, tests, results, disturbed, edits, faults>>

\* The working tree is clean, HEAD gets its ledger entry and the Specs are read.
Begin(c) ==
  /\ Goes(c, "idle") /\ Clean /\ Cardinality(Running) < MaxAtOnce
  /\ job' = [job EXCEPT ![c] = Job("begun", head, work.spec)]
  /\ Quiet

\* git worktree add --detach ... HEAD
AddWorktree(c, from) ==
  /\ Goes(c, from)
  /\ job' = [job EXCEPT ![c].at = "checked out", ![c].on = head]
  /\ Quiet

\* An exception, a kill, an agent or a build that fails.
Fail(c) ==
  /\ ~Goes(c, "idle") /\ faults < MaxFaults
  /\ faults' = faults + 1
  /\ Ends(c)
  /\ UNCHANGED <<git, tests, results, edits>>

-----------------------------------------------------------------------------
(* vos agent implement                                                     *)

\* The agent works in the worktree until every gate passes; VOS projects its
\* test targets into vos.yaml and squashes the result onto the base.  Nothing
\* outside the owned paths may differ from the base.
AgentWorks(tree) ==
  LET base == job["implement"].base IN
  /\ Goes("implement", "checked out")
  /\ Len(commits) < MaxCommits
  /\ tree # Tree(base) /\ tree.spec = Tree(base).spec
  /\ tree.spec = Tree(job["implement"].on).spec
  /\ commits' = Append(commits, On(base, tree))
  /\ job' = [job EXCEPT !["implement"].at = "prepared", !["implement"].on = 0,
                        !["implement"].commit = Len(commits) + 1]
  /\ UNCHANGED <<head, work, tests, results, disturbed, edits, faults>>

CheckHead ==
  /\ Goes("implement", "prepared") /\ head = job["implement"].base
  /\ job' = [job EXCEPT !["implement"].at = "on base", !["implement"].base = 0]
  /\ Quiet

CheckClean ==
  /\ Goes("implement", "on base") /\ Clean
  /\ job' = [job EXCEPT !["implement"].at = "landing"]
  /\ Quiet

\* git merge --ff-only: HEAD must be an ancestor, and no file that changes may
\* be dirty; the others keep what the student did to them.
Mergeable(c) ==
  /\ head \in commits[c].past
  /\ \A f \in DOMAIN work : work[f] # Tree(head)[f] => Tree(c)[f] = Tree(head)[f]

\* Slip: git reset --hard.
Merged_Hard(c) == Tree(c)
Merged(c) == [f \in DOMAIN work |-> IF Tree(c)[f] = Tree(head)[f] THEN work[f] ELSE Tree(c)[f]]

Land ==
  LET c == job["implement"].commit IN
  /\ Goes("implement", "landing") /\ Mergeable(c)
  /\ head' = c
  /\ work' = Merged(c)
  /\ job' = [job EXCEPT !["implement"].at = "landed", !["implement"].commit = 0]
  /\ Disturb
  /\ UNCHANGED <<commits, tests, results, edits, faults>>

Replaced(gen, spec) == [hidden EXCEPT ![spec] = Manifest(gen, head, work.config)]

\* The hidden tests that came with the implementation replace the older ones.
Persist ==
  LET spec == job["implement"].spec IN
  /\ Goes("implement", "landed")
  /\ generations' = Append(generations, spec)
  /\ hidden' = Replaced(Len(generations) + 1, spec)
  /\ job' = [job EXCEPT !["implement"] = Idle]
  /\ Disturb
  /\ UNCHANGED <<git, results, edits, faults>>

-----------------------------------------------------------------------------
(* vos verify [--hidden]                                                   *)

\* Build and checks run in the working tree, which is clean when they are over.
PublicChecks ==
  /\ Goes("verify", "begun") /\ Clean
  /\ job' = [job EXCEPT !["verify"].at = "public"]
  /\ Quiet

Passes == verified' = verified \cup {job["verify"].base, head}

PublicOnly ==
  /\ Goes("verify", "public")
  /\ Passes
  /\ Ends("verify")
  /\ UNCHANGED <<git, tests, verification, pack, edits, faults>>

BindHidden ==
  /\ Goes("verify", "public")
  /\ job' = [job EXCEPT !["verify"].at = "bound", !["verify"].commit = head,
                        !["verify"].config = work.config]
  /\ Quiet

\* Slip: tests of every older Spec are taken over.
Sources_Unbound(s) == {t \in Specs : hidden[t].gen # 0}
Sources(s) == {t \in Specs : hidden[t].gen # 0 /\ Binding[t] = Binding[s]}

\* collectStudentHiddenTests: the tests of this Spec, or else the newest ones of
\* a Spec that agrees with it on what they are bound to.
Retained(s) ==
  IF hidden[s].gen # 0 THEN {hidden[s].gen}
  ELSE {hidden[t].gen : t \in {u \in Sources(s) : \A v \in Sources(s) : hidden[u].gen >= hidden[v].gen}}

\* Slip: a manifest that exists is not refreshed.
Refreshed_Missing(m, gen) == IF m.gen # 0 THEN m ELSE Manifest(gen, head, work.config)
Refreshed(m, gen) == Manifest(gen, head, work.config)

\* refreshStudentHiddenManifest, and the manifest read back and compared.
RefreshHidden(gen) ==
  LET s == job["verify"].spec IN
  /\ Goes("verify", "bound") /\ gen \in Retained(s)
  /\ hidden' = [hidden EXCEPT ![s] = Refreshed(@, gen)]
  /\ IF hidden'[s].config = job["verify"].config
       THEN /\ job' = [job EXCEPT !["verify"].at = "refreshed", !["verify"].gen = gen]
            /\ UNCHANGED disturbed
       ELSE Ends("verify")
  /\ UNCHANGED <<git, generations, results, edits, faults>>

\* Build and tests in the worktree, then last-verification.json with the hash
\* of the manifest as it is by now.
HiddenTestsPass ==
  LET v == job["verify"] IN
  /\ Goes("verify", "checked out")
  /\ Passes
  /\ verification' = [verification EXCEPT ![v.spec] =
       [commit |-> v.commit, config |-> v.config, manifest |-> hidden[v.spec],
        on |-> v.on, ran |-> v.gen, calm |-> "verify" \notin disturbed]]
  /\ Ends("verify")
  /\ UNCHANGED <<git, tests, pack, edits, faults>>

\* A verification that did not pass counts as none.
HiddenTestsFail ==
  /\ Goes("verify", "checked out") /\ faults < MaxFaults
  /\ faults' = faults + 1
  /\ verification' = [verification EXCEPT ![job["verify"].spec] = NoVerification]
  /\ Ends("verify")
  /\ UNCHANGED <<git, tests, verified, pack, edits>>

-----------------------------------------------------------------------------
(* vos submit                                                              *)

\* The report of HEAD, which is submittable if any passed verify is on record.
Report == Begin("submit") /\ verified # {}

ReadHead ==
  /\ Goes("submit", "begun") /\ Clean
  /\ job' = [job EXCEPT !["submit"].at = "headed", !["submit"].base = 0,
                        !["submit"].commit = head]
  /\ Quiet

\* The normalised bundle of the Specs in the working tree.
ReadSpec ==
  /\ Goes("submit", "headed")
  /\ job' = [job EXCEPT !["submit"].at = "read", !["submit"].spec = work.spec]
  /\ Quiet

Archive ==
  /\ Goes("submit", "read")
  /\ job' = [job EXCEPT !["submit"].at = "archived", !["submit"].on = head]
  /\ Quiet

\* Slip: the commit of the verification is not compared.
Accepted_AnyCommit(v, commit, config, manifest) ==
  v.commit # 0 /\ v.config = config /\ v.manifest = manifest
Accepted(v, commit, config, manifest) ==
  v.commit = commit /\ v.config = config /\ v.manifest = manifest

Acceptable ==
  LET j == job["submit"] IN
  Accepted(verification[j.spec], j.commit, work.config, hidden[j.spec])

Pack ==
  /\ Goes("submit", "archived") /\ Acceptable
  /\ pack' = job["submit"].commit
  /\ Ends("submit")
  /\ UNCHANGED <<git, tests, verification, verified, edits, faults>>

-----------------------------------------------------------------------------
\* The checks that end a command.
Refused(c) ==
  \/ /\ c = "implement"
     /\ \/ Goes(c, "checked out") /\ Tree(job[c].on).spec # Tree(job[c].base).spec
        \/ Goes(c, "prepared") /\ head # job[c].base
        \/ Goes(c, "on base") /\ ~Clean
        \/ Goes(c, "landing") /\ ~Mergeable(job[c].commit)
  \/ /\ c = "verify"
     /\ \/ Goes(c, "begun") /\ ~Clean
        \/ Goes(c, "bound") /\ Retained(job[c].spec) = {}
  \/ /\ c = "submit"
     /\ \/ Goes(c, "begun") /\ ~Clean
        \/ Goes(c, "archived") /\ ~Acceptable

Refuse(c) ==
  /\ Refused(c)
  /\ Ends(c)
  /\ UNCHANGED <<git, tests, results, edits, faults>>

Implement ==
  \/ Begin("implement") \/ AddWorktree("implement", "begun")
  \/ \E tree \in Trees : AgentWorks(tree)
  \/ CheckHead \/ CheckClean \/ Land \/ Persist \/ Refuse("implement")

Verify ==
  \/ Begin("verify") \/ PublicChecks \/ BindHidden
  \/ \E gen \in 1 .. Len(generations) : RefreshHidden(gen)
  \/ AddWorktree("verify", "refreshed") \/ HiddenTestsPass \/ Refuse("verify")

Submit ==
  \/ Report \/ ReadHead \/ ReadSpec \/ Archive \/ Pack \/ Refuse("submit")

Next ==
  \/ \E tree \in Trees : Edit(tree)
  \/ Commit
  \/ \E c \in 1 .. Len(commits) : Reset(c)
  \/ Implement \/ Verify \/ Submit
  \/ PublicOnly \/ HiddenTestsFail
  \/ \E c \in Commands : Fail(c)

\* A student who keeps verifying, with hidden tests now and then, and submitting.
Spec ==
  Init /\ [][Next]_vars /\ WF_vars(Verify) /\ SF_vars(BindHidden) /\ WF_vars(Submit)

-----------------------------------------------------------------------------
(* Correctness.                                                            *)

Places(c) ==
  CASE c = "implement" -> {"idle", "begun", "checked out", "prepared", "on base",
                           "landing", "landed"}
    [] c = "verify" -> {"idle", "begun", "public", "bound", "refreshed", "checked out"}
    [] c = "submit" -> {"idle", "begun", "headed", "read", "archived"}

AllPlaces == Places("implement") \cup Places("verify") \cup Places("submit")

Named == 0 .. Len(commits)
Generations == 0 .. Len(generations)
Manifests == [gen : Generations, commit : Named, config : Configs]

TypeOK ==
  /\ commits \in Seq([tree : Trees, past : SUBSET Nat])
  /\ head \in DOMAIN commits
  /\ work \in Trees
  /\ job \in [Commands -> [at : AllPlaces, base : Named, commit : Named, spec : Specs,
                           config : Configs, gen : Generations, on : Named]]
  /\ \A c \in Commands : job[c].at \in Places(c)
  /\ generations \in Seq(Specs)
  /\ hidden \in [Specs -> Manifests]
  /\ verification \in [Specs -> [commit : Named, config : Configs, manifest : Manifests,
                                 on : Named, ran : Generations, calm : BOOLEAN]]
  /\ verified \subseteq DOMAIN commits
  /\ pack \in Named
  /\ disturbed \subseteq Running
  /\ edits \in 0 .. MaxEdits /\ faults \in 0 .. MaxFaults

\* Hidden tests are never taken over to a Spec that changed what they are bound
\* to, whichever Specs the student goes through and whoever writes the manifest.
TestsBelongToSpec ==
  \A s \in Specs : hidden[s].gen # 0 => Binding[generations[hidden[s].gen]] = Binding[s]

\* The archive holds the commit it names, and just the hidden tests in it have
\* passed on that commit - unless HEAD or the tests moved under the verify or
\* the submit.  No earlier verification is taken for a later one, whatever was
\* edited, committed, checked out, implemented or killed in between.
PackWasTested ==
  [][LET j == job["submit"]
         v == verification[j.spec]
     IN Pack /\ v.calm /\ "submit" \notin disturbed =>
          /\ j.on = j.commit /\ v.on = j.commit
          /\ v.ran = hidden[j.spec].gen]_vars

\* An implementation lands without undoing anything: commits made meanwhile stay
\* in the history, edits made meanwhile stay in the working tree.
LandingKeepsWork ==
  [][Goes("implement", "landing") /\ job'["implement"].at = "landed" =>
       /\ commits[head].past \subseteq commits[head'].past
       /\ \A f \in DOMAIN work : work[f] # Tree(head)[f] => work'[f] = work[f]]_vars

\* A student who stops changing things, and whose Spec has hidden tests that
\* pass, gets an archive of HEAD: no manifest or verification left over from
\* before stands in the way for ever.
Submittable == Clean /\ Retained(work.spec) # {} /\ Goes("implement", "idle")
WorkIsSubmitted == []<>(Submittable => pack = head)

\* stage-gates.md: the report is bound to the current commit.
ReportedHeadWasVerified == Goes("submit", "begun") => job["submit"].base \in verified
=============================================================================
