------------------------- MODULE StudentWorkProofs -------------------------
(***************************************************************************)
(* Theorems about StudentWork, for every set of Specs, every number of     *)
(* commits and edits, and every interleaving of the commands: an           *)
(* implementation lands without undoing anything, hidden tests are only    *)
(* taken over where their Specs agree, and an archive holds what was       *)
(* tested.                                                                 *)
(***************************************************************************)
EXTENDS StudentWork, TLAPS

Jobs(n, g) == [at : AllPlaces, base : 0 .. n, commit : 0 .. n, spec : Specs,
               config : Configs, gen : 0 .. g, on : 0 .. n]
Listed(n, g) == [gen : 0 .. g, commit : 0 .. n, config : Configs]
Results(n, g) == [commit : 0 .. n, config : Configs, manifest : Listed(n, g),
                  on : 0 .. n, ran : 0 .. g, calm : BOOLEAN]

\* TypeOK with its sets named.
Typed ==
  /\ commits \in Seq([tree : Trees, past : SUBSET Nat])
  /\ head \in 1 .. Len(commits)
  /\ work \in Trees
  /\ job \in [Commands -> Jobs(Len(commits), Len(generations))]
  /\ \A c \in Commands : job[c].at \in Places(c)
  /\ generations \in Seq(Specs)
  /\ hidden \in [Specs -> Listed(Len(commits), Len(generations))]
  /\ verification \in [Specs -> Results(Len(commits), Len(generations))]
  /\ verified \subseteq 1 .. Len(commits)
  /\ pack \in 0 .. Len(commits)
  /\ disturbed \subseteq Running
  /\ edits \in 0 .. MaxEdits /\ faults \in 0 .. MaxFaults

(***************************************************************************)
(* The inductive invariant.  Descent is transitive; a command that is      *)
(* under way has read a commit that exists; what an undisturbed command    *)
(* has read is still so.                                                   *)
(***************************************************************************)
Descent ==
  \A c \in 1 .. Len(commits) :
    /\ c \in commits[c].past /\ commits[c].past \subseteq 1 .. Len(commits)
    /\ \A d \in commits[c].past : commits[d].past \subseteq commits[c].past

Based == {"begun", "checked out", "prepared"}
Prepared == {"prepared", "on base", "landing"}

Placed ==
  /\ job["implement"].at \in Based => job["implement"].base # 0
  /\ job["implement"].at \in Prepared => job["implement"].commit # 0
  /\ job["verify"].at # "idle" => job["verify"].base # 0

Bound == {"bound", "refreshed", "checked out"}
Refreshing == {"refreshed", "checked out"}
VerifyReads ==
  "verify" \notin disturbed =>
    /\ job["verify"].at \in Bound => job["verify"].commit = head
    /\ job["verify"].at \in Refreshing => hidden[job["verify"].spec].gen = job["verify"].gen
    /\ job["verify"].at = "checked out" => job["verify"].on = head

Headed == {"headed", "read", "archived"}
SubmitReads ==
  "submit" \notin disturbed =>
    /\ job["submit"].at \in Headed => job["submit"].commit = head
    /\ job["submit"].at = "archived" => job["submit"].on = head

Recorded ==
  \A s \in Specs : verification[s].calm =>
    /\ verification[s].on = verification[s].commit
    /\ verification[s].ran = verification[s].manifest.gen

Inv == TypeOK /\ Descent /\ Placed /\ VerifyReads /\ SubmitReads /\ Recorded /\ TestsBelongToSpec

-----------------------------------------------------------------------------
(* Types.                                                                  *)

LEMMA NamedSets == TypeOK <=> Typed
<1>1. commits \in Seq([tree : Trees, past : SUBSET Nat]) => DOMAIN commits = 1 .. Len(commits)
  OBVIOUS
<1> QED BY <1>1 DEF TypeOK, Typed, Named, Generations, Manifests, Jobs, Listed, Results

LEMMA IdleType ==
  ASSUME NEW n \in Nat, NEW g \in Nat
  PROVE  Idle \in Jobs(n, g) /\ NoManifest \in Listed(n, g) /\ NoVerification \in Results(n, g)
<1>1. Project.spec \in Specs /\ Project.config \in Configs
  BY StudentAssumption DEF Trees
<1>2. Idle \in Jobs(n, g)
  BY <1>1 DEF Idle, Job, Jobs, AllPlaces, Places
<1>3. NoManifest \in Listed(n, g)
  BY <1>1 DEF NoManifest, Manifest, Listed
<1>4. NoVerification \in Results(n, g)
  BY <1>1, <1>3 DEF NoVerification, Results
<1> QED BY <1>2, <1>3, <1>4

\* What names a commit or a generation goes on naming it.
LEMMA Larger ==
  ASSUME NEW n \in Nat, NEW m \in Nat, n <= m, NEW g \in Nat, NEW h \in Nat, g <= h
  PROVE  /\ Jobs(n, g) \subseteq Jobs(m, h)
         /\ Listed(n, g) \subseteq Listed(m, h)
         /\ Results(n, g) \subseteq Results(m, h)
<1>1. 0 .. n \subseteq 0 .. m /\ 0 .. g \subseteq 0 .. h
  OBVIOUS
<1>2. Listed(n, g) \subseteq Listed(m, h)
  BY <1>1 DEF Listed
<1> QED BY <1>1, <1>2 DEF Jobs, Results

LEMMA InitInv == Init => Inv
<1> SUFFICES ASSUME Init PROVE Inv
  OBVIOUS
<1>1. Len(commits) = 1 /\ Len(generations) = 0 /\ commits[1].past = {1}
  BY DEF Init
<1>2. Typed
  <2>1. job \in [Commands -> Jobs(Len(commits), Len(generations))]
    BY <1>1, IdleType DEF Init
  <2>2. \A c \in Commands : job[c].at \in Places(c)
    <3>1. \A c \in Commands : job[c].at = "idle"
      BY DEF Init, Idle, Job
    <3>2. \A c \in Commands : "idle" \in Places(c)
      BY DEF Places, Commands
    <3> QED BY <3>1, <3>2
  <2>3. commits \in Seq([tree : Trees, past : SUBSET Nat]) /\ generations \in Seq(Specs)
    <3>1. [tree |-> Project, past |-> {1}] \in [tree : Trees, past : SUBSET Nat]
      BY StudentAssumption
    <3> QED BY <3>1 DEF Init
  <2>4. /\ hidden \in [Specs -> Listed(Len(commits), Len(generations))]
        /\ verification \in [Specs -> Results(Len(commits), Len(generations))]
    BY <1>1, IdleType DEF Init
  <2> QED BY <1>1, <2>1, <2>2, <2>3, <2>4, StudentAssumption DEF Init, Typed
<1>3. Descent
  BY <1>1 DEF Descent
<1>4. Placed /\ VerifyReads /\ SubmitReads
  <2>1. \A c \in Commands : job[c].at = "idle"
    BY DEF Init, Idle, Job
  <2>2. /\ job["implement"].at = "idle" /\ job["verify"].at = "idle" /\ job["submit"].at = "idle"
    BY <2>1 DEF Commands
  <2>3. "idle" \notin Based \cup Prepared \cup Bound \cup Refreshing \cup Headed
    BY DEF Based, Prepared, Bound, Refreshing, Headed
  <2>4. Placed
    BY <2>2, <2>3 DEF Placed
  <2> QED BY <2>2, <2>3, <2>4 DEF VerifyReads, SubmitReads
<1>6. Recorded
  BY DEF Init, Recorded, NoVerification
<1>5. TestsBelongToSpec
  BY DEF Init, TestsBelongToSpec, NoManifest, Manifest
<1> QED BY <1>2, <1>3, <1>4, <1>5, <1>6, NamedSets DEF Inv

\* A commit is added: everything else that has its type keeps it.
LEMMA OnType ==
  ASSUME Typed, NEW c \in 1 .. Len(commits), NEW tree \in Trees,
         commits' = Append(commits, On(c, tree))
  PROVE  /\ commits' \in Seq([tree : Trees, past : SUBSET Nat])
         /\ Len(commits') = Len(commits) + 1
         /\ Len(commits) \in Nat
<1>1. commits[c].past \in SUBSET Nat /\ Len(commits) + 1 \in Nat
  <2> DEFINE Nodes == [tree : Trees, past : SUBSET Nat]
  <2>1. commits \in Seq(Nodes)
    BY DEF Typed
  <2> HIDE DEF Nodes
  <2>2. commits[c] \in Nodes /\ Len(commits) \in Nat
    BY <2>1
  <2> QED BY <2>2 DEF Nodes
<1>2. On(c, tree) \in [tree : Trees, past : SUBSET Nat]
  BY <1>1 DEF On
<1> QED BY <1>2 DEF Typed

\* Steps that move one command and leave everything else alone.
LEMMA QuietType ==
  ASSUME Typed, NEW c \in Commands, NEW j \in Jobs(Len(commits), Len(generations)),
         job' = [job EXCEPT ![c] = j], j.at \in Places(c), j.at # "idle",
         UNCHANGED <<commits, generations>>
  PROVE  /\ job' \in [Commands -> Jobs(Len(commits'), Len(generations'))]
         /\ \A d \in Commands : job'[d].at \in Places(d)
         /\ Running \subseteq Running'
BY DEF Typed, Running

LEMMA EndsType ==
  ASSUME Typed, NEW c \in Commands, Ends(c), UNCHANGED <<commits, generations>>
  PROVE  /\ job' \in [Commands -> Jobs(Len(commits'), Len(generations'))]
         /\ \A d \in Commands : job'[d].at \in Places(d)
         /\ disturbed' \subseteq Running'
<1>1. Len(commits) \in Nat /\ Len(generations) \in Nat
  BY DEF Typed
<1>2. Idle \in Jobs(Len(commits), Len(generations)) /\ Idle.at = "idle"
  BY <1>1, IdleType DEF Idle, Job
<1>3. \A d \in Commands : "idle" \in Places(d)
  BY DEF Places, Commands
<1>4. job' = [job EXCEPT ![c] = Idle] /\ disturbed' = disturbed \ {c}
  BY DEF Ends
<1> HIDE DEF Idle
<1> QED BY <1>2, <1>3, <1>4 DEF Typed, Running

\* The steps by which a command only reads.
Reading(c) ==
  \/ Begin(c)
  \/ c # "submit" /\ \E from \in {"begun", "refreshed"} : AddWorktree(c, from)
  \/ c = "implement" /\ (CheckHead \/ CheckClean)
  \/ c = "verify" /\ (PublicChecks \/ BindHidden)
  \/ c = "submit" /\ (ReadHead \/ ReadSpec \/ Archive)

LEMMA ReadingType ==
  ASSUME Typed, NEW c \in Commands, Quiet, Reading(c)
  PROVE  Typed'
<1>1. PICK j : job' = [job EXCEPT ![c] = j] /\ j.at # "idle" /\ j.at \in Places(c)
                /\ j \in Jobs(Len(commits), Len(generations))
  <2>0. /\ job[c] \in Jobs(Len(commits), Len(generations))
        /\ head \in 0 .. Len(commits) /\ 0 \in 0 .. Len(commits) /\ 0 \in 0 .. Len(generations)
        /\ work.spec \in Specs /\ work.config \in Configs
        /\ Project.spec \in Specs /\ Project.config \in Configs
    BY StudentAssumption DEF Typed, Trees
  <2>1. CASE Begin(c)
    <3> DEFINE j == Job("begun", head, work.spec)
    <3>1. j \in Jobs(Len(commits), Len(generations)) /\ j.at # "idle" /\ j.at \in Places(c)
      BY <2>0 DEF Job, Jobs, AllPlaces, Places, Commands
    <3> QED BY <2>1, <3>1 DEF Begin
  <2>2. CASE c # "submit" /\ \E from \in {"begun", "refreshed"} : AddWorktree(c, from)
    <3> DEFINE j == [job[c] EXCEPT !.at = "checked out", !.on = head]
    <3>1. j \in Jobs(Len(commits), Len(generations)) /\ j.at # "idle" /\ j.at \in Places(c)
      BY <2>0, <2>2 DEF Jobs, AllPlaces, Places, Commands
    <3>2. job' = [job EXCEPT ![c] = j]
      BY <2>2 DEF AddWorktree
    <3> QED BY <3>1, <3>2
  <2>3. CASE c = "implement" /\ CheckHead
    <3> DEFINE j == [job[c] EXCEPT !.at = "on base", !.base = 0]
    <3>1. j \in Jobs(Len(commits), Len(generations)) /\ j.at # "idle" /\ j.at \in Places(c)
      BY <2>0, <2>3 DEF Jobs, AllPlaces, Places
    <3> QED BY <2>3, <3>1 DEF CheckHead
  <2>4. CASE c = "implement" /\ CheckClean
    <3> DEFINE j == [job[c] EXCEPT !.at = "landing"]
    <3>1. j \in Jobs(Len(commits), Len(generations)) /\ j.at # "idle" /\ j.at \in Places(c)
      BY <2>0, <2>4 DEF Jobs, AllPlaces, Places
    <3> QED BY <2>4, <3>1 DEF CheckClean
  <2>5. CASE c = "verify" /\ PublicChecks
    <3> DEFINE j == [job[c] EXCEPT !.at = "public"]
    <3>1. j \in Jobs(Len(commits), Len(generations)) /\ j.at # "idle" /\ j.at \in Places(c)
      BY <2>0, <2>5 DEF Jobs, AllPlaces, Places
    <3> QED BY <2>5, <3>1 DEF PublicChecks
  <2>6. CASE c = "verify" /\ BindHidden
    <3> DEFINE j == [job[c] EXCEPT !.at = "bound", !.commit = head, !.config = work.config]
    <3>1. j \in Jobs(Len(commits), Len(generations)) /\ j.at # "idle" /\ j.at \in Places(c)
      BY <2>0, <2>6 DEF Jobs, AllPlaces, Places
    <3> QED BY <2>6, <3>1 DEF BindHidden
  <2>7. CASE c = "submit" /\ ReadHead
    <3> DEFINE j == [job[c] EXCEPT !.at = "headed", !.base = 0, !.commit = head]
    <3>1. j \in Jobs(Len(commits), Len(generations)) /\ j.at # "idle" /\ j.at \in Places(c)
      BY <2>0, <2>7 DEF Jobs, AllPlaces, Places
    <3> QED BY <2>7, <3>1 DEF ReadHead
  <2>8. CASE c = "submit" /\ ReadSpec
    <3> DEFINE j == [job[c] EXCEPT !.at = "read", !.spec = work.spec]
    <3>1. j \in Jobs(Len(commits), Len(generations)) /\ j.at # "idle" /\ j.at \in Places(c)
      BY <2>0, <2>8 DEF Jobs, AllPlaces, Places
    <3> QED BY <2>8, <3>1 DEF ReadSpec
  <2>9. CASE c = "submit" /\ Archive
    <3> DEFINE j == [job[c] EXCEPT !.at = "archived", !.on = head]
    <3>1. j \in Jobs(Len(commits), Len(generations)) /\ j.at # "idle" /\ j.at \in Places(c)
      BY <2>0, <2>9 DEF Jobs, AllPlaces, Places
    <3> QED BY <2>9, <3>1 DEF Archive
  <2> QED BY <2>1, <2>2, <2>3, <2>4, <2>5, <2>6, <2>7, <2>8, <2>9 DEF Reading
<1>2. UNCHANGED <<commits, generations>>
  BY DEF Quiet, git, tests
<1>3. /\ job' \in [Commands -> Jobs(Len(commits'), Len(generations'))]
      /\ \A d \in Commands : job'[d].at \in Places(d)
      /\ Running \subseteq Running'
  BY <1>1, <1>2, QuietType
<1> QED BY <1>3 DEF Typed, Quiet, git, tests, results

LEMMA JobFields ==
  ASSUME Typed, NEW c \in Commands
  PROVE  /\ Len(commits) \in Nat /\ Len(generations) \in Nat
         /\ job[c] \in Jobs(Len(commits), Len(generations))
         /\ {job[c].base, job[c].commit, job[c].on} \subseteq 0 .. Len(commits)
         /\ job[c].spec \in Specs /\ job[c].config \in Configs
         /\ job[c].gen \in 0 .. Len(generations)
<1>1. Len(commits) \in Nat /\ Len(generations) \in Nat
  BY DEF Typed
<1>2. job[c] \in Jobs(Len(commits), Len(generations))
  BY DEF Typed
<1> QED BY <1>1, <1>2 DEF Jobs

\* What a command starts from and makes is a commit.
LEMMA PlacedCommits ==
  ASSUME Typed, Placed
  PROVE  /\ job["implement"].at \in Based => job["implement"].base \in 1 .. Len(commits)
         /\ job["implement"].at \in Prepared => job["implement"].commit \in 1 .. Len(commits)
         /\ job["verify"].at # "idle" => job["verify"].base \in 1 .. Len(commits)
<1>1. "implement" \in Commands /\ "verify" \in Commands
  BY DEF Commands
<1>2. /\ job["implement"].base \in 0 .. Len(commits)
      /\ job["implement"].commit \in 0 .. Len(commits)
      /\ job["verify"].base \in 0 .. Len(commits)
  BY <1>1, JobFields
<1>3. \A n \in 0 .. Len(commits) : n # 0 => n \in 1 .. Len(commits)
  BY DEF Typed
<1> QED BY <1>2, <1>3 DEF Placed

LEMMA TypeStep ==
  ASSUME Inv, [Next]_vars
  PROVE  TypeOK'
<1> USE DEF git, tests, results
<1>0. Typed /\ Placed /\ Len(commits) \in Nat /\ Len(generations) \in Nat
  BY NamedSets DEF Inv, Typed
<1> SUFFICES Typed'
  BY NamedSets, PTL
<1>i. "implement" \in Commands /\ "verify" \in Commands /\ "submit" \in Commands
  BY DEF Commands
<1>j. /\ job["implement"] \in Jobs(Len(commits), Len(generations))
      /\ job["verify"] \in Jobs(Len(commits), Len(generations))
      /\ job["submit"] \in Jobs(Len(commits), Len(generations))
  BY <1>0, <1>i DEF Typed
<1>1. CASE UNCHANGED vars
  BY <1>0, <1>1 DEF vars, Typed, Running
<1>2. ASSUME NEW c \in Commands, Quiet, Reading(c)
      PROVE Typed'
  BY <1>0, <1>2, ReadingType
<1>3. ASSUME NEW tree \in Trees, Edit(tree)
      PROVE Typed'
  BY <1>0, <1>3, StudentAssumption DEF Edit, Typed, Running
<1>4. ASSUME NEW tree \in Trees, NEW c \in 1 .. Len(commits),
             commits' = Append(commits, On(c, tree)), UNCHANGED generations
      PROVE  /\ commits' \in Seq([tree : Trees, past : SUBSET Nat])
             /\ Len(commits') = Len(commits) + 1
             /\ Jobs(Len(commits), Len(generations)) \subseteq Jobs(Len(commits'), Len(generations'))
             /\ Listed(Len(commits), Len(generations)) \subseteq Listed(Len(commits'), Len(generations'))
             /\ Results(Len(commits), Len(generations)) \subseteq Results(Len(commits'), Len(generations'))
  <2>1. /\ commits' \in Seq([tree : Trees, past : SUBSET Nat])
        /\ Len(commits') = Len(commits) + 1
    BY <1>0, <1>4, OnType
  <2>2. Len(commits') \in Nat /\ Len(commits) <= Len(commits') /\ Len(generations) <= Len(generations)
    BY <1>0, <2>1
  <2> QED BY <1>0, <1>4, <2>1, <2>2, Larger
<1>5. CASE Commit
  <2>1. work \in Trees /\ head \in 1 .. Len(commits)
    BY <1>0 DEF Typed
  <2>2. commits' = Append(commits, On(head, work)) /\ UNCHANGED generations
    BY <1>5 DEF Commit
  <2>3. /\ commits' \in Seq([tree : Trees, past : SUBSET Nat])
        /\ Len(commits') = Len(commits) + 1
        /\ Jobs(Len(commits), Len(generations)) \subseteq Jobs(Len(commits'), Len(generations'))
        /\ Listed(Len(commits), Len(generations)) \subseteq Listed(Len(commits'), Len(generations'))
        /\ Results(Len(commits), Len(generations)) \subseteq Results(Len(commits'), Len(generations'))
    BY <1>4, <2>1, <2>2
  <2> QED BY <1>0, <1>5, <2>3 DEF Commit, Disturb, Typed, Running
<1>6. ASSUME NEW c \in 1 .. Len(commits), Reset(c)
      PROVE Typed'
  <2> DEFINE Nodes == [tree : Trees, past : SUBSET Nat]
  <2>1. commits \in Seq(Nodes)
    BY <1>0 DEF Typed
  <2>2. commits[c] \in Nodes
    <3> HIDE DEF Nodes
    <3> QED BY <2>1
  <2>3. Tree(c) \in Trees
    BY <2>2 DEF Tree
  <2> QED BY <1>0, <1>6, <2>3, StudentAssumption DEF Reset, Disturb, Typed, Running
<1>7. ASSUME NEW c \in Commands, Fail(c) \/ Refuse(c)
      PROVE Typed'
  <2>1. Ends(c) /\ UNCHANGED <<git, tests, results, edits>> /\ faults' \in 0 .. MaxFaults
    BY <1>0, <1>7, StudentAssumption DEF Fail, Refuse, Typed
  <2>2. /\ job' \in [Commands -> Jobs(Len(commits'), Len(generations'))]
        /\ \A d \in Commands : job'[d].at \in Places(d)
        /\ disturbed' \subseteq Running'
    BY <1>0, <2>1, EndsType
  <2> QED BY <1>0, <2>1, <2>2 DEF Typed
<1>8. ASSUME NEW tree \in Trees, AgentWorks(tree)
      PROVE Typed'
  <2> DEFINE base == job["implement"].base
             n == Len(commits) + 1
             j == [job["implement"] EXCEPT !.at = "prepared", !.on = 0, !.commit = n]
  <2>1. base \in 1 .. Len(commits)
    BY <1>0, <1>8, PlacedCommits DEF AgentWorks, Goes, Based
  <2>2. commits' = Append(commits, On(base, tree)) /\ UNCHANGED generations
    BY <1>8 DEF AgentWorks
  <2>3. /\ commits' \in Seq([tree : Trees, past : SUBSET Nat])
        /\ Len(commits') = Len(commits) + 1
        /\ Jobs(Len(commits), Len(generations)) \subseteq Jobs(Len(commits'), Len(generations'))
        /\ Listed(Len(commits), Len(generations)) \subseteq Listed(Len(commits'), Len(generations'))
        /\ Results(Len(commits), Len(generations)) \subseteq Results(Len(commits'), Len(generations'))
    BY <1>4, <2>1, <2>2
  <2>4. job["implement"] \in Jobs(Len(commits'), Len(generations'))
    BY <1>0, <1>i, <2>3 DEF Typed
  <2>5. j \in Jobs(Len(commits'), Len(generations')) /\ j.at = "prepared" /\ j.at \in Places("implement")
    <3>1. n \in 0 .. Len(commits') /\ 0 \in 0 .. Len(commits')
      BY <1>0, <2>3
    <3> QED BY <2>4, <3>1 DEF Jobs, AllPlaces, Places
  <2>6. job' = [job EXCEPT !["implement"] = j]
    BY <1>8 DEF AgentWorks
  <2> HIDE DEF j
  <2>7. /\ job' \in [Commands -> Jobs(Len(commits'), Len(generations'))]
        /\ \A d \in Commands : job'[d].at \in Places(d)
        /\ Running \subseteq Running'
    BY <1>0, <2>3, <2>5, <2>6 DEF Typed, Running
  <2>8. /\ head' \in 1 .. Len(commits') /\ pack' \in 0 .. Len(commits')
        /\ verified' \subseteq 1 .. Len(commits')
    <3>1. 1 .. Len(commits) \subseteq 1 .. Len(commits') /\ 0 .. Len(commits) \subseteq 0 .. Len(commits')
      BY <1>0, <2>3
    <3>2. UNCHANGED <<head, pack, verified>>
      BY <1>8 DEF AgentWorks
    <3> QED BY <1>0, <3>1, <3>2 DEF Typed
  <2>9. /\ hidden' \in [Specs -> Listed(Len(commits'), Len(generations'))]
        /\ verification' \in [Specs -> Results(Len(commits'), Len(generations'))]
    BY <1>0, <1>8, <2>3 DEF AgentWorks, Typed
  <2> QED BY <1>0, <1>8, <2>3, <2>7, <2>8, <2>9 DEF AgentWorks, Typed
<1>9. CASE Land
  <2> DEFINE c == job["implement"].commit
             j == [job["implement"] EXCEPT !.at = "landed", !.commit = 0]
  <2>1. c \in 1 .. Len(commits)
    BY <1>0, <1>9, PlacedCommits DEF Land, Goes, Prepared
  <2>2. Merged(c) \in Trees
    <3> DEFINE Nodes == [tree : Trees, past : SUBSET Nat]
    <3>1. commits \in Seq(Nodes) /\ head \in 1 .. Len(commits)
      BY <1>0 DEF Typed
    <3>2. commits[c] \in Nodes /\ commits[head] \in Nodes
      <4> HIDE DEF Nodes
      <4> QED BY <2>1, <3>1
    <3>3. Tree(c) \in Trees /\ Tree(head) \in Trees /\ work \in Trees
      BY <1>0, <3>2 DEF Tree, Typed
    <3> QED BY <3>3 DEF Merged, Trees
  <2>3. j \in Jobs(Len(commits), Len(generations)) /\ j.at # "idle" /\ j.at \in Places("implement")
    <3>1. 0 \in 0 .. Len(commits)
      BY <1>0
    <3> QED BY <1>j, <3>1 DEF Jobs, AllPlaces, Places
  <2>4. job' = [job EXCEPT !["implement"] = j] /\ UNCHANGED <<commits, generations>>
    BY <1>9 DEF Land
  <2>5. /\ job' \in [Commands -> Jobs(Len(commits'), Len(generations'))]
        /\ \A d \in Commands : job'[d].at \in Places(d)
        /\ Running \subseteq Running'
    BY <1>0, <1>i, <2>3, <2>4, QuietType
  <2> QED BY <1>0, <1>9, <2>1, <2>2, <2>5 DEF Land, Disturb, Typed, Running
<1>10. CASE Persist
  <2> DEFINE spec == job["implement"].spec
             n == Len(generations) + 1
  <2>1. spec \in Specs /\ head \in 0 .. Len(commits) /\ work.config \in Configs
    BY <1>0, <1>i, JobFields DEF Typed, Trees
  <2>2. generations' \in Seq(Specs) /\ Len(generations') = n /\ n \in Nat
    BY <1>0, <1>10, <2>1 DEF Persist, Typed
  <2>3. /\ Jobs(Len(commits), Len(generations)) \subseteq Jobs(Len(commits), n)
        /\ Listed(Len(commits), Len(generations)) \subseteq Listed(Len(commits), n)
        /\ Results(Len(commits), Len(generations)) \subseteq Results(Len(commits), n)
    BY <1>0, Larger
  <2>4. Manifest(n, head, work.config) \in Listed(Len(commits), n)
    BY <1>0, <2>1 DEF Manifest, Listed
  <2>5. Idle \in Jobs(Len(commits), n) /\ Idle.at = "idle"
    BY <1>0, IdleType DEF Idle, Job
  <2>6. \A d \in Commands : "idle" \in Places(d)
    BY DEF Places, Commands
  <2> HIDE DEF Idle
  <2>7. /\ job' \in [Commands -> Jobs(Len(commits), n)]
        /\ \A d \in Commands : job'[d].at \in Places(d)
        /\ Running \ {"implement"} \subseteq Running'
    BY <1>0, <1>10, <2>3, <2>5, <2>6 DEF Persist, Typed, Running
  <2>8. hidden' \in [Specs -> Listed(Len(commits), n)]
    BY <1>0, <1>10, <2>1, <2>3, <2>4 DEF Persist, Replaced, Typed
  <2> QED BY <1>0, <1>10, <2>2, <2>3, <2>7, <2>8 DEF Persist, Disturb, Typed
<1>11. CASE PublicOnly
  <2>1. /\ job' \in [Commands -> Jobs(Len(commits'), Len(generations'))]
        /\ \A d \in Commands : job'[d].at \in Places(d)
        /\ disturbed' \subseteq Running'
    BY <1>0, <1>i, <1>11, EndsType DEF PublicOnly
  <2>2. verified' \subseteq 1 .. Len(commits)
    <3>1. job["verify"].at # "idle" => job["verify"].base \in 1 .. Len(commits)
      BY <1>0, PlacedCommits
    <3> QED BY <1>0, <1>11, <3>1 DEF PublicOnly, Passes, Goes, Typed
  <2> QED BY <1>0, <1>11, <2>1, <2>2 DEF PublicOnly, Typed
<1>12. ASSUME NEW gen \in 1 .. Len(generations), RefreshHidden(gen)
       PROVE Typed'
  <2> DEFINE v == job["verify"]
             j == [v EXCEPT !.at = "refreshed", !.gen = gen]
  <2>1. v \in Jobs(Len(commits), Len(generations)) /\ v.spec \in Specs
    BY <1>0, <1>i DEF Typed, Jobs
  <2>2. Manifest(gen, head, work.config) \in Listed(Len(commits), Len(generations))
    BY <1>0 DEF Manifest, Listed, Typed, Trees
  <2>3. hidden' \in [Specs -> Listed(Len(commits), Len(generations))]
    BY <1>0, <1>12, <2>1, <2>2 DEF RefreshHidden, Refreshed, Typed
  <2>4. UNCHANGED <<commits, generations>>
    BY <1>12 DEF RefreshHidden
  <2>5. CASE Ends("verify")
    <3>1. /\ job' \in [Commands -> Jobs(Len(commits'), Len(generations'))]
          /\ \A d \in Commands : job'[d].at \in Places(d)
          /\ disturbed' \subseteq Running'
      BY <1>0, <1>i, <2>4, <2>5, EndsType
    <3> QED BY <1>0, <1>12, <2>3, <3>1 DEF RefreshHidden, Typed
  <2>6. CASE job' = [job EXCEPT !["verify"] = j] /\ UNCHANGED disturbed
    <3>1. j \in Jobs(Len(commits), Len(generations)) /\ j.at # "idle" /\ j.at \in Places("verify")
      <4>1. gen \in 0 .. Len(generations)
        BY <1>0
      <4> QED BY <1>j, <4>1 DEF Jobs, AllPlaces, Places
    <3>2. /\ job' \in [Commands -> Jobs(Len(commits'), Len(generations'))]
          /\ \A d \in Commands : job'[d].at \in Places(d)
          /\ Running \subseteq Running'
      BY <1>0, <1>i, <2>4, <2>6, <3>1, QuietType
    <3> QED BY <1>0, <1>12, <2>3, <2>6, <3>2 DEF RefreshHidden, Typed
  <2> QED BY <1>12, <2>5, <2>6 DEF RefreshHidden
<1>13. CASE HiddenTestsPass \/ HiddenTestsFail
  <2> DEFINE v == job["verify"]
             r == [commit |-> v.commit, config |-> v.config, manifest |-> hidden[v.spec],
                   on |-> v.on, ran |-> v.gen, calm |-> "verify" \notin disturbed]
  <2>1. v \in Jobs(Len(commits), Len(generations)) /\ v.spec \in Specs
        /\ hidden[v.spec] \in Listed(Len(commits), Len(generations))
    BY <1>0, <1>i DEF Typed, Jobs
  <2>2. /\ r \in Results(Len(commits), Len(generations))
        /\ NoVerification \in Results(Len(commits), Len(generations))
    BY <1>0, <2>1, IdleType DEF Results, Jobs
  <2>3. verification' = [verification EXCEPT ![v.spec] = r]
        \/ verification' = [verification EXCEPT ![v.spec] = NoVerification]
    BY <1>13 DEF HiddenTestsPass, HiddenTestsFail
  <2>4. verification' \in [Specs -> Results(Len(commits), Len(generations))]
    <3> HIDE DEF r, v
    <3> QED BY <1>0, <2>1, <2>2, <2>3 DEF Typed
  <2>5. /\ job' \in [Commands -> Jobs(Len(commits'), Len(generations'))]
        /\ \A d \in Commands : job'[d].at \in Places(d)
        /\ disturbed' \subseteq Running'
    BY <1>0, <1>i, <1>13, EndsType DEF HiddenTestsPass, HiddenTestsFail
  <2>6. verified' \subseteq 1 .. Len(commits) /\ faults' \in 0 .. MaxFaults
    <3>1. job["verify"].at # "idle" => job["verify"].base \in 1 .. Len(commits)
      BY <1>0, PlacedCommits
    <3>2. CASE HiddenTestsPass
      BY <1>0, <3>1, <3>2 DEF HiddenTestsPass, Passes, Goes, Typed
    <3>3. CASE HiddenTestsFail
      <4>1. faults' = faults + 1 /\ faults < MaxFaults /\ verified' = verified
        BY <3>3 DEF HiddenTestsFail
      <4>2. faults \in 0 .. MaxFaults /\ verified \subseteq 1 .. Len(commits)
        BY <1>0 DEF Typed
      <4> QED BY <4>1, <4>2, StudentAssumption
    <3> QED BY <1>13, <3>2, <3>3
  <2> QED BY <1>0, <1>13, <2>4, <2>5, <2>6 DEF HiddenTestsPass, HiddenTestsFail, Typed
<1>14. CASE Pack
  <2>1. /\ job' \in [Commands -> Jobs(Len(commits'), Len(generations'))]
        /\ \A d \in Commands : job'[d].at \in Places(d)
        /\ disturbed' \subseteq Running'
    BY <1>0, <1>i, <1>14, EndsType DEF Pack
  <2>2. pack' \in 0 .. Len(commits)
    BY <1>0, <1>i, <1>14 DEF Pack, Typed, Jobs
  <2> QED BY <1>0, <1>14, <2>1, <2>2 DEF Pack, Typed
<1>15. Next => \/ \E c \in Commands : Quiet /\ Reading(c)
               \/ \E tree \in Trees : Edit(tree) \/ AgentWorks(tree)
               \/ Commit \/ Land \/ Persist \/ PublicOnly \/ Pack
               \/ \E c \in 1 .. Len(commits) : Reset(c)
               \/ \E c \in Commands : Fail(c) \/ Refuse(c)
               \/ \E gen \in 1 .. Len(generations) : RefreshHidden(gen)
               \/ HiddenTestsPass \/ HiddenTestsFail
  BY <1>i DEF Next, Implement, Verify, Submit, Reading, Report, Begin, AddWorktree, CheckHead,
           CheckClean, PublicChecks, BindHidden, ReadHead, ReadSpec, Archive
<1> QED BY <1>1, <1>2, <1>3, <1>5, <1>6, <1>7, <1>8, <1>9, <1>10, <1>11, <1>12, <1>13, <1>14, <1>15

-----------------------------------------------------------------------------
(* Descent, and what the commands have read.                               *)

LEMMA DescentStep ==
  ASSUME Inv, [Next]_vars
  PROVE  Descent'
<1> USE DEF git, tests, results
<1>0. Typed /\ Descent /\ Placed /\ Len(commits) \in Nat
  BY NamedSets DEF Inv, Typed
<1>1. CASE UNCHANGED commits
  BY <1>0, <1>1 DEF Descent
<1>2. ASSUME NEW c \in 1 .. Len(commits), NEW tree \in Trees,
             commits' = Append(commits, On(c, tree))
      PROVE Descent'
  <2> DEFINE n == Len(commits) + 1
             old == commits[c].past
  <2>1. Len(commits') = n /\ n \in Nat /\ n \notin 1 .. Len(commits)
    BY <1>0, <1>2, OnType
  <2>2. \A b \in 1 .. Len(commits) : commits'[b].past = commits[b].past
    BY <1>0, <1>2 DEF Typed
  <2>3. commits'[n].past = old \cup {n}
    BY <1>0, <1>2 DEF On, Typed
  <2>4. /\ old \subseteq 1 .. Len(commits)
        /\ \A d \in old : commits[d].past \subseteq old
    BY <1>0 DEF Descent
  <2>5. ASSUME NEW b \in 1 .. n
        PROVE  /\ b \in commits'[b].past /\ commits'[b].past \subseteq 1 .. n
               /\ \A d \in commits'[b].past : commits'[d].past \subseteq commits'[b].past
    <3>1. CASE b \in 1 .. Len(commits)
      <4>1. /\ b \in commits[b].past /\ commits[b].past \subseteq 1 .. Len(commits)
            /\ \A d \in commits[b].past : commits[d].past \subseteq commits[b].past
        BY <1>0, <3>1 DEF Descent
      <4>2. 1 .. Len(commits) \subseteq 1 .. n
        BY <1>0
      <4> HIDE DEF n
      <4> QED BY <2>2, <3>1, <4>1, <4>2
    <3>2. CASE b = n
      <4>1. 1 .. Len(commits) \subseteq 1 .. n /\ n \in 1 .. n
        BY <1>0
      <4> HIDE DEF n, old
      <4> QED BY <2>2, <2>3, <2>4, <3>2, <4>1
    <3> QED BY <1>0, <3>1, <3>2
  <2> QED BY <2>1, <2>5 DEF Descent
<1>3. CASE Commit
  <2>1. head \in 1 .. Len(commits) /\ work \in Trees
    BY <1>0 DEF Typed
  <2> QED BY <1>2, <1>3, <2>1 DEF Commit
<1>4. ASSUME NEW tree \in Trees, AgentWorks(tree)
      PROVE Descent'
  <2>1. job["implement"].base \in 1 .. Len(commits)
    BY <1>0, <1>4, PlacedCommits DEF AgentWorks, Goes, Based
  <2> QED BY <1>2, <1>4, <2>1 DEF AgentWorks
<1> QED BY <1>1, <1>3, <1>4
        DEF Next, Implement, Verify, Submit, Edit, Reset, Begin, AddWorktree, Fail, CheckHead,
            CheckClean, Land, Persist, PublicChecks, PublicOnly, BindHidden, RefreshHidden,
            HiddenTestsPass, HiddenTestsFail, Report, ReadHead, ReadSpec, Archive, Pack,
            Refuse, Quiet, vars

LEMMA Moved ==
  ASSUME Typed, NEW c \in Commands, NEW j, job' = [job EXCEPT ![c] = j]
  PROVE  /\ job'[c] = j
         /\ \A d \in Commands : d # c => job'[d] = job[d]
BY DEF Typed

\* The places of the two commands that matter, before and after a step.
LEMMA PlacedStep ==
  ASSUME Inv, [Next]_vars
  PROVE  Placed'
<1> USE DEF git, tests, results
<1>0. Typed /\ Placed
  BY NamedSets DEF Inv
<1>n. head # 0 /\ Len(commits) + 1 # 0
  BY <1>0 DEF Typed
<1>i. "implement" \in Commands /\ "verify" \in Commands /\ "submit" \in Commands
  BY DEF Commands
<1>j. /\ job["implement"] \in Jobs(Len(commits), Len(generations))
      /\ job["verify"] \in Jobs(Len(commits), Len(generations))
  BY <1>0, <1>i DEF Typed
<1>p. "idle" \notin Based \cup Prepared /\ "landed" \notin Based \cup Prepared
  BY DEF Based, Prepared
<1>k. Idle.at = "idle"
  BY DEF Idle, Job
\* What is left to show of a step that moves command c.
<1>m. ASSUME NEW c \in Commands, NEW j, job' = [job EXCEPT ![c] = j],
             c = "implement" => /\ j.at \in Based => j.base # 0
                                /\ j.at \in Prepared => j.commit # 0,
             c = "verify" => (j.at # "idle" => j.base # 0)
      PROVE Placed'
  <2>1. job'[c] = j /\ \A d \in Commands : d # c => job'[d] = job[d]
    BY <1>0, <1>m, Moved
  <2>2. CASE c = "implement"
    <3>1. job'["implement"] = j /\ job'["verify"] = job["verify"]
      BY <1>i, <2>1, <2>2
    <3> QED BY <1>0, <1>m, <2>2, <3>1 DEF Placed
  <2>3. CASE c = "verify"
    <3>1. job'["implement"] = job["implement"] /\ job'["verify"] = j
      BY <1>i, <2>1, <2>3
    <3> QED BY <1>0, <1>m, <2>3, <3>1 DEF Placed
  <2>4. CASE c = "submit"
    <3>1. job'["implement"] = job["implement"] /\ job'["verify"] = job["verify"]
      BY <1>i, <2>1, <2>4
    <3> QED BY <1>0, <3>1 DEF Placed
  <2> QED BY <2>2, <2>3, <2>4 DEF Commands
<1>1. CASE UNCHANGED job
  BY <1>0, <1>1 DEF Placed
<1>2. ASSUME NEW c \in Commands, Ends(c)
      PROVE Placed'
  BY <1>m, <1>p, <1>k, <1>2 DEF Ends
<1>3. ASSUME NEW c \in Commands, Begin(c)
      PROVE Placed'
  <2> DEFINE j == Job("begun", head, work.spec)
  <2>1. j.at = "begun" /\ j.base = head
    BY DEF Job
  <2>2. "begun" \notin Prepared
    BY DEF Prepared
  <2>3. job' = [job EXCEPT ![c] = j]
    BY <1>3 DEF Begin
  <2> HIDE DEF j
  <2> QED BY <1>m, <1>n, <2>1, <2>2, <2>3
<1>4. CASE AddWorktree("implement", "begun")
  <2> DEFINE j == [job["implement"] EXCEPT !.at = "checked out", !.on = head]
  <2>1. j.at = "checked out" /\ j.base = job["implement"].base
    BY <1>j DEF Jobs
  <2>2. "checked out" \notin Prepared /\ job["implement"].at \in Based
    BY <1>4 DEF AddWorktree, Goes, Based, Prepared
  <2>3. job' = [job EXCEPT !["implement"] = j]
    BY <1>4 DEF AddWorktree
  <2> HIDE DEF j
  <2> QED BY <1>0, <1>i, <1>m, <2>1, <2>2, <2>3 DEF Placed
<1>5. ASSUME NEW tree \in Trees, AgentWorks(tree)
      PROVE Placed'
  <2> DEFINE n == Len(commits) + 1
             j == [job["implement"] EXCEPT !.at = "prepared", !.on = 0, !.commit = n]
  <2>1. j.base = job["implement"].base /\ j.commit = n
    BY <1>j DEF Jobs
  <2>2. job["implement"].at \in Based
    BY <1>5 DEF AgentWorks, Goes, Based
  <2>3. job' = [job EXCEPT !["implement"] = j]
    BY <1>5 DEF AgentWorks
  <2> HIDE DEF j
  <2> QED BY <1>0, <1>n, <1>i, <1>m, <2>1, <2>2, <2>3 DEF Placed
<1>6. CASE CheckHead
  <2> DEFINE j == [job["implement"] EXCEPT !.at = "on base", !.base = 0]
  <2>1. j.at = "on base" /\ j.commit = job["implement"].commit
    BY <1>j DEF Jobs
  <2>2. "on base" \notin Based /\ job["implement"].at \in Prepared
    BY <1>6 DEF CheckHead, Goes, Based, Prepared
  <2>3. job' = [job EXCEPT !["implement"] = j]
    BY <1>6 DEF CheckHead
  <2> HIDE DEF j
  <2> QED BY <1>0, <1>i, <1>m, <2>1, <2>2, <2>3 DEF Placed
<1>7. CASE CheckClean
  <2> DEFINE j == [job["implement"] EXCEPT !.at = "landing"]
  <2>1. j.at = "landing" /\ j.commit = job["implement"].commit
    BY <1>j DEF Jobs
  <2>2. "landing" \notin Based /\ job["implement"].at \in Prepared
    BY <1>7 DEF CheckClean, Goes, Based, Prepared
  <2>3. job' = [job EXCEPT !["implement"] = j]
    BY <1>7 DEF CheckClean
  <2> HIDE DEF j
  <2> QED BY <1>0, <1>i, <1>m, <2>1, <2>2, <2>3 DEF Placed
<1>8. CASE Land
  <2> DEFINE j == [job["implement"] EXCEPT !.at = "landed", !.commit = 0]
  <2>1. j.at = "landed"
    BY <1>j DEF Jobs
  <2>2. job' = [job EXCEPT !["implement"] = j]
    BY <1>8 DEF Land
  <2> HIDE DEF j
  <2> QED BY <1>i, <1>m, <1>p, <2>1, <2>2
<1>9. CASE Persist
  BY <1>i, <1>m, <1>p, <1>k, <1>9 DEF Persist
\* A verify that is under way keeps its base.
<1>10. ASSUME NEW j, job' = [job EXCEPT !["verify"] = j], j.base = job["verify"].base,
              job["verify"].at # "idle"
       PROVE Placed'
  BY <1>0, <1>i, <1>m, <1>10 DEF Placed
<1>11. CASE PublicChecks \/ BindHidden \/ AddWorktree("verify", "refreshed")
  <2> DEFINE v == job["verify"]
             a == [v EXCEPT !.at = "public"]
             b == [v EXCEPT !.at = "bound", !.commit = head, !.config = work.config]
             w == [v EXCEPT !.at = "checked out", !.on = head]
  <2>1. a.base = v.base /\ b.base = v.base /\ w.base = v.base
    BY <1>j DEF Jobs
  <2>2. v.at # "idle"
    BY <1>11 DEF PublicChecks, BindHidden, AddWorktree, Goes
  <2>3. \/ job' = [job EXCEPT !["verify"] = a]
        \/ job' = [job EXCEPT !["verify"] = b]
        \/ job' = [job EXCEPT !["verify"] = w]
    BY <1>11 DEF PublicChecks, BindHidden, AddWorktree
  <2> HIDE DEF a, b, w
  <2> QED BY <1>10, <2>1, <2>2, <2>3
<1>12. ASSUME NEW gen \in 1 .. Len(generations), RefreshHidden(gen)
       PROVE Placed'
  <2> DEFINE j == [job["verify"] EXCEPT !.at = "refreshed", !.gen = gen]
  <2>1. j.base = job["verify"].base
    BY <1>j DEF Jobs
  <2>2. job["verify"].at # "idle"
    BY <1>12 DEF RefreshHidden, Goes
  <2>3. job' = [job EXCEPT !["verify"] = j] \/ Ends("verify")
    BY <1>12 DEF RefreshHidden
  <2> HIDE DEF j
  <2> QED BY <1>2, <1>i, <1>10, <2>1, <2>2, <2>3
<1>13. CASE ReadHead \/ ReadSpec \/ Archive
  <2>1. \E j : job' = [job EXCEPT !["submit"] = j]
    BY <1>13 DEF ReadHead, ReadSpec, Archive
  <2> QED BY <1>i, <1>m, <2>1
<1> QED BY <1>1, <1>2, <1>3, <1>4, <1>5, <1>6, <1>7, <1>8, <1>9, <1>11, <1>12, <1>13, <1>i
        DEF Next, Implement, Verify, Submit, Edit, Commit, Reset, Fail, PublicOnly,
            HiddenTestsPass, HiddenTestsFail, Report, Pack, Refuse, vars

LEMMA VerifyReadsStep ==
  ASSUME Inv, [Next]_vars
  PROVE  VerifyReads'
<1> USE DEF git, tests, results
<1>0. Typed /\ VerifyReads
  BY NamedSets DEF Inv
<1>i. "implement" \in Commands /\ "verify" \in Commands /\ "submit" \in Commands
  BY DEF Commands
<1>j. job["verify"] \in Jobs(Len(commits), Len(generations))
  BY <1>0, <1>i DEF Typed
<1>p. {"idle", "begun", "public"} \cap (Bound \cup Refreshing) = {}
  BY DEF Bound, Refreshing
<1>1. ASSUME job'["verify"] = job["verify"], UNCHANGED <<head, hidden>>,
             "verify" \in disturbed => "verify" \in disturbed'
      PROVE VerifyReads'
  BY <1>0, <1>1 DEF VerifyReads
<1>2. ASSUME job'["verify"] = job["verify"], Disturb
      PROVE VerifyReads'
  <2>1. CASE job["verify"].at = "idle"
    <3>1. "idle" # "checked out"
      OBVIOUS
    <3> QED BY <1>p, <1>2, <2>1, <3>1 DEF VerifyReads
  <2>2. CASE job["verify"].at # "idle"
    <3>1. "verify" \in disturbed'
      BY <1>i, <1>2, <2>2 DEF Disturb, Running
    <3> QED BY <3>1 DEF VerifyReads
  <2> QED BY <2>1, <2>2
<1>3. ASSUME job'["verify"].at \in {"idle", "begun", "public"}
      PROVE VerifyReads'
  <2>1. job'["verify"].at \notin Bound /\ job'["verify"].at \notin Refreshing
        /\ job'["verify"].at # "checked out"
    BY <1>3, <1>p
  <2> QED BY <2>1 DEF VerifyReads
<1>4. ASSUME NEW c \in Commands, Ends(c), UNCHANGED <<head, hidden>>
      PROVE VerifyReads'
  <2>1. job'[c] = Idle /\ \A d \in Commands : d # c => job'[d] = job[d]
    BY <1>0, <1>4, Moved DEF Ends
  <2>2. CASE c = "verify"
    BY <1>3, <2>1, <2>2 DEF Idle, Job
  <2>3. CASE c # "verify"
    <3>1. job'["verify"] = job["verify"] /\ ("verify" \in disturbed => "verify" \in disturbed')
      BY <1>4, <1>i, <2>1, <2>3 DEF Ends
    <3> QED BY <1>1, <1>4, <3>1
  <2> QED BY <2>2, <2>3
<1>5. ASSUME NEW c \in Commands, Begin(c)
      PROVE VerifyReads'
  <2>1. job'[c] = Job("begun", head, work.spec) /\ \A d \in Commands : d # c => job'[d] = job[d]
    BY <1>0, <1>5, Moved DEF Begin
  <2>2. CASE c = "verify"
    BY <1>3, <2>1, <2>2 DEF Job
  <2>3. CASE c # "verify"
    <3>1. job'["verify"] = job["verify"] /\ UNCHANGED <<head, hidden, disturbed>>
      BY <1>5, <1>i, <2>1, <2>3 DEF Begin, Quiet
    <3> QED BY <1>1, <3>1
  <2> QED BY <2>2, <2>3
<1>6. ASSUME NEW c \in {"implement", "submit"}, NEW j, job' = [job EXCEPT ![c] = j]
      PROVE job'["verify"] = job["verify"]
  BY <1>0, <1>i, <1>6, Moved DEF Commands
<1>7. CASE \/ AddWorktree("implement", "begun") \/ CheckHead \/ CheckClean
           \/ ReadHead \/ ReadSpec \/ Archive
  <2>1. \E c \in {"implement", "submit"} : \E j : job' = [job EXCEPT ![c] = j]
    BY <1>7 DEF AddWorktree, CheckHead, CheckClean, ReadHead, ReadSpec, Archive
  <2>2. UNCHANGED <<head, hidden, disturbed>>
    BY <1>7 DEF AddWorktree, CheckHead, CheckClean, ReadHead, ReadSpec, Archive, Quiet
  <2> QED BY <1>1, <1>6, <2>1, <2>2
<1>8. ASSUME NEW tree \in Trees, AgentWorks(tree)
      PROVE VerifyReads'
  <2>1. \E j : job' = [job EXCEPT !["implement"] = j]
    BY <1>8 DEF AgentWorks
  <2> QED BY <1>1, <1>6, <1>8, <2>1 DEF AgentWorks
<1>9. CASE Land \/ Persist
  <2>1. \E j : job' = [job EXCEPT !["implement"] = j]
    BY <1>9 DEF Land, Persist
  <2> QED BY <1>2, <1>6, <1>9, <2>1 DEF Land, Persist
<1>10. CASE PublicChecks
  <2>1. job'["verify"] = [job["verify"] EXCEPT !.at = "public"]
    BY <1>0, <1>i, <1>10, Moved DEF PublicChecks
  <2> QED BY <1>3, <1>j, <2>1 DEF Jobs
<1>11. CASE BindHidden
  <2> DEFINE j == [job["verify"] EXCEPT !.at = "bound", !.commit = head, !.config = work.config]
  <2>1. job' = [job EXCEPT !["verify"] = j] /\ head' = head
    BY <1>11 DEF BindHidden, Quiet
  <2>2. j.at = "bound" /\ j.commit = head
    BY <1>j DEF Jobs
  <2> HIDE DEF j
  <2>3. job'["verify"] = j
    BY <1>0, <1>i, <2>1, Moved
  <2>4. "bound" \notin Refreshing /\ "bound" # "checked out"
    BY DEF Refreshing
  <2> QED BY <2>1, <2>2, <2>3, <2>4 DEF VerifyReads
<1>12. CASE AddWorktree("verify", "refreshed")
  <2> DEFINE j == [job["verify"] EXCEPT !.at = "checked out", !.on = head]
  <2>1. job' = [job EXCEPT !["verify"] = j] /\ UNCHANGED <<head, hidden, disturbed>>
    BY <1>12 DEF AddWorktree, Quiet
  <2>2. /\ j.commit = job["verify"].commit /\ j.spec = job["verify"].spec
        /\ j.gen = job["verify"].gen /\ j.on = head
    BY <1>j DEF Jobs
  <2> HIDE DEF j
  <2>3. job'["verify"] = j
    BY <1>0, <1>i, <2>1, Moved
  <2>4. job["verify"].at \in Bound /\ job["verify"].at \in Refreshing
    BY <1>12 DEF AddWorktree, Goes, Bound, Refreshing
  <2> QED BY <1>0, <2>1, <2>2, <2>3, <2>4 DEF VerifyReads
<1>13. ASSUME NEW gen \in 1 .. Len(generations), RefreshHidden(gen), ~Ends("verify")
       PROVE VerifyReads'
  <2> DEFINE v == job["verify"]
             j == [v EXCEPT !.at = "refreshed", !.gen = gen]
  <2>1. job' = [job EXCEPT !["verify"] = j] /\ UNCHANGED <<head, disturbed>>
    BY <1>13 DEF RefreshHidden
  <2>2. /\ j.commit = v.commit /\ j.spec = v.spec /\ j.gen = gen /\ j.at = "refreshed"
    BY <1>j DEF Jobs
  <2>3. v.at \in Bound /\ v.spec \in Specs
    BY <1>0, <1>i, <1>13, JobFields DEF RefreshHidden, Goes, Bound
  <2>4. hidden'[v.spec].gen = gen
    BY <1>0, <1>13, <2>3 DEF RefreshHidden, Refreshed, Manifest, Typed
  <2> HIDE DEF j
  <2>5. job'["verify"] = j
    BY <1>0, <1>i, <2>1, Moved
  <2>6. "refreshed" # "checked out"
    OBVIOUS
  <2> QED BY <1>0, <2>1, <2>2, <2>3, <2>4, <2>5, <2>6 DEF VerifyReads
<1>14. CASE UNCHANGED vars
  BY <1>1, <1>14 DEF vars
<1>15. CASE Commit \/ \E c \in 1 .. Len(commits) : Reset(c)
  BY <1>2, <1>15 DEF Commit, Reset
<1>16. ASSUME NEW tree \in Trees, Edit(tree)
       PROVE VerifyReads'
  BY <1>1, <1>16 DEF Edit
<1>17. ASSUME NEW c \in Commands, Fail(c) \/ Refuse(c)
       PROVE VerifyReads'
  BY <1>4, <1>17 DEF Fail, Refuse
<1>18. CASE PublicOnly \/ HiddenTestsPass \/ HiddenTestsFail \/ Pack
  BY <1>4, <1>i, <1>18 DEF PublicOnly, HiddenTestsPass, HiddenTestsFail, Pack
<1>19. ASSUME NEW gen \in 1 .. Len(generations), RefreshHidden(gen), Ends("verify")
       PROVE VerifyReads'
  <2>1. job'["verify"] = Idle
    BY <1>0, <1>i, <1>19, Moved DEF Ends
  <2> QED BY <1>3, <2>1 DEF Idle, Job
<1> QED BY <1>5, <1>7, <1>8, <1>9, <1>10, <1>11, <1>12, <1>13, <1>14, <1>15, <1>16, <1>17,
           <1>18, <1>19, <1>i
        DEF Next, Implement, Verify, Submit, Report

LEMMA SubmitReadsStep ==
  ASSUME Inv, [Next]_vars
  PROVE  SubmitReads'
<1> USE DEF git, tests, results
<1>0. Typed /\ SubmitReads
  BY NamedSets DEF Inv
<1>i. "implement" \in Commands /\ "verify" \in Commands /\ "submit" \in Commands
  BY DEF Commands
<1>j. job["submit"] \in Jobs(Len(commits), Len(generations))
  BY <1>0, <1>i DEF Typed
<1>p. "idle" \notin Headed /\ "begun" \notin Headed
  BY DEF Headed
<1>1. ASSUME job'["submit"] = job["submit"], UNCHANGED head,
             "submit" \in disturbed => "submit" \in disturbed'
      PROVE SubmitReads'
  BY <1>0, <1>1 DEF SubmitReads
<1>2. ASSUME job'["submit"] = job["submit"], Disturb
      PROVE SubmitReads'
  <2>1. CASE job["submit"].at = "idle"
    <3>1. "idle" # "archived"
      OBVIOUS
    <3> QED BY <1>p, <1>2, <2>1, <3>1 DEF SubmitReads
  <2>2. CASE job["submit"].at # "idle"
    <3>1. "submit" \in disturbed'
      BY <1>i, <1>2, <2>2 DEF Disturb, Running
    <3> QED BY <3>1 DEF SubmitReads
  <2> QED BY <2>1, <2>2
<1>3. ASSUME job'["submit"].at \in {"idle", "begun"}
      PROVE SubmitReads'
  <2>1. job'["submit"].at \notin Headed /\ job'["submit"].at # "archived"
    BY <1>3, <1>p
  <2> QED BY <2>1 DEF SubmitReads
<1>4. ASSUME NEW c \in Commands, Ends(c), UNCHANGED head
      PROVE SubmitReads'
  <2>1. job'[c] = Idle /\ \A d \in Commands : d # c => job'[d] = job[d]
    BY <1>0, <1>4, Moved DEF Ends
  <2>2. CASE c = "submit"
    BY <1>3, <2>1, <2>2 DEF Idle, Job
  <2>3. CASE c # "submit"
    <3>1. job'["submit"] = job["submit"] /\ ("submit" \in disturbed => "submit" \in disturbed')
      BY <1>4, <1>i, <2>1, <2>3 DEF Ends
    <3> QED BY <1>1, <1>4, <3>1
  <2> QED BY <2>2, <2>3
<1>5. ASSUME NEW c \in Commands, Begin(c)
      PROVE SubmitReads'
  <2>1. job'[c] = Job("begun", head, work.spec) /\ \A d \in Commands : d # c => job'[d] = job[d]
    BY <1>0, <1>5, Moved DEF Begin
  <2>2. CASE c = "submit"
    BY <1>3, <2>1, <2>2 DEF Job
  <2>3. CASE c # "submit"
    <3>1. job'["submit"] = job["submit"] /\ UNCHANGED <<head, disturbed>>
      BY <1>5, <1>i, <2>1, <2>3 DEF Begin, Quiet
    <3> QED BY <1>1, <3>1
  <2> QED BY <2>2, <2>3
<1>6. ASSUME NEW c \in {"implement", "verify"}, NEW j, job' = [job EXCEPT ![c] = j]
      PROVE job'["submit"] = job["submit"]
  BY <1>0, <1>i, <1>6, Moved DEF Commands
<1>7. CASE \/ AddWorktree("implement", "begun") \/ AddWorktree("verify", "refreshed")
           \/ CheckHead \/ CheckClean \/ PublicChecks \/ BindHidden
  <2>1. \E c \in {"implement", "verify"} : \E j : job' = [job EXCEPT ![c] = j]
    BY <1>7 DEF AddWorktree, CheckHead, CheckClean, PublicChecks, BindHidden
  <2>2. UNCHANGED <<head, disturbed>>
    BY <1>7 DEF AddWorktree, CheckHead, CheckClean, PublicChecks, BindHidden, Quiet
  <2> QED BY <1>1, <1>6, <2>1, <2>2
<1>8. ASSUME NEW tree \in Trees, AgentWorks(tree)
      PROVE SubmitReads'
  <2>1. \E j : job' = [job EXCEPT !["implement"] = j]
    BY <1>8 DEF AgentWorks
  <2> QED BY <1>1, <1>6, <1>8, <2>1 DEF AgentWorks
<1>9. CASE Land \/ Persist
  <2>1. \E j : job' = [job EXCEPT !["implement"] = j]
    BY <1>9 DEF Land, Persist
  <2> QED BY <1>2, <1>6, <1>9, <2>1 DEF Land, Persist
<1>10. ASSUME NEW gen \in 1 .. Len(generations), RefreshHidden(gen)
       PROVE SubmitReads'
  <2>1. CASE Ends("verify")
    BY <1>4, <1>i, <1>10, <2>1 DEF RefreshHidden
  <2>2. CASE ~Ends("verify")
    <3>1. (\E j : job' = [job EXCEPT !["verify"] = j]) /\ UNCHANGED <<head, disturbed>>
      BY <1>10, <2>2 DEF RefreshHidden
    <3> QED BY <1>1, <1>6, <3>1
  <2> QED BY <2>1, <2>2
<1>11. CASE ReadHead
  <2> DEFINE j == [job["submit"] EXCEPT !.at = "headed", !.base = 0, !.commit = head]
  <2>1. job' = [job EXCEPT !["submit"] = j] /\ head' = head
    BY <1>11 DEF ReadHead, Quiet
  <2>2. j.at = "headed" /\ j.commit = head
    BY <1>j DEF Jobs
  <2> HIDE DEF j
  <2>3. job'["submit"] = j /\ "headed" # "archived"
    BY <1>0, <1>i, <2>1, Moved
  <2> QED BY <2>1, <2>2, <2>3 DEF SubmitReads
<1>12. CASE ReadSpec
  <2> DEFINE j == [job["submit"] EXCEPT !.at = "read", !.spec = work.spec]
  <2>1. job' = [job EXCEPT !["submit"] = j] /\ UNCHANGED <<head, disturbed>>
    BY <1>12 DEF ReadSpec, Quiet
  <2>2. j.at = "read" /\ j.commit = job["submit"].commit
    BY <1>j DEF Jobs
  <2> HIDE DEF j
  <2>3. job'["submit"] = j /\ "read" # "archived"
    BY <1>0, <1>i, <2>1, Moved
  <2>4. job["submit"].at \in Headed
    BY <1>12 DEF ReadSpec, Goes, Headed
  <2> QED BY <1>0, <2>1, <2>2, <2>3, <2>4 DEF SubmitReads
<1>13. CASE Archive
  <2> DEFINE j == [job["submit"] EXCEPT !.at = "archived", !.on = head]
  <2>1. job' = [job EXCEPT !["submit"] = j] /\ UNCHANGED <<head, disturbed>>
    BY <1>13 DEF Archive, Quiet
  <2>2. j.on = head /\ j.commit = job["submit"].commit
    BY <1>j DEF Jobs
  <2> HIDE DEF j
  <2>3. job'["submit"] = j
    BY <1>0, <1>i, <2>1, Moved
  <2>4. job["submit"].at \in Headed
    BY <1>13 DEF Archive, Goes, Headed
  <2> QED BY <1>0, <2>1, <2>2, <2>3, <2>4 DEF SubmitReads
<1>14. CASE UNCHANGED vars
  BY <1>1, <1>14 DEF vars
<1>15. CASE Commit \/ \E c \in 1 .. Len(commits) : Reset(c)
  BY <1>2, <1>15 DEF Commit, Reset
<1>16. ASSUME NEW tree \in Trees, Edit(tree)
       PROVE SubmitReads'
  BY <1>1, <1>16 DEF Edit
<1>17. ASSUME NEW c \in Commands, Fail(c) \/ Refuse(c)
       PROVE SubmitReads'
  BY <1>4, <1>17 DEF Fail, Refuse
<1>18. CASE PublicOnly \/ HiddenTestsPass \/ HiddenTestsFail \/ Pack
  BY <1>4, <1>i, <1>18 DEF PublicOnly, HiddenTestsPass, HiddenTestsFail, Pack
<1> QED BY <1>5, <1>7, <1>8, <1>9, <1>10, <1>11, <1>12, <1>13, <1>14, <1>15, <1>16, <1>17,
           <1>18, <1>i
        DEF Next, Implement, Verify, Submit, Report

LEMMA RecordedStep ==
  ASSUME Inv, [Next]_vars
  PROVE  Recorded'
<1> USE DEF git, tests, results
<1>0. Typed /\ Recorded /\ VerifyReads
  BY NamedSets DEF Inv
<1>i. "verify" \in Commands
  BY DEF Commands
<1>1. CASE UNCHANGED verification
  BY <1>0, <1>1 DEF Recorded
<1>2. CASE HiddenTestsPass
  <2> DEFINE v == job["verify"]
             r == [commit |-> v.commit, config |-> v.config, manifest |-> hidden[v.spec],
                   on |-> v.on, ran |-> v.gen, calm |-> "verify" \notin disturbed]
  <2>1. verification' = [verification EXCEPT ![v.spec] = r]
    BY <1>2 DEF HiddenTestsPass
  <2>2. v.at \in Bound /\ v.at \in Refreshing /\ v.at = "checked out"
    BY <1>2 DEF HiddenTestsPass, Goes, Bound, Refreshing
  <2>3. r.calm => r.on = r.commit /\ r.ran = r.manifest.gen
    BY <1>0, <2>2 DEF VerifyReads
  <2> HIDE DEF r, v
  <2>4. \A s \in Specs : verification'[s] = verification[s] \/ verification'[s] = r
    BY <1>0, <2>1 DEF Typed
  <2> QED BY <1>0, <2>3, <2>4 DEF Recorded
<1>3. CASE HiddenTestsFail
  <2>1. verification' = [verification EXCEPT ![job["verify"].spec] = NoVerification]
    BY <1>3 DEF HiddenTestsFail
  <2>2. ~NoVerification.calm
    BY DEF NoVerification
  <2> HIDE DEF NoVerification
  <2>4. \A s \in Specs : verification'[s] = verification[s] \/ verification'[s] = NoVerification
    BY <1>0, <2>1 DEF Typed
  <2> QED BY <1>0, <2>2, <2>4 DEF Recorded
<1> QED BY <1>1, <1>2, <1>3
        DEF Next, Implement, Verify, Submit, Edit, Commit, Reset, Begin, AddWorktree, Fail,
            AgentWorks, CheckHead, CheckClean, Land, Persist, PublicChecks, PublicOnly,
            BindHidden, RefreshHidden, Report, ReadHead, ReadSpec, Archive, Pack, Refuse,
            Quiet, vars

\* A manifest is filled from a Spec that agrees, or made for its own.
LEMMA BelongsStep ==
  ASSUME Inv, [Next]_vars
  PROVE  TestsBelongToSpec'
<1> USE DEF git, tests, results
<1>0. Typed /\ TestsBelongToSpec
  BY NamedSets DEF Inv
<1>i. "implement" \in Commands /\ "verify" \in Commands
  BY DEF Commands
<1>1. CASE UNCHANGED <<hidden, generations>>
  BY <1>0, <1>1 DEF TestsBelongToSpec
<1>2. CASE Persist
  <2> DEFINE spec == job["implement"].spec
             n == Len(generations) + 1
  <2>1. spec \in Specs
    BY <1>0, <1>i, JobFields
  <2>2. /\ generations' = Append(generations, spec)
        /\ hidden' = [hidden EXCEPT ![spec] = Manifest(n, head, work.config)]
    BY <1>2 DEF Persist, Replaced
  <2>3. generations'[n] = spec /\ \A g \in 1 .. Len(generations) : generations'[g] = generations[g]
    BY <1>0, <2>1, <2>2 DEF Typed
  <2>4. ASSUME NEW s \in Specs, hidden'[s].gen # 0
        PROVE Binding[generations'[hidden'[s].gen]] = Binding[s]
    <3>1. CASE s = spec
      <4>1. hidden'[s].gen = n
        BY <1>0, <2>1, <2>2, <3>1 DEF Manifest, Typed
      <4> QED BY <2>3, <3>1, <4>1
    <3>2. CASE s # spec
      <4>1. hidden'[s] = hidden[s]
        BY <1>0, <2>1, <2>2, <3>2 DEF Typed
      <4>2. hidden[s].gen \in 0 .. Len(generations)
        BY <1>0 DEF Typed, Listed
      <4>3. hidden[s].gen \in 1 .. Len(generations)
        BY <1>0, <2>4, <4>1, <4>2 DEF Typed
      <4> QED BY <1>0, <2>3, <2>4, <4>1, <4>3 DEF TestsBelongToSpec
    <3> QED BY <3>1, <3>2
  <2> QED BY <2>4 DEF TestsBelongToSpec
<1>3. ASSUME NEW gen \in 1 .. Len(generations), RefreshHidden(gen)
      PROVE TestsBelongToSpec'
  <2> DEFINE spec == job["verify"].spec
  <2>1. spec \in Specs
    BY <1>0, <1>i, JobFields
  <2>2. /\ hidden' = [hidden EXCEPT ![spec] = Manifest(gen, head, work.config)]
        /\ gen \in Retained(spec) /\ generations' = generations
    BY <1>3 DEF RefreshHidden, Refreshed
  <2>3. \E t \in Specs : gen = hidden[t].gen /\ gen # 0 /\ Binding[t] = Binding[spec]
    BY <2>1, <2>2 DEF Retained, Sources
  <2>4. Binding[generations[gen]] = Binding[spec]
    BY <1>0, <2>3 DEF TestsBelongToSpec
  <2>5. \A s \in Specs : \/ hidden'[s] = hidden[s]
                         \/ s = spec /\ hidden'[s].gen = gen
    BY <1>0, <2>1, <2>2 DEF Manifest, Typed
  <2> QED BY <1>0, <2>2, <2>4, <2>5 DEF TestsBelongToSpec
<1> QED BY <1>1, <1>2, <1>3
        DEF Next, Implement, Verify, Submit, Edit, Commit, Reset, Begin, AddWorktree, Fail,
            AgentWorks, CheckHead, CheckClean, Land, PublicChecks, PublicOnly, BindHidden,
            HiddenTestsPass, HiddenTestsFail, Report, ReadHead, ReadSpec, Archive, Pack,
            Refuse, Quiet, vars

LEMMA InvStep == Inv /\ [Next]_vars => Inv'
BY TypeStep, DescentStep, PlacedStep, VerifyReadsStep, SubmitReadsStep, RecordedStep,
   BelongsStep DEF Inv

LEMMA SpecInv == Spec => []Inv
BY InitInv, InvStep, PTL DEF Spec

-----------------------------------------------------------------------------
(* The theorems.                                                           *)

\* The repository, the hidden tests and the commands keep their types
\* (executeAgentImplement, executeStudentVerify, createStudentSubmitPack).
THEOREM StudentTypeCorrect == Spec => []TypeOK
<1>1. Inv => TypeOK
  BY DEF Inv
<1> QED BY <1>1, SpecInv, PTL

\* For every history of Specs, the hidden tests of a Spec were made for one that
\* agrees with it on what they are bound to (collectStudentHiddenTests).
THEOREM HiddenTestsBelong == Spec => []TestsBelongToSpec
<1>1. Inv => TestsBelongToSpec
  BY DEF Inv
<1> QED BY <1>1, SpecInv, PTL

\* An archive holds the commit it names and the hidden tests that passed on it,
\* for every number of commits, Specs and edits (createStudentSubmitPack).
THEOREM ArchivesHoldWhatWasTested == Spec => PackWasTested
<1> DEFINE j == job["submit"]
           v == verification[j.spec]
           Tested == Pack /\ v.calm /\ "submit" \notin disturbed =>
                       /\ j.on = j.commit /\ v.on = j.commit
                       /\ v.ran = hidden[j.spec].gen
<1>1. ASSUME Inv, Pack
      PROVE Tested
  <2>0. Typed /\ SubmitReads /\ Recorded
    BY <1>1, NamedSets DEF Inv
  <2>1. "submit" \in Commands
    BY DEF Commands
  <2>2. j.spec \in Specs
    BY <2>0, <2>1, JobFields
  <2>3. j.at \in Headed /\ j.at = "archived"
    BY <1>1 DEF Pack, Goes, Headed
  <2>4. v.commit = j.commit /\ v.manifest = hidden[j.spec]
    BY <1>1 DEF Pack, Acceptable, Accepted
  <2>5. "submit" \notin disturbed => j.on = j.commit
    BY <2>0, <2>3 DEF SubmitReads
  <2>6. v.calm => v.on = v.commit /\ v.ran = v.manifest.gen
    BY <2>0, <2>2 DEF Recorded
  <2> QED BY <2>4, <2>5, <2>6
<1>2. Inv /\ [Next]_vars => [Tested]_vars
  BY <1>1
<1> QED BY <1>2, SpecInv, PTL DEF Spec, PackWasTested

\* Landing an implementation takes no commit out of the history and undoes no
\* edit, whatever happened since the checks before it (git merge --ff-only).
THEOREM NothingIsUndone == Spec => LandingKeepsWork
<1> DEFINE Kept == Goes("implement", "landing") /\ job'["implement"].at = "landed" =>
                     /\ commits[head].past \subseteq commits[head'].past
                     /\ \A f \in DOMAIN work : work[f] # Tree(head)[f] => work'[f] = work[f]
<1>1. ASSUME Inv, Land
      PROVE Kept
  <2> DEFINE c == job["implement"].commit
  <2>0. Typed /\ Descent /\ Placed
    BY <1>1, NamedSets DEF Inv
  <2>1. c \in 1 .. Len(commits)
    BY <1>1, <2>0, PlacedCommits DEF Land, Goes, Prepared
  <2>2. head \in commits[c].past /\ head' = c
    BY <1>1 DEF Land, Mergeable
  <2>3. commits[head].past \subseteq commits[c].past
    BY <2>0, <2>1, <2>2 DEF Descent
  <2>4. ASSUME NEW f \in DOMAIN work, work[f] # Tree(head)[f]
        PROVE work'[f] = work[f]
    <3>1. Tree(c)[f] = Tree(head)[f]
      BY <1>1, <2>4 DEF Land, Mergeable
    <3> QED BY <1>1, <2>4, <3>1 DEF Land, Merged
  <2> QED BY <2>2, <2>3, <2>4
<1>2. ASSUME Inv, [Next]_vars, Goes("implement", "landing"), job'["implement"].at = "landed"
      PROVE Land
  <2> USE DEF git, tests, results
  <2>0. Typed
    BY <1>2, NamedSets DEF Inv
  <2>1. /\ "implement" \in Commands /\ "verify" \in Commands /\ "submit" \in Commands
        /\ "landing" # "landed"
    BY DEF Commands
  <2>2. ASSUME UNCHANGED job
        PROVE FALSE
    BY <1>2, <2>1, <2>2 DEF Goes
  <2>3. ASSUME NEW c \in Commands, NEW j, job' = [job EXCEPT ![c] = j],
               c # "implement" \/ j.at # "landed"
        PROVE FALSE
    <3>1. job'[c] = j /\ \A d \in Commands : d # c => job'[d] = job[d]
      BY <2>0, <2>3, Moved
    <3> QED BY <1>2, <2>1, <2>3, <3>1 DEF Goes
  <2>4. Idle.at # "landed" /\ \A base, spec : Job("begun", base, spec).at # "landed"
    BY DEF Idle, Job
  <2>5. \A c \in Commands : ~Ends(c) /\ ~Begin(c)
    BY <2>3, <2>4 DEF Ends, Begin
  <2>6. ~AddWorktree("implement", "begun") /\ ~CheckHead /\ ~CheckClean
        /\ \A tree \in Trees : ~AgentWorks(tree)
    BY <1>2 DEF Goes, AddWorktree, CheckHead, CheckClean, AgentWorks
  <2>7. ~Persist
    BY <1>2 DEF Goes, Persist
  <2>8. /\ ~AddWorktree("verify", "refreshed") /\ ~PublicChecks /\ ~BindHidden
        /\ ~ReadHead /\ ~ReadSpec /\ ~Archive
    <3>1. AddWorktree("verify", "refreshed") \/ PublicChecks \/ BindHidden =>
            \E j : job' = [job EXCEPT !["verify"] = j]
      BY DEF AddWorktree, PublicChecks, BindHidden
    <3>2. ReadHead \/ ReadSpec \/ Archive => \E j : job' = [job EXCEPT !["submit"] = j]
      BY DEF ReadHead, ReadSpec, Archive
    <3> QED BY <2>1, <2>3, <3>1, <3>2
  <2>9. \A gen \in 1 .. Len(generations) : ~RefreshHidden(gen)
    <3>1. ASSUME NEW gen \in 1 .. Len(generations), RefreshHidden(gen)
          PROVE Ends("verify") \/ \E j : job' = [job EXCEPT !["verify"] = j]
      BY <3>1 DEF RefreshHidden
    <3> QED BY <2>1, <2>3, <2>5, <3>1
  <2> QED BY <1>2, <2>1, <2>2, <2>5, <2>6, <2>7, <2>8, <2>9
          DEF Next, Implement, Verify, Submit, Edit, Commit, Reset, Fail, PublicOnly,
              HiddenTestsPass, HiddenTestsFail, Report, Pack, Refuse, vars
<1>3. Inv /\ [Next]_vars => [Kept]_vars
  BY <1>1, <1>2
<1> QED BY <1>3, SpecInv, PTL DEF Spec, LandingKeepsWork
=============================================================================
