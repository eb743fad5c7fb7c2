--------------------------- MODULE SupervisorProof ---------------------------
(***************************************************************************)
(* Proofs about Supervisor: its types, and that what it stores and         *)
(* publishes is of the right repository and coherent, for any number of    *)
(* projects, repositories, commits and synchronisations.                   *)
(***************************************************************************)
EXTENDS Supervisor, TLAPS

(***************************************************************************)
(* The inductive invariant                                                 *)
(***************************************************************************)
\* Ids are given in order and never again, and a project takes its snapshot along.
IdBook ==
  /\ \A i \in Ids : i > made => project[i] = None /\ published[i] = None
  /\ \A i \in todo : i <= made
  /\ \A i \in Ids : project[i] = None => stored[i] = None

\* What is known of a synchronisation: it is for the repository of its project, if
\* that still exists; once it has stored there is a snapshot; and what it has
\* fetched so far is true of GitHub.
Sound(v) ==
  /\ v.pc # "idle" =>
       /\ v.id \in Ids /\ v.id <= made /\ v.repo \in Repos
       /\ project[v.id] # None => v.repo = project[v.id].repo
  /\ v.pc \in {"read", "observe", "publish"} /\ project[v.id] # None => stored[v.id] # None
  /\ v.pc = "pulls" => \A h \in v.notes : h <= github[v.repo].head
  /\ v.pc \in {"checks", "store"} => \A h \in v.notes : h <= v.head
  /\ v.pc = "store" /\ v.ci = "success" => <<v.repo, v.head>> \in passed

JobBook == \A j \in Jobs : Sound(job[j])

GitHubBook ==
  /\ \A r \in Repos : \A h \in github[r].notes : h <= github[r].head
  /\ \A r \in Repos, h \in Heads : Green(github[r].checks[h]) => <<r, h>> \in passed

IInv == TypeOK /\ IdBook /\ JobBook /\ GitHubBook /\ OwnRepository /\ Coherent

(***************************************************************************)
(* Lemmas                                                                  *)
(***************************************************************************)
\* A summary says success only of finished and successful check runs.
LEMMA SummaryGreen ==
  ASSUME NEW S \in SUBSET CheckStates
  PROVE  Summary(S) \in CI /\ (Summary(S) = "success" => Green(S))
<1> DEFINE Top(c) == \A d \in S : Priority(d) <= Priority(c)
<1>1. CASE S = {}
  BY <1>1 DEF Summary, CI
<1>2. CASE "running" \in S
  BY <1>2 DEF Summary, CI
<1>3. CASE S # {} /\ "running" \notin S
  <2>1. S \subseteq {"failure", "cancelled", "neutral", "skipped", "success"} /\ S \subseteq Conclusions
    BY <1>3, SupervisorAssumption DEF CheckStates
  <2>2. \A d \in S : Priority(d) \in 1..5
    BY <2>1 DEF Priority
  <2>3. \E c \in S : Top(c)
    <3>1. CASE "failure" \in S
      BY <2>1, <3>1 DEF Priority
    <3>2. CASE "failure" \notin S /\ "cancelled" \in S
      BY <2>1, <3>2 DEF Priority
    <3>3. CASE {"failure", "cancelled"} \cap S = {} /\ "neutral" \in S
      BY <2>1, <3>3 DEF Priority
    <3>4. CASE {"failure", "cancelled", "neutral"} \cap S = {} /\ "skipped" \in S
      BY <2>1, <3>4 DEF Priority
    <3>5. CASE S = {"success"}
      BY <3>5 DEF Priority
    <3> QED
      BY <2>1, <3>1, <3>2, <3>3, <3>4, <3>5, <1>3
  <2>4. Summary(S) = CHOOSE c \in S : Top(c)
    BY <1>3 DEF Summary
  <2>5. Summary(S) \in S /\ Top(Summary(S))
    BY <2>3, <2>4
  <2>6. ASSUME Summary(S) = "success", NEW d \in S PROVE d = "success"
    <3>1. Priority(d) <= 1
      BY <2>5, <2>6 DEF Priority
    <3> QED
      BY <2>1, <3>1 DEF Priority
  <2> QED
    BY <2>1, <2>5, <2>6, <1>3 DEF Green, CI
<1> QED
  BY <1>1, <1>2, <1>3

LEMMA Bounds == /\ Heads \subseteq Nat /\ Ids \subseteq Nat /\ 0 \notin Ids /\ None \notin Repos
                /\ None \notin Rows /\ None \notin Snapshots
                /\ \A i, k \in Ids \cup {0} : i <= k \/ k < i
                /\ \A h \in {0} \cup Heads \cup Ids : h \in Nat
BY SupervisorAssumption DEF Heads, Ids

\* A step that moves jobs and may touch rows, but neither adds nor removes one,
\* keeps the invariant if the jobs it moves are sound.
SameRows ==
  /\ project' \in [Ids -> Rows \cup {None}]
  /\ \A i \in Ids : /\ project'[i] = None <=> project[i] = None
                    /\ project[i] # None => project'[i].repo = project[i].repo

LEMMA JobMoves ==
  ASSUME IInv, SameRows, job' \in [Jobs -> JobStates],
         \A j \in Jobs : job'[j] = job[j] \/ Sound(job'[j]),
         todo' \subseteq todo, UNCHANGED <<world, made, stored, published, up>>
  PROVE  IInv'
<1> USE Bounds DEF IInv, world
<1>1. TypeOK'
  BY DEF TypeOK, SameRows, JobBook, Sound
<1>2. IdBook'
  BY DEF TypeOK, IdBook, SameRows
<1>3. ASSUME NEW j \in Jobs PROVE Sound(job[j])'
  <2>1. Sound(job'[j])
    BY DEF JobBook
  <2>2. CASE job'[j].pc = "idle"
    BY <2>2 DEF Sound
  <2>3. CASE job'[j].pc # "idle"
    BY <2>1, <2>3 DEF Sound, SameRows
  <2> QED
    BY <2>2, <2>3
<1>4. GitHubBook'
  BY DEF GitHubBook
<1>5. OwnRepository'
  BY DEF TypeOK, OwnRepository, SameRows
<1>6. Coherent'
  BY DEF Coherent
<1> QED
  BY <1>1, <1>2, <1>3, <1>4, <1>5, <1>6 DEF JobBook

LEMMA SameRowsKept == IInv /\ UNCHANGED project => SameRows
BY DEF IInv, TypeOK, SameRows

LEMMA RowKept ==
  ASSUME IInv, NEW i \in Ids, project[i] # None, NEW w \in Rows, w.repo = project[i].repo,
         project' = [project EXCEPT ![i] = w]
  PROVE  SameRows
<1> project[i] \in Rows /\ w # None
  BY Bounds DEF IInv, TypeOK
<1> QED
  BY DEF IInv, TypeOK, SameRows

LEMMA JobMoved ==
  ASSUME IInv, SameRows, NEW j \in Jobs, NEW v \in JobStates, Sound(v),
         job' = [job EXCEPT ![j] = v],
         todo' \subseteq todo, UNCHANGED <<world, made, stored, published, up>>
  PROVE  IInv'
<1>1. job' \in [Jobs -> JobStates] /\ \A k \in Jobs : job'[k] = job[k] \/ Sound(job'[k])
  BY DEF IInv, TypeOK
<1> QED
  BY <1>1, JobMoves

LEMMA IdleSound == Idle \in JobStates /\ Sound(Idle)
BY DEF Idle, JobStates, Sound, CI

\* What a job at work is known to be
LEMMA JobFacts ==
  IInv => \A j \in Jobs :
            /\ job[j] \in JobStates /\ Sound(job[j])
            /\ job[j].pc # "idle" =>
                 /\ job[j].id \in Ids /\ job[j].repo \in Repos
                 /\ github[job[j].repo] \in Remotes
                 /\ (project[job[j].id] # None => project[job[j].id] \in Rows)
BY DEF IInv, TypeOK, JobBook

LEMMA RequestKeeps ==
  ASSUME IInv, NEW j \in Jobs, NEW i \in Ids, Request(j, i)
  PROVE  IInv'
<1> DEFINE v == [Idle EXCEPT !.pc = "start", !.id = i, !.repo = project[i].repo]
<1>1. SameRows
  BY SameRowsKept DEF Request
<1>2. v \in JobStates
  BY Bounds DEF Request, JobStates, CI, Idle, IInv, TypeOK, Rows
<1>3. Sound(v)
  BY Bounds DEF Request, Sound, Idle, IInv, TypeOK, IdBook, Rows
<1>4. job' = [job EXCEPT ![j] = v]
  BY DEF Request, Begun
<1> HIDE DEF v
<1> QED
  BY <1>1, <1>2, <1>3, <1>4, JobMoved DEF Request, world

LEMMA TakeKeeps ==
  ASSUME IInv, NEW j \in Jobs, NEW i \in Ids, Take(j, i)
  PROVE  IInv'
<1>1. SameRows
  BY SameRowsKept DEF Take
<1>2. CASE project[i] = None
  <2>1. job' \in [Jobs -> JobStates] /\ \A k \in Jobs : job'[k] = job[k]
    BY <1>2 DEF Take, IInv, TypeOK
  <2> QED
    BY <1>1, <2>1, JobMoves DEF Take, world
<1>3. CASE project[i] # None
  <2> DEFINE v == [Idle EXCEPT !.pc = "start", !.id = i, !.repo = project[i].repo]
  <2>1. v \in JobStates
    BY <1>3, Bounds DEF JobStates, CI, Idle, IInv, TypeOK, Rows
  <2>2. Sound(v)
    BY <1>3, Bounds DEF Take, Sound, Idle, IInv, TypeOK, IdBook, Rows
  <2>3. job' = [job EXCEPT ![j] = v]
    BY <1>3 DEF Take, Begun
  <2> HIDE DEF v
  <2> QED
    BY <1>1, <2>1, <2>2, <2>3, JobMoved DEF Take, world
<1> QED
  BY <1>2, <1>3

LEMMA ListIssuesKeeps ==
  ASSUME IInv, NEW j \in Jobs, ListIssues(j)
  PROVE  IInv'
<1> DEFINE v == [job[j] EXCEPT !.pc = "pulls", !.notes = Listed(Remote(j).notes)]
<1>1. SameRows
  BY SameRowsKept DEF ListIssues, Fetch
<1>0. /\ job[j] \in JobStates /\ Sound(job[j]) /\ job[j].repo \in Repos
      /\ github[job[j].repo] \in Remotes /\ job[j].pc = "issues"
  BY JobFacts DEF ListIssues, Fetch
<1>2. v \in JobStates
  BY <1>0 DEF Remote, Listed, JobStates, Marking, Remotes
<1>3. Sound(v)
  BY <1>0 DEF Remote, Listed, Sound, IInv, GitHubBook
<1>4. job' = [job EXCEPT ![j] = v]
  BY DEF ListIssues, Fetch
<1> HIDE DEF v
<1> QED
  BY <1>1, <1>2, <1>3, <1>4, JobMoved DEF ListIssues, Fetch, world

LEMMA ListPullRequestsKeeps ==
  ASSUME IInv, NEW j \in Jobs, ListPullRequests(j)
  PROVE  IInv'
<1> DEFINE v == [job[j] EXCEPT !.pc = "checks", !.head = Remote(j).head]
<1>1. SameRows
  BY SameRowsKept DEF ListPullRequests, Fetch
<1>0. /\ job[j] \in JobStates /\ Sound(job[j]) /\ job[j].repo \in Repos
      /\ github[job[j].repo] \in Remotes /\ job[j].pc = "pulls"
  BY JobFacts DEF ListPullRequests, Fetch
<1>2. v \in JobStates
  BY <1>0 DEF Remote, JobStates, Marking, Remotes
<1>3. Sound(v)
  BY <1>0 DEF Remote, Sound
<1>4. job' = [job EXCEPT ![j] = v]
  BY DEF ListPullRequests, Fetch
<1> HIDE DEF v
<1> QED
  BY <1>1, <1>2, <1>3, <1>4, JobMoved DEF ListPullRequests, Fetch, world

LEMMA CISummaryKeeps ==
  ASSUME IInv, NEW j \in Jobs, CISummary(j)
  PROVE  IInv'
<1>0. /\ job[j] \in JobStates /\ Sound(job[j]) /\ job[j].repo \in Repos
      /\ github[job[j].repo] \in Remotes /\ job[j].pc = "checks"
  BY JobFacts DEF CISummary, Fetch
<1> DEFINE ci == IF job[j].head = 0 THEN "none" ELSE Summary(Remote(j).checks[job[j].head])
           v  == [job[j] EXCEPT !.pc = "store", !.ci = ci]
<1>1. SameRows
  BY SameRowsKept DEF CISummary, Fetch
<1>2. ci \in CI /\ (ci = "success" => <<job[j].repo, job[j].head>> \in passed)
  <2>1. CASE job[j].head = 0
    BY <2>1 DEF CI
  <2>2. CASE job[j].head # 0
    <3>1. job[j].head \in Heads /\ Remote(j).checks[job[j].head] \in SUBSET CheckStates
      BY <1>0, <2>2 DEF JobStates, Remotes, Remote
    <3>2. ci \in CI /\ (ci = "success" => Green(Remote(j).checks[job[j].head]))
      BY <2>2, <3>1, SummaryGreen
    <3> QED
      BY <1>0, <3>1, <3>2 DEF Remote, IInv, GitHubBook
  <2> QED
    BY <2>1, <2>2
<1>3. job' = [job EXCEPT ![j] = v]
  BY DEF CISummary, Fetch
<1> HIDE DEF ci
<1>4. v \in JobStates
  BY <1>0, <1>2 DEF JobStates, Marking
<1>5. Sound(v)
  BY <1>0, <1>2 DEF Sound
<1> HIDE DEF v
<1> QED
  BY <1>1, <1>3, <1>4, <1>5, JobMoved DEF CISummary, Fetch, world

LEMMA ReadBackKeeps ==
  ASSUME IInv, NEW j \in Jobs, ReadBack(j)
  PROVE  IInv'
<1>1. SameRows
  BY SameRowsKept DEF ReadBack
<1>2. CASE Goto(j, "observe")
  <2> DEFINE v == [job[j] EXCEPT !.pc = "observe"]
  <2>1. v \in JobStates /\ Sound(v)
    BY JobFacts DEF ReadBack, JobStates, Marking, Sound
  <2>2. job' = [job EXCEPT ![j] = v]
    BY <1>2 DEF Goto
  <2> HIDE DEF v
  <2> QED
    BY <1>1, <2>1, <2>2, JobMoved DEF ReadBack, world
<1>3. CASE Return(j)
  BY <1>1, <1>3, IdleSound, JobMoved DEF ReadBack, Return, world
<1> QED
  BY <1>2, <1>3 DEF ReadBack

LEMMA ObserveKeeps ==
  ASSUME IInv, NEW j \in Jobs, Observe(j)
  PROVE  IInv'
<1> DEFINE v == [job[j] EXCEPT !.notes = stored[job[j].id].notes, !.pc = "publish"]
<1>1. SameRows
  BY SameRowsKept DEF Observe
<1>0. /\ job[j] \in JobStates /\ Sound(job[j]) /\ job[j].pc = "observe"
      /\ job[j].id \in Ids /\ project[job[j].id] # None
  BY JobFacts DEF Observe, Exists
<1>2. v \in JobStates
  BY <1>0 DEF Sound, JobStates, Marking, IInv, TypeOK, Snapshots
<1>3. Sound(v)
  BY <1>0 DEF Sound
<1>4. job' = [job EXCEPT ![j] = v]
  BY DEF Observe, IInv, TypeOK
<1> HIDE DEF v
<1> QED
  BY <1>1, <1>2, <1>3, <1>4, JobMoved DEF Observe, world

LEMMA StartKeeps ==
  ASSUME IInv, NEW j \in Jobs, Start(j)
  PROVE  IInv'
<1>1. CASE Return(j) /\ UNCHANGED project
  BY <1>1, SameRowsKept, IdleSound, JobMoved DEF Start, Return, world
<1>2. CASE Exists(j) /\ MarkSyncStarted(job[j].id) /\ Goto(j, "issues")
  <2> DEFINE w == [project[job[j].id] EXCEPT !.status = "syncing", !.young = TRUE]
             v == [job[j] EXCEPT !.pc = "issues"]
  <2>0. job[j].id \in Ids /\ project[job[j].id] \in Rows /\ project[job[j].id] # None
    BY <1>2, JobFacts DEF Start, Exists
  <2>1. w \in Rows /\ w.repo = project[job[j].id].repo
    BY <2>0 DEF Rows
  <2>2. project' = [project EXCEPT ![job[j].id] = w]
    BY <1>2 DEF MarkSyncStarted
  <2>3. v \in JobStates /\ Sound(v)
    BY JobFacts DEF Start, JobStates, Marking, Sound
  <2>4. job' = [job EXCEPT ![j] = v]
    BY <1>2 DEF Goto
  <2> HIDE DEF v, w
  <2>6. SameRows
    BY <2>0, <2>1, <2>2, RowKept
  <2> QED
    BY <2>3, <2>4, <2>6, JobMoved DEF Start, world
<1> QED
  BY <1>1, <1>2 DEF Start

LEMMA FailKeeps ==
  ASSUME IInv, NEW j \in Jobs, Fail(j)
  PROVE  IInv'
<1>1. SameRows
  <2>1. CASE UNCHANGED project
    BY <2>1, SameRowsKept
  <2>2. CASE Exists(j) /\ MarkSyncFailed(job[j].id)
    <3> DEFINE w == [project[job[j].id] EXCEPT !.status = "failed", !.due = FALSE]
    <3>1. job[j].id \in Ids /\ project[job[j].id] \in Rows /\ project[job[j].id] # None
      BY <2>2, JobFacts DEF Fail, Exists, Marking
    <3>2. w \in Rows /\ w.repo = project[job[j].id].repo
      BY <3>1 DEF Rows
    <3>3. project' = [project EXCEPT ![job[j].id] = w]
      BY <2>2 DEF MarkSyncFailed
    <3> HIDE DEF w
    <3> QED
      BY <3>1, <3>2, <3>3, RowKept
  <2> QED
    BY <2>1, <2>2 DEF Fail
<1> QED
  BY <1>1, IdleSound, JobMoved DEF Fail, Return, world

LEMMA IntervalEndsKeeps ==
  ASSUME IInv, NEW i \in Ids, IntervalEnds(i)
  PROVE  IInv'
<1> DEFINE w == [project[i] EXCEPT !.due = TRUE]
<1>1. project[i] \in Rows
  BY DEF IntervalEnds, IInv, TypeOK
<1>2. w \in Rows /\ w.repo = project[i].repo
  BY <1>1 DEF Rows
<1>3. project' = [project EXCEPT ![i] = w] /\ project[i] # None
  BY DEF IntervalEnds
<1> HIDE DEF w
<1>4. SameRows
  BY <1>2, <1>3, RowKept
<1>5. job' \in [Jobs -> JobStates] /\ \A j \in Jobs : job'[j] = job[j]
  BY DEF IntervalEnds, IInv, TypeOK
<1> QED
  BY <1>4, <1>5, JobMoves DEF IntervalEnds, world

LEMMA GrowsStaleKeeps ==
  ASSUME IInv, NEW i \in Ids, GrowsStale(i)
  PROVE  IInv'
<1> DEFINE w == [project[i] EXCEPT !.young = FALSE]
<1>1. project[i] \in Rows
  BY DEF GrowsStale, IInv, TypeOK
<1>2. w \in Rows /\ w.repo = project[i].repo
  BY <1>1 DEF Rows
<1>3. project' = [project EXCEPT ![i] = w] /\ project[i] # None
  BY DEF GrowsStale
<1> HIDE DEF w
<1>4. SameRows
  BY <1>2, <1>3, RowKept
<1>5. job' \in [Jobs -> JobStates] /\ \A j \in Jobs : job'[j] = job[j]
  BY DEF GrowsStale, IInv, TypeOK
<1> QED
  BY <1>4, <1>5, JobMoves DEF GrowsStale, world

LEMMA TickKeeps ==
  ASSUME IInv, Tick
  PROVE  IInv'
<1> USE DEF IInv, Tick, world
<1>1. TypeOK' /\ IdBook'
  BY Bounds DEF TypeOK, IdBook, DueNow
<1>2. JobBook' /\ GitHubBook' /\ OwnRepository' /\ Coherent'
  BY DEF JobBook, Sound, GitHubBook, OwnRepository, Coherent
<1> QED
  BY <1>1, <1>2

LEMMA CrashKeeps ==
  ASSUME IInv, Crash
  PROVE  IInv'
<1> USE Bounds DEF IInv, Crash, world
<1>1. TypeOK'
  BY IdleSound DEF TypeOK, Idle
<1>2. IdBook' /\ GitHubBook'
  BY DEF TypeOK, IdBook, GitHubBook
<1>3. JobBook'
  BY DEF JobBook, Sound, Idle
<1>4. OwnRepository' /\ Coherent'
  BY DEF TypeOK, OwnRepository, Coherent
<1> QED
  BY <1>1, <1>2, <1>3, <1>4

LEMMA BootKeeps ==
  ASSUME IInv, Boot
  PROVE  IInv'
<1> USE DEF IInv, Boot, world
<1>1. TypeOK' /\ IdBook' /\ GitHubBook'
  BY DEF TypeOK, IdBook, GitHubBook
<1>2. JobBook'
  BY DEF JobBook, Sound
<1>3. OwnRepository' /\ Coherent'
  BY DEF OwnRepository, Coherent
<1> QED
  BY <1>1, <1>2, <1>3

LEMMA DeleteProjectKeeps ==
  ASSUME IInv, NEW i \in Ids, DeleteProject(i)
  PROVE  IInv'
<1> USE DEF IInv, DeleteProject, world
<1>1. TypeOK'
  BY DEF TypeOK
<1>2. IdBook' /\ GitHubBook'
  BY DEF TypeOK, IdBook, GitHubBook
<1>3. ASSUME NEW j \in Jobs PROVE Sound(job[j])'
  <2>1. /\ Sound(job[j])
       /\ project'[job[j].id] \in {project[job[j].id], None}
    BY DEF JobBook, TypeOK, Sound
  <2> QED
    BY <1>3 DEF JobBook, TypeOK, Sound
<1>4. OwnRepository' /\ Coherent'
  BY DEF TypeOK, OwnRepository, Coherent
<1> QED
  BY <1>1, <1>2, <1>3, <1>4 DEF JobBook

LEMMA CreateProjectKeeps ==
  ASSUME IInv, NEW r \in Repos, NEW polling \in BOOLEAN, CreateProject(r, polling)
  PROVE  IInv'
<1> DEFINE n == made + 1
           w == Row(r, polling)
<1>1. /\ n \in Ids /\ n \notin {0} /\ made < n /\ \A i \in Ids : i > n => i > made /\ i # n
      /\ \A i \in Ids \cup {0} : i <= made => i # n /\ i <= n
  BY Bounds, SupervisorAssumption DEF CreateProject, IInv, TypeOK, Ids
<1>2. w \in Rows /\ w # None /\ w.repo = r
  <2>1. polling = TRUE \/ polling = FALSE
    OBVIOUS
  <2>2. w \in Rows /\ w.repo = r
    BY <2>1 DEF Row, Rows
  <2> QED
    BY <2>2, Bounds
<1>3. /\ project' = [project EXCEPT ![n] = w] /\ made' = n
      /\ UNCHANGED <<world, stored, published, todo, job, up>>
  BY DEF CreateProject, NextId
<1>4. stored[n] = None /\ published[n] = None
  BY <1>1 DEF IInv, IdBook
<1> HIDE DEF n, w
<1>5. TypeOK'
  BY <1>1, <1>2, <1>3 DEF IInv, TypeOK, world
<1>6. IdBook'
  <2>1. \A i \in Ids : i # n => project'[i] = project[i]
    BY <1>1, <1>3 DEF IInv, TypeOK
  <2>2. \A i \in Ids : i > n => project'[i] = None /\ published'[i] = None
    BY <1>1, <1>3, <2>1 DEF IInv, IdBook
  <2>3. \A i \in todo' : i <= n
    BY <1>1, <1>3 DEF IInv, TypeOK, IdBook
  <2>4. \A i \in Ids : project'[i] = None => stored'[i] = None
    BY <1>3, <1>4, <2>1 DEF IInv, IdBook
  <2> QED
    BY <1>3, <2>2, <2>3, <2>4 DEF IdBook
<1>7. ASSUME NEW j \in Jobs PROVE Sound(job[j])'
  <2>1. CASE job[j].pc = "idle"
    BY <2>1, <1>3 DEF Sound, world
  <2>2. CASE job[j].pc # "idle"
    <3>1. job[j].id \in Ids /\ job[j].id <= made /\ job[j].id # n /\ job[j].id <= n
      BY <2>2, <1>1, JobFacts DEF Sound
    <3>2. project'[job[j].id] = project[job[j].id]
      BY <3>1, <1>1, <1>3 DEF IInv, TypeOK
    <3> QED
      BY <3>1, <3>2, <1>3 DEF IInv, JobBook, Sound, world
  <2> QED
    BY <2>1, <2>2
<1>8. GitHubBook' /\ Coherent'
  BY <1>3 DEF IInv, GitHubBook, Coherent, world
<1>9. OwnRepository'
  BY <1>1, <1>3, <1>4 DEF IInv, TypeOK, OwnRepository, world
<1> QED
  BY <1>5, <1>6, <1>7, <1>8, <1>9 DEF IInv, JobBook

LEMMA ReplaceSnapshotKeeps ==
  ASSUME IInv, NEW j \in Jobs, ReplaceSnapshot(j)
  PROVE  IInv'
<1> DEFINE i == job[j].id
           s == Fetched(j)
           w == [project[i] EXCEPT !.status = "healthy", !.due = FALSE]
           v == [Idle EXCEPT !.pc = "read", !.id = i, !.repo = job[j].repo]
<1>0. /\ job[j] \in JobStates /\ Sound(job[j]) /\ job[j].pc = "store"
      /\ i \in Ids /\ job[j].repo \in Repos /\ project[i] \in Rows /\ project[i] # None
      /\ i <= made /\ job[j].repo = project[i].repo
  BY JobFacts DEF ReplaceSnapshot, Exists, Sound
<1>1. s \in Snapshots /\ s # None /\ s.repo = project[i].repo
  BY <1>0, Bounds DEF Fetched, Snapshots, JobStates
<1>2. /\ s.ci = "success" => <<s.repo, s.head>> \in passed
      /\ \A h \in s.notes : h <= s.head
  BY <1>0 DEF Fetched, Sound
<1>3. w \in Rows /\ w.repo = project[i].repo
  BY <1>0 DEF Rows
<1>4. v \in JobStates /\ v.pc = "read" /\ v.id = i /\ v.repo = job[j].repo
  BY <1>0 DEF Idle, JobStates, CI
<1>5. /\ stored' = [stored EXCEPT ![i] = s]
      /\ project' = [project EXCEPT ![i] = w]
      /\ job' = [job EXCEPT ![j] = v]
      /\ UNCHANGED <<world, made, published, todo, up>>
  BY DEF ReplaceSnapshot, MarkHealthy
<1> HIDE DEF s, w, v
<1>6. SameRows
  BY <1>0, <1>3, <1>5, RowKept
<1>7. TypeOK'
  BY <1>0, <1>1, <1>4, <1>5, <1>6 DEF IInv, TypeOK, SameRows, world
<1>8. IdBook'
  BY <1>0, <1>5, <1>6 DEF IInv, TypeOK, IdBook, SameRows
<1>9. ASSUME NEW k \in Jobs PROVE Sound(job[k])'
  <2>1. CASE k = j
    <3>1. job'[k] = v
      BY <1>5, <2>1 DEF IInv, TypeOK
    <3>2. stored'[i] # None
      BY <1>0, <1>1, <1>5 DEF IInv, TypeOK
    <3> QED
      BY <1>0, <1>4, <1>5, <1>6, <3>1, <3>2 DEF Sound, SameRows, world
  <2>2. CASE k # j
    <3>1. job'[k] = job[k] /\ Sound(job[k])
      BY <1>5, <2>2 DEF IInv, TypeOK, JobBook
    <3>2. \A n \in Ids : stored[n] # None => stored'[n] # None
      BY <1>1, <1>5 DEF IInv, TypeOK
    <3>3. CASE job[k].pc = "idle"
      BY <3>1, <3>3 DEF Sound
    <3>4. CASE job[k].pc # "idle"
      BY <1>5, <1>6, <3>1, <3>2, <3>4 DEF Sound, SameRows, world
    <3> QED
      BY <3>3, <3>4
  <2> QED
    BY <2>1, <2>2
<1>10. GitHubBook'
  BY <1>5 DEF IInv, GitHubBook, world
<1>11. OwnRepository'
  BY <1>0, <1>1, <1>5, <1>6 DEF IInv, TypeOK, OwnRepository, SameRows
<1>12. Coherent'
  BY <1>0, <1>2, <1>5 DEF IInv, TypeOK, Coherent, world
<1> QED
  BY <1>7, <1>8, <1>9, <1>10, <1>11, <1>12 DEF IInv, JobBook

LEMMA PublishKeeps ==
  ASSUME IInv, NEW j \in Jobs, Publish(j)
  PROVE  IInv'
<1> DEFINE i   == job[j].id
           now == IF Exists(j) THEN stored[i] ELSE Gone(job[j].repo)
           s   == [now EXCEPT !.notes = job[j].notes]
<1>0. /\ job[j] \in JobStates /\ Sound(job[j]) /\ job[j].pc = "publish"
      /\ i \in Ids /\ job[j].repo \in Repos /\ i <= made
  BY JobFacts DEF Publish, Sound
<1>1. now \in Snapshots /\ (Exists(j) => now.repo = project[i].repo)
  <2>1. CASE Exists(j)
    BY <1>0, <2>1 DEF Exists, Sound, IInv, TypeOK, OwnRepository
  <2>2. CASE ~Exists(j)
    BY <1>0, <2>2 DEF Gone, Snapshots, CI
  <2> QED
    BY <2>1, <2>2
<1>2. now.ci = "success" => <<now.repo, now.head>> \in passed
  <2>1. CASE Exists(j)
    BY <1>0, <2>1, Bounds DEF Exists, Sound, IInv, Coherent
  <2>2. CASE ~Exists(j)
    BY <2>2 DEF Gone
  <2> QED
    BY <2>1, <2>2
<1>3. /\ published' = [published EXCEPT ![i] = s]
      /\ job' = [job EXCEPT ![j] = Idle]
      /\ UNCHANGED <<world, project, made, stored, todo, up>>
  BY DEF Publish, Return
<1> HIDE DEF now
<1>4. /\ s \in Snapshots /\ s # None /\ s.repo = now.repo
      /\ s.ci = "success" => <<s.repo, s.head>> \in passed
  BY <1>0, <1>1, <1>2, Bounds DEF Snapshots, JobStates
<1> HIDE DEF s
<1>5. TypeOK'
  BY <1>0, <1>3, <1>4, IdleSound DEF IInv, TypeOK, Idle, world
<1>6. IdBook'
  <2>1. i \in Nat /\ made \in Nat
    BY <1>0, Bounds DEF IInv, TypeOK
  <2>2. ~(i > made)
    BY <1>0, <2>1
  <2> QED
    BY <1>0, <1>3, <2>2 DEF IInv, TypeOK, IdBook
<1>7. ASSUME NEW k \in Jobs PROVE Sound(job[k])'
  <2>1. job'[k] = Idle \/ job'[k] = job[k]
    BY <1>3 DEF IInv, TypeOK
  <2> QED
    BY <1>3, <2>1, IdleSound DEF IInv, JobBook, Sound, world, Idle
<1>8. GitHubBook'
  BY <1>3 DEF IInv, GitHubBook, world
<1>9. OwnRepository'
  BY <1>0, <1>1, <1>3, <1>4 DEF IInv, TypeOK, OwnRepository, Exists
<1>10. Coherent'
  BY <1>0, <1>3, <1>4 DEF IInv, TypeOK, Coherent, world
<1> QED
  BY <1>5, <1>6, <1>7, <1>8, <1>9, <1>10 DEF IInv, JobBook

\* What a change on GitHub is: the head does not go back, nothing that was passed
\* is forgotten, and the record of the repository stays true to itself.
LEMMA ChangedKeeps ==
  ASSUME IInv, NEW r \in Repos, NEW g \in Remotes, Changed(r, g),
         g.head >= github[r].head,
         \A h \in g.notes : h <= g.head,
         \A h \in Heads : Green(g.checks[h]) => <<r, h>> \in passed'
  PROVE  IInv'
<1>1. /\ github' = [github EXCEPT ![r] = g]
      /\ news' = news + 1
      /\ UNCHANGED <<project, made, stored, published, todo, job, up>>
      /\ passed \subseteq passed'
  BY DEF Changed
<1>2. passed' \subseteq Repos \X Heads
  BY DEF Changed, Remotes, IInv, TypeOK
<1>3. \A q \in Repos : github[q] \in Remotes
  BY DEF IInv, TypeOK
<1>4. TypeOK'
  BY <1>1, <1>2 DEF IInv, TypeOK
<1>5. IdBook' /\ OwnRepository' /\ Coherent'
  BY <1>1 DEF IInv, IdBook, OwnRepository, Coherent
<1>6. \A q \in Repos : github'[q] = IF q = r THEN g ELSE github[q]
  BY <1>1 DEF IInv, TypeOK
<1>7. GitHubBook'
  BY <1>1, <1>6 DEF IInv, GitHubBook
<1>8. ASSUME NEW k \in Jobs PROVE Sound(job[k])'
  <2>1. Sound(job[k]) /\ job[k] \in JobStates /\ job'[k] = job[k]
    BY <1>1, JobFacts
  <2>2. CASE job[k].pc = "pulls"
    <3>1. job[k].repo \in Repos /\ \A h \in job[k].notes : h \in Nat
      BY <2>1, <2>2, Bounds DEF Sound, JobStates
    <3>2. github[job[k].repo].head \in {0} \cup Heads /\ g.head \in {0} \cup Heads
      BY <1>3, <3>1 DEF Remotes
    <3>3. github[job[k].repo].head \in Nat /\ g.head \in Nat
      BY <3>2, Bounds
    <3>4. \A h \in job[k].notes : h <= github'[job[k].repo].head
      BY <1>6, <2>1, <2>2, <3>1, <3>3 DEF Sound
    <3> QED
      BY <1>1, <2>1, <2>2, <3>4 DEF Sound
  <2>3. CASE job[k].pc # "pulls"
    BY <1>1, <2>1, <2>3 DEF Sound
  <2> QED
    BY <2>2, <2>3
<1> QED
  BY <1>4, <1>5, <1>7, <1>8 DEF IInv, JobBook

LEMMA ChangeKeeps ==
  ASSUME IInv, Change
  PROVE  IInv'
<1>1. PICK r \in Repos : Push(r) \/ Comment(r) \/ Check(r)
  BY DEF Change
<1>2. /\ github[r] \in Remotes
      /\ \A h \in github[r].notes : h <= github[r].head
      /\ \A h \in Heads : Green(github[r].checks[h]) => <<r, h>> \in passed
  BY DEF IInv, TypeOK, GitHubBook
<1>3. github[r].head \in {0} \cup Heads /\ github[r].head \in Nat /\ MaxHead \in Nat
  BY <1>2, Bounds, SupervisorAssumption DEF Remotes
<1>4. CASE Push(r)
  <2> DEFINE g == [github[r] EXCEPT !.head = @ + 1]
  <2>1. Changed(r, g) /\ github[r].head < MaxHead
    BY <1>4 DEF Push
  <2>2. g.head \in Heads /\ g.head >= github[r].head
    BY <1>2, <1>3, <2>1 DEF Heads, Remotes
  <2>3. g \in Remotes /\ g.checks = github[r].checks /\ g.notes = github[r].notes
    BY <1>2, <2>2 DEF Remotes
  <2>4. \A h \in g.notes : h <= g.head
    BY <1>2, <1>3, <2>2, <2>3, Bounds DEF Remotes
  <2> HIDE DEF g
  <2>5. \A h \in Heads : Green(g.checks[h]) => <<r, h>> \in passed'
    BY <1>2, <2>1, <2>3 DEF Changed
  <2> QED
    BY <2>1, <2>2, <2>3, <2>4, <2>5, ChangedKeeps
<1>5. CASE Comment(r)
  <2> DEFINE g == [github[r] EXCEPT !.notes = @ \cup {github[r].head}]
  <2>1. Changed(r, g) /\ github[r].head \in Heads
    BY <1>5 DEF Comment
  <2>2. g \in Remotes /\ g.checks = github[r].checks /\ g.head = github[r].head
    BY <1>2, <2>1 DEF Remotes
  <2>3. \A h \in g.notes : h <= g.head
    BY <1>2, <1>3, <2>2 DEF Remotes
  <2>4. g.head >= github[r].head
    BY <1>3, <2>2
  <2> HIDE DEF g
  <2>5. \A h \in Heads : Green(g.checks[h]) => <<r, h>> \in passed'
    BY <1>2, <2>1, <2>2 DEF Changed
  <2> QED
    BY <2>1, <2>2, <2>3, <2>4, <2>5, ChangedKeeps
<1>6. CASE Check(r)
  <2>1. PICK S \in SUBSET CheckStates :
          /\ github[r].head # 0
          /\ Changed(r, [github[r] EXCEPT !.checks[github[r].head] = S])
    BY <1>6 DEF Check
  <2> DEFINE c == [github[r].checks EXCEPT ![github[r].head] = S]
             g == [github[r] EXCEPT !.checks = c]
  <2>2. Changed(r, g) /\ github[r].head \in Heads
    BY <1>3, <2>1
  <2>3. c \in [Heads -> SUBSET CheckStates] /\ c[github[r].head] = S
    BY <1>2, <2>2 DEF Remotes
  <2>4. \A h \in Heads : h # github[r].head => c[h] = github[r].checks[h]
    BY <1>2 DEF Remotes
  <2> HIDE DEF c
  <2>5. /\ g \in Remotes /\ g.checks = c /\ g.head = github[r].head
        /\ g.notes = github[r].notes
    BY <1>2, <2>3 DEF Remotes
  <2>6. g.head >= github[r].head /\ g.head # 0
    BY <1>3, <2>1, <2>5
  <2> HIDE DEF g
  <2>7. \A h \in Heads : Green(g.checks[h]) => <<r, h>> \in passed'
    BY <1>2, <2>2, <2>3, <2>4, <2>5, <2>6 DEF Changed
  <2> QED
    BY <1>2, <2>2, <2>5, <2>6, <2>7, ChangedKeeps
<1> QED
  BY <1>1, <1>4, <1>5, <1>6

LEMMA InitKeeps == Init => IInv
<1> SUFFICES ASSUME Init PROVE IInv
  OBVIOUS
<1> USE DEF Init
<1>1. TypeOK
  BY Bounds, IdleSound DEF TypeOK, Remotes, Idle
<1>2. IdBook /\ OwnRepository /\ Coherent
  BY DEF IdBook, OwnRepository, Coherent
<1>3. JobBook
  BY IdleSound DEF JobBook
<1>4. GitHubBook
  BY DEF GitHubBook, Green
<1> QED
  BY <1>1, <1>2, <1>3, <1>4 DEF IInv

LEMMA NextKeeps == IInv /\ [Next]_vars => IInv'
<1> SUFFICES ASSUME IInv, [Next]_vars PROVE IInv'
  OBVIOUS
<1>1. CASE Change
  BY <1>1, ChangeKeeps
<1>2. ASSUME NEW j \in Jobs, JobStep(j) PROVE IInv'
  BY <1>2, StartKeeps, ListIssuesKeeps, ListPullRequestsKeeps, CISummaryKeeps,
     ReplaceSnapshotKeeps, ReadBackKeeps, ObserveKeeps, PublishKeeps, FailKeeps DEF JobStep
<1>3. ASSUME NEW j \in Jobs, NEW i \in Ids, Request(j, i) \/ Take(j, i) PROVE IInv'
  BY <1>3, RequestKeeps, TakeKeeps
<1>4. CASE Tick
  BY <1>4, TickKeeps
<1>5. ASSUME NEW i \in Ids, IntervalEnds(i) \/ GrowsStale(i) \/ DeleteProject(i) PROVE IInv'
  BY <1>5, IntervalEndsKeeps, GrowsStaleKeeps, DeleteProjectKeeps
<1>6. ASSUME NEW r \in Repos, NEW polling \in BOOLEAN, CreateProject(r, polling) PROVE IInv'
  BY <1>6, CreateProjectKeeps
<1>7. CASE Crash \/ Boot
  BY <1>7, CrashKeeps, BootKeeps
<1>8. CASE UNCHANGED vars
  BY <1>8 DEF vars, IInv, TypeOK, IdBook, JobBook, Sound, GitHubBook, OwnRepository, Coherent
<1> QED
  BY <1>1, <1>2, <1>3, <1>4, <1>5, <1>6, <1>7, <1>8 DEF Next

LEMMA Inductive == Spec => []IInv
BY InitKeeps, NextKeeps, PTL DEF Spec

(***************************************************************************)
(* Theorems                                                                *)
(***************************************************************************)
\* Every variable of the synchronisation keeps its type.
THEOREM TypeCorrect == Spec => []TypeOK
<1>1. IInv => TypeOK
  BY DEF IInv
<1> QED
  BY <1>1, Inductive, PTL

\* However synchronisations, deletions and creations of projects overlap, a project
\* stores and shows what its own repository said (SyncProject, ReplaceSnapshot).
THEOREM SnapshotOfOwnRepository == Spec => []OwnRepository
<1>1. IInv => OwnRepository
  BY DEF IInv
<1> QED
  BY <1>1, Inductive, PTL

\* Although a snapshot is put together from several requests and read back table by
\* table, a success in it is one that all check runs of its head had, and its
\* comments are of heads it knows (Snapshot, ciSummary, ProjectSnapshot).
THEOREM SnapshotCoherent == Spec => []Coherent
<1>1. IInv => Coherent
  BY DEF IInv
<1> QED
  BY <1>1, Inductive, PTL
=============================================================================
