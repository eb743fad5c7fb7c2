----------------------------- MODULE Supervisor -----------------------------
(***************************************************************************)
(* backend/internal/supervisor with its GitHub client and the project      *)
(* handlers: the poller and manual requests fetch a repository piece by    *)
(* piece, replace the stored snapshot in one transaction and have it       *)
(* observed; projects come and go meanwhile.                               *)
(*                                                                         *)
(* A repository is reduced to one pull request: its head, the check runs   *)
(* of each commit it pointed to, and the comments, each by the head it was *)
(* written about.  What the observer does with results and commands is in  *)
(* WorkerLoop; here it reads the snapshot again and publishes it.          *)
(***************************************************************************)
EXTENDS Naturals, FiniteSets

CONSTANTS Repos,        \* repositories
          Conclusions,  \* conclusions a check run may have
          Slots,        \* places in the poller's semaphore
          Callers,      \* manual requests at the same time
          MaxHead,      \* bound: commits pushed to a pull request
          MaxNews,      \* bound: changes on GitHub
          MaxIds,       \* bound: projects ever created
          MaxItems,     \* items the client keeps of a list
          None

Heads == 1..MaxHead
Ids   == 1..MaxIds
Jobs  == Slots \cup Callers
CheckStates == Conclusions \cup {"running"}
CI == Conclusions \cup {"none", "pending", "in_progress"}

Rows == [repo : Repos, polling : BOOLEAN, status : {"never", "syncing", "healthy", "failed"},
         young : BOOLEAN, due : BOOLEAN]
Snapshots == [repo : Repos, notes : SUBSET Heads, head : {0} \cup Heads, ci : CI]

ASSUME SupervisorAssumption ==
  /\ MaxHead \in Nat /\ MaxNews \in Nat /\ MaxIds \in Nat /\ MaxItems \in Nat
  /\ Conclusions \subseteq {"failure", "cancelled", "neutral", "skipped", "success"}
  /\ Slots \cap Callers = {}
  /\ None \notin Repos \cup Rows \cup Snapshots

VARIABLES github,     \* repository -> [head, notes, checks]; head 0: none yet
          passed,     \* history: <<repository, head>> all of whose check runs,
                      \* at some time, were finished and successful
          news,       \* changes made on GitHub
          project,    \* id -> row of projects, or None
          made,       \* ids given so far
          stored,     \* id -> the snapshot in the database, or None
          published,  \* id -> what the last observation showed the router
          todo,       \* the tick's projects that wait for the semaphore
          job,        \* the synchronisations that run
          up          \* the server runs

vars == <<github, passed, news, project, made, stored, published, todo, job, up>>
world == <<github, passed, news>>

Idle == [pc |-> "idle", id |-> 0, repo |-> None, notes |-> {}, head |-> 0,
         ci |-> "none"]

Row(r, polling) == [repo |-> r, polling |-> polling, status |-> "never",
                    young |-> FALSE, due |-> TRUE]

Init == /\ github = [r \in Repos |-> [head |-> 0, notes |-> {},
                                      checks |-> [h \in Heads |-> {}]]]
        /\ passed = {} /\ news = 0
        /\ project = [i \in Ids |-> None] /\ made = 0
        /\ stored = [i \in Ids |-> None]
        /\ published = [i \in Ids |-> None]
        /\ todo = {}
        /\ job = [j \in Jobs |-> Idle]
        /\ up = TRUE

(***************************************************************************)
(* GitHub                                                                  *)
(***************************************************************************)
Green(S) == S # {} /\ S \subseteq {"success"}

Changed(r, g) ==
  /\ news < MaxNews
  /\ news' = news + 1
  /\ github' = [github EXCEPT ![r] = g]
  /\ passed' = IF g.head # 0 /\ Green(g.checks[g.head])
               THEN passed \cup {<<r, g.head>>} ELSE passed
  /\ UNCHANGED <<project, made, stored, published, todo, job, up>>

Push(r) == /\ github[r].head < MaxHead
           /\ Changed(r, [github[r] EXCEPT !.head = @ + 1])

\* A Worker comments on the head the pull request has.
Comment(r) == /\ github[r].head \in Heads \ github[r].notes
              /\ Changed(r, [github[r] EXCEPT !.notes = @ \cup {github[r].head}])

\* A check run of the head starts or ends; a set stands for the runs.
Check(r) == \E S \in SUBSET CheckStates :
              /\ github[r].head # 0 /\ S # github[r].checks[github[r].head]
              /\ Changed(r, [github[r] EXCEPT !.checks[github[r].head] = S])

(***************************************************************************)
(* githubclient: Snapshot is a request for the issues and one for each of  *)
(* their comment lists, then pull requests, and the check runs of each.    *)
(***************************************************************************)
\* The oldest items of a list that is too long
Listed(S) == {h \in S : Cardinality({k \in S : k <= h}) <= MaxItems}

Priority(c) == CASE c = "failure"   -> 5
                 [] c = "cancelled" -> 4
                 [] c = "neutral"   -> 3
                 [] c = "skipped"   -> 2
                 [] OTHER           -> 1

\* (fault) runs that have not ended do not count
FinishedOnly(S) ==
  LET ended == S \ {"running"}
  IN IF ended = {} THEN "in_progress"
     ELSE CHOOSE c \in ended : \A d \in ended : Priority(d) <= Priority(c)

\* ciSummary: without check runs the combined status, which is then pending
Summary(S) ==
  IF S = {} THEN "pending"
  ELSE IF "running" \in S THEN "in_progress"
  ELSE CHOOSE c \in S : \A d \in S : Priority(d) <= Priority(c)

(***************************************************************************)
(* Statements on the row of a project                                      *)
(***************************************************************************)
MarkSyncStarted(i) == project' = [project EXCEPT ![i].status = "syncing", ![i].young = TRUE]
MarkSyncFailed(i)  == project' = [project EXCEPT ![i].status = "failed", ![i].due = FALSE]
MarkHealthy(i)     == project' = [project EXCEPT ![i].status = "healthy", ![i].due = FALSE]

Goto(j, pc) == job' = [job EXCEPT ![j].pc = pc]
Return(j)   == job' = [job EXCEPT ![j] = Idle]

Exists(j) == project[job[j].id] # None

(***************************************************************************)
(* SyncProject                                                             *)
(***************************************************************************)
Begun(j, i) == job' = [job EXCEPT ![j] = [Idle EXCEPT !.pc = "start", !.id = i,
                                                      !.repo = project[i].repo]]

\* manualSync
Request(j, i) ==
  /\ up /\ j \in Callers /\ job[j].pc = "idle"
  /\ project[i] # None
  /\ Begun(j, i)
  /\ UNCHANGED <<world, project, made, stored, published, todo, up>>

\* A goroutine of the tick gets its place.
Take(j, i) ==
  /\ j \in Slots /\ job[j].pc = "idle" /\ i \in todo
  /\ todo' = todo \ {i}
  /\ IF project[i] # None THEN Begun(j, i) ELSE UNCHANGED job
  /\ UNCHANGED <<world, project, made, stored, published, up>>

Start(j) ==
  /\ job[j].pc = "start"
  /\ \/ /\ Exists(j)
        /\ MarkSyncStarted(job[j].id)
        /\ Goto(j, "issues")
     \/ Return(j) /\ UNCHANGED project
  /\ UNCHANGED <<world, made, stored, published, todo, up>>

Fetch(j, at, got) ==
  /\ job[j].pc = at
  /\ job' = [job EXCEPT ![j] = got]
  /\ UNCHANGED <<world, project, made, stored, published, todo, up>>

Remote(j) == github[job[j].repo]

ListIssues(j) ==
  Fetch(j, "issues", [job[j] EXCEPT !.pc = "pulls", !.notes = Listed(Remote(j).notes)])

ListPullRequests(j) ==
  Fetch(j, "pulls", [job[j] EXCEPT !.pc = "checks", !.head = Remote(j).head])

\* The check runs of the head that was listed
CISummary(j) ==
  Fetch(j, "checks", [job[j] EXCEPT !.pc = "store",
                       !.ci = IF job[j].head = 0 THEN "none"
                              ELSE Summary(Remote(j).checks[job[j].head])])

Fetched(j) == [repo |-> job[j].repo, notes |-> job[j].notes, head |-> job[j].head,
               ci |-> job[j].ci]

ReplaceSnapshot(j) ==
  /\ job[j].pc = "store"
  /\ Exists(j)
  /\ stored' = [stored EXCEPT ![job[j].id] = Fetched(j)]
  /\ MarkHealthy(job[j].id)
  /\ job' = [job EXCEPT ![j] = [Idle EXCEPT !.pc = "read", !.id = job[j].id,
                                            !.repo = job[j].repo]]
  /\ UNCHANGED <<world, made, published, todo, up>>

\* ProjectSnapshot, for the results; an error here leaves the status alone.
ReadBack(j) ==
  /\ job[j].pc = "read"
  /\ Goto(j, "observe") \/ Return(j)
  /\ UNCHANGED <<world, project, made, stored, published, todo, up>>

\* The observer reads the snapshot table by table, without a transaction:
\* comments first,
Observe(j) ==
  /\ job[j].pc = "observe"
  /\ Exists(j)
  /\ job' = [job EXCEPT ![j].notes = stored[job[j].id].notes, ![j].pc = "publish"]
  /\ UNCHANGED <<world, project, made, stored, published, todo, up>>

\* then pull requests with their CI, which may be gone by now; and publishes.
Gone(r) == [repo |-> r, notes |-> {}, head |-> 0, ci |-> "none"]
Publish(j) ==
  /\ job[j].pc = "publish"
  /\ LET now == IF Exists(j) THEN stored[job[j].id] ELSE Gone(job[j].repo)
     IN published' = [published EXCEPT ![job[j].id] = [now EXCEPT !.notes = job[j].notes]]
  /\ Return(j)
  /\ UNCHANGED <<world, project, made, stored, todo, up>>

\* Any step may fail, by an error, syncTimeout or a caller who left; the failure
\* is recorded all the same, unless the database fails too or the project is gone.
Marking == {"issues", "pulls", "checks", "store", "observe", "publish"}
Fail(j) ==
  /\ job[j].pc \in Marking
  /\ \/ Exists(j) /\ MarkSyncFailed(job[j].id)
     \/ UNCHANGED project
  /\ Return(j)
  /\ UNCHANGED <<world, made, stored, published, todo, up>>

(***************************************************************************)
(* The poller                                                              *)
(***************************************************************************)
\* (fault) a synchronisation that was interrupted is waited for
StillSyncing(i) == project[i].status # "syncing" /\ project[i].due

Wanted(i) == IF project[i].status = "syncing" THEN ~project[i].young ELSE project[i].due
DueNow == {i \in Ids : project[i] # None /\ project[i].polling /\ Wanted(i)}

\* A tick waits for all it started before the next one.
Tick ==
  /\ up /\ todo = {} /\ \A j \in Slots : job[j].pc = "idle"
  /\ DueNow # {}
  /\ todo' = DueNow
  /\ UNCHANGED <<world, project, made, stored, published, job, up>>

\* The poll interval has passed since the last completion.
IntervalEnds(i) ==
  /\ project[i] # None /\ project[i].status \in {"healthy", "failed"} /\ ~project[i].due
  /\ project' = [project EXCEPT ![i].due = TRUE]
  /\ UNCHANGED <<world, made, stored, published, todo, job, up>>

\* syncTimeout has passed since the last start; the synchronisation itself
\* looks at a clock of its own.
GrowsStale(i) ==
  /\ project[i] # None /\ project[i].status = "syncing" /\ project[i].young
  /\ project' = [project EXCEPT ![i].young = FALSE]
  /\ UNCHANGED <<world, made, stored, published, todo, job, up>>

(***************************************************************************)
(* Projects                                                                *)
(***************************************************************************)
\* (fault) without AUTOINCREMENT the id after the largest one is given, also again
AfterLargest == CHOOSE i \in 1..(made + 1) :
                  /\ i = 1 \/ project[i - 1] # None
                  /\ \A k \in Ids : k >= i => project[k] = None

NextId == made + 1

CreateProject(r, polling) ==
  /\ up /\ made < MaxIds
  /\ \A i \in Ids : project[i] # None => project[i].repo # r
  /\ project' = [project EXCEPT ![NextId] = Row(r, polling)]
  /\ made' = made + 1
  /\ UNCHANGED <<world, stored, published, todo, job, up>>

\* The tables of the snapshot go with the row.
DeleteProject(i) ==
  /\ up /\ project[i] # None
  /\ project' = [project EXCEPT ![i] = None]
  /\ stored' = [stored EXCEPT ![i] = None]
  /\ UNCHANGED <<world, made, published, todo, job, up>>

(***************************************************************************)
(* The process.  The projection is its memory, restored when it starts.    *)
(***************************************************************************)
Crash ==
  /\ up
  /\ up' = FALSE
  /\ todo' = {} /\ job' = [j \in Jobs |-> Idle]
  /\ published' = [i \in Ids |-> None]
  /\ UNCHANGED <<world, project, made, stored>>

Boot ==
  /\ ~up
  /\ up' = TRUE
  /\ published' = stored
  /\ UNCHANGED <<world, project, made, stored, todo, job>>

JobStep(j) ==
  \/ Start(j) \/ ListIssues(j) \/ ListPullRequests(j) \/ CISummary(j)
  \/ ReplaceSnapshot(j) \/ ReadBack(j) \/ Observe(j) \/ Publish(j) \/ Fail(j)

Change == \E r \in Repos : Push(r) \/ Comment(r) \/ Check(r)

Next ==
  \/ Change
  \/ \E j \in Jobs : JobStep(j)
  \/ \E j \in Jobs, i \in Ids : Request(j, i) \/ Take(j, i)
  \/ Tick
  \/ \E i \in Ids : IntervalEnds(i) \/ GrowsStale(i) \/ DeleteProject(i)
  \/ \E r \in Repos, polling \in BOOLEAN : CreateProject(r, polling)
  \/ Crash \/ Boot

Spec == Init /\ [][Next]_vars

(***************************************************************************)
(* Fairness.  Goroutines run to their end, the ticker ticks, intervals and *)
(* timeouts pass, a stopped server is started again.  From some point on   *)
(* GitHub rests, the server lives, and a synchronisation ends in time and  *)
(* without an error.                                                       *)
(***************************************************************************)
\* A failure that leaves things as a repeated publication would is none.
Mishap(j) == \/ Fail(j) /\ Exists(j) /\ ~Publish(j)
             \/ Start(j) /\ Exists(j) /\ job'[j].pc = "idle"
             \/ ReadBack(j) /\ job'[j].pc = "idle"
Unserved(i) == \A j \in Jobs : job[j].id # i

Calm == [][/\ ~Change /\ ~Crash
           /\ \A j \in Jobs : ~Mishap(j)
           /\ \A i \in Ids : GrowsStale(i) => Unserved(i)]_vars

FairSpec ==
  /\ Spec
  /\ \A j \in Jobs : WF_vars(JobStep(j))
  /\ WF_vars(\E j \in Slots, i \in Ids : Take(j, i))
  /\ WF_vars(Tick) /\ WF_vars(Boot)
  /\ \A i \in Ids : WF_vars(IntervalEnds(i)) /\ WF_vars(Unserved(i) /\ GrowsStale(i))
  /\ <>Calm

(***************************************************************************)
(* Properties                                                              *)
(***************************************************************************)
Remotes == [head : {0} \cup Heads, notes : SUBSET Heads, checks : [Heads -> SUBSET CheckStates]]
JobStates == [pc : {"idle", "start", "read"} \cup Marking, id : {0} \cup Ids,
              repo : Repos \cup {None}, notes : SUBSET Heads, head : {0} \cup Heads, ci : CI]

\* Every variable stays in its type, and whoever is at work works on a project.
TypeOK ==
  /\ github \in [Repos -> Remotes]
  /\ passed \subseteq Repos \X Heads
  /\ news \in Nat
  /\ project \in [Ids -> Rows \cup {None}]
  /\ made \in {0} \cup Ids
  /\ stored \in [Ids -> Snapshots \cup {None}]
  /\ published \in [Ids -> Snapshots \cup {None}]
  /\ todo \subseteq Ids
  /\ job \in [Jobs -> JobStates]
  /\ \A j \in Jobs : job[j].pc # "idle" => job[j].id \in Ids /\ job[j].repo \in Repos
  /\ up \in BOOLEAN

\* A project shows its own repository: no synchronisation that was under way
\* when its project was deleted stores or publishes what it fetched for another.
OwnRepository ==
  \A i \in Ids : project[i] # None =>
     /\ stored[i] # None => stored[i].repo = project[i].repo
     /\ published[i] # None => published[i].repo = project[i].repo

\* A snapshot is fetched while GitHub moves on, and older snapshots replace newer
\* ones; still a stored or published success is a success all check runs of that
\* very head had, and no stored comment speaks of a head that is not known yet.
Coherent ==
  \A i \in Ids :
     /\ \A s \in {stored[i], published[i]} \ {None} :
          s.ci = "success" => <<s.repo, s.head>> \in passed
     /\ stored[i] # None => \A h \in stored[i].notes : h <= stored[i].head

\* What GitHub shows reaches the router in the end, although synchronisations
\* overlap, fail, are interrupted or store an older snapshot meanwhile.
Latest(i) == IF project[i] = None THEN None
             ELSE LET g == github[project[i].repo]
                  IN [repo |-> project[i].repo, notes |-> g.notes, head |-> g.head,
                      ci |-> IF g.head = 0 THEN "none" ELSE Summary(g.checks[g.head])]
NewsArrives ==
  \A i \in Ids : <>[](project[i] # None /\ project[i].polling)
                      => <>[](published[i] = Latest(i))
=============================================================================
