----------------------------- MODULE ChangeRunner -----------------------------
(***************************************************************************)
(* backend/cmd/cddm-change for one issue: Codex turns in a git worktree,   *)
(* what becomes of their results, the publication of candidates, the       *)
(* reconciliation onto a new base, and the recovery of all of it from the  *)
(* state file.                                                             *)
(*                                                                         *)
(* Mutating commands hold the issue's file lock, so one runs at a time.    *)
(* An action ends with at most one durable effect: a saved state, a moved  *)
(* ref or worktree, a call to GitHub, a started process.  A command that   *)
(* fails and returns between two effects is one that was killed there.     *)
(***************************************************************************)
EXTENDS Naturals, Sequences, FiniteSets

CONSTANTS MaxTurns,  \* bound: Codex turns ever started
          MaxMain,   \* bound: times main moves
          None

Turns == 1..MaxTurns   \* a turn also names its result file and its own fresh thread
Results == {"CONTINUE", "BLOCKED", "NO_OP", "CANDIDATE_READY", "empty", "invalid"}
Modes == {"", "start", "resume", "rotate"}
Statuses == {"WORKTREE_INITIALIZING", "INITIALIZING", "RUNNING", "ROTATED", "THREAD_MISMATCH",
  "START_FAILED_NO_THREAD", "ROTATE_FAILED_NO_THREAD", "TURN_COMPLETION_UNKNOWN",
  "TURN_FAILED", "EMPTY_RESULT", "INVALID_RESULT", "CONTINUE", "BLOCKER_PENDING_GITHUB",
  "BLOCKED", "NO_OP", "INVALID_NO_OP", "INVALID_CANDIDATE_READY", "V2_FAILED",
  "COMMIT_PREPARED", "COMMITTED_PENDING_PUSH", "PUBLISH_CONFIRMATION_PENDING",
  "PUBLISH_INCONCLUSIVE", "PUSHED_PENDING_GITHUB", "CANDIDATE", "RECONCILING"}

\* A commit: the state of main under it, and the turns each candidate on top adds.
Commits == [base : 0..MaxMain, path : Seq(SUBSET ({0} \union Turns))]
ActiveTurns == [mode : Modes, turn : 0..MaxTurns, prev : 0..MaxTurns, pid : BOOLEAN]
States == [status : Statuses, thread : 0..MaxTurns, active : ActiveTurns,
           cand : Commits \union {None}, parent : Commits \union {None},
           before : Commits \union {None}, candResult : 0..MaxTurns,
           last : 0..MaxTurns, counted : 0..MaxTurns, total : Nat]

ASSUME RunnerAssumption == /\ MaxTurns \in Nat /\ MaxMain \in Nat
                           /\ None \notin States \union Commits

VARIABLES disk,      \* the state file, or None
          host,      \* the running command: pc, cmd, its copy of the state, what it fetched
          tree,      \* the worktree: [there, head, dirty], dirty by turn
          turn,      \* files and process of each turn
          made,      \* turns started so far
          remote,    \* the change branch on GitHub, or None
          main,      \* how often main moved
          pr,        \* whether the pull request exists
          comments,  \* blocker comments posted for a turn
          verified   \* history: commits that Host V2 passed

runnerVars == <<disk, host, tree, turn, made, remote, main, pr, comments, verified>>
hub   == <<pr, comments>>
world == <<turn, made, main>>

MainHead(m) == [base |-> m, path |-> <<>>]
Alien == [base |-> 0, path |-> <<{0}>>]   \* pushed by somebody else
Work(c) == UNION {c.path[i] : i \in DOMAIN c.path}
IsAncestor(a, c) == \/ a.path = <<>> /\ a.base <= c.base
                    \/ a.base = c.base /\ Len(a.path) <= Len(c.path)
                         /\ a.path = SubSeq(c.path, 1, Len(a.path))
Diff(parent, head) == Work(head) \ Work(parent)

NoTurn == [mode |-> "", turn |-> 0, prev |-> 0, pid |-> FALSE]
Fresh == [status |-> "WORKTREE_INITIALIZING", thread |-> 0, active |-> NoTurn,
          cand |-> None, parent |-> None, before |-> None,
          candResult |-> 0, last |-> 0, counted |-> 0, total |-> 0]
Idle == [pc |-> "idle", cmd |-> "", mem |-> None, onto |-> 0, seen |-> None]
NoFiles == [proc |-> "none", thread |-> 0, exit |-> "none", result |-> "empty", rc |-> "ok"]

Init == /\ disk = None
        /\ host = Idle
        /\ tree = [there |-> FALSE, head |-> MainHead(0), dirty |-> {}]
        /\ turn = [t \in Turns |-> NoFiles]
        /\ made = 0
        /\ remote = None
        /\ main = 0
        /\ pr = FALSE
        /\ comments = [t \in Turns |-> 0]
        /\ verified = {}

At(pc) == host.pc = pc
Return == host' = Idle
Goto(pc) == host' = [host EXCEPT !.pc = pc]
\* saveStateAtomic: write, fsync, rename.
Save(s, pc) == /\ disk' = s
               /\ host' = IF pc = "idle" THEN Idle ELSE [host EXCEPT !.pc = pc, !.mem = s]
Think(s, pc) == host' = [host EXCEPT !.pc = pc, !.mem = s] /\ UNCHANGED disk

Active == host.mem.active
Current == Active.turn
\* stateOwnsProcess: the recorded process, by pid, start time and group.
Owned(s) == s.active.pid /\ turn[s.active.turn].proc = "alive"
Cleared(s) == [s EXCEPT !.active = NoTurn]
Disposed(s, t) == [s EXCEPT !.last = t]

\* (fault) recovery counts the turn once more
CountsAgain(s, t) == [s EXCEPT !.total = @ + 1, !.counted = t]

Counted(s, t) == IF s.counted = t THEN s
                 ELSE [s EXCEPT !.total = @ + 1, !.counted = t]
\* expectedInitialHead, as fetched by the command's preflight
Expected == IF host.seen # None THEN host.seen ELSE MainHead(host.onto)

(***************************************************************************)
(* Commands.  Their preflight fetches, so they see the remote as it is.    *)
(***************************************************************************)
Begin(cmd, s, pc) ==
  /\ At("idle")
  /\ host' = [Idle EXCEPT !.pc = pc, !.cmd = cmd, !.mem = s,
                           !.onto = main, !.seen = remote]
  /\ UNCHANGED <<disk, tree, world, remote, hub, verified>>

StartCommand == made < MaxTurns /\ Begin("start", None, "repair")
ResumeCommand(mode) ==
  /\ made < MaxTurns
  /\ disk # None
  /\ tree.there
  /\ remote # None => remote = tree.head
  /\ Begin(mode, disk, "recover")
RecoverCommand == disk # None /\ Begin("recover", disk, "recover")
ReconcileCommand ==
  /\ disk # None
  /\ disk.active = NoTurn
  /\ tree.there /\ tree.dirty = {}
  /\ disk.cand # None /\ disk.parent # None
  /\ tree.head = disk.cand /\ remote = disk.cand
  /\ Begin("reconcile", disk, "rebase")

\* repairPrethreadFailure: a start that never had a thread is archived.
Repair ==
  /\ At("repair")
  /\ IF /\ disk # None
        /\ disk.thread = 0 /\ disk.status = "START_FAILED_NO_THREAD"
        /\ disk.active.mode = "start"
     THEN IF \/ Owned(disk) \/ turn[disk.active.turn].thread # 0 \/ tree.dirty # {}
          THEN Return /\ UNCHANGED disk
          ELSE disk' = None /\ Goto("align")
     ELSE Goto("align") /\ UNCHANGED disk
  /\ UNCHANGED <<tree, world, remote, hub, verified>>

\* alignCleanPrethreadOrphan
Align ==
  /\ At("align")
  /\ IF disk = None /\ tree.there
     THEN IF tree.dirty = {} /\ IsAncestor(tree.head, Expected)
          THEN tree' = [tree EXCEPT !.head = Expected] /\ Goto("load")
          ELSE Return /\ UNCHANGED tree
     ELSE Goto("load") /\ UNCHANGED tree
  /\ UNCHANGED <<disk, world, remote, hub, verified>>

Load ==
  /\ At("load")
  /\ IF disk = None THEN Save(Fresh, "worktree") ELSE Think(disk, "recover")
  /\ UNCHANGED <<tree, world, remote, hub, verified>>

\* createOrAttachWorktree
Worktree ==
  /\ At("worktree")
  /\ IF tree.there
     THEN /\ IF tree.dirty = {} /\ tree.head = Expected THEN Goto("initialize") ELSE Return
          /\ UNCHANGED tree
     ELSE /\ tree' = [there |-> TRUE, head |-> Expected, dirty |-> {}]
          /\ Goto("initialize")
  /\ UNCHANGED <<disk, world, remote, hub, verified>>

Initialize ==
  /\ At("initialize")
  /\ Save([host.mem EXCEPT !.status = "INITIALIZING"], "intent")
  /\ UNCHANGED <<tree, world, remote, hub, verified>>

(***************************************************************************)
(* runTurn                                                                 *)
(***************************************************************************)
Intent ==
  /\ At("intent")
  /\ made' = made + 1
  /\ Save([host.mem EXCEPT !.status = "RUNNING",
             !.active = [mode |-> host.cmd, turn |-> made + 1,
                         prev |-> host.mem.thread, pid |-> FALSE]], "spawn")
  /\ UNCHANGED <<tree, turn, main, remote, hub, verified>>

Spawn ==
  /\ At("spawn")
  /\ turn' = [turn EXCEPT ![Current].proc = "alive"]
  /\ Goto("identity")
  /\ UNCHANGED <<disk, tree, made, main, remote, hub, verified>>

Identity ==
  /\ At("identity")
  /\ Save([host.mem EXCEPT !.active.pid = TRUE], "wait")
  /\ UNCHANGED <<tree, world, remote, hub, verified>>

\* Codex names a fresh thread or the one it was to resume.
Finds == {Current, Active.prev} \ {0}

\* The first thread.started event: written to the event log, then bound.
Event ==
  /\ At("wait")
  /\ turn[Current].proc = "alive" /\ turn[Current].thread = 0
  /\ \E found \in Finds :
       turn' = [turn EXCEPT ![Current].thread = found]
  /\ Goto("bind")
  /\ UNCHANGED <<disk, tree, made, main, remote, hub, verified>>

\* bindLiveThread and reconcileRecoveredThread
Matches(s, found) ==
  CASE s.active.mode = "start"  -> s.thread \in {0, found}
    [] s.active.mode = "resume" -> found = s.active.prev /\ s.thread = found
    [] s.active.mode = "rotate" -> found # s.active.prev /\ s.thread \in {s.active.prev, found}
    [] OTHER -> FALSE
Bound(s, found) ==
  IF s.thread = found THEN s
  ELSE [s EXCEPT !.thread = found,
                 !.status = IF s.active.mode = "rotate" THEN "ROTATED" ELSE "RUNNING"]

Killed(t) == IF turn[t].proc = "alive"
             THEN [turn EXCEPT ![t].proc = "dead", ![t].rc = "failed"] ELSE turn

\* A foreign thread: the process group is told to end.
Bind ==
  LET found == turn[Current].thread IN
  /\ At("bind")
  /\ IF Matches(host.mem, found)
     THEN Save(Bound(host.mem, found), "wait") /\ UNCHANGED turn
     ELSE /\ Goto("wait")
          /\ turn' = Killed(Current)
          /\ UNCHANGED disk
  /\ UNCHANGED <<tree, made, main, remote, hub, verified>>

\* cmd.Wait and the durable exit status.
Reap ==
  /\ At("wait")
  /\ turn[Current].proc = "dead"
  /\ turn' = [turn EXCEPT ![Current].exit = turn[Current].rc]
  /\ Goto("exited")
  /\ UNCHANGED <<disk, tree, made, main, remote, hub, verified>>

\* (fault) a turn without its thread is dropped from the state
Forgotten(s) == [Cleared(s) EXCEPT !.status = "THREAD_MISMATCH"]

Mismatched(s) == [s EXCEPT !.status = "THREAD_MISMATCH"]

Exited ==
  LET t == turn[Current] IN
  /\ At("exited")
  /\ IF t.thread = 0
     THEN Save([host.mem EXCEPT !.status =
                  CASE Active.mode = "start" -> "START_FAILED_NO_THREAD"
                    [] Active.mode = "rotate" -> "ROTATE_FAILED_NO_THREAD"
                    [] OTHER -> "THREAD_MISMATCH"], "idle")
     ELSE IF ~Matches(host.mem, t.thread)
     THEN Save(Mismatched(host.mem), "idle")
     ELSE Think(Counted(host.mem, Current), "judge")
  /\ UNCHANGED <<tree, world, remote, hub, verified>>

Judge ==
  LET t == turn[Current]
      ended(status) == Save(Cleared(Disposed([host.mem EXCEPT !.status = status], Current)), "idle") IN
  /\ At("judge")
  /\ CASE t.exit = "failed"      -> ended("TURN_FAILED")
       [] t.exit = "ok" /\ t.result = "empty"   -> ended("EMPTY_RESULT")
       [] t.exit = "ok" /\ t.result = "invalid" -> ended("INVALID_RESULT")
       [] OTHER -> Goto("dispatch") /\ UNCHANGED disk
  /\ UNCHANGED <<tree, world, remote, hub, verified>>

(***************************************************************************)
(* recoverActive                                                           *)
(***************************************************************************)
\* Nothing to recover: the command goes on.
NotActive ==
  /\ At("recover") /\ Active = NoTurn
  /\ CASE host.cmd = "start" /\ host.mem.thread = 0 -> Goto("worktree")
       [] host.cmd \in {"resume", "rotate"} /\ host.mem.thread # 0 -> Goto("intent")
       [] OTHER -> Return
  /\ UNCHANGED <<disk, tree, world, remote, hub, verified>>

Recover ==
  LET found == turn[Current].thread IN
  /\ At("recover") /\ Active # NoTurn
  /\ IF Owned(host.mem) THEN Return /\ UNCHANGED disk
     ELSE IF found = 0 \/ ~Matches(host.mem, found)
     THEN Save(Mismatched(host.mem), "idle")
     ELSE Save(Bound(host.mem, found), "evidence")
  /\ UNCHANGED <<tree, world, remote, hub, verified>>

Evidence ==
  /\ At("evidence")
  /\ IF turn[Current].exit = "none"
     THEN Save([host.mem EXCEPT !.status = "TURN_COMPLETION_UNKNOWN"], "idle")
     ELSE Think(Counted(host.mem, Current), "judge")
  /\ UNCHANGED <<tree, world, remote, hub, verified>>

(***************************************************************************)
(* dispatchResult                                                          *)
(***************************************************************************)
Done(status) == Save(Disposed([host.mem EXCEPT !.status = status], Current), "finish")

Dispatch ==
  LET result == turn[Current].result IN
  /\ At("dispatch")
  /\ CASE host.mem.last = Current -> Goto("finish") /\ UNCHANGED disk
       [] host.mem.last # Current /\ result = "CONTINUE" -> Done("CONTINUE")
       [] host.mem.last # Current /\ result = "BLOCKED" ->
            Save([host.mem EXCEPT !.status = "BLOCKER_PENDING_GITHUB"], "blocker")
       [] host.mem.last # Current /\ result = "NO_OP" ->
            Done(IF tree.dirty = {} THEN "NO_OP" ELSE "INVALID_NO_OP")
       [] host.mem.last # Current /\ result = "CANDIDATE_READY" ->
            IF host.mem.candResult = Current
            THEN Save(Disposed(host.mem, Current), "pending")
            ELSE IF tree.dirty = {} THEN Done("INVALID_CANDIDATE_READY")
            ELSE Goto("v2") /\ UNCHANGED disk
  /\ UNCHANGED <<tree, world, remote, hub, verified>>

\* (fault) the comments are not searched for the marker
NoMarker(t) == FALSE

MarkerPresent(t) == comments[t] > 0

\* persistBlocker
Blocker ==
  /\ At("blocker")
  /\ comments' = IF MarkerPresent(Current) THEN comments
                 ELSE [comments EXCEPT ![Current] = @ + 1]
  /\ Goto("blocked")
  /\ UNCHANGED <<disk, tree, world, remote, pr, verified>>

Blocked ==
  /\ At("blocked")
  /\ Done("BLOCKED")
  /\ UNCHANGED <<tree, world, remote, hub, verified>>

\* (fault) only a published candidate ends its turn
OnlyPublished(s) == s.last = s.active.turn /\ s.status = "CANDIDATE"

Settled(s) == s.last = s.active.turn

\* clearActive when the result was disposed of.
Finish ==
  /\ At("finish")
  /\ IF Settled(host.mem) THEN Save(Cleared(host.mem), "idle")
                                ELSE Return /\ UNCHANGED disk
  /\ UNCHANGED <<tree, world, remote, hub, verified>>

(***************************************************************************)
(* commitAndPublishCandidate and what resumes it                           *)
(***************************************************************************)
\* (fault) a verifier that could not run does not hold the candidate back
AnyOutcome(outcome) == TRUE

Passes(outcome) == outcome = "ok"

\* (fault) the edits are not staged before the tree is written
Unstaged == [base |-> tree.head.base, path |-> Append(tree.head.path, {})]

Candidate == [base |-> tree.head.base, path |-> Append(tree.head.path, tree.dirty)]

V2 ==
  /\ At("v2")
  /\ \E outcome \in {"ok", "failed"} :
       /\ verified' = IF outcome = "ok" THEN verified \union {Candidate} ELSE verified
       /\ IF Passes(outcome) THEN Goto("prepare") /\ UNCHANGED disk ELSE Done("V2_FAILED")
  /\ UNCHANGED <<tree, world, remote, hub>>

\* The commit object exists before the state names it; a failed look at the
\* remote counts as no branch.
Prepare ==
  /\ At("prepare")
  /\ \E seen \in {remote, None} :
       Save([host.mem EXCEPT !.status = "COMMIT_PREPARED", !.candResult = Current,
               !.cand = Candidate, !.parent = tree.head, !.before = seen], "reset")
  /\ UNCHANGED <<tree, world, remote, hub, verified>>

\* git reset --hard; from here the turn counts as disposed of, in memory.
Reset ==
  /\ At("reset")
  /\ \/ /\ tree' = [tree EXCEPT !.head = host.mem.cand, !.dirty = {}]
        /\ Think(Disposed(host.mem, Current), "committed")
     \/ Think(Disposed(host.mem, Current), "finish") /\ UNCHANGED tree
  /\ UNCHANGED <<world, remote, hub, verified>>

Committed ==
  /\ At("committed")
  /\ Save([host.mem EXCEPT !.status = "COMMITTED_PENDING_PUSH"], "publish")
  /\ UNCHANGED <<tree, world, remote, hub, verified>>

\* reconcilePendingCandidate
Pending ==
  /\ At("pending")
  /\ Goto(CASE host.mem.status = "COMMIT_PREPARED" -> "prepared"
            [] host.mem.status \in {"COMMITTED_PENDING_PUSH", "PUBLISH_CONFIRMATION_PENDING"} -> "publish"
            [] host.mem.status = "PUSHED_PENDING_GITHUB" -> "finalize"
            [] OTHER -> "finish")
  /\ UNCHANGED <<disk, tree, world, remote, hub, verified>>

Publication(status, pc) == Save([host.mem EXCEPT !.status = status], pc)

\* reconcilePreparedCandidate
Prepared ==
  /\ At("prepared")
  /\ CASE tree.head = host.mem.parent ->
            \/ /\ tree' = [tree EXCEPT !.head = host.mem.cand, !.dirty = {}]
               /\ Goto("committed") /\ UNCHANGED disk
            \/ Goto("finish") /\ UNCHANGED <<disk, tree>>
       [] tree.head = host.mem.cand -> Goto("committed") /\ UNCHANGED <<disk, tree>>
       [] OTHER -> Publication("PUBLISH_INCONCLUSIVE", "finish") /\ UNCHANGED tree
  /\ UNCHANGED <<world, remote, hub, verified>>

\* publishCommittedCandidate: the look before the push, which may fail
Publish ==
  /\ At("publish")
  /\ \/ /\ tree.head # host.mem.cand \/ remote \notin {host.mem.cand, host.mem.before}
        /\ Publication("PUBLISH_INCONCLUSIVE", "finish")
     \/ /\ tree.head = host.mem.cand /\ remote = host.mem.cand
        /\ Publication("PUSHED_PENDING_GITHUB", "finalize")
     \/ tree.head = host.mem.cand /\ Goto("push") /\ UNCHANGED disk
  /\ UNCHANGED <<tree, world, remote, hub, verified>>

\* (fault) pushed without the lease
Forced(before) == TRUE

Lease(before) == remote = before

\* Whatever the answer says, the ref moved or it did not.
Push ==
  /\ At("push")
  /\ \/ Lease(host.mem.before) /\ remote' = tree.head
     \/ UNCHANGED remote
  /\ Goto("confirm")
  /\ UNCHANGED <<disk, tree, world, hub, verified>>

Confirm ==
  /\ At("confirm")
  /\ \/ Publication("PUBLISH_CONFIRMATION_PENDING", "finish")
     \/ CASE remote = host.mem.cand -> Publication("PUSHED_PENDING_GITHUB", "finalize")
          [] remote # host.mem.cand /\ remote = host.mem.before ->
               Publication("COMMITTED_PENDING_PUSH", "finish")
          [] OTHER -> Publication("PUBLISH_INCONCLUSIVE", "finish")
  /\ UNCHANGED <<tree, world, remote, hub, verified>>

\* The pull request is found or made; a failure may come before or after that.
EnsurePR(outcome) == IF outcome = "ok" THEN pr' = TRUE ELSE pr' \in {pr, TRUE}

\* finalizePushedCandidate up to ensurePR
Finalize ==
  /\ At("finalize")
  /\ \/ Publication("PUBLISH_CONFIRMATION_PENDING", "finish") /\ UNCHANGED pr
     \/ /\ remote # host.mem.cand
        /\ Publication("PUBLISH_INCONCLUSIVE", "finish") /\ UNCHANGED pr
     \/ /\ remote = host.mem.cand
        /\ Publication("PUSHED_PENDING_GITHUB", "finish") /\ EnsurePR("failed")
     \/ /\ remote = host.mem.cand
        /\ EnsurePR("ok") /\ Goto("verify") /\ UNCHANGED disk
  /\ UNCHANGED <<tree, world, remote, comments, verified>>

\* verifyPRHead
HeadConfirmed == pr /\ remote = host.mem.cand

Verify ==
  /\ At("verify")
  /\ \/ HeadConfirmed /\ Publication("CANDIDATE", "finish")
     \/ Publication("PUSHED_PENDING_GITHUB", "finish")
  /\ UNCHANGED <<tree, world, remote, hub, verified>>

(***************************************************************************)
(* reconcileOnto                                                           *)
(***************************************************************************)
\* git reset --hard to the new base, the patch being on file
Rebase ==
  /\ At("rebase")
  /\ tree' = [tree EXCEPT !.head = MainHead(host.onto), !.dirty = {}]
  /\ Goto("apply")
  /\ UNCHANGED <<disk, world, remote, hub, verified>>

\* git apply --3way, possibly with conflicts, or nothing applied at all
Apply ==
  /\ At("apply")
  /\ \/ /\ tree' = [tree EXCEPT !.dirty = Diff(host.mem.parent, host.mem.cand)]
        /\ Goto("move")
     \/ tree' = [tree EXCEPT !.head = host.mem.cand] /\ Return
  /\ UNCHANGED <<disk, world, remote, hub, verified>>

\* The branch goes to the new base; an error may be reported either way.
Move ==
  /\ At("move")
  /\ \/ /\ Lease(host.mem.cand) /\ remote' = tree.head
        /\ \E pc \in {"moved", "restore"} : Goto(pc)
     \/ Goto("restore") /\ UNCHANGED remote
  /\ UNCHANGED <<disk, tree, world, hub, verified>>

Restore ==
  /\ At("restore")
  /\ tree' = [tree EXCEPT !.head = host.mem.cand, !.dirty = {}]
  /\ Return
  /\ UNCHANGED <<disk, world, remote, hub, verified>>

Moved ==
  /\ At("moved")
  /\ Save([host.mem EXCEPT !.status = "RECONCILING", !.cand = None, !.parent = None,
                           !.before = None, !.candResult = 0], "idle")
  /\ UNCHANGED <<tree, world, remote, hub, verified>>

(***************************************************************************)
(* Around the command                                                      *)
(***************************************************************************)
\* Killed, or a call fails and the command returns: nothing else changes.
Crash == /\ host # Idle
         /\ Return
         /\ UNCHANGED <<disk, tree, world, remote, hub, verified>>

Edit(t) ==
  /\ turn[t].proc = "alive"
  /\ tree' = [tree EXCEPT !.dirty = @ \union {t}]
  /\ UNCHANGED <<disk, host, world, remote, hub, verified>>

End(t) ==
  /\ turn[t].proc = "alive"
  /\ \/ \E result \in Results : turn' = [turn EXCEPT ![t].proc = "dead", ![t].result = result]
     \/ turn' = Killed(t)
  /\ UNCHANGED <<disk, host, tree, made, main, remote, hub, verified>>

\* cddm-change stop signals without the lock, then recovers like RecoverCommand.
Stop ==
  /\ disk # None
  /\ Owned(disk)
  /\ turn' = Killed(disk.active.turn)
  /\ UNCHANGED <<disk, host, tree, made, main, remote, hub, verified>>

MainMoves ==
  /\ main < MaxMain
  /\ main' = main + 1
  /\ UNCHANGED <<disk, host, tree, turn, made, remote, hub, verified>>

ForeignPush ==
  /\ remote # Alien
  /\ remote' = Alien
  /\ UNCHANGED <<disk, host, tree, world, hub, verified>>

HostStep ==
  \/ Repair \/ Align \/ Load \/ Worktree \/ Initialize
  \/ Intent \/ Spawn \/ Identity \/ Event \/ Bind \/ Reap \/ Exited \/ Judge
  \/ NotActive \/ Recover \/ Evidence
  \/ Dispatch \/ Blocker \/ Blocked \/ Finish
  \/ V2 \/ Prepare \/ Reset \/ Committed \/ Pending \/ Prepared
  \/ Publish \/ Push \/ Confirm \/ Finalize \/ Verify
  \/ Rebase \/ Apply \/ Move \/ Restore \/ Moved

Next ==
  \/ StartCommand \/ RecoverCommand \/ ReconcileCommand
  \/ \E mode \in {"resume", "rotate"} : ResumeCommand(mode)
  \/ HostStep
  \/ Crash
  \/ \E t \in Turns : Edit(t) \/ End(t)
  \/ Stop \/ MainMoves \/ ForeignPush

Spec == Init /\ [][Next]_runnerVars

(***************************************************************************)
(* Commands keep running, Codex processes end, somebody runs recover, and  *)
(* calls fail and commands are killed only so often.                       *)
(***************************************************************************)
FairSpec ==
  /\ Spec
  /\ WF_runnerVars(HostStep)
  /\ \A t \in Turns : WF_runnerVars(End(t))
  /\ SF_runnerVars(RecoverCommand)
  /\ <>[][Crash => HostStep]_runnerVars

(***************************************************************************)
(* Properties                                                              *)
(***************************************************************************)
PendingStatuses == {"COMMIT_PREPARED", "COMMITTED_PENDING_PUSH",
                    "PUBLISH_CONFIRMATION_PENDING", "PUSHED_PENDING_GITHUB"}
FailClosed == {"THREAD_MISMATCH", "START_FAILED_NO_THREAD", "ROTATE_FAILED_NO_THREAD",
               "TURN_COMPLETION_UNKNOWN"}

\* Where a command can be: before it read the state, before its turn, in its turn,
\* after it, publishing a candidate, or moving one to a new base.
Opening == {"repair", "align", "load"}
Starting == {"worktree", "initialize", "intent"}
Running == {"spawn", "identity", "wait", "bind"}
Publishing == {"reset", "committed", "pending", "prepared", "publish", "push", "confirm",
               "finalize", "verify"}
Judged == {"judge", "dispatch", "blocker", "blocked", "finish", "v2", "prepare"} \union Publishing
Moving == {"rebase", "apply", "move", "restore", "moved"}
Pcs == {"idle", "recover", "exited", "evidence"}
         \union Opening \union Starting \union Running \union Judged \union Moving

Files == [proc : {"none", "alive", "dead"}, thread : 0..MaxTurns,
          exit : {"none", "ok", "failed"}, result : Results, rc : {"ok", "failed"}]

\* The state file, the worktree and GitHub hold values of the right kind.
TypeOK ==
  /\ disk \in States \union {None}
  /\ host \in [pc : Pcs, cmd : Modes \union {"recover", "reconcile"},
              mem : States \union {None}, onto : 0..MaxMain, seen : Commits \union {None}]
  /\ tree \in [there : BOOLEAN, head : Commits, dirty : SUBSET Turns]
  /\ turn \in [Turns -> Files]
  /\ made \in 0..MaxTurns
  /\ remote \in Commits \union {None}
  /\ main \in 0..MaxMain
  /\ pr \in BOOLEAN
  /\ comments \in [Turns -> Nat]
  /\ verified \subseteq Commits

\* Whatever is killed when, two Codex processes never work in one worktree: a
\* new turn starts only when the old process is known to have ended.
OneWriter == Cardinality({t \in Turns : turn[t].proc = "alive"}) <= 1

\* Recovery repeats work, but a finished turn is counted exactly once.
CountedOnce ==
  host = Idle /\ disk # None /\ disk.active = NoTurn =>
    disk.total = Cardinality({t \in Turns : turn[t].exit # "none" /\ turn[t].thread # 0})

\* A blocker is posted once, however often its turn is recovered.
BlockerOnce == \A t \in Turns : comments[t] <= 1

\* What the Host puts on the change branch is main or a commit that passed V2.
VerifiedOnly ==
  remote \in {None, Alien} \union {MainHead(m) : m \in 0..main} \union verified

\* A commit of somebody else is overwritten only by a candidate prepared with
\* that commit in view, never by one it raced with or by a reconciliation.
LeaseHolds == [][remote = Alien =>
                   \/ remote' = Alien
                   \/ disk.before = Alien /\ disk.cand = remote']_remote

Of(c) == IF c = None THEN {} ELSE Work(c) \intersect Turns
Held == tree.dirty \union Of(tree.head) \union Of(remote)
          \union (IF disk = None THEN {} ELSE Of(disk.cand))
Beneath == IF disk = None THEN {} ELSE Of(disk.parent)

\* A turn's edits survive in the worktree, the branch or a recorded candidate
\* through every crash, except those beneath the candidate (see NoWorkLost).
WorkKept == [][Held \ Beneath \subseteq Held']_runnerVars

\* Once commands stop failing, a recorded turn is disposed of or fails closed.
RecoveryEnds ==
  (disk # None /\ disk.active # NoTurn) ~>
    (disk = None \/ disk.active = NoTurn \/ disk.status \in FailClosed)

\* "Pending Candidate reconciliation blocks subsequent Codex turns"
PendingBlocks == [][made' # made => disk.status \notin PendingStatuses]_runnerVars

\* "Worktree changes are preserved": reconciliation loses no turn's work.
NoWorkLost == [][host.cmd = "reconcile" => Held \subseteq Held']_runnerVars
=============================================================================
