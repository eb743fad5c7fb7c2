-------------------------- MODULE ChangeRunnerProof --------------------------
(***************************************************************************)
(* Proofs about ChangeRunner: for any number of turns and moves of main,   *)
(* and however often a command is killed, the worktree has one writer,     *)
(* only what Host V2 passed is published, nothing foreign is overwritten   *)
(* unseen, every turn is counted and every blocker posted once, and the    *)
(* edits of no turn are lost.                                              *)
(***************************************************************************)
EXTENDS ChangeRunner, FiniteSetTheorems, TLAPS

(***************************************************************************)
(* The inductive invariant.                                                *)
(***************************************************************************)
\* The turns that ended with a thread of their own: those to be counted.
Fin == {t \in Turns : turn[t].exit # "none" /\ turn[t].thread # 0}
Alive(t) == turn[t].proc = "alive"

\* A recorded total lacks at most the turn that is still active.
Tally(s) == s.total = Cardinality(IF s.counted = s.active.turn THEN Fin
                                  ELSE Fin \ {s.active.turn})

\* What the state file says, and the copy a command works on
Sound(s) ==
  /\ s.active.turn <= made /\ s.counted <= made
  /\ s.active.turn = 0 => s.active = NoTurn
  /\ s.active.turn # 0 /\ ~s.active.pid => turn[s.active.turn].thread = 0
  /\ s.active.turn # 0 /\ s.status = "START_FAILED_NO_THREAD" => ~Alive(s.active.turn)
  /\ s.thread = 0 => \A t \in Turns : t # s.active.turn => turn[t].thread = 0
  /\ Tally(s)
  /\ s.cand # None => /\ s.cand \in verified
                      /\ s.parent # None
                      /\ Diff(s.parent, s.cand) \subseteq Turns
  /\ s.candResult # 0 => s.cand # None

StateBook ==
  /\ disk # None => Sound(disk)
  /\ host.mem # None => Sound(host.mem)
  /\ disk = None => \A t \in Turns : turn[t].thread = 0
  /\ \A t \in Turns : Alive(t) => disk # None /\ disk.active.turn = t
  /\ \A t \in Turns : t > made => turn[t] = NoFiles
  /\ Alien \notin verified

\* A command's copy names the same turn and the same candidate as the file.
HostBook ==
  /\ host.pc = "idle" => host = Idle
  /\ host.pc \in Opening \union {"idle"} => host.mem = None
  /\ host.pc \notin Opening \union {"idle"} =>
       /\ host.mem # None /\ disk # None
       /\ Active = disk.active /\ host.mem.cand = disk.cand
       /\ host.mem.before = disk.before
  /\ host.pc \in Opening \union Starting \/ (host.pc = "recover" /\ host.cmd \in Modes) =>
       made < MaxTurns /\ host.cmd \in Modes
  /\ host.pc \in Starting \union Moving => Active = NoTurn
  /\ host.pc \in Running => host.mem = disk

Answers == Results \ {"empty", "invalid"}

\* What the statements done so far guarantee the next one
TurnBook ==
  /\ host.pc \in Running =>
       /\ Current # 0 /\ turn[Current].exit = "none" /\ host.mem.counted # Current
       /\ host.mem.status # "START_FAILED_NO_THREAD"
       /\ host.pc = "spawn" => turn[Current] = NoFiles
       /\ host.pc = "identity" => turn[Current].thread = 0
       /\ host.pc \in {"wait", "bind"} => Active.pid
       /\ host.pc = "bind" => turn[Current].thread # 0
  /\ host.pc \in {"wait", "exited"} /\ turn[Current].thread # 0 =>
       host.mem.thread = turn[Current].thread \/ ~Matches(host.mem, turn[Current].thread)
  /\ host.pc \in Judged \union {"exited", "evidence"} => Current # 0 /\ ~Alive(Current)
  /\ host.pc \in Judged \union {"exited"} => turn[Current].exit # "none"
  /\ host.pc \in Judged \union {"evidence"} => turn[Current].thread # 0 /\ host.mem.thread # 0
  /\ host.pc \in Judged => host.mem.counted = Current
  /\ host.pc = "dispatch" => turn[Current].result \in Answers

TreeBook ==
  /\ host.pc = "prepare" => Candidate \in verified
  /\ host.pc \in Publishing => host.mem.candResult = Current
  /\ host.pc = "push" => tree.head = host.mem.cand
  /\ host.onto <= main
  /\ host.pc \in Moving => host.mem.cand # None
  /\ host.pc \in {"apply", "move"} => tree.head = MainHead(host.onto)

IInv == TypeOK /\ StateBook /\ HostBook /\ TurnBook /\ TreeBook /\ VerifiedOnly

(***************************************************************************)
(* Commits.                                                                *)
(***************************************************************************)
\* The last turn set of a commit with one candidate more.
LEMMA AppendLast ==
  ASSUME NEW S, NEW q \in Seq(S), NEW e \in S
  PROVE  Append(q, e)[Len(q) + 1] = e
OBVIOUS

LEMMA AppendLength ==
  ASSUME NEW S, NEW q \in Seq(S), NEW e \in S
  PROVE  Len(Append(q, e)) = Len(q) + 1 /\ Len(q) \in Nat
OBVIOUS

LEMMA CandidateCommit ==
  ASSUME TypeOK
  PROVE  /\ Candidate \in Commits
         /\ Candidate # Alien
         /\ Candidate.path = Append(tree.head.path, tree.dirty)
<1> DEFINE p == tree.head.path
<1>1. /\ tree.head \in Commits /\ tree.dirty \subseteq Turns
      /\ tree.head.base \in 0..MaxMain /\ p \in Seq(SUBSET ({0} \union Turns))
  BY DEF TypeOK, Commits
<1>2. Append(p, tree.dirty) \in Seq(SUBSET ({0} \union Turns))
  BY <1>1
<1>3. Candidate \in Commits
  BY <1>1, <1>2 DEF Candidate, Commits
<1>4. Append(p, tree.dirty) # <<{0}>>
  <2> SUFFICES ASSUME Append(p, tree.dirty) = <<{0}>> PROVE FALSE
    OBVIOUS
  <2>1. tree.dirty \in SUBSET ({0} \union Turns)
    BY <1>1
  <2>2. Len(p) + 1 = 1
    BY <1>1, <2>1, AppendLength
  <2>4. Append(p, tree.dirty)[Len(p) + 1] = tree.dirty
    BY <1>1, <2>1, AppendLast
  <2>3. tree.dirty = {0}
    BY <2>4, <2>2
  <2> QED BY <2>3, <1>1, RunnerAssumption DEF Turns
<1> QED BY <1>3, <1>4 DEF Candidate, Alien

\* A candidate adds to the commit beneath it what the worktree holds.
LEMMA CandidateAdds ==
  ASSUME TypeOK
  PROVE  Diff(tree.head, Candidate) \subseteq Turns
<1> DEFINE p == tree.head.path
           q == Append(p, tree.dirty)
<1>1. p \in Seq(SUBSET ({0} \union Turns)) /\ tree.dirty \subseteq Turns
  BY DEF TypeOK, Commits
<1>2. /\ DOMAIN q = 1..(Len(p) + 1) /\ DOMAIN p = 1..Len(p) /\ Len(p) \in Nat
      /\ q[Len(p) + 1] = tree.dirty
      /\ \A i \in 1..Len(p) : q[i] = p[i]
  BY <1>1
<1>3. Candidate.path = q
  BY CandidateCommit
<1> SUFFICES ASSUME NEW x \in Work(Candidate), x \notin Work(tree.head) PROVE x \in Turns
  BY DEF Diff
<1>4. PICK i \in DOMAIN q : x \in q[i]
  BY <1>3 DEF Work
<1>5. CASE i \in 1..Len(p)
  <2>1. x \in p[i]
    BY <1>4, <1>5, <1>2
  <2> QED BY <2>1, <1>2, <1>5 DEF Work
<1>6. CASE i = Len(p) + 1
  BY <1>6, <1>4, <1>2, <1>1
<1> QED BY <1>5, <1>6, <1>2, <1>4

LEMMA MainCommit ==
  ASSUME NEW m \in 0..MaxMain
  PROVE  MainHead(m) \in Commits
<1>1. <<>> \in Seq(SUBSET ({0} \union Turns))
  OBVIOUS
<1> QED BY <1>1 DEF MainHead, Commits

LEMMA AlienCommit == Alien \in Commits
<1>1. <<{0}>> \in Seq(SUBSET ({0} \union Turns))
  OBVIOUS
<1>2. 0 \in 0..MaxMain
  BY RunnerAssumption
<1> QED BY <1>1, <1>2 DEF Alien, Commits

LEMMA DiffWork ==
  ASSUME NEW a \in Commits, NEW c \in Commits
  PROVE  Diff(a, c) = Work(c) \ Work(a)
BY DEF Diff

(***************************************************************************)
(* Counting.                                                               *)
(***************************************************************************)
LEMMA FinFinite == IsFiniteSet(Fin) /\ 0 \notin Fin
<1>1. IsFiniteSet(Turns)
  BY FS_Interval, RunnerAssumption DEF Turns
<1>2. Fin \subseteq Turns
  BY DEF Fin
<1>3. 0 \notin Turns
  BY RunnerAssumption DEF Turns
<1>4. IsFiniteSet(Fin)
  BY <1>1, <1>2, FS_Subset
<1> QED BY <1>2, <1>3, <1>4

LEMMA CountedSound ==
  ASSUME TypeOK, NEW s \in States, Sound(s), s.active.turn \in Fin,
         NEW n, n = Counted(s, s.active.turn)
  PROVE  /\ n \in States
         /\ Sound(n)
         /\ n.counted = s.active.turn
         /\ n.status = s.status /\ n.thread = s.thread /\ n.active = s.active
         /\ n.cand = s.cand /\ n.parent = s.parent /\ n.before = s.before
         /\ n.candResult = s.candResult
<1> DEFINE t == s.active.turn
<1>1. CASE s.counted = t
  BY <1>1 DEF Counted
<1>2. CASE s.counted # t
  <2> n = [s EXCEPT !.total = s.total + 1, !.counted = t]
    BY <1>2 DEF Counted
  <2>0. t \in 0..MaxTurns /\ s.total + 1 \in Nat
    BY DEF States, ActiveTurns
  <2>2a. n \in States
    BY <2>0 DEF States
  <2>2. /\ n \in States /\ n.total = s.total + 1 /\ n.counted = t
        /\ n.status = s.status /\ n.thread = s.thread /\ n.active = s.active
        /\ n.cand = s.cand /\ n.parent = s.parent /\ n.before = s.before
        /\ n.candResult = s.candResult
    BY <2>2a DEF States
  <2>3. s.total = Cardinality(Fin \ {t})
    BY <1>2 DEF Sound, Tally
  <2>4. Cardinality(Fin \ {t}) = Cardinality(Fin) - 1 /\ Cardinality(Fin) \in Nat
    BY FinFinite, FS_RemoveElement, FS_CardinalityType
  <2>5. n.total = Cardinality(Fin)
    BY <2>2, <2>3, <2>4
  <2>6. Tally(n)
    BY <2>2, <2>5 DEF Tally
  <2>7. t <= made
    BY DEF Sound
  <2>8. Sound(n)
    BY <2>2, <2>6, <2>7 DEF Sound
  <2> QED BY <2>2, <2>8
<1> QED BY <1>1, <1>2

(***************************************************************************)
(* Frames: what a step keeps when it leaves the turns alone.               *)
(***************************************************************************)
LEMMA IdleType ==
  ASSUME NEW S, NEW P, NEW Q, NEW C, NEW R,
         "idle" \in S, None \in P, None \in Q, "" \in C, 0 \in R
  PROVE  Idle \in [pc : S, cmd : C, mem : P, onto : R, seen : Q]
BY DEF Idle

LEMMA IdleHost ==
  Idle \in [pc : Pcs, cmd : Modes \union {"recover", "reconcile"},
            mem : States \union {None}, onto : 0..MaxMain, seen : Commits \union {None}]
<1>1. "" \in Modes \union {"recover", "reconcile"} /\ "idle" \in Pcs
  BY DEF Modes, Pcs
<1>2. None \in States \union {None} /\ None \in Commits \union {None}
  OBVIOUS
<1>3. 0 \in 0..MaxMain
  BY RunnerAssumption
<1> QED BY <1>1, <1>2, <1>3, IdleType

LEMMA InitInv == Init => IInv
<1> SUFFICES ASSUME Init PROVE IInv
  OBVIOUS
<1>1. MainHead(0) \in Commits
  BY MainCommit, RunnerAssumption
<1>2. TypeOK
  <2>1. disk \in States \union {None} /\ made \in 0..MaxTurns /\ main \in 0..MaxMain
        /\ remote \in Commits \union {None} /\ pr \in BOOLEAN
    <3>1. 0 \in 0..MaxTurns /\ 0 \in 0..MaxMain
      BY RunnerAssumption
    <3> QED BY <3>1 DEF Init
  <2>2. host \in [pc : Pcs, cmd : Modes \union {"recover", "reconcile"},
                  mem : States \union {None}, onto : 0..MaxMain, seen : Commits \union {None}]
    <3>2. Idle \in [pc : Pcs, cmd : Modes \union {"recover", "reconcile"},
                    mem : States \union {None}, onto : 0..MaxMain, seen : Commits \union {None}]
      BY IdleHost
    <3> QED BY <3>2 DEF Init
  <2>3. tree \in [there : BOOLEAN, head : Commits, dirty : SUBSET Turns]
    BY <1>1 DEF Init
  <2>4. turn \in [Turns -> Files]
    BY RunnerAssumption DEF Init, NoFiles, Results, Files
  <2>5. comments \in [Turns -> Nat] /\ verified \subseteq Commits
    BY DEF Init
  <2> QED BY <2>1, <2>2, <2>3, <2>4, <2>5 DEF TypeOK
<1>3. StateBook
  BY DEF Init, StateBook, Idle, NoFiles, Alive
<1>4. HostBook /\ TurnBook /\ TreeBook /\ VerifiedOnly
  <2>1. host.pc = "idle" /\ host.mem = None /\ host.onto = 0 /\ main = 0 /\ host = Idle
    BY DEF Init, Idle
  <2>2. "idle" \notin Opening \union Starting \union Running \union Judged \union Moving
    BY DEF Opening, Starting, Running, Publishing, Judged, Moving
  <2>3. Publishing \subseteq Judged
    BY DEF Judged
  <2>4. HostBook
    BY <2>1, <2>2 DEF HostBook
  <2>5. TurnBook
    BY <2>1, <2>2 DEF TurnBook
  <2>6. TreeBook
    BY <2>1, <2>2, <2>3 DEF TreeBook
  <2>7. VerifiedOnly
    BY DEF Init, VerifiedOnly
  <2> QED BY <2>4, <2>5, <2>6, <2>7
<1> QED BY <1>2, <1>3, <1>4 DEF IInv

\* No turn starts, and only running ones end.
Calm == \A t \in Turns : /\ turn'[t].thread = turn[t].thread
                         /\ turn'[t].exit = turn[t].exit
                         /\ Alive(t)' => Alive(t)
                         /\ ~Alive(t) => turn'[t] = turn[t]

LEMMA Unchanged == turn' = turn => Calm
BY DEF Calm, Alive

LEMMA StateKept ==
  ASSUME IInv, NEW d, NEW m, disk' = d, host'.mem = m,
         Calm, made' = made, verified \subseteq verified', Alien \notin verified',
         d # None => Sound(d),
         m # None => Sound(m),
         d \in States \union {None}, m \in States \union {None},
         d = None => \A t \in Turns : turn[t].thread = 0,
         \A t \in Turns : Alive(t) => d # None /\ d.active.turn = t
  PROVE  StateBook'
<1>1. Fin' = Fin
  BY DEF Fin, Calm
<1>2. ASSUME NEW s \in States, Sound(s) PROVE Sound(s)'
  <2>1. Tally(s)'
    BY <1>1, <1>2 DEF Sound, Tally
  <2>2. s.active.turn = 0 \/ s.active.turn \in Turns
    BY RunnerAssumption DEF States, ActiveTurns, Turns
  <2> QED BY <1>2, <2>1, <2>2 DEF Sound, Alive, Calm
<1>3. (d # None => Sound(d)') /\ (m # None => Sound(m)')
  BY <1>2
<1>4. (disk' # None => Sound(disk)') /\ (host'.mem # None => Sound(host.mem)')
  BY <1>3
<1>5. \A t \in Turns : t > made => turn'[t] = NoFiles
  BY DEF IInv, StateBook, Calm, Alive, NoFiles
<1>6. \A t \in Turns : Alive(t)' => d # None /\ d.active.turn = t
  BY DEF Calm
<1>7. d = None => \A t \in Turns : turn'[t].thread = 0
  BY DEF Calm
<1> QED BY <1>4, <1>5, <1>6, <1>7 DEF StateBook

\* A command that ends, with or without a last save.
LEMMA ReturnStep ==
  ASSUME IInv, TypeOK', NEW d, disk' = d, host' = Idle,
         turn' = turn, made' = made, main' = main, remote' = remote,
         verified \subseteq verified', Alien \notin verified',
         d # None => Sound(d),
         d = None => \A t \in Turns : turn[t].thread = 0,
         \A t \in Turns : Alive(t) => d # None /\ d.active.turn = t
  PROVE  IInv'
<1>1. host'.mem = None /\ host'.pc = "idle" /\ host'.onto = 0
  BY DEF Idle
<1>2. StateBook'
  <2>1. Calm /\ d \in States \union {None} /\ None \in States \union {None}
    BY Unchanged DEF TypeOK
  <2> QED BY StateKept, <1>1, <2>1
<1>3. main \in Nat
  BY RunnerAssumption DEF IInv, TypeOK
<1>4. HostBook' /\ TurnBook' /\ TreeBook'
  <2>2. "idle" \notin Opening \union Starting \union Running \union Judged \union Moving
    BY DEF Opening, Starting, Running, Publishing, Judged, Moving
  <2>3. Publishing \subseteq Judged
    BY DEF Judged
  <2>4. HostBook'
    BY <1>1, <2>2 DEF HostBook
  <2>5. TurnBook'
    BY <1>1, <2>2 DEF TurnBook
  <2>6. TreeBook'
    BY <1>1, <1>3, <2>2, <2>3 DEF TreeBook
  <2> QED BY <2>4, <2>5, <2>6
<1>5. VerifiedOnly'
  BY DEF IInv, VerifiedOnly
<1> QED BY <1>2, <1>4, <1>5 DEF IInv

\* A copy that differs from m in its status and in what was disposed of
Kin(s, m) == /\ s \in States
             /\ s.status = m.status \/ s.status # "START_FAILED_NO_THREAD"
             /\ s.thread = m.thread /\ s.active = m.active
             /\ s.cand = m.cand /\ s.parent = m.parent /\ s.before = m.before
             /\ s.candResult = m.candResult
             /\ s.counted = m.counted /\ s.total = m.total

LEMMA KinSound ==
  ASSUME NEW m, Sound(m), NEW s, Kin(s, m)
  PROVE  Sound(s)
BY DEF Sound, Kin, Tally

\* The command's copy is sound and of a piece with the file.
LEMMA Copy ==
  ASSUME IInv, host.pc \notin Opening \union {"idle"}
  PROVE  /\ host.mem \in States /\ disk \in States /\ disk # None /\ host.mem # None
         /\ Sound(host.mem) /\ Sound(disk)
         /\ Active = disk.active /\ host.mem.cand = disk.cand /\ host.mem.before = disk.before
         /\ \A t \in Turns : Alive(t) => Current = t
         /\ Active \in ActiveTurns /\ Current \in 0..MaxTurns
<1>1. host.mem \in States /\ disk \in States /\ disk # None /\ host.mem # None
  BY RunnerAssumption DEF IInv, TypeOK, HostBook
<1>2. Active = disk.active /\ host.mem.cand = disk.cand /\ host.mem.before = disk.before
  BY DEF IInv, HostBook
<1>3. Sound(host.mem) /\ Sound(disk) /\ \A t \in Turns : Alive(t) => disk.active.turn = t
  BY <1>1 DEF IInv, StateBook
<1>4. Active \in ActiveTurns /\ Current \in 0..MaxTurns
  BY <1>1 DEF States, ActiveTurns, Active, Current
<1> QED BY <1>1, <1>2, <1>3, <1>4 DEF Current

\* After the turn was judged, the copy moves within what Kin allows.
LEMMA JudgedStep ==
  ASSUME IInv, TypeOK', host.pc \in Judged, NEW pc2 \in Judged,
         NEW s, Kin(s, host.mem), NEW d, disk' = d, d \in {disk, s},
         host' = [host EXCEPT !.pc = pc2, !.mem = s],
         turn' = turn, made' = made, main' = main,
         verified \subseteq verified', Alien \notin verified',
         pc2 = "prepare" => Candidate' \in verified',
         pc2 = "dispatch" => turn[Current].result \in Answers,
         pc2 \in Publishing => host.mem.candResult = Current,
         pc2 = "push" => tree'.head = host.mem.cand,
         VerifiedOnly'
  PROVE  IInv'
<1> DEFINE m == host.mem
<1>1. /\ host \in [pc : Pcs, cmd : Modes \union {"recover", "reconcile"},
                   mem : States \union {None}, onto : 0..MaxMain, seen : Commits \union {None}]
  BY DEF IInv, TypeOK
<1>2. host'.pc = pc2 /\ host'.mem = s /\ host'.onto = host.onto /\ host'.cmd = host.cmd
  BY <1>1
<1>3. host.pc \notin Opening \union {"idle"} /\ pc2 \notin Opening \union {"idle"}
  BY DEF Opening, Judged, Publishing
<1>4. Sound(s)
  BY Copy, KinSound, <1>3
<1>5. s # None /\ disk # None /\ d # None /\ Sound(d)
  BY Copy, <1>3, <1>4, RunnerAssumption DEF Kin
<1>6. d.active = Active /\ s.active = Active /\ d.cand = m.cand /\ d.before = m.before
  <2>1. CASE d = s
    BY <2>1 DEF Kin, Active
  <2>2. CASE d = disk
    BY <2>2, Copy, <1>3 DEF Kin, Active
  <2> QED BY <2>1, <2>2
<1>7. StateBook'
  <2>1. \A t \in Turns : Alive(t) => d.active.turn = t
    BY Copy, <1>3, <1>6 DEF Current
  <2>2. Calm /\ d \in States /\ s \in States
    BY Unchanged, Copy, <1>3 DEF Kin
  <2> QED BY <1>2, <1>4, <1>5, <2>1, <2>2, StateKept
<1>8. Active' = Active /\ Current' = Current
  BY <1>2, <1>6 DEF Active, Current
<1>9. HostBook'
  <2>1. pc2 \notin Opening \union Starting \union Running \union Moving \union {"idle", "recover"}
    BY DEF Opening, Judged, Publishing, Starting, Running, Moving
  <2> QED BY <1>2, <1>3, <1>5, <1>6, <1>8, <2>1 DEF HostBook, Kin
<1>10. TurnBook'
  <2>1. pc2 \notin Running \union {"exited", "evidence", "wait"}
    BY DEF Running, Judged, Publishing
  <2>2. /\ Current # 0 /\ ~Alive(Current) /\ turn[Current].exit # "none"
        /\ turn[Current].thread # 0 /\ m.thread # 0 /\ m.counted = Current
    BY DEF IInv, TurnBook
  <2>3. s.thread = m.thread /\ s.counted = m.counted
    BY DEF Kin
  <2> QED BY <1>2, <1>8, <2>1, <2>2, <2>3 DEF TurnBook, Alive
<1>11. TreeBook'
  <2>1. pc2 \notin Moving \union {"apply", "move"}
    BY DEF Moving, Judged, Publishing
  <2>2. s.cand = m.cand /\ s.candResult = m.candResult
    BY DEF Kin
  <2>3. host.onto <= main
    BY DEF IInv, TreeBook
  <2> QED BY <1>2, <1>8, <2>1, <2>2, <2>3 DEF TreeBook
<1> QED BY <1>7, <1>9, <1>10, <1>11 DEF IInv

(***************************************************************************)
(* Around the command.                                                     *)
(***************************************************************************)
LEMMA OutsideKept ==
  ASSUME IInv, TypeOK', Calm, disk' = disk, host' = host, made' = made, verified' = verified
  PROVE  StateBook' /\ HostBook' /\ TurnBook'
<1>1. /\ disk \in States \union {None} /\ host.mem \in States \union {None}
      /\ disk # None => Sound(disk)
      /\ host.mem # None => Sound(host.mem)
      /\ disk = None => \A t \in Turns : turn[t].thread = 0
      /\ \A t \in Turns : Alive(t) => disk # None /\ disk.active.turn = t
      /\ Alien \notin verified
  BY DEF IInv, TypeOK, StateBook
<1>2. StateBook'
  BY <1>1, StateKept
<1>3. HostBook'
  BY DEF IInv, HostBook, Active
<1>4. Active' = Active /\ Current' = Current
  BY DEF Active, Current
<1>5. CASE host.pc \in Opening \union {"idle"}
  <2>1. host.pc \notin Running \union Judged \union {"wait", "exited", "evidence", "dispatch"}
    BY <1>5 DEF Opening, Running, Judged, Publishing
  <2> QED BY <1>2, <1>3, <2>1 DEF TurnBook
<1>6. CASE host.pc \notin Opening \union {"idle"}
  <2> PICK c : c = Current
    OBVIOUS
  <2>1. c \in 0..MaxTurns /\ (c # 0 => c \in Turns)
    BY <1>6, Copy, RunnerAssumption DEF Turns
  <2>2. c # 0 => /\ turn'[c].thread = turn[c].thread
                 /\ turn'[c].exit = turn[c].exit
                 /\ ~Alive(c) => turn'[c] = turn[c] /\ ~Alive(c)'
    BY <2>1 DEF Calm
  <2>3. host.pc = "spawn" => ~Alive(c)
    BY DEF IInv, TurnBook, Running, NoFiles, Alive
  <2>4. host.pc \in {"wait", "exited"} => c # 0
    BY DEF IInv, TurnBook, Running
  <2>5. Current' = c /\ (Alive(Current)' <=> Alive(c)')
    BY <1>4
  <2>7. TurnBook
    BY DEF IInv
  <2>8. "dispatch" \in Judged
    BY DEF Judged
  <2>6. TurnBook'
    BY <1>4, <2>8, <2>2, <2>3, <2>4, <2>5, <2>7 DEF TurnBook, Running
  <2> QED BY <1>2, <1>3, <2>6
<1> QED BY <1>5, <1>6

\* A turn that ends is still the turn it was.
LEMMA EndsCalm ==
  ASSUME TypeOK, NEW t \in Turns, Alive(t), NEW r,
         r.thread = turn[t].thread, r.exit = turn[t].exit, r.proc = "dead",
         turn' = [turn EXCEPT ![t] = r]
  PROVE  Calm
<1>1. \A u \in Turns : turn'[u] = IF u = t THEN r ELSE turn[u]
  BY DEF TypeOK
<1> QED BY <1>1 DEF Calm, Alive

LEMMA TwoFields ==
  ASSUME NEW f \in [Turns -> Files], NEW t \in Turns
  PROVE  [f EXCEPT ![t].proc = "dead", ![t].rc = "failed"] =
           [f EXCEPT ![t] = [f[t] EXCEPT !.proc = "dead", !.rc = "failed"]]
<1> DEFINE a == [f EXCEPT ![t].proc = "dead", ![t].rc = "failed"]
           b == [f EXCEPT ![t] = [f[t] EXCEPT !.proc = "dead", !.rc = "failed"]]
<1>1. f[t] \in Files
  OBVIOUS
<1>2. a[t] = b[t]
  BY <1>1 DEF Files
<1>3. \A u \in Turns : u # t => a[u] = f[u] /\ b[u] = f[u]
  OBVIOUS
<1>4. a = [u \in Turns |-> a[u]] /\ b = [u \in Turns |-> b[u]]
  OBVIOUS
<1> HIDE DEF a, b
<1> QED BY <1>2, <1>3, <1>4

LEMMA KilledCalm ==
  ASSUME TypeOK, NEW t \in Turns, turn' = Killed(t)
  PROVE  Calm /\ turn' \in [Turns -> Files]
<1>1. CASE Alive(t)
  <2> PICK r : r = [turn[t] EXCEPT !.proc = "dead", !.rc = "failed"]
    OBVIOUS
  <2>1. turn[t] \in Files /\ turn \in [Turns -> Files]
    BY DEF TypeOK
  <2>2. r \in Files /\ r.thread = turn[t].thread /\ r.exit = turn[t].exit /\ r.proc = "dead"
    BY <2>1 DEF Files
  <2>3. turn' = [turn EXCEPT ![t] = r]
    BY <1>1, <2>1, TwoFields DEF Killed, Alive
  <2>4. turn' \in [Turns -> Files]
    BY <2>1, <2>2, <2>3
  <2> QED BY <1>1, <2>2, <2>3, <2>4, EndsCalm
<1>2. CASE ~Alive(t)
  <2>1. turn' = turn
    BY <1>2 DEF Killed, Alive
  <2> QED BY <2>1, Unchanged DEF TypeOK
<1> QED BY <1>1, <1>2

LEMMA EditStep ==
  ASSUME IInv, NEW t \in Turns, Edit(t)
  PROVE  IInv'
<1>1. TypeOK'
  <2>1. tree' = [tree EXCEPT !.dirty = tree.dirty \union {t}] /\ tree \in [there : BOOLEAN, head : Commits, dirty : SUBSET Turns]
    BY DEF Edit, IInv, TypeOK
  <2>2. tree' \in [there : BOOLEAN, head : Commits, dirty : SUBSET Turns]
    BY <2>1
  <2> QED BY <2>2 DEF Edit, IInv, TypeOK, world, hub
<1>2. Calm
  BY Unchanged DEF Edit, world
<1>3. StateBook' /\ HostBook' /\ TurnBook'
  BY <1>1, <1>2, OutsideKept DEF Edit, world
<1>4. host.pc # "prepare"
  <2> SUFFICES ASSUME host.pc = "prepare" PROVE FALSE
    OBVIOUS
  <2>1. host.pc \notin Opening \union {"idle"} /\ host.pc \in Judged
    BY DEF Opening, Judged
  <2>2. Current = t /\ ~Alive(Current)
    BY <2>1, Copy DEF Edit, Alive, IInv, TurnBook
  <2> QED BY <2>2 DEF Edit, Alive
<1>5. tree'.head = tree.head
  BY DEF Edit, IInv, TypeOK
<1>6. TreeBook'
  BY <1>4, <1>5 DEF Edit, IInv, TreeBook, Active, Current, world
<1>7. VerifiedOnly'
  BY DEF Edit, IInv, VerifiedOnly, world
<1> QED BY <1>1, <1>3, <1>6, <1>7 DEF IInv

LEMMA OutsideTurn ==
  ASSUME IInv, Calm, turn' \in [Turns -> Files],
         UNCHANGED <<disk, host, tree, made, main, remote, hub, verified>>
  PROVE  IInv'
<1>1. TypeOK'
  BY DEF IInv, TypeOK, hub
<1>2. StateBook' /\ HostBook' /\ TurnBook'
  BY <1>1, OutsideKept
<1>3. TreeBook' /\ VerifiedOnly'
  BY DEF IInv, TreeBook, VerifiedOnly, Active, Current, Candidate
<1> QED BY <1>1, <1>2, <1>3 DEF IInv

LEMMA EndStep ==
  ASSUME IInv, NEW t \in Turns, End(t)
  PROVE  IInv'
<1>1. turn \in [Turns -> Files] /\ Alive(t) /\ TypeOK
  BY DEF IInv, TypeOK, End, Alive
<1>2. CASE turn' = Killed(t)
  BY <1>1, <1>2, KilledCalm, OutsideTurn DEF End
<1>3. ASSUME NEW result \in Results,
             turn' = [turn EXCEPT ![t].proc = "dead", ![t].result = result]
      PROVE  IInv'
  <2> DEFINE b == [turn EXCEPT ![t] = [turn[t] EXCEPT !.proc = "dead", !.result = result]]
  <2>1. turn[t] \in Files
    BY <1>1
  <2>2. turn'[t] = b[t]
    BY <1>1, <1>3, <2>1 DEF Files
  <2>3. \A u \in Turns : u # t => turn'[u] = turn[u] /\ b[u] = turn[u]
    BY <1>1, <1>3
  <2>4. turn' = [u \in Turns |-> turn'[u]] /\ b = [u \in Turns |-> b[u]]
    BY <1>1, <1>3
  <2>5. turn' = b
    <3> HIDE DEF b
    <3> QED BY <2>2, <2>3, <2>4
  <2> PICK r : r = [turn[t] EXCEPT !.proc = "dead", !.result = result]
    OBVIOUS
  <2>6. r \in Files /\ r.thread = turn[t].thread /\ r.exit = turn[t].exit /\ r.proc = "dead"
    BY <2>1 DEF Files
  <2>7. turn' = [turn EXCEPT ![t] = r]
    BY <2>5
  <2>8. turn' \in [Turns -> Files]
    BY <1>1, <2>6, <2>7
  <2>9. Calm
    BY <1>1, <2>6, <2>7, EndsCalm
  <2> QED BY <2>8, <2>9, OutsideTurn DEF End
<1> QED BY <1>2, <1>3 DEF End

LEMMA StopStep ==
  ASSUME IInv, Stop
  PROVE  IInv'
<1>1. PICK t : t = disk.active.turn
  OBVIOUS
<1>2. disk \in States /\ disk.active.pid
  BY DEF IInv, TypeOK, Stop, Owned
<1>3. Sound(disk)
  BY DEF IInv, StateBook, Stop
<1>4. t \in 0..MaxTurns
  BY <1>1, <1>2 DEF States, ActiveTurns
<1>5. t # 0
  <2> SUFFICES ASSUME t = 0 PROVE FALSE
    OBVIOUS
  <2>1. disk.active = NoTurn
    BY <1>1, <1>3 DEF Sound
  <2>2. NoTurn.pid = FALSE
    BY DEF NoTurn
  <2>3. disk.active.pid = FALSE
    BY <2>1, <2>2
  <2> QED BY <1>2, <2>3
<1>6. t \in Turns
  BY <1>4, <1>5, RunnerAssumption DEF Turns
<1>7. turn' = Killed(t)
  BY <1>1 DEF Stop
<1>8. Calm /\ turn' \in [Turns -> Files]
  BY <1>6, <1>7, KilledCalm DEF IInv
<1> QED BY <1>8, OutsideTurn DEF Stop

LEMMA MainStep ==
  ASSUME IInv, MainMoves
  PROVE  IInv'
<1>1. main \in Nat /\ main' = main + 1 /\ main' \in 0..MaxMain /\ host.onto \in Nat /\ host' = host
  BY RunnerAssumption DEF IInv, TypeOK, MainMoves
<1>2. TypeOK'
  BY <1>1 DEF IInv, TypeOK, MainMoves, hub
<1>3. StateBook' /\ HostBook' /\ TurnBook'
  BY <1>2, Unchanged, OutsideKept DEF MainMoves
<1>4. TreeBook'
  <2>1. host.onto <= main'
    BY <1>1 DEF IInv, TreeBook
  <2> QED BY <1>1, <2>1 DEF MainMoves, IInv, TreeBook, Active, Current, Candidate
<1>5. VerifiedOnly'
  <2>1. 0..main \subseteq 0..main'
    BY <1>1
  <2> QED BY <2>1 DEF MainMoves, IInv, VerifiedOnly
<1> QED BY <1>2, <1>3, <1>4, <1>5 DEF IInv

LEMMA ForeignStep ==
  ASSUME IInv, ForeignPush
  PROVE  IInv'
<1>1. TypeOK'
  BY AlienCommit DEF IInv, TypeOK, ForeignPush, hub, world
<1>2. StateBook' /\ HostBook' /\ TurnBook'
  BY <1>1, Unchanged, OutsideKept DEF ForeignPush, world
<1>3. TreeBook'
  BY DEF ForeignPush, IInv, TreeBook, Active, Current, Candidate, world
<1>4. VerifiedOnly'
  BY DEF ForeignPush, VerifiedOnly
<1> QED BY <1>1, <1>2, <1>3, <1>4 DEF IInv

\* What every state satisfies about the file, for the steps that leave it alone.
LEMMA FileBook ==
  ASSUME IInv
  PROVE  /\ TypeOK /\ disk \in States \union {None}
         /\ disk # None => disk \in States /\ Sound(disk)
         /\ disk = None => \A t \in Turns : turn[t].thread = 0
         /\ \A t \in Turns : Alive(t) => disk # None /\ disk.active.turn = t
         /\ Alien \notin verified
BY DEF IInv, StateBook, TypeOK

\* A command that returns without another save.
LEMMA QuitStep ==
  ASSUME IInv, Return, tree' \in [there : BOOLEAN, head : Commits, dirty : SUBSET Turns],
         UNCHANGED <<disk, world, remote, hub, verified>>
  PROVE  IInv'
<1>1. TypeOK'
  <2>1. host' \in [pc : Pcs, cmd : Modes \union {"recover", "reconcile"},
                   mem : States \union {None}, onto : 0..MaxMain, seen : Commits \union {None}]
    <3> QED BY IdleHost DEF Return
  <2> QED BY <2>1 DEF IInv, TypeOK, world, hub
<1>2. PICK d : d = disk
  OBVIOUS
<1> QED BY <1>1, <1>2, FileBook, ReturnStep DEF Return, world

LEMMA CrashStep ==
  ASSUME IInv, Crash
  PROVE  IInv'
BY QuitStep DEF Crash, IInv, TypeOK

(***************************************************************************)
(* Commands begin, and find the state of the Change.                       *)
(***************************************************************************)
LEMMA HostType ==
  ASSUME NEW h, NEW s \in States \union {None}, NEW seen \in Commits \union {None},
         NEW pc \in Pcs, NEW cmd \in Modes \union {"recover", "reconcile"}, NEW onto \in 0..MaxMain,
         h = [pc |-> pc, cmd |-> cmd, mem |-> s, onto |-> onto, seen |-> seen]
  PROVE  h \in [pc : Pcs, cmd : Modes \union {"recover", "reconcile"},
                mem : States \union {None}, onto : 0..MaxMain, seen : Commits \union {None}]
<1> DEFINE C == Modes \union {"recover", "reconcile"}
           P == States \union {None}
           R == 0..MaxMain
           Q == Commits \union {None}
<1> cmd \in C /\ s \in P /\ onto \in R /\ seen \in Q
  OBVIOUS
<1> HIDE DEF C, P, R, Q
<1> h \in [pc : Pcs, cmd : C, mem : P, onto : R, seen : Q]
  OBVIOUS
<1> QED BY DEF C, P, R, Q

LEMMA BeginStep ==
  ASSUME IInv, NEW s \in {None, disk}, NEW pc \in {"repair", "recover", "rebase"},
         NEW cmd \in Modes \union {"recover", "reconcile"}, Begin(cmd, s, pc),
         pc = "repair" \/ (pc = "recover" /\ cmd \in Modes) => made < MaxTurns /\ cmd \in Modes,
         pc = "repair" => s = None,
         pc # "repair" => s = disk /\ disk # None,
         pc = "rebase" => disk.active = NoTurn /\ disk.cand # None
  PROVE  IInv'
<1>1. host' = [pc |-> pc, cmd |-> cmd, mem |-> s, onto |-> main, seen |-> remote]
  BY DEF Begin, Idle
<1>2. pc \in Pcs
  BY DEF Pcs, Opening, Moving
<1>3. /\ main \in 0..MaxMain /\ remote \in Commits \union {None} /\ s \in States \union {None}
      /\ main \in Nat
  BY RunnerAssumption DEF IInv, TypeOK
<1>4. TypeOK'
  <2>1. host' \in [pc : Pcs, cmd : Modes \union {"recover", "reconcile"},
                mem : States \union {None}, onto : 0..MaxMain, seen : Commits \union {None}]
    BY <1>1, <1>2, <1>3, HostType
  <2> QED BY <2>1 DEF IInv, TypeOK, Begin, world, hub
<1>5. host'.pc = pc /\ host'.mem = s /\ host'.cmd = cmd /\ host'.onto = main
  BY <1>1
<1>6. StateBook'
  <2>1. PICK d : d = disk
    OBVIOUS
  <2>2. d \in States \union {None} /\ (s # None => Sound(s)) /\ (d # None => Sound(d))
    BY <2>1, FileBook
  <2> QED BY <1>5, <1>3, <2>1, <2>2, FileBook, StateKept, Unchanged DEF Begin, world
<1>7. HostBook'
  <2>1. disk' = disk /\ made' = made
    BY DEF Begin, world
  <2> QED BY <1>5, <2>1 DEF HostBook, Active, Opening, Starting, Running, Moving
<1>8. TurnBook'
  BY <1>5 DEF TurnBook, Running, Judged, Publishing
<1>9. TreeBook'
  <2>1. main' = main
    BY DEF Begin, world
  <2> QED BY <1>5, <1>3, <2>1 DEF TreeBook, Publishing, Moving
<1>10. VerifiedOnly'
  BY DEF IInv, VerifiedOnly, Begin, world
<1> QED BY <1>4, <1>6, <1>7, <1>8, <1>9, <1>10 DEF IInv

LEMMA CommandStep ==
  ASSUME IInv,
         \/ StartCommand \/ RecoverCommand \/ ReconcileCommand
         \/ \E mode \in {"resume", "rotate"} : ResumeCommand(mode)
  PROVE  IInv'
<1>1. CASE StartCommand
  BY <1>1, BeginStep DEF StartCommand, Modes
<1>2. CASE RecoverCommand
  BY <1>2, BeginStep DEF RecoverCommand, Modes
<1>3. CASE ReconcileCommand
  BY <1>3, BeginStep DEF ReconcileCommand, Modes
<1>4. ASSUME NEW mode \in {"resume", "rotate"}, ResumeCommand(mode)
      PROVE  IInv'
  <2>1. made < MaxTurns /\ disk # None /\ Begin(mode, disk, "recover")
    BY <1>4 DEF ResumeCommand
  <2>2. mode \in Modes
    BY DEF Modes
  <2> QED BY <2>1, <2>2, BeginStep
<1> QED BY <1>1, <1>2, <1>3, <1>4

\* A step that neither saves nor judges: the command goes from pc to pc2 with
\* the copy s, which is either what it had or what it has just read or saved.
LEMMA PlainStep ==
  ASSUME IInv, NEW d \in States \union {None}, NEW s \in States \union {None}, NEW pc2 \in Pcs,
         disk' = d, host' = [host EXCEPT !.pc = pc2, !.mem = s],
         tree' \in [there : BOOLEAN, head : Commits, dirty : SUBSET Turns],
         Calm, turn' \in [Turns -> Files], made' = made, main' = main, hub' = hub,
         remote' \in Commits \union {None},
         verified' = verified, VerifiedOnly',
         d # None => Sound(d),
         s # None => Sound(s),
         d = None => \A t \in Turns : turn[t].thread = 0,
         \A t \in Turns : Alive(t) => d # None /\ d.active.turn = t
  PROVE  /\ HostBook' /\ TurnBook' /\ TreeBook' => IInv'
         /\ host'.pc = pc2 /\ host'.mem = s /\ host'.cmd = host.cmd /\ host'.onto = host.onto
         /\ host'.seen = host.seen /\ host'.onto <= main'
<1>1. host \in [pc : Pcs, cmd : Modes \union {"recover", "reconcile"},
                mem : States \union {None}, onto : 0..MaxMain, seen : Commits \union {None}]
  BY DEF IInv, TypeOK
<1>2. /\ host'.pc = pc2 /\ host'.mem = s /\ host'.cmd = host.cmd /\ host'.onto = host.onto
      /\ host'.seen = host.seen
  BY <1>1
<1>3. host' \in [pc : Pcs, cmd : Modes \union {"recover", "reconcile"},
                mem : States \union {None}, onto : 0..MaxMain, seen : Commits \union {None}]
  <2>1. host' = [pc |-> pc2, cmd |-> host.cmd, mem |-> s, onto |-> host.onto, seen |-> host.seen]
    BY <1>1
  <2>2. /\ host.cmd \in Modes \union {"recover", "reconcile"} /\ host.onto \in 0..MaxMain
        /\ host.seen \in Commits \union {None}
    BY <1>1
  <2> QED BY <2>1, <2>2, HostType
<1>4. TypeOK'
  BY <1>3 DEF IInv, TypeOK, hub
<1>5. StateBook'
  BY <1>2, FileBook, StateKept
<1>6. host'.onto <= main'
  BY <1>2 DEF IInv, TreeBook
<1> QED BY <1>2, <1>4, <1>5, <1>6 DEF IInv

LEMMA GotoForm ==
  ASSUME TypeOK, NEW pc2, Goto(pc2)
  PROVE  host' = [host EXCEPT !.pc = pc2, !.mem = host.mem]
BY DEF TypeOK, Goto

LEMMA SaveForm ==
  ASSUME NEW s, NEW pc2, Save(s, pc2)
  PROVE  /\ disk' = s
         /\ pc2 = "idle" => host' = Idle
         /\ pc2 # "idle" => host' = [host EXCEPT !.pc = pc2, !.mem = s]
BY DEF Save

\* Nobody is alive beside the active turn, and nobody at all when there is none.
LEMMA NobodyAlive ==
  ASSUME IInv, disk # None => disk.active.turn = 0
  PROVE  \A t \in Turns : ~Alive(t)
<1>1. 0 \notin Turns
  BY RunnerAssumption DEF Turns
<1> QED BY <1>1, FileBook

\* A command that moves on with the state it has.
LEMMA GoStep ==
  ASSUME IInv, NEW pc2 \in Pcs, Goto(pc2),
         tree' \in [there : BOOLEAN, head : Commits, dirty : SUBSET Turns],
         remote' \in Commits \union {None}, VerifiedOnly',
         UNCHANGED <<disk, world, hub, verified>>
  PROVE  /\ HostBook' /\ TurnBook' /\ TreeBook' => IInv'
         /\ host'.pc = pc2 /\ host'.mem = host.mem /\ host'.cmd = host.cmd
         /\ host'.onto = host.onto /\ host'.seen = host.seen /\ host'.onto <= main'
         /\ Active' = Active /\ Current' = Current
<1> PICK d : d = disk
  OBVIOUS
<1> PICK s : s = host.mem
  OBVIOUS
<1>1. d \in States \union {None} /\ s \in States \union {None} /\ turn \in [Turns -> Files]
  BY DEF IInv, TypeOK
<1>2. d # None => Sound(d)
  BY FileBook DEF IInv, StateBook
<1>3. s # None => Sound(s)
  BY FileBook DEF IInv, StateBook
<1>4. d = None => \A t \in Turns : turn[t].thread = 0
  BY FileBook DEF IInv, StateBook
<1>5. \A t \in Turns : Alive(t) => d # None /\ d.active.turn = t
  BY FileBook DEF IInv, StateBook
<1>6. host' = [host EXCEPT !.pc = pc2, !.mem = s] /\ disk' = d
  BY GotoForm DEF IInv
<1>7. Calm /\ turn' \in [Turns -> Files]
  BY <1>1, Unchanged DEF world
<1>8. made' = made /\ main' = main /\ hub' = hub /\ verified' = verified
  BY DEF world
<1>9. HostBook' /\ TurnBook' /\ TreeBook' => IInv'
  BY <1>1, <1>2, <1>3, <1>4, <1>5, <1>6, <1>7, <1>8, PlainStep
<1>10. /\ host'.pc = pc2 /\ host'.mem = s /\ host'.cmd = host.cmd
       /\ host'.onto = host.onto /\ host'.seen = host.seen
  BY <1>6 DEF IInv, TypeOK
<1>11. host'.onto <= main'
  BY <1>8, <1>10 DEF IInv, TreeBook
<1> QED BY <1>9, <1>10, <1>11 DEF Active, Current

\* A command that saves s and moves on, before its turn was judged.
LEMMA SaveStep ==
  ASSUME IInv, NEW s \in States, NEW pc2 \in Pcs \ {"idle"}, Save(s, pc2), Sound(s),
         \A t \in Turns : Alive(t) => s.active.turn = t,
         UNCHANGED <<tree, turn, made, main, remote, hub, verified>>
  PROVE  /\ HostBook' /\ TurnBook' /\ TreeBook' => IInv'
         /\ host'.pc = pc2 /\ host'.mem = s /\ disk' = s /\ host'.cmd = host.cmd
         /\ host'.onto = host.onto /\ host'.onto <= main'
<1>1. host' = [host EXCEPT !.pc = pc2, !.mem = s] /\ disk' = s
  BY SaveForm
<1>2. s # None
  BY RunnerAssumption
<1>3. VerifiedOnly'
  BY DEF IInv, VerifiedOnly
<1>4. /\ tree' \in [there : BOOLEAN, head : Commits, dirty : SUBSET Turns]
      /\ turn' \in [Turns -> Files] /\ remote' \in Commits \union {None}
  BY DEF IInv, TypeOK
<1> QED BY <1>1, <1>2, <1>3, <1>4, Unchanged, PlainStep

\* A command that ends with the state s.
LEMMA LastSave ==
  ASSUME IInv, NEW s \in States, Save(s, "idle"), Sound(s),
         \A t \in Turns : Alive(t) => s.active.turn = t,
         tree' \in [there : BOOLEAN, head : Commits, dirty : SUBSET Turns],
         UNCHANGED <<world, remote, hub, verified>>
  PROVE  IInv'
<1>1. host' = Idle /\ disk' = s /\ s # None
  BY SaveForm, RunnerAssumption
<1>2. TypeOK'
  BY <1>1, IdleHost DEF IInv, TypeOK, world, hub
<1> QED BY <1>1, <1>2, FileBook, ReturnStep DEF world

LEMMA RepairStep ==
  ASSUME IInv, Repair
  PROVE  IInv'
<1>1. /\ tree' \in [there : BOOLEAN, head : Commits, dirty : SUBSET Turns]
      /\ remote' \in Commits \union {None} /\ VerifiedOnly'
  BY DEF Repair, IInv, TypeOK, VerifiedOnly, world
<1>2. CASE Return /\ UNCHANGED disk
  BY <1>1, <1>2, QuitStep DEF Repair
<1>3. CASE Goto("align") /\ UNCHANGED disk
  <2>1. "align" \in Pcs
    BY DEF Pcs, Opening
  <2>2. /\ HostBook' /\ TurnBook' /\ TreeBook' => IInv'
        /\ host'.pc = "align" /\ host'.mem = host.mem /\ host'.cmd = host.cmd
        /\ host'.onto <= main' /\ made' = made
    BY <1>1, <1>3, <2>1, GoStep DEF Repair, world
  <2>3. host.mem = None /\ made < MaxTurns /\ host.cmd \in Modes
    BY DEF Repair, At, IInv, HostBook, Opening
  <2> QED BY <2>2, <2>3 DEF HostBook, TurnBook, TreeBook, Opening, Starting, Running, Judged, Publishing, Moving
<1>4. CASE /\ disk # None
           /\ disk.thread = 0 /\ disk.status = "START_FAILED_NO_THREAD"
           /\ disk.active.mode = "start"
           /\ turn[disk.active.turn].thread = 0
           /\ disk' = None /\ Goto("align")
  <2>1. disk \in States /\ Sound(disk)
    BY <1>4, FileBook
  <2>2. disk.active.turn # 0
    <3>1. disk.active.turn = 0 => disk.active = NoTurn
      BY <2>1 DEF Sound
    <3>2. NoTurn.mode # "start"
      BY DEF NoTurn
    <3> QED BY <3>1, <3>2, <1>4
  <2>3. ~Alive(disk.active.turn)
    BY <1>4, <2>1, <2>2 DEF Sound
  <2>4. \A t \in Turns : ~Alive(t)
    BY <2>3, FileBook
  <2>5. \A t \in Turns : turn[t].thread = 0
    BY <1>4, <2>1 DEF Sound
  <2>6. host.mem = None /\ made < MaxTurns /\ host.cmd \in Modes
    BY DEF Repair, At, IInv, HostBook, Opening
  <2>7. host' = [host EXCEPT !.pc = "align", !.mem = None]
    BY <1>4, <2>6, GotoForm DEF IInv
  <2>8. "align" \in Pcs
    BY DEF Pcs, Opening
  <2> PICK d : d = None
    OBVIOUS
  <2>9. d \in States \union {None} /\ turn' \in [Turns -> Files] /\ Calm
    BY Unchanged DEF IInv, TypeOK, Repair, world
  <2>10. /\ HostBook' /\ TurnBook' /\ TreeBook' => IInv'
         /\ host'.pc = "align" /\ host'.mem = None /\ host'.cmd = host.cmd
         /\ host'.onto <= main'
    <3>1. /\ disk' = d /\ host' = [host EXCEPT !.pc = "align", !.mem = d]
          /\ made' = made /\ main' = main /\ hub' = hub /\ verified' = verified
      BY <1>4, <2>7 DEF Repair, world
    <3> QED BY <1>1, <2>4, <2>5, <2>8, <2>9, <3>1, PlainStep
  <2>11. made' = made
    BY DEF Repair, world
  <2> QED BY <2>6, <2>10, <2>11 DEF HostBook, TurnBook, TreeBook, Opening, Starting, Running, Judged, Publishing, Moving
<1> QED BY <1>2, <1>3, <1>4 DEF Repair

LEMMA AlignStep ==
  ASSUME IInv, Align
  PROVE  IInv'
<1>0. tree \in [there : BOOLEAN, head : Commits, dirty : SUBSET Turns]
  BY DEF IInv, TypeOK
<1>1. Expected \in Commits
  BY MainCommit DEF Expected, IInv, TypeOK
<1>2. tree' \in [there : BOOLEAN, head : Commits, dirty : SUBSET Turns]
  BY <1>0, <1>1 DEF Align
<1>3. CASE Return
  BY <1>2, <1>3, QuitStep DEF Align
<1>4. CASE Goto("load")
  <2>1. "load" \in Pcs
    BY DEF Pcs, Opening
  <2>2. remote' \in Commits \union {None} /\ VerifiedOnly'
    BY DEF Align, IInv, TypeOK, VerifiedOnly, world
  <2>3. /\ HostBook' /\ TurnBook' /\ TreeBook' => IInv'
        /\ host'.pc = "load" /\ host'.mem = host.mem /\ host'.cmd = host.cmd
        /\ host'.onto <= main' /\ made' = made
    BY <1>2, <1>4, <2>1, <2>2, GoStep DEF Align, world
  <2>4. host.mem = None /\ made < MaxTurns /\ host.cmd \in Modes
    BY DEF Align, At, IInv, HostBook, Opening
  <2> QED BY <2>3, <2>4 DEF HostBook, TurnBook, TreeBook, Opening, Starting, Running, Judged, Publishing, Moving
<1> QED BY <1>3, <1>4 DEF Align

LEMMA FreshSound ==
  ASSUME IInv, disk = None
  PROVE  Fresh \in States /\ Sound(Fresh)
<1>1. Fresh \in States
  <2>1. 0 \in 0..MaxTurns
    BY RunnerAssumption
  <2>2. NoTurn \in ActiveTurns
    BY <2>1 DEF NoTurn, ActiveTurns, Modes
  <2>3. "WORKTREE_INITIALIZING" \in Statuses
    BY DEF Statuses
  <2>4. None \in Commits \union {None}
    OBVIOUS
  <2> QED BY <2>1, <2>2, <2>3, <2>4 DEF Fresh, States
<1>2. Fin = {}
  BY FileBook DEF Fin
<1>3. Tally(Fresh)
  BY <1>2, FS_EmptySet DEF Tally, Fresh, NoTurn
<1>4. made \in Nat
  BY RunnerAssumption DEF IInv, TypeOK
<1>5. \A t \in Turns : turn[t].thread = 0
  BY FileBook
<1>6. /\ Fresh.active = NoTurn /\ Fresh.active.turn = 0 /\ Fresh.counted = 0
      /\ Fresh.cand = None /\ Fresh.candResult = 0
  BY DEF Fresh, NoTurn
<1> QED BY <1>1, <1>3, <1>4, <1>5, <1>6 DEF Sound

LEMMA LoadStep ==
  ASSUME IInv, Load
  PROVE  IInv'
<1>1. host.mem = None /\ made < MaxTurns /\ host.cmd \in Modes
  BY DEF Load, At, IInv, HostBook, Opening
<1>2. CASE disk = None
  <2>1. \A t \in Turns : ~Alive(t)
    BY <1>2, NobodyAlive
  <2>2. Save(Fresh, "worktree") /\ "worktree" \in Pcs \ {"idle"}
    BY <1>2 DEF Load, Pcs, Starting
  <2>3. /\ HostBook' /\ TurnBook' /\ TreeBook' => IInv'
        /\ host'.pc = "worktree" /\ host'.mem = Fresh /\ disk' = Fresh /\ host'.cmd = host.cmd
        /\ host'.onto <= main' /\ made' = made
    BY <1>2, <2>1, <2>2, FreshSound, SaveStep DEF Load, world
  <2>4. Fresh # None
    BY <1>2, FreshSound, RunnerAssumption
  <2>5. Active' = NoTurn
    BY <2>3 DEF Active, Fresh
  <2> QED BY <1>1, <2>3, <2>4, <2>5 DEF HostBook, TurnBook, TreeBook, Opening, Starting, Running, Judged, Publishing, Moving, Active
<1>3. CASE disk # None
  <2> PICK d : d = disk
    OBVIOUS
  <2>1. d \in States /\ Sound(d) /\ d # None /\ d \in States \union {None}
    BY <1>3, FileBook
  <2>2. host' = [host EXCEPT !.pc = "recover", !.mem = d] /\ disk' = d
    BY <1>3 DEF Load, Think
  <2>3. /\ tree' \in [there : BOOLEAN, head : Commits, dirty : SUBSET Turns]
        /\ turn' \in [Turns -> Files] /\ remote' \in Commits \union {None} /\ VerifiedOnly'
    BY DEF Load, IInv, TypeOK, VerifiedOnly, world
  <2>4. "recover" \in Pcs
    BY DEF Pcs
  <2>5. /\ HostBook' /\ TurnBook' /\ TreeBook' => IInv'
        /\ host'.pc = "recover" /\ host'.mem = d /\ host'.cmd = host.cmd
        /\ host'.onto <= main' /\ made' = made
    BY <2>1, <2>2, <2>3, <2>4, FileBook, Unchanged, PlainStep DEF Load, world
  <2> QED BY <1>1, <2>1, <2>2, <2>5 DEF HostBook, TurnBook, TreeBook, Opening, Starting, Running, Judged, Publishing, Moving, Active
<1> QED BY <1>2, <1>3

(***************************************************************************)
(* A turn runs.                                                            *)
(***************************************************************************)
LEMMA WorktreeStep ==
  ASSUME IInv, At("worktree"), Worktree
  PROVE  IInv'
<1>0. tree \in [there : BOOLEAN, head : Commits, dirty : SUBSET Turns]
  BY DEF IInv, TypeOK
<1>1. Expected \in Commits
  BY MainCommit DEF Expected, IInv, TypeOK
<1>2. tree' \in [there : BOOLEAN, head : Commits, dirty : SUBSET Turns]
  <2>1. CASE tree' = [there |-> TRUE, head |-> Expected, dirty |-> {}]
    BY <1>1, <2>1
  <2>2. CASE tree' = tree
    BY <1>0, <2>2
  <2> QED BY <2>1, <2>2 DEF Worktree
<1>3. CASE Return
  BY <1>2, <1>3, QuitStep DEF Worktree
<1>4. CASE Goto("initialize")
  <2>1. "initialize" \in Pcs
    BY DEF Pcs, Starting
  <2>2. remote' \in Commits \union {None} /\ VerifiedOnly'
    BY DEF Worktree, IInv, TypeOK, VerifiedOnly, world
  <2>3. /\ HostBook' /\ TurnBook' /\ TreeBook' => IInv'
        /\ host'.pc = "initialize" /\ host'.mem = host.mem /\ host'.cmd = host.cmd
        /\ host'.onto <= main' /\ made' = made /\ disk' = disk /\ Active' = Active
    BY <1>2, <1>4, <2>1, <2>2, GoStep DEF Worktree, world
  <2>4. /\ host.mem # None /\ disk # None /\ made < MaxTurns /\ host.cmd \in Modes
        /\ Active = NoTurn /\ Active = disk.active
        /\ host.mem.cand = disk.cand /\ host.mem.before = disk.before
    BY DEF At, IInv, HostBook, Opening, Starting
  <2> QED BY <2>3, <2>4 DEF HostBook, TurnBook, TreeBook, Opening, Starting, Running, Judged, Publishing, Moving
<1> QED BY <1>3, <1>4 DEF Worktree

LEMMA InitializeStep ==
  ASSUME IInv, Initialize
  PROVE  IInv'
<1>1. /\ host.mem # None /\ disk # None /\ made < MaxTurns /\ host.cmd \in Modes
      /\ Active = NoTurn /\ host.pc \notin Opening \union {"idle"}
  BY DEF Initialize, At, IInv, HostBook, Opening, Starting
<1>2. host.mem \in States /\ Sound(host.mem) /\ \A t \in Turns : Alive(t) => Current = t
  BY <1>1, Copy
<1> PICK s : s = [host.mem EXCEPT !.status = "INITIALIZING"]
  OBVIOUS
<1>3. Kin(s, host.mem)
  BY <1>2 DEF Kin, States, Statuses
<1>4. s \in States /\ Sound(s) /\ s.active = Active
  BY <1>2, <1>3, KinSound DEF Kin, Active
<1>5. Save(s, "intent") /\ "intent" \in Pcs \ {"idle"}
  BY DEF Initialize, Pcs, Starting
<1>6. \A t \in Turns : Alive(t) => s.active.turn = t
  BY <1>2, <1>4 DEF Current
<1>7. /\ HostBook' /\ TurnBook' /\ TreeBook' => IInv'
      /\ host'.pc = "intent" /\ host'.mem = s /\ disk' = s /\ host'.cmd = host.cmd
      /\ host'.onto <= main' /\ made' = made
  BY <1>4, <1>5, <1>6, SaveStep DEF Initialize, world
<1>8. s # None /\ Active' = NoTurn
  BY <1>1, <1>4, <1>7, RunnerAssumption DEF Active
<1> QED BY <1>1, <1>7, <1>8 DEF HostBook, TurnBook, TreeBook, Opening, Starting, Running, Judged, Publishing, Moving, Active

\* No turn is recorded, so every turn that is to be counted was.
LEMMA IntentStep ==
  ASSUME IInv, Intent
  PROVE  IInv'
<1>1. /\ host.mem # None /\ disk # None /\ made < MaxTurns /\ host.cmd \in Modes
      /\ Active = NoTurn /\ host.pc \notin Opening \union {"idle"}
  BY DEF Intent, At, IInv, HostBook, Opening, Starting
<1>2. host.mem \in States /\ Sound(host.mem) /\ Active = disk.active
  BY <1>1, Copy
<1> PICK m : m = host.mem
  OBVIOUS
<1> PICK c : c = made + 1
  OBVIOUS
<1> PICK a : a = [mode |-> host.cmd, turn |-> c, prev |-> m.thread, pid |-> FALSE]
  OBVIOUS
<1> PICK s : s = [m EXCEPT !.status = "RUNNING", !.active = a]
  OBVIOUS
<1>3. made \in Nat /\ c \in Turns /\ c \in 0..MaxTurns /\ c # 0 /\ made' = c /\ c \in Nat /\ made < c
  BY <1>1, RunnerAssumption DEF Intent, IInv, TypeOK, Turns
<1>4. a \in ActiveTurns
  BY <1>1, <1>2, <1>3 DEF ActiveTurns, States
<1>5. /\ s \in States /\ s.status = "RUNNING" /\ s.active = a /\ s.thread = m.thread
      /\ s.cand = m.cand /\ s.parent = m.parent /\ s.before = m.before
      /\ s.candResult = m.candResult /\ s.counted = m.counted /\ s.total = m.total
  <2>1. m \in States /\ "RUNNING" \in Statuses
    BY <1>2 DEF Statuses
  <2>2. s \in States
    BY <1>4, <2>1 DEF States
  <2> QED BY <2>1, <2>2 DEF States
<1>6. a.turn = c /\ a.pid = FALSE /\ a # NoTurn
  BY <1>3 DEF NoTurn
<1>7. \A t \in Turns : ~Alive(t)
  <2>1. disk.active = NoTurn /\ NoTurn.turn = 0
    BY <1>1, <1>2 DEF NoTurn
  <2>2. disk.active.turn = 0
    BY <2>1
  <2> QED BY <2>2, NobodyAlive
<1>8. turn[c] = NoFiles /\ turn[c].thread = 0
  BY <1>3 DEF IInv, StateBook, NoFiles
<1>9. m.active.turn = 0 /\ m.counted <= made /\ m.counted \in Nat
  <2>1. m.active = NoTurn /\ NoTurn.turn = 0
    BY <1>1 DEF NoTurn, Active
  <2>2. m.counted \in Nat
    BY <1>2, RunnerAssumption DEF States
  <2> QED BY <1>2, <2>1, <2>2 DEF Sound
<1>10. Fin' = Fin /\ c \notin Fin /\ 0 \notin Fin /\ \A t \in Turns : Alive(t)' <=> Alive(t)
  BY <1>8, FinFinite DEF Fin, Intent, NoFiles, Alive
<1>11. Tally(s)'
  <2>1. m.total = Cardinality(Fin)
    <3>1. Fin \ {0} = Fin
      BY <1>10
    <3> QED BY <1>2, <1>9, <3>1 DEF Sound, Tally
  <2>2. s.counted # c /\ s.active.turn = c /\ Fin \ {c} = Fin
    BY <1>3, <1>5, <1>6, <1>9, <1>10
  <2> QED BY <1>5, <1>10, <2>1, <2>2 DEF Tally
<1>12. Sound(s)'
  <2>1. m.thread = 0 => \A t \in Turns : turn[t].thread = 0
    <3>1. 0 \notin Turns
      BY RunnerAssumption DEF Turns
    <3> QED BY <1>2, <1>9, <3>1 DEF Sound
  <2>2. /\ s.cand # None => /\ s.cand \in verified
                            /\ s.parent # None
                            /\ Diff(s.parent, s.cand) \subseteq Turns
        /\ s.candResult # 0 => s.cand # None
    BY <1>2, <1>5 DEF Sound
  <2>3. s.active.turn = c /\ c # 0 /\ s.active.turn <= made' /\ s.counted <= made'
    BY <1>3, <1>5, <1>6, <1>9
  <2> QED BY <1>3, <1>5, <1>7, <1>8, <1>10, <1>11, <2>1, <2>2, <2>3 DEF Sound, Intent
<1>13. disk' = s /\ host' = [host EXCEPT !.pc = "spawn", !.mem = s]
  BY DEF Intent, Save
<1>14. /\ host'.pc = "spawn" /\ host'.mem = s /\ host'.cmd = host.cmd /\ host'.onto = host.onto
       /\ host'.seen = host.seen
  BY <1>13 DEF IInv, TypeOK
<1>15. TypeOK'
  <2>1. host' = [pc |-> "spawn", cmd |-> host.cmd, mem |-> s, onto |-> host.onto, seen |-> host.seen]
    BY <1>13 DEF IInv, TypeOK
  <2>2. /\ host.cmd \in Modes \union {"recover", "reconcile"} /\ host.onto \in 0..MaxMain
        /\ host.seen \in Commits \union {None} /\ "spawn" \in Pcs /\ s \in States \union {None}
    BY <1>5 DEF IInv, TypeOK, Pcs, Running
  <2>3. host' \in [pc : Pcs, cmd : Modes \union {"recover", "reconcile"},
                mem : States \union {None}, onto : 0..MaxMain, seen : Commits \union {None}]
    BY <2>1, <2>2, HostType
  <2> QED BY <1>3, <1>5, <1>13, <2>3 DEF Intent, IInv, TypeOK, hub
<1>16. s # None
  BY <1>5, RunnerAssumption
<1>17. StateBook'
  <2>1. Sound(disk)' /\ Sound(host.mem)'
    BY <1>12, <1>13, <1>14
  <2>2. \A t \in Turns : t > made' => turn'[t] = NoFiles
    BY <1>3 DEF Intent, IInv, StateBook, Turns
  <2> QED BY <1>7, <1>10, <1>13, <1>16, <2>1, <2>2 DEF StateBook, Intent, IInv
<1>18. Active' = a /\ Current' = c
  BY <1>5, <1>6, <1>14 DEF Active, Current
<1>19. HostBook'
  BY <1>1, <1>5, <1>13, <1>14, <1>16, <1>18 DEF HostBook, Opening, Starting, Running, Moving, Active
<1>20. TurnBook'
  <2>1. turn' = turn /\ s.counted # c /\ turn[c].exit = "none"
    BY <1>3, <1>5, <1>8, <1>9 DEF Intent, NoFiles
  <2> QED BY <1>3, <1>5, <1>8, <1>14, <1>18, <2>1 DEF TurnBook, Running, Judged, Publishing
<1>21. TreeBook' /\ VerifiedOnly'
  BY <1>14 DEF TreeBook, VerifiedOnly, IInv, Intent, Publishing, Moving
<1> QED BY <1>15, <1>17, <1>19, <1>20, <1>21 DEF IInv

\* A step that changes only the turn it runs, which is on file and not yet counted.
LEMMA OwnStep ==
  ASSUME IInv, host.pc \in Running, NEW pc2 \in Pcs, Goto(pc2),
         NEW r \in Files, turn' = [turn EXCEPT ![Current] = r],
         r.thread = turn[Current].thread \/ (Active.pid /\ r.exit = turn[Current].exit),
         UNCHANGED <<disk, tree, made, main, remote, hub, verified>>
  PROVE  /\ HostBook' /\ TurnBook' /\ TreeBook' => IInv'
         /\ host'.pc = pc2 /\ host'.mem = host.mem /\ host'.cmd = host.cmd
         /\ host'.onto = host.onto /\ host'.onto <= main'
         /\ Active' = Active /\ Current' = Current /\ turn'[Current] = r
<1>1. host.pc \notin Opening \union {"idle"}
  BY DEF Opening, Running
<1> PICK c : c = Current
  OBVIOUS
<1> PICK d : d = disk
  OBVIOUS
<1>2. /\ d \in States /\ Sound(d) /\ d # None /\ c \in 0..MaxTurns /\ c # 0 /\ c = d.active.turn
      /\ host.mem = d /\ \A t \in Turns : Alive(t) => c = t
      /\ turn[c].exit = "none" /\ d.counted # c /\ d.status # "START_FAILED_NO_THREAD"
      /\ Active = d.active
  BY <1>1, Copy DEF IInv, HostBook, TurnBook, Current
<1>3. c \in Turns
  BY <1>2, RunnerAssumption DEF Turns
<1>4. \A u \in Turns : turn'[u] = IF u = c THEN r ELSE turn[u]
  BY <1>3 DEF IInv, TypeOK
<1>5. Fin' \ {c} = Fin \ {c}
  BY <1>4 DEF Fin
<1>6. Tally(d)'
  BY <1>2, <1>5 DEF Sound, Tally
<1>7. Sound(d)'
  <2>1. d.active.turn # 0 /\ ~d.active.pid => turn'[d.active.turn].thread = 0
    BY <1>2, <1>3, <1>4 DEF Sound
  <2>2. d.thread = 0 => \A t \in Turns : t # c => turn'[t].thread = 0
    BY <1>2, <1>4 DEF Sound
  <2>3. /\ d.active.turn <= made /\ d.counted <= made
        /\ d.active.turn = 0 => d.active = NoTurn
        /\ d.cand # None => /\ d.cand \in verified
                            /\ d.parent # None
                            /\ Diff(d.parent, d.cand) \subseteq Turns
        /\ d.candResult # 0 => d.cand # None
    BY <1>2 DEF Sound
  <2> QED BY <1>2, <1>6, <2>1, <2>2, <2>3 DEF Sound
<1>8. host' = [host EXCEPT !.pc = pc2, !.mem = d]
  BY <1>2, GotoForm DEF IInv
<1>9. /\ host'.pc = pc2 /\ host'.mem = d /\ host'.cmd = host.cmd /\ host'.onto = host.onto
      /\ host'.seen = host.seen
  BY <1>8 DEF IInv, TypeOK
<1>10. TypeOK'
  <2>1. host' = [pc |-> pc2, cmd |-> host.cmd, mem |-> d, onto |-> host.onto, seen |-> host.seen]
    BY <1>8 DEF IInv, TypeOK
  <2>2. /\ host.cmd \in Modes \union {"recover", "reconcile"} /\ host.onto \in 0..MaxMain
        /\ host.seen \in Commits \union {None} /\ d \in States \union {None}
    BY <1>2 DEF IInv, TypeOK
  <2>3. host' \in [pc : Pcs, cmd : Modes \union {"recover", "reconcile"},
                mem : States \union {None}, onto : 0..MaxMain, seen : Commits \union {None}]
    BY <2>1, <2>2, HostType
  <2>4. turn' \in [Turns -> Files]
    BY DEF IInv, TypeOK
  <2> QED BY <2>3, <2>4 DEF IInv, TypeOK, hub
<1>11. StateBook'
  <2>1. Sound(disk)' /\ Sound(host.mem)'
    BY <1>7, <1>9
  <2>2. c <= made
    BY <1>2 DEF Sound
  <2>3. \A t \in Turns : t > made => turn'[t] = NoFiles
    BY <1>2, <1>4, <2>2, RunnerAssumption DEF IInv, StateBook, TypeOK, Turns
  <2>4. \A t \in Turns : Alive(t)' => t = c
    BY <1>2, <1>4 DEF Alive
  <2>5. disk' = d /\ made' = made /\ verified' = verified /\ Alien \notin verified
    BY FileBook
  <2> QED BY <1>2, <2>1, <2>3, <2>4, <2>5 DEF StateBook
<1>12. Active' = Active /\ Current' = Current
  BY <1>2, <1>9 DEF Active, Current
<1>13. host'.onto <= main' /\ VerifiedOnly'
  BY <1>9 DEF IInv, TreeBook, VerifiedOnly
<1>14. turn'[c] = r
  BY <1>3, <1>4
<1> QED BY <1>2, <1>9, <1>10, <1>11, <1>12, <1>13, <1>14 DEF IInv

\* What holds at every statement of a running turn
LEMMA RunFacts ==
  ASSUME IInv, host.pc \in Running
  PROVE  /\ Current \in Turns /\ Current # 0 /\ turn[Current] \in Files /\ turn[Current].exit = "none"
         /\ host.mem = disk /\ host.mem \in States /\ Sound(host.mem) /\ disk # None
         /\ host.mem.counted # Current /\ host.mem.status # "START_FAILED_NO_THREAD"
         /\ Active \in ActiveTurns /\ Active # NoTurn
         /\ \A t \in Turns : Alive(t) => Current = t
         /\ Active = disk.active /\ host.mem.cand = disk.cand /\ host.mem.before = disk.before
<1>1. host.pc \notin Opening \union {"idle"}
  BY DEF Opening, Running
<1>2. Current # 0 /\ host.mem = disk
  BY DEF IInv, TurnBook, HostBook
<1>3. Current \in Turns
  BY <1>1, <1>2, Copy, RunnerAssumption DEF Turns
<1>4. Active # NoTurn
  <2>1. NoTurn.turn = 0
    BY DEF NoTurn
  <2> QED BY <1>2, <2>1 DEF Current
<1> QED BY <1>1, <1>2, <1>3, <1>4, Copy DEF IInv, TypeOK, TurnBook

LEMMA SpawnStep ==
  ASSUME IInv, Spawn
  PROVE  IInv'
<1>1. host.pc \in Running /\ host.pc = "spawn"
  BY DEF Spawn, At, Running
<1>2. turn[Current] = NoFiles
  BY <1>1 DEF IInv, TurnBook
<1> PICK r : r = [NoFiles EXCEPT !.proc = "alive"]
  OBVIOUS
<1>3. r \in Files /\ r.thread = 0 /\ r.exit = "none"
  BY RunnerAssumption DEF NoFiles, Files, Results
<1>4. turn' = [turn EXCEPT ![Current] = r]
  BY <1>2, <1>1, RunFacts DEF Spawn
<1>5. "identity" \in Pcs
  BY DEF Pcs, Running
<1>6. /\ HostBook' /\ TurnBook' /\ TreeBook' => IInv'
      /\ host'.pc = "identity" /\ host'.mem = host.mem /\ host'.cmd = host.cmd
      /\ host'.onto <= main'
      /\ Active' = Active /\ Current' = Current /\ turn'[Current] = r
  BY <1>1, <1>2, <1>3, <1>4, <1>5, OwnStep DEF Spawn, NoFiles
<1>7. disk' = disk
  BY DEF Spawn
<1>8. HostBook'
  BY <1>1, <1>6, <1>7, RunFacts DEF HostBook, Opening, Starting, Running, Moving
<1>9. TurnBook'
  BY <1>1, <1>3, <1>6, RunFacts DEF TurnBook, Running, Judged, Publishing
<1>10. TreeBook'
  BY <1>6 DEF TreeBook, Publishing, Moving
<1> QED BY <1>6, <1>8, <1>9, <1>10

LEMMA IdentityStep ==
  ASSUME IInv, Identity
  PROVE  IInv'
<1>1. host.pc \in Running /\ host.pc = "identity"
  BY DEF Identity, At, Running
<1> PICK c : c = Current
  OBVIOUS
<1> PICK m : m = host.mem
  OBVIOUS
<1> PICK a : a = [m.active EXCEPT !.pid = TRUE]
  OBVIOUS
<1> PICK s : s = [m EXCEPT !.active = a]
  OBVIOUS
<1>2. /\ m \in States /\ Sound(m) /\ m.active \in ActiveTurns /\ m.active.turn = c /\ c # 0
      /\ c \in Turns /\ turn[c].thread = 0
      /\ turn[c].exit = "none" /\ m.counted # c /\ m.status # "START_FAILED_NO_THREAD"
      /\ \A t \in Turns : Alive(t) => c = t
  BY <1>1, RunFacts DEF Active, Current, IInv, TurnBook
<1>3. a \in ActiveTurns /\ a.turn = c /\ a.pid = TRUE
  BY <1>2 DEF ActiveTurns
<1>4. /\ s \in States /\ s.active = a /\ s.thread = m.thread /\ s.status = m.status
      /\ s.cand = m.cand /\ s.parent = m.parent /\ s.before = m.before
      /\ s.candResult = m.candResult /\ s.counted = m.counted /\ s.total = m.total
  BY <1>2, <1>3 DEF States
<1>5. Sound(s)
  <2>1. Tally(s)
    BY <1>2, <1>3, <1>4 DEF Sound, Tally
  <2>2. s.active.pid /\ s.active.turn = c
    BY <1>3, <1>4
  <2>3. /\ m.active.turn <= made /\ m.counted <= made
        /\ m.thread = 0 => \A t \in Turns : t # m.active.turn => turn[t].thread = 0
        /\ m.cand # None => /\ m.cand \in verified
                            /\ m.parent # None
                            /\ Diff(m.parent, m.cand) \subseteq Turns
        /\ m.candResult # 0 => m.cand # None
    BY <1>2 DEF Sound
  <2> QED BY <1>2, <1>4, <2>1, <2>2, <2>3 DEF Sound
<1>6. Save(s, "wait") /\ "wait" \in Pcs \ {"idle"}
  <2>1. s = [host.mem EXCEPT !.active.pid = TRUE]
    BY <1>2
  <2> QED BY <2>1 DEF Identity, Pcs, Running
<1>7. \A t \in Turns : Alive(t) => s.active.turn = t
  BY <1>2, <1>3, <1>4
<1>8. /\ HostBook' /\ TurnBook' /\ TreeBook' => IInv'
      /\ host'.pc = "wait" /\ host'.mem = s /\ disk' = s /\ host'.cmd = host.cmd
      /\ host'.onto <= main' /\ turn' = turn
  BY <1>4, <1>5, <1>6, <1>7, SaveStep DEF Identity, world
<1>9. s # None /\ Active' = a /\ Current' = c
  BY <1>3, <1>4, <1>8, RunnerAssumption DEF Active, Current
<1>10. HostBook'
  BY <1>4, <1>8, <1>9 DEF HostBook, Opening, Starting, Running, Moving
<1>11. TurnBook'
  BY <1>2, <1>3, <1>4, <1>8, <1>9 DEF TurnBook, Running, Judged, Publishing
<1>12. TreeBook'
  BY <1>8 DEF TreeBook, Publishing, Moving
<1> QED BY <1>8, <1>10, <1>11, <1>12

LEMMA EventStep ==
  ASSUME IInv, Event
  PROVE  IInv'
<1>1. host.pc \in Running /\ host.pc = "wait"
  BY DEF Event, At, Running
<1> PICK found \in Finds : turn' = [turn EXCEPT ![Current].thread = found]
  BY DEF Event
<1>2. found \in 0..MaxTurns /\ found # 0
  BY <1>1, RunFacts DEF Finds, ActiveTurns, Turns
<1> PICK r : r = [turn[Current] EXCEPT !.thread = found]
  OBVIOUS
<1>3. r \in Files /\ r.thread = found /\ r.exit = turn[Current].exit
  BY <1>1, <1>2, RunFacts DEF Files
<1>4. turn' = [turn EXCEPT ![Current] = r]
  BY <1>1, RunFacts
<1>5. Active.pid
  BY <1>1 DEF IInv, TurnBook
<1>6. "bind" \in Pcs /\ Goto("bind")
  BY DEF Pcs, Running, Event
<1>7. /\ HostBook' /\ TurnBook' /\ TreeBook' => IInv'
      /\ host'.pc = "bind" /\ host'.mem = host.mem /\ host'.cmd = host.cmd
      /\ host'.onto <= main'
      /\ Active' = Active /\ Current' = Current /\ turn'[Current] = r
  BY <1>1, <1>3, <1>4, <1>5, <1>6, OwnStep DEF Event
<1>8. disk' = disk
  BY DEF Event
<1>9. HostBook'
  BY <1>1, <1>7, <1>8, RunFacts DEF HostBook, Opening, Starting, Running, Moving
<1>10. TurnBook'
  <2> PICK c : c = Current
    OBVIOUS
  <2> PICK m : m = host.mem
    OBVIOUS
  <2>1. c # 0 /\ m.counted # c /\ m.status # "START_FAILED_NO_THREAD" /\ turn[c].exit = "none"
    BY <1>1, RunFacts
  <2>2. turn'[c].thread # 0 /\ turn'[c].exit = "none" /\ Current' = c /\ host'.mem = m
    BY <1>2, <1>3, <1>7, <2>1
  <2> QED BY <1>5, <1>7, <2>1, <2>2 DEF TurnBook, Running, Judged, Publishing
<1>11. TreeBook'
  BY <1>7 DEF TreeBook, Publishing, Moving
<1> QED BY <1>7, <1>9, <1>10, <1>11

LEMMA ReapStep ==
  ASSUME IInv, Reap
  PROVE  IInv'
<1>1. host.pc \in Running /\ host.pc = "wait"
  BY DEF Reap, At, Running
<1> PICK r : r = [turn[Current] EXCEPT !.exit = turn[Current].rc]
  OBVIOUS
<1>2. r \in Files /\ r.thread = turn[Current].thread /\ r.exit # "none" /\ r.proc = "dead"
  BY <1>1, RunFacts DEF Files, Reap
<1>3. turn' = [turn EXCEPT ![Current] = r]
  BY <1>1, RunFacts DEF Reap
<1>4. "exited" \in Pcs /\ Goto("exited")
  BY DEF Pcs, Reap
<1>5. /\ HostBook' /\ TurnBook' /\ TreeBook' => IInv'
      /\ host'.pc = "exited" /\ host'.mem = host.mem /\ host'.cmd = host.cmd
      /\ host'.onto <= main'
      /\ Active' = Active /\ Current' = Current /\ turn'[Current] = r
  BY <1>1, <1>2, <1>3, <1>4, OwnStep DEF Reap
<1>6. disk' = disk
  BY DEF Reap
<1>7. HostBook'
  BY <1>1, <1>5, <1>6, RunFacts, RunnerAssumption DEF HostBook, Opening, Starting, Running, Moving
<1>8. TurnBook'
  <2>1. turn[Current].thread # 0 =>
          host.mem.thread = turn[Current].thread \/ ~Matches(host.mem, turn[Current].thread)
    BY <1>1 DEF IInv, TurnBook
  <2> QED BY <1>1, <1>2, <1>5, <2>1, RunFacts DEF TurnBook, Running, Judged, Publishing, Alive
<1>9. TreeBook'
  BY <1>5 DEF TreeBook, Publishing, Moving
<1> QED BY <1>5, <1>7, <1>8, <1>9

\* A thread that belongs to the turn becomes the thread of the Change.
LEMMA BoundSound ==
  ASSUME IInv, NEW m \in States, Sound(m), m.active.turn # 0, m.status # "START_FAILED_NO_THREAD" \/ ~Alive(m.active.turn),
         NEW found \in 0..MaxTurns, found # 0
  PROVE  LET n == Bound(m, found) IN
         /\ n \in States /\ Sound(n) /\ n.thread = found /\ n.active = m.active
         /\ n.counted = m.counted /\ n.cand = m.cand /\ n.before = m.before
         /\ n.status # "START_FAILED_NO_THREAD" \/ n.status = m.status
<1>1. CASE m.thread = found
  BY <1>1 DEF Bound
<1>2. CASE m.thread # found
  <2> PICK status : status = IF m.active.mode = "rotate" THEN "ROTATED" ELSE "RUNNING"
    OBVIOUS
  <2> PICK n : n = [m EXCEPT !.thread = found, !.status = status]
    OBVIOUS
  <2>1. status \in Statuses /\ status # "START_FAILED_NO_THREAD"
    BY DEF Statuses
  <2>2. /\ n \in States /\ n.status = status /\ n.active = m.active /\ n.thread = found
        /\ n.cand = m.cand /\ n.parent = m.parent /\ n.before = m.before
        /\ n.candResult = m.candResult /\ n.counted = m.counted /\ n.total = m.total
    BY <2>1 DEF States
  <2>3. Sound(n)
    BY <2>1, <2>2 DEF Sound, Tally
  <2>4. Bound(m, found) = n
    BY <1>2 DEF Bound
  <2> QED BY <2>1, <2>2, <2>3, <2>4
<1> QED BY <1>1, <1>2

LEMMA BindStep ==
  ASSUME IInv, Bind
  PROVE  IInv'
<1>1. host.pc \in Running /\ host.pc = "bind"
  BY DEF Bind, At, Running
<1> PICK c : c = Current
  OBVIOUS
<1> PICK m : m = host.mem
  OBVIOUS
<1> PICK found : found = turn[c].thread
  OBVIOUS
<1>2. /\ m \in States /\ Sound(m) /\ m.active.turn = c /\ c # 0 /\ Active.pid
      /\ c \in Turns /\ found # 0 /\ found \in 0..MaxTurns
      /\ turn[c].exit = "none" /\ m.counted # c /\ m.status # "START_FAILED_NO_THREAD"
      /\ \A t \in Turns : Alive(t) => c = t
  BY <1>1, RunFacts DEF Active, Current, IInv, TurnBook, Files
<1>3. "wait" \in Pcs \ {"idle"}
  BY DEF Pcs, Running
<1>4. CASE Matches(m, found) /\ Save(Bound(m, found), "wait") /\ UNCHANGED turn
  <2> PICK s : s = Bound(m, found)
    OBVIOUS
  <2>1. /\ s \in States /\ Sound(s) /\ s.thread = found /\ s.active = m.active
        /\ s.counted = m.counted /\ s.cand = m.cand /\ s.before = m.before
        /\ s.status # "START_FAILED_NO_THREAD"
    BY <1>2, BoundSound
  <2>2. \A t \in Turns : Alive(t) => s.active.turn = t
    BY <1>2, <2>1
  <2>3. /\ HostBook' /\ TurnBook' /\ TreeBook' => IInv'
        /\ host'.pc = "wait" /\ host'.mem = s /\ disk' = s /\ host'.cmd = host.cmd
        /\ host'.onto <= main'
    BY <1>3, <1>4, <2>1, <2>2, SaveStep DEF Bind
  <2>4. s # None /\ Active' = Active /\ Current' = c /\ turn' = turn
    BY <1>4, <2>1, <2>3, RunnerAssumption DEF Active, Current
  <2>5. HostBook'
    BY <2>3, <2>4 DEF HostBook, Opening, Starting, Running, Moving, Active
  <2>6. TurnBook'
    BY <1>2, <2>1, <2>3, <2>4 DEF TurnBook, Running, Judged, Publishing
  <2>7. TreeBook'
    BY <2>3 DEF TreeBook, Publishing, Moving
  <2> QED BY <2>3, <2>5, <2>6, <2>7
<1>5. CASE ~Matches(m, found) /\ Goto("wait") /\ turn' = Killed(c) /\ UNCHANGED disk
  <2>1. Calm /\ turn' \in [Turns -> Files]
    BY <1>2, <1>5, KilledCalm DEF IInv
  <2> PICK d : d = disk
    OBVIOUS
  <2>2. /\ d \in States \union {None} /\ m \in States \union {None}
        /\ d # None => Sound(d)
        /\ d = None => \A t \in Turns : turn[t].thread = 0
        /\ \A t \in Turns : Alive(t) => d # None /\ d.active.turn = t
    BY <1>2, FileBook
  <2>3. host' = [host EXCEPT !.pc = "wait", !.mem = m] /\ disk' = d
    BY <1>5, GotoForm DEF IInv
  <2>4. /\ tree' \in [there : BOOLEAN, head : Commits, dirty : SUBSET Turns]
        /\ remote' \in Commits \union {None} /\ VerifiedOnly'
    BY DEF Bind, IInv, TypeOK, VerifiedOnly
  <2>5. /\ HostBook' /\ TurnBook' /\ TreeBook' => IInv'
        /\ host'.pc = "wait" /\ host'.mem = m /\ host'.cmd = host.cmd
        /\ host'.onto <= main'
    BY <1>2, <1>3, <2>1, <2>2, <2>3, <2>4, PlainStep DEF Bind
  <2>6. Active' = Active /\ Current' = c /\ disk' = disk
    BY <1>5, <2>5 DEF Active, Current
  <2>7. turn'[c].thread = found /\ turn'[c].exit = "none"
    BY <1>2, <2>1 DEF Calm
  <2>8. HostBook'
    BY <1>1, <2>5, <2>6, RunFacts DEF HostBook, Opening, Starting, Running, Moving
  <2>9. TurnBook'
    BY <1>2, <1>5, <2>5, <2>6, <2>7 DEF TurnBook, Running, Judged, Publishing
  <2>10. TreeBook'
    BY <2>5 DEF TreeBook, Publishing, Moving
  <2> QED BY <2>5, <2>8, <2>9, <2>10
<1> QED BY <1>4, <1>5 DEF Bind

(***************************************************************************)
(* A turn has ended, or is found by a later command.                       *)
(***************************************************************************)
\* A status changes and the command ends.
LEMMA Restate ==
  ASSUME NEW m \in States, Sound(m), NEW status \in Statuses,
         status # "START_FAILED_NO_THREAD" \/ ~Alive(m.active.turn)
  PROVE  LET n == [m EXCEPT !.status = status] IN
         n \in States /\ Sound(n) /\ n.active = m.active
<1> PICK n : n = [m EXCEPT !.status = status]
  OBVIOUS
<1>1. /\ n \in States /\ n.status = status /\ n.active = m.active /\ n.thread = m.thread
      /\ n.cand = m.cand /\ n.parent = m.parent /\ n.before = m.before
      /\ n.candResult = m.candResult /\ n.counted = m.counted /\ n.total = m.total
  BY DEF States
<1>2. Sound(n)
  BY <1>1 DEF Sound, Tally
<1> QED BY <1>1, <1>2

\* The turn is counted in the command's copy, which is then to be judged.
LEMMA CountStep ==
  ASSUME IInv, host.pc \in {"exited", "evidence"},
         turn[Current].exit # "none", turn[Current].thread # 0, host.mem.thread # 0,
         Think(Counted(host.mem, Current), "judge"),
         UNCHANGED <<tree, world, remote, hub, verified>>
  PROVE  IInv'
<1>1. host.pc \notin Opening \union {"idle"}
  BY DEF Opening
<1> PICK m : m = host.mem
  OBVIOUS
<1> PICK c : c = m.active.turn
  OBVIOUS
<1>2. /\ m \in States /\ Sound(m) /\ c = Current /\ c \in 0..MaxTurns /\ c # 0 /\ ~Alive(c)
      /\ m.active = disk.active /\ m.cand = disk.cand /\ m.before = disk.before
      /\ disk \in States /\ Sound(disk) /\ disk # None
      /\ \A t \in Turns : Alive(t) => c = t
  BY <1>1, Copy DEF Active, Current, IInv, TurnBook
<1>3. c \in Fin
  BY <1>2, RunnerAssumption DEF Fin, Turns
<1> PICK n : n = Counted(m, c)
  OBVIOUS
<1>4. /\ n \in States /\ Sound(n) /\ n.counted = c /\ n.active = m.active /\ n.thread = m.thread
      /\ n.cand = m.cand /\ n.before = m.before
  <2>1. m.active.turn \in Fin /\ n = Counted(m, m.active.turn) /\ TypeOK
    BY <1>3 DEF IInv
  <2> QED BY <1>2, <2>1, CountedSound
<1> PICK d : d = disk
  OBVIOUS
<1>5. host' = [host EXCEPT !.pc = "judge", !.mem = n] /\ disk' = d
  BY <1>2 DEF Think
<1>6. "judge" \in Pcs
  BY DEF Pcs, Judged
<1>7. /\ tree' \in [there : BOOLEAN, head : Commits, dirty : SUBSET Turns]
      /\ turn' \in [Turns -> Files] /\ remote' \in Commits \union {None} /\ VerifiedOnly'
  BY DEF IInv, TypeOK, VerifiedOnly, world
<1>8. /\ d \in States \union {None} /\ n \in States \union {None} /\ Sound(d) /\ d # None
      /\ \A t \in Turns : Alive(t) => d.active.turn = t
  BY <1>2, <1>4
<1>9. /\ HostBook' /\ TurnBook' /\ TreeBook' => IInv'
      /\ host'.pc = "judge" /\ host'.mem = n /\ host'.cmd = host.cmd /\ host'.onto <= main'
  <2>1. Calm /\ made' = made /\ main' = main /\ hub' = hub /\ verified' = verified
    BY Unchanged DEF world
  <2>2. HostBook' /\ TurnBook' /\ TreeBook' => IInv'
    BY <1>4, <1>5, <1>6, <1>7, <1>8, <2>1, PlainStep
  <2>3. host'.pc = "judge" /\ host'.mem = n /\ host'.cmd = host.cmd /\ host'.onto = host.onto
    BY <1>5 DEF IInv, TypeOK
  <2>4. host'.onto <= main'
    BY <2>1, <2>3 DEF IInv, TreeBook
  <2> QED BY <2>2, <2>3, <2>4
<1>10. n # None /\ Active' = m.active /\ Current' = c
  BY <1>4, <1>9, RunnerAssumption DEF Active, Current
<1>11. HostBook'
  BY <1>2, <1>4, <1>5, <1>9, <1>10 DEF HostBook, Opening, Starting, Running, Moving
<1>12. TurnBook'
  <2>1. turn' = turn
    BY DEF world
  <2> QED BY <1>2, <1>4, <1>9, <1>10, <2>1 DEF TurnBook, Running, Judged, Publishing, Alive
<1>13. TreeBook'
  BY <1>9 DEF TreeBook, Publishing, Moving
<1> QED BY <1>9, <1>11, <1>12, <1>13

LEMMA ExitedStep ==
  ASSUME IInv, Exited
  PROVE  IInv'
<1>1. host.pc = "exited" /\ host.pc \notin Opening \union {"idle"}
  BY DEF Exited, At, Opening
<1>2. /\ host.mem \in States /\ Sound(host.mem) /\ ~Alive(Current) /\ turn[Current].exit # "none"
      /\ \A t \in Turns : Alive(t) => host.mem.active.turn = t
      /\ tree' \in [there : BOOLEAN, head : Commits, dirty : SUBSET Turns]
  BY <1>1, Copy DEF Active, Current, IInv, TurnBook, Exited, TypeOK
<1>3. CASE turn[Current].thread = 0
  <2> PICK status : status = CASE Active.mode = "start" -> "START_FAILED_NO_THREAD"
                               [] Active.mode = "rotate" -> "ROTATE_FAILED_NO_THREAD"
                               [] OTHER -> "THREAD_MISMATCH"
    OBVIOUS
  <2> PICK s : s = [host.mem EXCEPT !.status = status]
    OBVIOUS
  <2>1. status \in Statuses
    BY DEF Statuses
  <2>2. s \in States /\ Sound(s) /\ s.active = host.mem.active
    BY <1>2, <2>1, Restate DEF Active, Current
  <2>3. Save(s, "idle")
    BY <1>3 DEF Exited
  <2> QED BY <1>2, <2>2, <2>3, LastSave DEF Exited
<1>4. CASE turn[Current].thread # 0 /\ ~Matches(host.mem, turn[Current].thread)
  <2> PICK s : s = Mismatched(host.mem)
    OBVIOUS
  <2>1. "THREAD_MISMATCH" \in Statuses
    BY DEF Statuses
  <2>2. s \in States /\ Sound(s) /\ s.active = host.mem.active
    BY <1>2, <2>1, Restate DEF Mismatched
  <2>3. Save(s, "idle")
    BY <1>4 DEF Exited
  <2> QED BY <1>2, <2>2, <2>3, LastSave DEF Exited
<1>5. CASE turn[Current].thread # 0 /\ Matches(host.mem, turn[Current].thread)
  <2>1. host.mem.thread # 0
    BY <1>1, <1>5 DEF IInv, TurnBook
  <2>2. Think(Counted(host.mem, Current), "judge")
    BY <1>5 DEF Exited
  <2> QED BY <1>1, <1>2, <1>5, <2>1, <2>2, CountStep DEF Exited
<1> QED BY <1>3, <1>4, <1>5

LEMMA RecoverStep ==
  ASSUME IInv, Recover
  PROVE  IInv'
<1>1. host.pc = "recover" /\ host.pc \notin Opening \union {"idle"} /\ Active # NoTurn
  BY DEF Recover, At, Opening
<1> PICK m : m = host.mem
  OBVIOUS
<1> PICK c : c = m.active.turn
  OBVIOUS
<1>2. /\ m \in States /\ Sound(m) /\ c = Current /\ c \in 0..MaxTurns /\ m.active = Active
      /\ disk \in States /\ disk # None
      /\ \A t \in Turns : Alive(t) => m.active.turn = t
      /\ tree' \in [there : BOOLEAN, head : Commits, dirty : SUBSET Turns]
  BY <1>1, Copy DEF Active, Current, IInv, Recover, TypeOK
<1>3. c # 0 /\ c \in Turns
  BY <1>1, <1>2, RunnerAssumption DEF Sound, Turns
<1> PICK found : found = turn[c].thread
  OBVIOUS
<1>4. found \in 0..MaxTurns
  BY <1>3 DEF IInv, TypeOK, Files
<1>5. CASE Owned(m)
  BY <1>2, <1>5, QuitStep DEF Recover
<1>6. CASE ~Owned(m) /\ (found = 0 \/ ~Matches(m, found))
  <2> PICK s : s = Mismatched(m)
    OBVIOUS
  <2>1. "THREAD_MISMATCH" \in Statuses
    BY DEF Statuses
  <2>2. s \in States /\ Sound(s) /\ s.active = m.active
    BY <1>2, <2>1, Restate DEF Mismatched
  <2>3. Save(s, "idle")
    BY <1>2, <1>6 DEF Recover
  <2> QED BY <1>2, <2>2, <2>3, LastSave DEF Recover
<1>7. CASE ~Owned(m) /\ found # 0 /\ Matches(m, found)
  <2>1. ~Alive(c)
    BY <1>2, <1>3, <1>7 DEF Owned, Alive, Sound
  <2> PICK s : s = Bound(m, found)
    OBVIOUS
  <2>2. /\ s \in States /\ Sound(s) /\ s.thread = found /\ s.active = m.active
        /\ s.counted = m.counted /\ s.cand = m.cand /\ s.before = m.before
    BY <1>2, <1>3, <1>4, <1>7, <2>1, BoundSound
  <2>3. "evidence" \in Pcs \ {"idle"}
    BY DEF Pcs
  <2>4. Save(s, "evidence") /\ \A t \in Turns : Alive(t) => s.active.turn = t
    BY <1>2, <1>7, <2>2 DEF Recover
  <2>5. /\ HostBook' /\ TurnBook' /\ TreeBook' => IInv'
        /\ host'.pc = "evidence" /\ host'.mem = s /\ disk' = s /\ host'.cmd = host.cmd
        /\ host'.onto <= main'
    BY <2>2, <2>3, <2>4, SaveStep DEF Recover, world
  <2>6. s # None /\ Active' = m.active /\ Current' = c /\ turn' = turn
    BY <2>2, <2>5, RunnerAssumption DEF Active, Current, Recover, world
  <2>7. HostBook'
    BY <2>5, <2>6 DEF HostBook, Opening, Starting, Running, Moving, Active
  <2>8. TurnBook'
    BY <1>3, <1>7, <2>1, <2>2, <2>5, <2>6 DEF TurnBook, Running, Judged, Publishing, Alive
  <2>9. TreeBook'
    BY <2>5 DEF TreeBook, Publishing, Moving
  <2> QED BY <2>5, <2>7, <2>8, <2>9
<1> QED BY <1>5, <1>6, <1>7

LEMMA EvidenceStep ==
  ASSUME IInv, Evidence
  PROVE  IInv'
<1>1. host.pc = "evidence" /\ host.pc \notin Opening \union {"idle"}
  BY DEF Evidence, At, Opening
<1>2. /\ host.mem \in States /\ Sound(host.mem) /\ turn[Current].thread # 0 /\ host.mem.thread # 0
      /\ \A t \in Turns : Alive(t) => host.mem.active.turn = t
      /\ tree' \in [there : BOOLEAN, head : Commits, dirty : SUBSET Turns]
  BY <1>1, Copy DEF Active, Current, IInv, TurnBook, Evidence, TypeOK
<1>3. CASE turn[Current].exit = "none"
  <2> PICK s : s = [host.mem EXCEPT !.status = "TURN_COMPLETION_UNKNOWN"]
    OBVIOUS
  <2>1. "TURN_COMPLETION_UNKNOWN" \in Statuses
    BY DEF Statuses
  <2>2. s \in States /\ Sound(s) /\ s.active = host.mem.active
    BY <1>2, <2>1, Restate
  <2>3. Save(s, "idle")
    BY <1>3 DEF Evidence
  <2> QED BY <1>2, <2>2, <2>3, LastSave DEF Evidence
<1>4. CASE turn[Current].exit # "none"
  <2>1. Think(Counted(host.mem, Current), "judge")
    BY <1>4 DEF Evidence
  <2> QED BY <1>1, <1>2, <1>4, <2>1, CountStep DEF Evidence
<1> QED BY <1>3, <1>4

LEMMA NotActiveStep ==
  ASSUME IInv, NotActive
  PROVE  IInv'
<1>1. host.pc = "recover" /\ host.pc \notin Opening \union {"idle"} /\ Active = NoTurn
  BY DEF NotActive, At, Opening
<1>2. CASE Return
  BY <1>2, QuitStep DEF NotActive, IInv, TypeOK
<1>3. CASE \/ host.cmd = "start" /\ Goto("worktree")
           \/ host.cmd \in {"resume", "rotate"} /\ Goto("intent")
  <2> PICK pc2 \in {"worktree", "intent"} : Goto(pc2)
    BY <1>3
  <2>1. host.cmd \in Modes /\ pc2 \in Pcs
    BY <1>3 DEF Modes, Pcs, Starting
  <2>2. /\ tree' \in [there : BOOLEAN, head : Commits, dirty : SUBSET Turns]
        /\ remote' \in Commits \union {None} /\ VerifiedOnly'
    BY DEF NotActive, IInv, TypeOK, VerifiedOnly, world
  <2>3. /\ HostBook' /\ TurnBook' /\ TreeBook' => IInv'
        /\ host'.pc = pc2 /\ host'.mem = host.mem /\ host'.cmd = host.cmd
        /\ host'.onto <= main' /\ made' = made /\ disk' = disk /\ Active' = Active
    BY <2>1, <2>2, GoStep DEF NotActive, world
  <2>4. /\ host.mem # None /\ disk # None /\ made < MaxTurns
        /\ Active = disk.active
        /\ host.mem.cand = disk.cand /\ host.mem.before = disk.before
    BY <1>1, <2>1 DEF IInv, HostBook
  <2> QED BY <1>1, <2>1, <2>3, <2>4 DEF HostBook, TurnBook, TreeBook, Opening, Starting, Running, Judged, Publishing, Moving
<1> QED BY <1>2, <1>3 DEF NotActive

(***************************************************************************)
(* What becomes of the result.                                             *)
(***************************************************************************)
\* What holds once the turn was judged
LEMMA JudgedFacts ==
  ASSUME IInv, host.pc \in Judged
  PROVE  /\ host.mem \in States /\ Sound(host.mem) /\ host.mem # None
         /\ disk \in States /\ Sound(disk) /\ disk # None
         /\ Current \in Turns /\ Current \in 0..MaxTurns /\ Current # 0
         /\ ~Alive(Current) /\ \A t \in Turns : ~Alive(t)
         /\ host.mem.thread # 0 /\ host.mem.counted = Current
         /\ Active = disk.active /\ host.mem.cand = disk.cand /\ host.mem.before = disk.before
<1>1. host.pc \notin Opening \union {"idle"}
  BY DEF Opening, Judged, Publishing
<1> QED BY <1>1, Copy, RunnerAssumption DEF IInv, TurnBook, Turns

\* A result is filed: the status changes, or the result counts as disposed of.
LEMMA Filed ==
  ASSUME NEW m \in States, NEW status \in Statuses, status # "START_FAILED_NO_THREAD",
         NEW last \in 0..MaxTurns
  PROVE  Kin(Disposed([m EXCEPT !.status = status], last), m)
<1> PICK k : k = [m EXCEPT !.status = status]
  OBVIOUS
<1> PICK n : n = [k EXCEPT !.last = last]
  OBVIOUS
<1>1. k \in States
  BY DEF States
<1>2. n \in States
  BY <1>1 DEF States
<1>3. /\ k.status = status /\ k.thread = m.thread /\ k.active = m.active
      /\ k.cand = m.cand /\ k.parent = m.parent /\ k.before = m.before
      /\ k.candResult = m.candResult /\ k.counted = m.counted /\ k.total = m.total
  BY DEF States
<1>4. Kin(n, m)
  BY <1>1, <1>2, <1>3 DEF Kin, States
<1> QED BY <1>4 DEF Disposed

LEMMA Refiled ==
  ASSUME NEW m \in States, NEW status \in Statuses, status # "START_FAILED_NO_THREAD"
  PROVE  Kin([m EXCEPT !.status = status], m)
<1> PICK n : n = [m EXCEPT !.status = status]
  OBVIOUS
<1>1. n \in States
  BY DEF States
<1>2. Kin(n, m)
  BY <1>1 DEF Kin, States
<1> QED BY <1>2

\* The command stays among the steps after judgement, saving the copy s.
LEMMA FileStep ==
  ASSUME IInv, host.pc \in Judged, NEW pc2 \in Judged, NEW s, Kin(s, host.mem), Save(s, pc2),
         pc2 \notin {"prepare", "push", "dispatch"},
         pc2 \in Publishing => host.mem.candResult = Current,
         tree' \in [there : BOOLEAN, head : Commits, dirty : SUBSET Turns],
         pr' \in BOOLEAN, comments' \in [Turns -> Nat],
         verified' \subseteq Commits, verified \subseteq verified', Alien \notin verified',
         UNCHANGED <<world, remote>>
  PROVE  IInv'
<1>1. s \in States /\ pc2 # "idle"
  BY DEF Kin, Judged, Publishing
<1>2. host' = [host EXCEPT !.pc = pc2, !.mem = s] /\ disk' = s
  BY <1>1, SaveForm
<1>3. TypeOK'
  <2>1. host' = [pc |-> pc2, cmd |-> host.cmd, mem |-> s, onto |-> host.onto, seen |-> host.seen]
    BY <1>2 DEF IInv, TypeOK
  <2>2. /\ host.cmd \in Modes \union {"recover", "reconcile"} /\ host.onto \in 0..MaxMain
        /\ host.seen \in Commits \union {None} /\ pc2 \in Pcs /\ s \in States \union {None}
    BY <1>1 DEF IInv, TypeOK, Pcs
  <2>3. host' \in [pc : Pcs, cmd : Modes \union {"recover", "reconcile"},
                mem : States \union {None}, onto : 0..MaxMain, seen : Commits \union {None}]
    BY <2>1, <2>2, HostType
  <2> QED BY <1>1, <1>2, <2>3 DEF IInv, TypeOK, world
<1>4. VerifiedOnly'
  BY DEF IInv, VerifiedOnly, world
<1> QED BY <1>2, <1>3, <1>4, JudgedStep DEF world

\* The same without a save.
LEMMA PassStep ==
  ASSUME IInv, host.pc \in Judged, NEW pc2 \in Judged, NEW s, Kin(s, host.mem),
         host' = [host EXCEPT !.pc = pc2, !.mem = s], disk' = disk,
         pc2 = "prepare" => Candidate' \in verified',
         pc2 = "dispatch" => turn[Current].result \in Answers,
         pc2 \in Publishing => host.mem.candResult = Current,
         pc2 = "push" => tree'.head = host.mem.cand,
         tree' \in [there : BOOLEAN, head : Commits, dirty : SUBSET Turns],
         pr' \in BOOLEAN, comments' \in [Turns -> Nat],
         remote' \in Commits \union {None}, VerifiedOnly',
         verified' \subseteq Commits, verified \subseteq verified', Alien \notin verified',
         UNCHANGED world
  PROVE  IInv'
<1>1. s \in States
  BY DEF Kin
<1>3. TypeOK'
  <2>1. host' = [pc |-> pc2, cmd |-> host.cmd, mem |-> s, onto |-> host.onto, seen |-> host.seen]
    BY DEF IInv, TypeOK
  <2>2. /\ host.cmd \in Modes \union {"recover", "reconcile"} /\ host.onto \in 0..MaxMain
        /\ host.seen \in Commits \union {None} /\ pc2 \in Pcs /\ s \in States \union {None}
    BY <1>1 DEF IInv, TypeOK, Pcs
  <2>3. host' \in [pc : Pcs, cmd : Modes \union {"recover", "reconcile"},
                mem : States \union {None}, onto : 0..MaxMain, seen : Commits \union {None}]
    BY <2>1, <2>2, HostType
  <2> QED BY <2>3 DEF IInv, TypeOK, world
<1> PICK d : d = disk
  OBVIOUS
<1> QED BY <1>3, JudgedStep DEF world

LEMMA SelfKin ==
  ASSUME NEW m \in States
  PROVE  Kin(m, m)
BY DEF Kin

LEMMA DisposedKin ==
  ASSUME NEW m \in States, NEW t \in 0..MaxTurns
  PROVE  Kin(Disposed(m, t), m)
<1> PICK n : n = [m EXCEPT !.last = t]
  OBVIOUS
<1>1. n \in States
  BY DEF States
<1>2. Kin(n, m)
  BY <1>1 DEF Kin, States
<1> QED BY <1>2 DEF Disposed

\* The turn leaves the state, counted and with its thread.
LEMMA ClearedSound ==
  ASSUME IInv, NEW m \in States, Sound(m), m.counted = m.active.turn, m.thread # 0
  PROVE  Cleared(m) \in States /\ Sound(Cleared(m))
<1> PICK n : n = [m EXCEPT !.active = NoTurn]
  OBVIOUS
<1>1. NoTurn \in ActiveTurns /\ NoTurn.turn = 0
  <2>1. 0 \in 0..MaxTurns
    BY RunnerAssumption
  <2> QED BY <2>1 DEF NoTurn, ActiveTurns, Modes
<1>2. /\ n \in States /\ n.active = NoTurn /\ n.thread = m.thread
      /\ n.cand = m.cand /\ n.parent = m.parent /\ n.before = m.before
      /\ n.candResult = m.candResult /\ n.counted = m.counted /\ n.total = m.total
  BY <1>1 DEF States
<1>3. Fin \ {0} = Fin
  BY FinFinite
<1>4. m.total = Cardinality(Fin)
  BY DEF Sound, Tally
<1>5. Tally(n)
  BY <1>1, <1>2, <1>3, <1>4 DEF Tally
<1>6. made \in Nat
  BY RunnerAssumption DEF IInv, TypeOK
<1>7. Sound(n)
  BY <1>1, <1>2, <1>5, <1>6 DEF Sound
<1> QED BY <1>2, <1>7 DEF Cleared

\* The steps after judgement that leave everything but the state file alone
Filing == UNCHANGED <<tree, world, remote, hub, verified>>

LEMMA JudgedTypes ==
  ASSUME IInv
  PROVE  /\ tree \in [there : BOOLEAN, head : Commits, dirty : SUBSET Turns]
         /\ pr \in BOOLEAN /\ comments \in [Turns -> Nat]
         /\ verified \subseteq Commits /\ Alien \notin verified
         /\ remote \in Commits \union {None} /\ VerifiedOnly
BY DEF IInv, TypeOK, StateBook

LEMMA DoneStep ==
  ASSUME IInv, host.pc \in Judged, NEW status \in Statuses, status # "START_FAILED_NO_THREAD",
         Done(status), verified' = verified \/ (verified \subseteq verified' /\ verified' \subseteq Commits /\ Alien \notin verified'),
         UNCHANGED <<tree, world, remote, hub>>
  PROVE  IInv'
<1> PICK s : s = Disposed([host.mem EXCEPT !.status = status], Current)
  OBVIOUS
<1>1. Kin(s, host.mem)
  BY JudgedFacts, Filed
<1>2. Save(s, "finish") /\ "finish" \in Judged /\ "finish" \notin Publishing
  BY DEF Done, Judged, Publishing
<1> QED BY <1>1, <1>2, JudgedTypes, FileStep DEF hub

LEMMA PublicationStep ==
  ASSUME IInv, host.pc \in Judged, NEW status \in Statuses, status # "START_FAILED_NO_THREAD",
         NEW pc2 \in Judged, pc2 \notin {"prepare", "push", "dispatch"},
         pc2 \in Publishing => host.mem.candResult = Current,
         Publication(status, pc2), pr' \in BOOLEAN,
         UNCHANGED <<tree, world, remote, comments, verified>>
  PROVE  IInv'
<1> PICK s : s = [host.mem EXCEPT !.status = status]
  OBVIOUS
<1>1. Kin(s, host.mem)
  BY JudgedFacts, Refiled
<1>2. Save(s, pc2)
  BY DEF Publication
<1> QED BY <1>1, <1>2, JudgedTypes, FileStep

LEMMA MoveOnStep ==
  ASSUME IInv, host.pc \in Judged, NEW pc2 \in Judged, pc2 # "prepare", Goto(pc2),
         pc2 \in Publishing => host.mem.candResult = Current,
         pc2 = "push" => tree'.head = host.mem.cand,
         pc2 = "dispatch" => turn[Current].result \in Answers,
         tree' \in [there : BOOLEAN, head : Commits, dirty : SUBSET Turns],
         pr' \in BOOLEAN, comments' \in [Turns -> Nat],
         UNCHANGED <<disk, world, verified>>, remote' \in Commits \union {None}, VerifiedOnly'
  PROVE  IInv'
<1> PICK s : s = host.mem
  OBVIOUS
<1>1. Kin(s, host.mem)
  BY JudgedFacts, SelfKin
<1>2. host' = [host EXCEPT !.pc = pc2, !.mem = s]
  BY GotoForm DEF IInv
<1> QED BY <1>1, <1>2, JudgedTypes, PassStep

LEMMA JudgeStep ==
  ASSUME IInv, Judge
  PROVE  IInv'
<1>1. host.pc = "judge" /\ host.pc \in Judged
  BY DEF Judge, At, Judged
<1>2. tree' \in [there : BOOLEAN, head : Commits, dirty : SUBSET Turns]
      /\ Filing
  BY DEF Judge, IInv, TypeOK, Filing
<1>3. ASSUME NEW status \in Statuses, status # "START_FAILED_NO_THREAD",
             Save(Cleared(Disposed([host.mem EXCEPT !.status = status], Current)), "idle")
      PROVE  IInv'
  <2> PICK k : k = Disposed([host.mem EXCEPT !.status = status], Current)
    OBVIOUS
  <2>1. Kin(k, host.mem)
    BY <1>1, <1>3, JudgedFacts, Filed
  <2>2. k \in States /\ Sound(k) /\ k.counted = k.active.turn /\ k.thread # 0
    BY <1>1, <2>1, JudgedFacts, KinSound DEF Kin, Active, Current
  <2> PICK s : s = Cleared(k)
    OBVIOUS
  <2>3. s \in States /\ Sound(s)
    BY <2>2, ClearedSound
  <2>4. Save(s, "idle")
    BY <1>3
  <2> QED BY <1>1, <1>2, <2>3, <2>4, JudgedFacts, LastSave DEF Filing
<1>4. CASE Goto("dispatch") /\ UNCHANGED disk /\ turn[Current].result \in Answers
  <2>1. "dispatch" \in Judged \ Publishing
    BY DEF Judged, Publishing
  <2>2. VerifiedOnly'
    BY <1>2 DEF IInv, VerifiedOnly, Filing, world
  <2> QED BY <1>1, <1>2, <1>4, <2>1, <2>2, JudgedTypes, MoveOnStep DEF Filing, hub
<1>5. {"TURN_FAILED", "EMPTY_RESULT", "INVALID_RESULT"} \subseteq Statuses
  BY DEF Statuses
<1>6. turn[Current].exit \in {"ok", "failed"} /\ turn[Current].result \in Results
  BY <1>1, JudgedFacts DEF IInv, TurnBook, TypeOK, Files
<1> QED BY <1>3, <1>4, <1>5, <1>6 DEF Judge, Answers

LEMMA DispatchStep ==
  ASSUME IInv, Dispatch
  PROVE  IInv'
<1>1. host.pc \in Judged /\ Filing
  BY DEF Dispatch, At, Judged, Filing
<1>2. ASSUME NEW status \in Statuses, status # "START_FAILED_NO_THREAD", Done(status)
      PROVE  IInv'
  BY <1>1, <1>2, DoneStep DEF Filing
<1>3. ASSUME NEW pc2 \in {"finish", "v2"}, Goto(pc2), UNCHANGED disk
      PROVE  IInv'
  <2>1. pc2 \in Judged \ Publishing /\ pc2 \notin {"prepare", "push", "dispatch"}
    BY <1>3 DEF Judged, Publishing
  <2>2. VerifiedOnly'
    BY <1>1 DEF IInv, VerifiedOnly, Filing, world
  <2> QED BY <1>1, <1>3, <2>1, <2>2, JudgedTypes, MoveOnStep DEF Filing, hub
<1>4. CASE Save([host.mem EXCEPT !.status = "BLOCKER_PENDING_GITHUB"], "blocker")
  <2>1. "blocker" \in Judged \ Publishing /\ "BLOCKER_PENDING_GITHUB" \in Statuses
    BY DEF Judged, Publishing, Statuses
  <2>2. Publication("BLOCKER_PENDING_GITHUB", "blocker")
    BY <1>4 DEF Publication
  <2> QED BY <1>1, <2>1, <2>2, JudgedTypes, PublicationStep DEF Filing, hub
<1>5. CASE host.mem.candResult = Current /\ Save(Disposed(host.mem, Current), "pending")
  <2> PICK s : s = Disposed(host.mem, Current)
    OBVIOUS
  <2>1. "pending" \in Judged
    BY DEF Judged, Publishing
  <2>2. Kin(s, host.mem)
    BY <1>1, JudgedFacts, DisposedKin
  <2> QED BY <1>1, <1>5, <2>1, <2>2, JudgedTypes, FileStep DEF Filing, hub
<1>6. {"CONTINUE", "NO_OP", "INVALID_NO_OP", "INVALID_CANDIDATE_READY"} \subseteq Statuses
  BY DEF Statuses
<1>7. turn[Current].result \in {"CONTINUE", "BLOCKED", "NO_OP", "CANDIDATE_READY"}
  BY DEF Dispatch, At, IInv, TurnBook, Answers, Results
<1>8. CASE host.mem.last = Current
  BY <1>3, <1>8 DEF Dispatch
<1>9. CASE host.mem.last # Current
  <2>1. CASE turn[Current].result = "CONTINUE"
    BY <1>2, <1>6, <1>9, <2>1 DEF Dispatch
  <2>2. CASE turn[Current].result = "BLOCKED"
    BY <1>4, <1>9, <2>2 DEF Dispatch
  <2>3. CASE turn[Current].result = "NO_OP"
    BY <1>2, <1>6, <1>9, <2>3 DEF Dispatch
  <2>4. CASE turn[Current].result = "CANDIDATE_READY"
    BY <1>2, <1>3, <1>5, <1>6, <1>9, <2>4 DEF Dispatch
  <2> QED BY <1>7, <2>1, <2>2, <2>3, <2>4
<1> QED BY <1>8, <1>9

LEMMA BlockerStep ==
  ASSUME IInv, Blocker
  PROVE  IInv'
<1>1. host.pc \in Judged /\ "blocked" \in Judged \ Publishing
  BY DEF Blocker, At, Judged, Publishing
<1>2. comments' \in [Turns -> Nat]
  <2>1. Current \in Turns /\ comments \in [Turns -> Nat]
    BY <1>1, JudgedFacts, JudgedTypes
  <2> QED BY <2>1 DEF Blocker
<1>3. VerifiedOnly'
  BY DEF Blocker, IInv, VerifiedOnly, world
<1>4. /\ Goto("blocked") /\ disk' = disk /\ world' = world /\ verified' = verified
      /\ tree' = tree /\ remote' = remote /\ pr' = pr
  BY DEF Blocker
<1> QED BY <1>1, <1>2, <1>3, <1>4, JudgedTypes, MoveOnStep

LEMMA BlockedStep ==
  ASSUME IInv, Blocked
  PROVE  IInv'
<1>1. host.pc \in Judged /\ "BLOCKED" \in Statuses
  BY DEF Blocked, At, Judged, Statuses
<1> QED BY <1>1, DoneStep DEF Blocked

LEMMA FinishStep ==
  ASSUME IInv, Finish
  PROVE  IInv'
<1>1. host.pc \in Judged
  BY DEF Finish, At, Judged
<1>2. CASE Save(Cleared(host.mem), "idle")
  <2> PICK s : s = Cleared(host.mem)
    OBVIOUS
  <2>1. s \in States /\ Sound(s)
    BY <1>1, JudgedFacts, ClearedSound DEF Active, Current
  <2> QED BY <1>1, <1>2, <2>1, JudgedFacts, JudgedTypes, LastSave DEF Finish
<1>3. CASE Return /\ UNCHANGED disk
  BY <1>3, JudgedTypes, QuitStep DEF Finish
<1> QED BY <1>2, <1>3 DEF Finish

LEMMA V2Step ==
  ASSUME IInv, V2
  PROVE  IInv'
<1>1. host.pc \in Judged /\ "prepare" \in Judged \ Publishing
  BY DEF V2, At, Judged, Publishing
<1>2. TypeOK /\ Candidate \in Commits /\ Candidate # Alien
  BY CandidateCommit DEF IInv
<1>3. PICK outcome \in {"ok", "failed"} :
        /\ verified' = IF outcome = "ok" THEN verified \union {Candidate} ELSE verified
        /\ IF Passes(outcome) THEN Goto("prepare") /\ UNCHANGED disk ELSE Done("V2_FAILED")
  BY DEF V2
<1>4. verified \subseteq verified' /\ verified' \subseteq Commits /\ Alien \notin verified'
  BY <1>2, <1>3, JudgedTypes
<1>5. UNCHANGED <<tree, world, remote, hub>>
  BY DEF V2
<1>6. CASE outcome = "ok"
  <2> PICK s : s = host.mem
    OBVIOUS
  <2>1. Goto("prepare") /\ UNCHANGED disk
    BY <1>3, <1>6 DEF Passes
  <2>2. Kin(s, host.mem)
    BY <1>1, JudgedFacts, SelfKin
  <2>3. host' = [host EXCEPT !.pc = "prepare", !.mem = s]
    BY <2>1, GotoForm DEF IInv
  <2>4. Candidate' \in verified'
    BY <1>3, <1>5, <1>6 DEF Candidate
  <2>5. VerifiedOnly'
    BY <1>4, <1>5 DEF IInv, VerifiedOnly, world
  <2> QED BY <1>1, <1>4, <1>5, <2>1, <2>2, <2>3, <2>4, <2>5, JudgedTypes, PassStep DEF hub
<1>7. CASE outcome = "failed"
  <2>1. Done("V2_FAILED") /\ "V2_FAILED" \in Statuses
    BY <1>3, <1>7 DEF Passes, Statuses
  <2> QED BY <1>1, <1>4, <1>5, <2>1, DoneStep
<1> QED BY <1>6, <1>7

\* Nobody is alive to edit between the verification and the commit, so what is
\* committed is what Host V2 passed.
LEMMA PrepareStep ==
  ASSUME IInv, Prepare
  PROVE  IInv'
<1>1. host.pc \in Judged /\ host.pc = "prepare"
  BY DEF Prepare, At, Judged
<1> PICK seen \in {remote, None} :
      Save([host.mem EXCEPT !.status = "COMMIT_PREPARED", !.candResult = Current,
              !.cand = Candidate, !.parent = tree.head, !.before = seen], "reset")
  BY DEF Prepare
<1> PICK m : m = host.mem
  OBVIOUS
<1> PICK c : c = Current
  OBVIOUS
<1> PICK k : k = Candidate
  OBVIOUS
<1> PICK p : p = tree.head
  OBVIOUS
<1>2. /\ k \in Commits /\ p \in Commits /\ k \in verified /\ Diff(p, k) \subseteq Turns
      /\ seen \in Commits \union {None} /\ k # None /\ p # None
  BY <1>1, CandidateCommit, CandidateAdds, RunnerAssumption DEF IInv, TypeOK, TreeBook
<1>3. /\ m \in States /\ Sound(m) /\ c \in Turns /\ c \in 0..MaxTurns /\ c # 0 /\ c = m.active.turn
      /\ m.counted = c /\ m.thread # 0 /\ ~Alive(c) /\ \A t \in Turns : ~Alive(t)
      /\ turn[c].thread # 0 /\ turn[c].exit # "none"
  BY <1>1, JudgedFacts DEF Active, Current, IInv, TurnBook
<1> PICK s : s = [m EXCEPT !.status = "COMMIT_PREPARED", !.candResult = c,
                            !.cand = k, !.parent = p, !.before = seen]
  OBVIOUS
<1>4. /\ s \in States /\ s.status = "COMMIT_PREPARED" /\ s.active = m.active /\ s.thread = m.thread
      /\ s.cand = k /\ s.parent = p /\ s.before = seen
      /\ s.candResult = c /\ s.counted = m.counted /\ s.total = m.total
  <2>1. "COMMIT_PREPARED" \in Statuses /\ k \in Commits \union {None} /\ p \in Commits \union {None}
    BY <1>2 DEF Statuses
  <2>2. s \in States
    BY <1>2, <1>3, <2>1 DEF States
  <2> QED BY <1>3, <2>2 DEF States
<1>5. Sound(s)
  <2>1. Tally(s)
    BY <1>3, <1>4 DEF Sound, Tally
  <2> QED BY <1>2, <1>3, <1>4, <2>1 DEF Sound
<1>6. Save(s, "reset") /\ "reset" \in Pcs \ {"idle"} /\ "reset" \in Publishing
  BY DEF Pcs, Judged, Publishing
<1>7. /\ HostBook' /\ TurnBook' /\ TreeBook' => IInv'
      /\ host'.pc = "reset" /\ host'.mem = s /\ disk' = s /\ host'.cmd = host.cmd
      /\ host'.onto <= main' /\ turn' = turn
  BY <1>3, <1>4, <1>5, <1>6, SaveStep DEF Prepare, world
<1>8. s # None /\ Active' = m.active /\ Current' = c
  BY <1>3, <1>4, <1>7, RunnerAssumption DEF Active, Current
<1>9. HostBook'
  BY <1>4, <1>7, <1>8 DEF HostBook, Opening, Starting, Running, Moving
<1>10. TurnBook'
  BY <1>3, <1>4, <1>7, <1>8 DEF TurnBook, Running, Judged, Publishing, Alive
<1>11. TreeBook'
  BY <1>4, <1>7, <1>8 DEF TreeBook, Publishing, Moving
<1> QED BY <1>7, <1>9, <1>10, <1>11

\* The candidate that is being published passed Host V2.
LEMMA PublishingFacts ==
  ASSUME IInv, host.pc \in Publishing
  PROVE  /\ host.pc \in Judged /\ host.mem.candResult = Current
         /\ host.mem.cand # None /\ host.mem.cand \in Commits /\ host.mem.cand \in verified
<1>1. host.pc \in Judged
  BY DEF Judged
<1>2. host.mem.candResult = Current
  BY DEF IInv, TreeBook
<1>3. host.mem.cand # None /\ host.mem.cand \in verified
  BY <1>1, <1>2, JudgedFacts DEF Sound
<1> QED BY <1>1, <1>2, <1>3, JudgedTypes

\* The worktree is reset to the candidate, or it is not.
LEMMA ResetTree ==
  ASSUME IInv, host.pc \in Publishing
  PROVE  [tree EXCEPT !.head = host.mem.cand, !.dirty = {}] \in [there : BOOLEAN, head : Commits, dirty : SUBSET Turns]
<1> PICK k : k = host.mem.cand
  OBVIOUS
<1>1. k \in Commits
  BY PublishingFacts
<1>2. {} \in SUBSET Turns
  OBVIOUS
<1> QED BY <1>1, <1>2, JudgedTypes

LEMMA ResetStep ==
  ASSUME IInv, Reset
  PROVE  IInv'
<1>1. host.pc \in Publishing /\ host.pc \in Judged
  BY DEF Reset, At, Judged, Publishing
<1> PICK s : s = Disposed(host.mem, Current)
  OBVIOUS
<1>2. Kin(s, host.mem)
  BY <1>1, JudgedFacts, DisposedKin
<1>3. tree' \in [there : BOOLEAN, head : Commits, dirty : SUBSET Turns]
  BY <1>1, ResetTree, JudgedTypes DEF Reset
<1>4. VerifiedOnly' /\ UNCHANGED <<world, remote, hub, verified>>
  BY DEF Reset, IInv, VerifiedOnly, world
<1>5. PICK pc2 \in {"committed", "finish"} : Think(s, pc2)
  BY DEF Reset
<1>6. host' = [host EXCEPT !.pc = pc2, !.mem = s] /\ disk' = disk
  BY <1>5 DEF Think
<1>7. pc2 \in Judged /\ pc2 \notin {"prepare", "push", "dispatch"}
  BY DEF Judged, Publishing
<1> QED BY <1>1, <1>2, <1>3, <1>4, <1>6, <1>7, PublishingFacts, JudgedTypes, PassStep DEF hub

LEMMA CommittedStep ==
  ASSUME IInv, Committed
  PROVE  IInv'
<1>1. /\ host.pc \in Publishing /\ "publish" \in Judged /\ "COMMITTED_PENDING_PUSH" \in Statuses
  BY DEF Committed, At, Judged, Publishing, Statuses
<1>2. Publication("COMMITTED_PENDING_PUSH", "publish")
  BY DEF Committed, Publication
<1> QED BY <1>1, <1>2, PublishingFacts, JudgedTypes, PublicationStep DEF Committed, hub

LEMMA PendingStep ==
  ASSUME IInv, Pending
  PROVE  IInv'
<1>1. host.pc \in Publishing
  BY DEF Pending, At, Publishing
<1>2. PICK pc2 \in {"prepared", "publish", "finalize", "finish"} : Goto(pc2)
  BY DEF Pending
<1>3. pc2 \in Judged /\ pc2 \notin {"prepare", "push", "dispatch"}
  BY DEF Judged, Publishing
<1>4. VerifiedOnly' /\ UNCHANGED <<disk, tree, world, remote, hub, verified>>
  BY DEF Pending, IInv, VerifiedOnly, world
<1> QED BY <1>1, <1>2, <1>3, <1>4, PublishingFacts, JudgedTypes, MoveOnStep DEF hub

LEMMA PreparedStep ==
  ASSUME IInv, Prepared
  PROVE  IInv'
<1>1. host.pc \in Publishing
  BY DEF Prepared, At, Publishing
<1>2. VerifiedOnly' /\ UNCHANGED <<world, remote, hub, verified>>
  BY DEF Prepared, IInv, VerifiedOnly, world
<1>3. tree' \in [there : BOOLEAN, head : Commits, dirty : SUBSET Turns]
  BY <1>1, ResetTree, JudgedTypes DEF Prepared
<1>4. ASSUME NEW pc2 \in {"committed", "finish"}, Goto(pc2), UNCHANGED disk
      PROVE  IInv'
  <2>1. pc2 \in Judged /\ pc2 \notin {"prepare", "push", "dispatch"}
    BY DEF Judged, Publishing
  <2> QED BY <1>1, <1>2, <1>3, <1>4, <2>1, PublishingFacts, JudgedTypes, MoveOnStep DEF hub
<1>5. CASE Publication("PUBLISH_INCONCLUSIVE", "finish") /\ UNCHANGED tree
  <2>1. "PUBLISH_INCONCLUSIVE" \in Statuses /\ "finish" \in Judged \ Publishing
    BY DEF Statuses, Judged, Publishing
  <2> QED BY <1>1, <1>2, <1>5, <2>1, PublishingFacts, JudgedTypes, PublicationStep DEF hub
<1> QED BY <1>4, <1>5 DEF Prepared

LEMMA PublishStep ==
  ASSUME IInv, Publish
  PROVE  IInv'
<1>1. host.pc \in Publishing
  BY DEF Publish, At, Publishing
<1>2. VerifiedOnly' /\ UNCHANGED <<tree, world, remote, hub, verified>>
  BY DEF Publish, IInv, VerifiedOnly, world
<1>3. ASSUME NEW status \in {"PUBLISH_INCONCLUSIVE", "PUSHED_PENDING_GITHUB"},
             NEW pc2 \in {"finish", "finalize"}, Publication(status, pc2)
      PROVE  IInv'
  <2>1. /\ status \in Statuses /\ status # "START_FAILED_NO_THREAD"
        /\ pc2 \in Judged /\ pc2 \notin {"prepare", "push", "dispatch"}
    BY DEF Statuses, Judged, Publishing
  <2> QED BY <1>1, <1>2, <1>3, <2>1, PublishingFacts, JudgedTypes, PublicationStep DEF hub
<1>4. CASE tree.head = host.mem.cand /\ Goto("push") /\ UNCHANGED disk
  <2>1. "push" \in Judged
    BY DEF Judged, Publishing
  <2> QED BY <1>1, <1>2, <1>4, <2>1, PublishingFacts, JudgedTypes, MoveOnStep DEF hub
<1> QED BY <1>3, <1>4 DEF Publish

LEMMA PushStep ==
  ASSUME IInv, Push
  PROVE  IInv'
<1>1. host.pc \in Publishing /\ "confirm" \in Judged
  BY DEF Push, At, Publishing, Judged
<1>2. tree.head = host.mem.cand
  BY DEF Push, At, IInv, TreeBook
<1>3. remote' \in Commits \union {None} /\ remote' \in {remote} \union verified
  BY <1>1, <1>2, PublishingFacts, JudgedTypes DEF Push
<1>4. UNCHANGED <<disk, tree, world, hub, verified>> /\ Goto("confirm")
  BY DEF Push
<1>5. VerifiedOnly'
  BY <1>3, <1>4 DEF IInv, VerifiedOnly, world
<1> QED BY <1>1, <1>3, <1>4, <1>5, PublishingFacts, JudgedTypes, MoveOnStep DEF hub

LEMMA ConfirmStep ==
  ASSUME IInv, Confirm
  PROVE  IInv'
<1>1. host.pc \in Publishing
  BY DEF Confirm, At, Publishing
<1>2. UNCHANGED <<tree, world, remote, hub, verified>>
  BY DEF Confirm
<1>3. PICK status \in {"PUBLISH_CONFIRMATION_PENDING", "PUSHED_PENDING_GITHUB",
                       "COMMITTED_PENDING_PUSH", "PUBLISH_INCONCLUSIVE"},
           pc2 \in {"finish", "finalize"} : Publication(status, pc2)
  BY DEF Confirm
<1>4. /\ status \in Statuses /\ status # "START_FAILED_NO_THREAD"
      /\ pc2 \in Judged /\ pc2 \notin {"prepare", "push", "dispatch"}
  BY DEF Statuses, Judged, Publishing
<1> QED BY <1>1, <1>2, <1>3, <1>4, PublishingFacts, JudgedTypes, PublicationStep DEF hub

LEMMA FinalizeStep ==
  ASSUME IInv, Finalize
  PROVE  IInv'
<1>1. host.pc \in Publishing
  BY DEF Finalize, At, Publishing
<1>2. UNCHANGED <<tree, world, remote, comments, verified>> /\ pr' \in BOOLEAN
  BY JudgedTypes DEF Finalize, EnsurePR
<1>3. ASSUME NEW status \in {"PUBLISH_CONFIRMATION_PENDING", "PUBLISH_INCONCLUSIVE", "PUSHED_PENDING_GITHUB"},
             Publication(status, "finish")
      PROVE  IInv'
  <2>1. /\ status \in Statuses /\ status # "START_FAILED_NO_THREAD"
        /\ "finish" \in Judged \ Publishing
    BY DEF Statuses, Judged, Publishing
  <2> QED BY <1>1, <1>2, <1>3, <2>1, PublishingFacts, PublicationStep
<1>4. CASE Goto("verify") /\ UNCHANGED disk
  <2>1. "verify" \in Judged
    BY DEF Judged, Publishing
  <2>2. VerifiedOnly'
    BY <1>2 DEF IInv, VerifiedOnly, world
  <2> QED BY <1>1, <1>2, <1>4, <2>1, <2>2, PublishingFacts, JudgedTypes, MoveOnStep
<1> QED BY <1>3, <1>4 DEF Finalize

LEMMA VerifyStep ==
  ASSUME IInv, Verify
  PROVE  IInv'
<1>1. host.pc \in Publishing
  BY DEF Verify, At, Publishing
<1>2. PICK status \in {"CANDIDATE", "PUSHED_PENDING_GITHUB"} : Publication(status, "finish")
  BY DEF Verify
<1>3. /\ status \in Statuses /\ status # "START_FAILED_NO_THREAD"
      /\ "finish" \in Judged \ Publishing
  BY DEF Statuses, Judged, Publishing
<1> QED BY <1>1, <1>2, <1>3, PublishingFacts, JudgedTypes, PublicationStep DEF Verify, hub

(***************************************************************************)
(* A candidate moves to a new base.                                        *)
(***************************************************************************)
LEMMA MovingFacts ==
  ASSUME IInv, host.pc \in Moving
  PROVE  /\ host.mem \in States /\ Sound(host.mem) /\ host.mem # None /\ disk # None
         /\ Active = NoTurn /\ Active = disk.active
         /\ host.mem.cand = disk.cand /\ host.mem.before = disk.before
         /\ host.mem.cand # None /\ host.mem.cand \in Commits /\ host.mem.cand \in verified
         /\ host.mem.parent # None /\ host.mem.parent \in Commits
         /\ Diff(host.mem.parent, host.mem.cand) \subseteq Turns
         /\ \A t \in Turns : ~Alive(t)
         /\ host.onto \in 0..MaxMain /\ host.onto <= main
<1>1. host.pc \notin Opening \union {"idle"}
  BY DEF Opening, Moving
<1>2. Active = NoTurn /\ host.mem.cand # None /\ host.onto \in 0..MaxMain /\ host.onto <= main
  BY DEF IInv, HostBook, TreeBook, TypeOK
<1>3. /\ host.mem \in States /\ Sound(host.mem) /\ host.mem # None /\ disk # None
      /\ Active = disk.active
      /\ host.mem.cand = disk.cand /\ host.mem.before = disk.before
  BY <1>1, Copy
<1>4. host.mem.cand \in verified /\ host.mem.parent # None
      /\ Diff(host.mem.parent, host.mem.cand) \subseteq Turns
  BY <1>2, <1>3 DEF Sound
<1>5. host.mem.cand \in Commits /\ host.mem.parent \in Commits
  BY <1>2, <1>3, <1>4 DEF States
<1>6. \A t \in Turns : ~Alive(t)
  <2>1. disk.active = NoTurn /\ NoTurn.turn = 0
    BY <1>2, <1>3 DEF NoTurn
  <2>2. disk.active.turn = 0
    BY <2>1
  <2> QED BY <2>2, NobodyAlive
<1> QED BY <1>2, <1>3, <1>4, <1>5, <1>6

LEMMA MovingStep ==
  ASSUME IInv, host.pc \in Moving, NEW pc2 \in Moving, Goto(pc2),
         tree' \in [there : BOOLEAN, head : Commits, dirty : SUBSET Turns],
         pc2 \in {"apply", "move"} => tree'.head = MainHead(host.onto),
         remote' \in Commits \union {None}, VerifiedOnly',
         UNCHANGED <<disk, world, hub, verified>>
  PROVE  IInv'
<1>1. pc2 \in Pcs
  BY DEF Pcs
<1>2. /\ HostBook' /\ TurnBook' /\ TreeBook' => IInv'
      /\ host'.pc = pc2 /\ host'.mem = host.mem /\ host'.cmd = host.cmd
      /\ host'.onto = host.onto /\ host'.onto <= main'
      /\ Active' = Active /\ disk' = disk
  BY <1>1, GoStep
<1>3. pc2 \notin Opening \union Starting \union Running \union Judged \union
                   {"idle", "recover", "wait", "exited", "evidence", "dispatch", "prepare", "push"}
      /\ pc2 \notin Publishing
  BY DEF Moving, Opening, Starting, Running, Judged, Publishing
<1>4. HostBook'
  BY <1>2, <1>3, MovingFacts DEF HostBook
<1>5. TurnBook'
  BY <1>2, <1>3 DEF TurnBook
<1>6. TreeBook'
  BY <1>2, <1>3, MovingFacts DEF TreeBook
<1> QED BY <1>2, <1>4, <1>5, <1>6

LEMMA RebaseStep ==
  ASSUME IInv, Rebase
  PROVE  IInv'
<1>1. host.pc \in Moving /\ "apply" \in Moving
  BY DEF Rebase, At, Moving
<1> PICK k : k = MainHead(host.onto)
  OBVIOUS
<1>2. k \in Commits
  BY <1>1, MovingFacts, MainCommit
<1>3. tree' = [tree EXCEPT !.head = k, !.dirty = {}]
  BY DEF Rebase
<1>4. tree' \in [there : BOOLEAN, head : Commits, dirty : SUBSET Turns] /\ tree'.head = k
  BY <1>2, <1>3, JudgedTypes
<1>5. VerifiedOnly'
  BY DEF Rebase, IInv, VerifiedOnly, world
<1> QED BY <1>1, <1>4, <1>5, JudgedTypes, MovingStep DEF Rebase

LEMMA ApplyStep ==
  ASSUME IInv, Apply
  PROVE  IInv'
<1>1. host.pc \in Moving /\ "move" \in Moving
  BY DEF Apply, At, Moving
<1>2. VerifiedOnly' /\ UNCHANGED <<disk, world, remote, hub, verified>>
  BY DEF Apply, IInv, VerifiedOnly, world
<1>3. CASE tree' = [tree EXCEPT !.dirty = Diff(host.mem.parent, host.mem.cand)] /\ Goto("move")
  <2> PICK e : e = Diff(host.mem.parent, host.mem.cand)
    OBVIOUS
  <2>1. e \in SUBSET Turns
    BY <1>1, MovingFacts
  <2>2. tree.head = MainHead(host.onto)
    BY DEF Apply, At, IInv, TreeBook
  <2>3. tree' \in [there : BOOLEAN, head : Commits, dirty : SUBSET Turns] /\ tree'.head = tree.head
    BY <1>3, <2>1, JudgedTypes
  <2> QED BY <1>1, <1>2, <1>3, <2>2, <2>3, JudgedTypes, MovingStep
<1>4. CASE tree' = [tree EXCEPT !.head = host.mem.cand] /\ Return
  <2> PICK k : k = host.mem.cand
    OBVIOUS
  <2>1. k \in Commits
    BY <1>1, MovingFacts
  <2>2. tree' \in [there : BOOLEAN, head : Commits, dirty : SUBSET Turns]
    BY <1>4, <2>1, JudgedTypes
  <2> QED BY <1>2, <1>4, <2>2, QuitStep
<1> QED BY <1>3, <1>4 DEF Apply

LEMMA MoveStep ==
  ASSUME IInv, Move
  PROVE  IInv'
<1>1. host.pc \in Moving
  BY DEF Move, At, Moving
<1>2. tree.head = MainHead(host.onto)
  BY DEF Move, At, IInv, TreeBook
<1>3. PICK pc2 \in {"moved", "restore"} : Goto(pc2)
  BY DEF Move
<1>4. pc2 \in Moving /\ pc2 \notin {"apply", "move"}
  BY DEF Moving
<1>5. remote' \in {remote, MainHead(host.onto)} /\ UNCHANGED <<disk, tree, world, hub, verified>>
  BY <1>2 DEF Move
<1>6. remote' \in Commits \union {None}
  BY <1>1, <1>5, MovingFacts, MainCommit, JudgedTypes
<1>7. VerifiedOnly'
  <2>1. host.onto \in 0..main
    BY <1>1, MovingFacts, RunnerAssumption DEF IInv, TypeOK
  <2> QED BY <1>5, <2>1 DEF IInv, VerifiedOnly, world
<1> QED BY <1>1, <1>3, <1>4, <1>5, <1>6, <1>7, JudgedTypes, MovingStep

LEMMA RestoreStep ==
  ASSUME IInv, Restore
  PROVE  IInv'
<1>1. host.pc \in Moving
  BY DEF Restore, At, Moving
<1> PICK k : k = host.mem.cand
  OBVIOUS
<1>2. k \in Commits
  BY <1>1, MovingFacts
<1>3. tree' = [tree EXCEPT !.head = k, !.dirty = {}]
  BY DEF Restore
<1>4. tree' \in [there : BOOLEAN, head : Commits, dirty : SUBSET Turns]
  BY <1>2, <1>3, JudgedTypes
<1> QED BY <1>4, QuitStep DEF Restore

LEMMA MovedStep ==
  ASSUME IInv, Moved
  PROVE  IInv'
<1>1. host.pc \in Moving
  BY DEF Moved, At, Moving
<1> PICK m : m = host.mem
  OBVIOUS
<1>2. m \in States /\ Sound(m) /\ \A t \in Turns : ~Alive(t)
  BY <1>1, MovingFacts
<1> PICK s : s = [m EXCEPT !.status = "RECONCILING", !.cand = None, !.parent = None,
                           !.before = None, !.candResult = 0]
  OBVIOUS
<1>3. /\ s \in States /\ s.status = "RECONCILING" /\ s.active = m.active /\ s.thread = m.thread
      /\ s.cand = None /\ s.candResult = 0 /\ s.counted = m.counted /\ s.total = m.total
  <2>1. "RECONCILING" \in Statuses /\ None \in Commits \union {None} /\ 0 \in 0..MaxTurns
    BY RunnerAssumption DEF Statuses
  <2>2. s \in States
    BY <1>2, <2>1 DEF States
  <2> QED BY <1>2, <2>2 DEF States
<1>4. Sound(s)
  BY <1>2, <1>3 DEF Sound, Tally
<1>5. Save(s, "idle")
  BY DEF Moved
<1> QED BY <1>2, <1>3, <1>4, <1>5, JudgedTypes, LastSave DEF Moved

(***************************************************************************)
(* The invariant, and what follows from it.                                *)
(***************************************************************************)
LEMMA HostInv ==
  ASSUME IInv, HostStep
  PROVE  IInv'
<1>1. CASE Repair \/ Align \/ Load \/ Worktree \/ Initialize
  BY <1>1, RepairStep, AlignStep, LoadStep, WorktreeStep, InitializeStep DEF Worktree
<1>2. CASE Intent \/ Spawn \/ Identity \/ Event \/ Bind \/ Reap
  BY <1>2, IntentStep, SpawnStep, IdentityStep, EventStep, BindStep, ReapStep
<1>3. CASE Exited \/ Judge \/ NotActive \/ Recover \/ Evidence
  BY <1>3, ExitedStep, JudgeStep, NotActiveStep, RecoverStep, EvidenceStep
<1>4. CASE Dispatch \/ Blocker \/ Blocked \/ Finish \/ V2 \/ Prepare
  BY <1>4, DispatchStep, BlockerStep, BlockedStep, FinishStep, V2Step, PrepareStep
<1>5. CASE Reset \/ Committed \/ Pending \/ Prepared \/ Publish \/ Push
  BY <1>5, ResetStep, CommittedStep, PendingStep, PreparedStep, PublishStep, PushStep
<1>6. CASE Confirm \/ Finalize \/ Verify
  BY <1>6, ConfirmStep, FinalizeStep, VerifyStep
<1>7. CASE Rebase \/ Apply \/ Move \/ Restore \/ Moved
  BY <1>7, RebaseStep, ApplyStep, MoveStep, RestoreStep, MovedStep
<1> QED BY <1>1, <1>2, <1>3, <1>4, <1>5, <1>6, <1>7 DEF HostStep

LEMMA StepInv == IInv /\ [Next]_runnerVars => IInv'
<1> SUFFICES ASSUME IInv, [Next]_runnerVars PROVE IInv'
  OBVIOUS
<1>1. CASE \/ StartCommand \/ RecoverCommand \/ ReconcileCommand
           \/ \E mode \in {"resume", "rotate"} : ResumeCommand(mode)
  BY <1>1, CommandStep
<1>2. CASE HostStep
  BY <1>2, HostInv
<1>3. CASE Crash
  BY <1>3, CrashStep
<1>4. CASE \E t \in Turns : Edit(t) \/ End(t)
  BY <1>4, EditStep, EndStep
<1>5. CASE Stop \/ MainMoves \/ ForeignPush
  BY <1>5, StopStep, MainStep, ForeignStep
<1>6. CASE UNCHANGED runnerVars
  <2>1. /\ Calm /\ turn' \in [Turns -> Files]
        /\ UNCHANGED <<disk, host, tree, made, main, remote, hub, verified>>
    BY <1>6, Unchanged DEF runnerVars, hub, IInv, TypeOK
  <2> QED BY <2>1, OutsideTurn
<1> QED BY <1>1, <1>2, <1>3, <1>4, <1>5, <1>6 DEF Next

LEMMA Invariance == Spec => []IInv
BY InitInv, StepInv, PTL DEF Spec

\* The state file, the worktree, the turns and GitHub keep their types, for any
\* number of turns, of moves of main and of killed commands.
THEOREM TypeCorrect == Spec => []TypeOK
<1>1. IInv => TypeOK
  BY DEF IInv
<1> QED BY <1>1, Invariance, PTL

\* However often commands are killed between two steps, two Codex processes never
\* share the worktree: a live one is always the active turn of the state file.
THEOREM SingleWriter == Spec => []OneWriter
<1>1. IInv => OneWriter
  <2> SUFFICES ASSUME IInv PROVE OneWriter
    OBVIOUS
  <2> DEFINE L == {t \in Turns : turn[t].proc = "alive"}
  <2>1. \A t, u \in L : t = u
    BY FileBook DEF Alive
  <2>2. CASE L = {}
    BY <2>2, FS_EmptySet DEF OneWriter
  <2>3. CASE L # {}
    <3>1. PICK t : t \in L
      BY <2>3
    <3>2. L = {t}
      BY <3>1, <2>1
    <3>3. Cardinality({t}) = 1
      BY FS_Singleton
    <3> QED BY <3>2, <3>3 DEF OneWriter
  <2> QED BY <2>2, <2>3
<1> QED BY <1>1, Invariance, PTL

\* When no command runs and no turn is recorded, the total of the state file is
\* the number of turns that ended with a thread, whatever recovery repeated.
THEOREM ExactCount == Spec => []CountedOnce
<1>1. IInv => CountedOnce
  <2> SUFFICES ASSUME IInv, disk # None, disk.active = NoTurn
               PROVE  disk.total = Cardinality(Fin)
    BY DEF CountedOnce, Fin
  <2>1. NoTurn.turn = 0
    BY DEF NoTurn
  <2>2. Tally(disk) /\ disk.active.turn = 0
    BY <2>1, FileBook DEF Sound
  <2>3. Fin \ {0} = Fin
    BY FinFinite
  <2> QED BY <2>2, <2>3 DEF Tally
<1> QED BY <1>1, Invariance, PTL

\* Only what Host V2 passed, or main itself, is ever put on the change branch.
THEOREM PublishesVerified == Spec => []VerifiedOnly
<1>1. IInv => VerifiedOnly
  BY DEF IInv
<1> QED BY <1>1, Invariance, PTL

\* A foreign commit is overwritten only by a candidate prepared in view of it.
THEOREM NothingForeignLost == Spec => LeaseHolds
<1>1. IInv /\ [Next]_runnerVars =>
        [remote = Alien => \/ remote' = Alien
                           \/ disk.before = Alien /\ disk.cand = remote']_remote
  <2> SUFFICES ASSUME IInv, [Next]_runnerVars, remote' # remote, remote = Alien
               PROVE  disk.before = Alien /\ disk.cand = remote'
    OBVIOUS
  <2>1. CASE Push
    <3>1. host.pc \in Judged /\ tree.head = host.mem.cand
      BY <2>1 DEF Push, At, Judged, Publishing, IInv, TreeBook
    <3>2. remote = host.mem.before /\ remote' = tree.head
      BY <2>1 DEF Push, Lease
    <3> QED BY <3>1, <3>2, JudgedFacts
  <2>2. CASE Move
    <3>1. host.pc \in Moving
      BY <2>2 DEF Move, At, Moving
    <3>2. remote = host.mem.cand
      BY <2>2 DEF Move, Lease
    <3> QED BY <3>1, <3>2, MovingFacts, FileBook
  <2>3. CASE HostStep /\ ~Push /\ ~Move
    BY <2>3 DEF HostStep, Repair, Align, Load, Worktree, Initialize, Intent, Spawn, Identity,
       Event, Bind, Reap, Exited, Judge, NotActive, Recover, Evidence, Dispatch, Blocker, Blocked,
       Finish, V2, Prepare, Reset, Committed, Pending, Prepared, Publish, Confirm, Finalize,
       Verify, Rebase, Apply, Restore, Moved
  <2>4. CASE ~HostStep
    BY <2>4 DEF Next, runnerVars, StartCommand, RecoverCommand, ReconcileCommand, ResumeCommand,
       Begin, Crash, Edit, End, Stop, MainMoves, ForeignPush
  <2> QED BY <2>1, <2>2, <2>3, <2>4 DEF HostStep
<1> QED BY <1>1, Invariance, PTL DEF Spec, LeaseHolds

\* No turn is commented as blocked twice, however often it is recovered.
THEOREM SingleBlocker == Spec => []BlockerOnce
<1>1. Init => BlockerOnce
  BY DEF Init, BlockerOnce
<1>2. IInv /\ BlockerOnce /\ [Next]_runnerVars => BlockerOnce'
  <2> SUFFICES ASSUME IInv, BlockerOnce, [Next]_runnerVars PROVE BlockerOnce'
    OBVIOUS
  <2>1. CASE Blocker
    <3>1. comments \in [Turns -> Nat]
      BY JudgedTypes
    <3>2. comments' = comments \/ (comments[Current] = 0 /\ comments' = [comments EXCEPT ![Current] = comments[Current] + 1])
      <4>1. Current \in Turns
        BY <2>1, JudgedFacts DEF Blocker, At, Judged
      <4> QED BY <2>1, <3>1, <4>1 DEF Blocker, MarkerPresent
    <3> QED BY <3>1, <3>2 DEF BlockerOnce
  <2>2. CASE HostStep /\ ~Blocker
    <3>1. comments' = comments
      BY <2>2 DEF HostStep, hub, Repair, Align, Load, Worktree, Initialize, Intent, Spawn, Identity,
       Event, Bind, Reap, Exited, Judge, NotActive, Recover, Evidence, Dispatch, Blocked,
       Finish, V2, Prepare, Reset, Committed, Pending, Prepared, Publish, Push, Confirm, Finalize,
       Verify, Rebase, Apply, Move, Restore, Moved
    <3> QED BY <3>1 DEF BlockerOnce
  <2>3. CASE ~HostStep
    <3>1. comments' = comments
      BY <2>3 DEF Next, hub, runnerVars, StartCommand, RecoverCommand, ReconcileCommand,
       ResumeCommand, Begin, Crash, Edit, End, Stop, MainMoves, ForeignPush
    <3> QED BY <3>1 DEF BlockerOnce
  <2> QED BY <2>1, <2>2, <2>3
<1> QED BY <1>1, <1>2, Invariance, PTL DEF Spec

(***************************************************************************)
(* The work of the turns.  What the worktree carries, what the state file  *)
(* records and what lies beneath that tell where the edits of a turn are.  *)
(***************************************************************************)
Carried  == tree.dirty \union Of(tree.head)
Recorded == IF disk = None THEN {} ELSE Of(disk.cand)
Standing == Recorded \subseteq Carried \union Beneath

\* A reconciliation was stopped on the bare new base: no command but reconcile
\* would go on from there, and that is refused too.
Bare == /\ disk # None /\ disk.active = NoTurn /\ disk.cand # None
        /\ tree.head.path = <<>> /\ remote \in {disk.cand, Alien}

\* The branch has nothing that is not here; a candidate rests on the worktree; and
\* while a turn is recorded the worktree has all that is on the branch, and its own
\* candidate has all that is in the worktree.
FileWork ==
  /\ ~tree.there => Carried = {}
  /\ Of(remote) \subseteq Carried \union Recorded \union Beneath
  /\ Standing \/ Bare
  /\ disk # None =>
       /\ disk.cand # None => disk.thread # 0 /\ disk.cand.path # <<>>
       /\ disk.candResult <= made
       /\ disk.active.turn # 0 =>
            /\ tree.there /\ Standing /\ Of(remote) \subseteq Carried
            /\ disk.candResult = disk.active.turn =>
                 ~Alive(disk.active.turn) /\ Carried \subseteq Recorded

CopyWork == host.mem # None =>
  /\ disk # None /\ host.mem.parent = disk.parent /\ host.mem.candResult = disk.candResult
  /\ host.mem.thread = disk.thread

\* Where a command may go on to a new turn, it has looked at the branch.
Readied == \/ host.pc \in {"initialize", "intent"}
           \/ host.pc = "recover" /\ host.cmd \in {"resume", "rotate"}
Seeing  == \/ host.pc \in Opening \union {"worktree"}
           \/ host.pc = "recover" /\ host.cmd = "start"

StartWork ==
  /\ Readied => tree.there /\ Standing /\ Of(remote) \subseteq Carried
  /\ Seeing => remote \in {host.seen, Alien}
  /\ host.pc = "worktree" => disk.cand = None
  /\ host.pc \in Opening => host.cmd = "start"
  /\ host.pc = "spawn" => disk.candResult # disk.active.turn

MoveWork ==
  /\ host.pc \in Moving => tree.there
  /\ host.pc = "rebase" => tree.head = disk.cand
  /\ host.pc \in {"rebase", "apply"} => remote \in {disk.cand, Alien} /\ tree.dirty = {}
  /\ host.pc \in {"move", "restore", "moved"} =>
       tree.head = MainHead(host.onto) /\ tree.dirty = Diff(host.mem.parent, host.mem.cand)
  /\ host.pc = "moved" => Of(remote) = {}

WInv == FileWork /\ CopyWork /\ StartWork /\ MoveWork
Keeps == Held \ Beneath \subseteq Held'

LEMMA HeldParts == Held = Carried \union Of(remote) \union Recorded
BY DEF Held, Carried, Recorded

(***************************************************************************)
(* The work in a commit.                                                   *)
(***************************************************************************)
LEMMA NoWork == Of(None) = {} /\ Of(Alien) = {} /\ \A m \in 0..MaxMain : Of(MainHead(m)) = {}
<1>1. Of(None) = {}
  BY DEF Of
<1>2. Work(Alien) = {0}
  <2>1. DOMAIN Alien.path = {1} /\ Alien.path[1] = {0}
    BY DEF Alien
  <2> QED BY <2>1 DEF Work
<1>3. 0 \notin Turns
  BY RunnerAssumption DEF Turns
<1>4. Of(Alien) = {}
  BY <1>2, <1>3 DEF Of
<1>5. ASSUME NEW m \in 0..MaxMain PROVE Of(MainHead(m)) = {}
  <2>1. MainHead(m).path = <<>>
    BY DEF MainHead
  <2>2. DOMAIN <<>> = {}
    OBVIOUS
  <2>3. Work(MainHead(m)) = {}
    BY <2>1, <2>2 DEF Work
  <2> QED BY <2>3 DEF Of
<1> QED BY <1>1, <1>4, <1>5

LEMMA OfWork == ASSUME NEW c \in Commits PROVE Of(c) = Work(c) \intersect Turns
BY RunnerAssumption DEF Of

LEMMA CandidateWork == ASSUME TypeOK PROVE Of(Candidate) = Carried
<1> DEFINE p == tree.head.path
           q == Append(p, tree.dirty)
<1>1. p \in Seq(SUBSET ({0} \union Turns)) /\ tree.dirty \subseteq Turns /\ tree.head \in Commits
  BY DEF TypeOK, Commits
<1>2. /\ DOMAIN q = 1..(Len(p) + 1) /\ DOMAIN p = 1..Len(p) /\ Len(p) \in Nat
      /\ q[Len(p) + 1] = tree.dirty
      /\ \A i \in 1..Len(p) : q[i] = p[i]
  BY <1>1
<1>3. Candidate.path = q /\ Candidate \in Commits
  BY CandidateCommit
<1>4. Work(Candidate) \subseteq Work(tree.head) \union tree.dirty
  <2> SUFFICES ASSUME NEW i \in DOMAIN q, NEW x \in q[i] PROVE x \in Work(tree.head) \union tree.dirty
    BY <1>3 DEF Work
  <2>1. CASE i \in 1..Len(p)
    BY <2>1, <1>2 DEF Work
  <2>2. CASE i = Len(p) + 1
    BY <2>2, <1>2
  <2> QED BY <2>1, <2>2, <1>2
<1>5. Work(tree.head) \subseteq Work(Candidate)
  <2> SUFFICES ASSUME NEW i \in DOMAIN p, NEW x \in p[i] PROVE x \in Work(Candidate)
    BY DEF Work
  <2>1. i \in DOMAIN q /\ q[i] = p[i]
    BY <1>2
  <2> QED BY <2>1, <1>3 DEF Work
<1>6. tree.dirty \subseteq Work(Candidate)
  BY <1>2, <1>3 DEF Work
<1>7. Of(Candidate) = Work(Candidate) \intersect Turns /\ Of(tree.head) = Work(tree.head) \intersect Turns
  BY <1>1, <1>3, OfWork
<1> QED BY <1>1, <1>4, <1>5, <1>6, <1>7 DEF Carried

LEMMA CandidatePath == ASSUME TypeOK PROVE Candidate.path # <<>>
<1>1. tree.head.path \in Seq(SUBSET ({0} \union Turns)) /\ tree.dirty \in SUBSET ({0} \union Turns)
  BY DEF TypeOK, Commits
<1>2. Len(Append(tree.head.path, tree.dirty)) = Len(tree.head.path) + 1 /\ Len(tree.head.path) \in Nat
  BY <1>1
<1>3. Len(<<>>) = 0
  OBVIOUS
<1> QED BY <1>2, <1>3, CandidateCommit

LEMMA AncestorWork ==
  ASSUME NEW a \in Commits, NEW c \in Commits, IsAncestor(a, c)
  PROVE  Of(a) \subseteq Of(c)
<1>1. a.path \in Seq(SUBSET ({0} \union Turns)) /\ c.path \in Seq(SUBSET ({0} \union Turns))
  BY DEF Commits
<1>2. CASE a.path = <<>>
  BY <1>2, OfWork DEF Work
<1>3. CASE Len(a.path) <= Len(c.path) /\ a.path = SubSeq(c.path, 1, Len(a.path))
  <2>1. \A i \in DOMAIN a.path : i \in DOMAIN c.path /\ a.path[i] = c.path[i]
    <3> DEFINE k == Len(a.path)
    <3>1. k \in Nat /\ Len(c.path) \in Nat /\ DOMAIN a.path = 1..k /\ DOMAIN c.path = 1..Len(c.path)
      BY <1>1
    <3>2. \A i \in 1..k : SubSeq(c.path, 1, k)[i] = c.path[i]
      BY <1>1, <3>1, <1>3
    <3> QED BY <3>1, <3>2, <1>3
  <2>2. Work(a) \subseteq Work(c)
    BY <2>1 DEF Work
  <2> QED BY <2>2, OfWork
<1> QED BY <1>2, <1>3 DEF IsAncestor

LEMMA DiffOf ==
  ASSUME NEW a \in Commits, NEW c \in Commits, Diff(a, c) \subseteq Turns
  PROVE  Of(c) \subseteq Diff(a, c) \union Of(a) /\ Diff(a, c) \subseteq Of(c)
BY OfWork DEF Diff

(***************************************************************************)
(* Steps that leave the worktree, the branch and the candidate as they     *)
(* are.                                                                    *)
(***************************************************************************)
Plain == (Running \ {"spawn"}) \union Judged \union {"idle", "exited", "evidence"}

\* A state that names the same candidate
Alike(s, m) == /\ s.cand = m.cand /\ s.parent = m.parent /\ s.candResult = m.candResult
               /\ m.thread # 0 => s.thread # 0
               /\ s.active.turn \in {0, m.active.turn}

NoneWakes == /\ made' \in Nat /\ made <= made'
             /\ \A t \in Turns : Alive(t)' => Alive(t)

LEMMA Wakes == ASSUME IInv, UNCHANGED <<turn, made>> PROVE NoneWakes
BY RunnerAssumption DEF NoneWakes, Alive, IInv, TypeOK

LEMMA TurnOf ==
  ASSUME TypeOK, disk # None, disk.active.turn # 0
  PROVE  disk.active.turn \in Turns
BY RunnerAssumption DEF TypeOK, States, ActiveTurns, Turns

LEMMA QuietFile ==
  ASSUME IInv, IInv', FileWork, UNCHANGED <<tree, remote>>, NoneWakes,
         disk' = disk \/ (disk # None /\ disk' # None /\ Alike(disk', disk))
  PROVE  FileWork' /\ Keeps
<1>1. Carried' = Carried
  BY DEF Carried
<1>2. (disk' = None <=> disk = None) /\ (disk # None => Alike(disk', disk))
  BY DEF Alike
<1>3. Recorded' = Recorded /\ Beneath' = Beneath /\ Of(remote)' = Of(remote)
  BY <1>2 DEF Recorded, Beneath, Alike, Of
<1>4. Keeps
  BY <1>1, <1>3, HeldParts DEF Keeps, Held, Carried, Recorded
<1>5. Standing' = Standing
  BY <1>1, <1>3 DEF Standing
<1>6. Bare => Bare'
  <2> SUFFICES ASSUME Bare PROVE Bare'
    OBVIOUS
  <2>1. disk # None /\ disk.active = NoTurn /\ NoTurn.turn = 0
    BY DEF Bare, NoTurn
  <2>2. disk' # None /\ disk'.active.turn = 0
    BY <1>2, <2>1 DEF Alike
  <2>3. Sound(disk)'
    BY <2>2 DEF IInv, StateBook
  <2>4. disk'.active = NoTurn
    BY <2>2, <2>3 DEF Sound
  <2>5. disk'.cand = disk.cand /\ tree' = tree /\ remote' = remote
    BY <1>2, <2>1 DEF Alike
  <2> QED BY <2>2, <2>4, <2>5 DEF Bare
<1>7. ASSUME disk' # None
      PROVE  /\ disk'.cand # None => disk'.thread # 0 /\ disk'.cand.path # <<>>
             /\ disk'.candResult <= made'
  <2>1. disk # None /\ Alike(disk', disk)
    BY <1>2, <1>7
  <2>2. disk.candResult \in Nat /\ made \in Nat /\ made' \in Nat /\ made <= made'
    BY <2>1, RunnerAssumption DEF IInv, TypeOK, States, NoneWakes
  <2> QED BY <2>1, <2>2 DEF FileWork, Alike
<1>8. ASSUME disk' # None, disk'.active.turn # 0
      PROVE  /\ tree'.there /\ Standing' /\ Of(remote)' \subseteq Carried'
             /\ disk'.candResult = disk'.active.turn =>
                  ~Alive(disk.active.turn)' /\ Carried' \subseteq Recorded'
  <2>1. disk # None /\ Alike(disk', disk)
    BY <1>2, <1>8
  <2>2. disk'.active.turn = disk.active.turn /\ disk.active.turn # 0
    BY <1>8, <2>1 DEF Alike
  <2>3. disk.active.turn \in Turns
    BY <2>1, <2>2, TurnOf DEF IInv
  <2>4. tree.there /\ Standing /\ Of(remote) \subseteq Carried
    BY <2>1, <2>2 DEF FileWork
  <2>5. ASSUME disk'.candResult = disk'.active.turn
        PROVE  ~Alive(disk.active.turn)' /\ Carried' \subseteq Recorded'
    <3>1. disk.candResult = disk.active.turn
      BY <2>1, <2>2, <2>5 DEF Alike
    <3>2. ~Alive(disk.active.turn) /\ Carried \subseteq Recorded
      BY <2>1, <2>2, <3>1 DEF FileWork
    <3>3. ~ (turn'[disk.active.turn].proc = "alive")
      BY <3>2, <2>3 DEF NoneWakes, Alive
    <3> QED BY <3>2, <3>3, <2>2, <1>1, <1>3 DEF Alive
  <2> QED BY <2>4, <2>5, <1>1, <1>3, <1>5
<1>9. (~tree.there => Carried = {})' /\ (Of(remote) \subseteq Carried \union Recorded \union Beneath)'
  BY <1>1, <1>3 DEF FileWork
<1>10. (Standing \/ Bare)'
  BY <1>5, <1>6 DEF FileWork
<1> HIDE DEF Alike
<1> QED BY <1>4, <1>7, <1>8, <1>9, <1>10 DEF FileWork

LEMMA PlainPc ==
  ASSUME host'.pc \in Plain
  PROVE  StartWork' /\ MoveWork'
<1>1. host'.pc \notin Opening \union Moving \union {"initialize", "intent", "recover", "worktree", "spawn"}
  BY DEF Plain, Running, Judged, Publishing, Opening, Moving
<1>2. StartWork'
  BY <1>1 DEF StartWork, Readied, Seeing
<1>3. MoveWork'
  BY <1>1 DEF MoveWork, Moving
<1> QED BY <1>2, <1>3

\* A command that has read its state
Working == host.pc \notin Opening \union {"idle"}

LEMMA CopyIs ==
  ASSUME IInv, WInv, Working
  PROVE  /\ host.mem \in States /\ disk \in States /\ disk # None /\ host.mem # None
         /\ host.mem.cand = disk.cand /\ host.mem.parent = disk.parent
         /\ host.mem.candResult = disk.candResult /\ host.mem.thread = disk.thread
         /\ host.mem.active = disk.active /\ Current = disk.active.turn
         /\ Recorded = Of(host.mem.cand) /\ Beneath = Of(host.mem.parent)
<1>1. /\ host.mem \in States /\ disk \in States /\ disk # None /\ host.mem # None
      /\ Active = disk.active /\ host.mem.cand = disk.cand
  BY Copy DEF Working
<1>2. /\ host.mem.parent = disk.parent
      /\ host.mem.candResult = disk.candResult /\ host.mem.thread = disk.thread
  BY <1>1 DEF WInv, CopyWork
<1> QED BY <1>1, <1>2 DEF Active, Current, Recorded, Beneath

LEMMA HostForm ==
  ASSUME TypeOK, NEW pc2, NEW s, host' = [host EXCEPT !.pc = pc2, !.mem = s]
  PROVE  /\ host'.pc = pc2 /\ host'.mem = s /\ host'.cmd = host.cmd
         /\ host'.onto = host.onto /\ host'.seen = host.seen
BY DEF TypeOK

LEMMA SaveWork ==
  ASSUME IInv, IInv', WInv, Working, NEW s, NEW pc2 \in Plain, Save(s, pc2),
         s \in States, Alike(s, host.mem), UNCHANGED <<tree, remote>>, NoneWakes
  PROVE  WInv' /\ Keeps
<1>1. disk' = s /\ s # None
  BY SaveForm, RunnerAssumption
<1>2. Alike(s, disk) /\ disk # None
  BY CopyIs DEF Alike
<1>3. FileWork' /\ Keeps
  BY <1>1, <1>2, QuietFile DEF WInv
<1>4. host'.pc = pc2 /\ host'.mem \in {None, s}
  <2>1. CASE pc2 = "idle"
    <3>1. host' = Idle
      BY <2>1, SaveForm
    <3> QED BY <2>1, <3>1 DEF Idle
  <2>2. CASE pc2 # "idle"
    <3>1. host' = [host EXCEPT !.pc = pc2, !.mem = s] /\ TypeOK
      BY <2>2, SaveForm DEF IInv
    <3> QED BY <3>1, HostForm
  <2> QED BY <2>1, <2>2
<1>5. CopyWork'
  BY <1>1, <1>4 DEF CopyWork
<1> QED BY <1>3, <1>4, <1>5, PlainPc DEF WInv

LEMMA ThinkWork ==
  ASSUME IInv, IInv', WInv, Working, NEW s, NEW pc2 \in Plain,
         host' = [host EXCEPT !.pc = pc2, !.mem = s], disk' = disk,
         s.parent = host.mem.parent, s.candResult = host.mem.candResult, s.thread = host.mem.thread,
         UNCHANGED <<tree, remote>>, NoneWakes
  PROVE  WInv' /\ Keeps
<1>1. FileWork' /\ Keeps
  BY QuietFile DEF WInv
<1>2. host'.pc = pc2 /\ host'.mem = s
  BY HostForm DEF IInv
<1>3. CopyWork'
  BY <1>2, CopyIs DEF CopyWork
<1> QED BY <1>1, <1>2, <1>3, PlainPc DEF WInv

LEMMA GotoWork ==
  ASSUME IInv, IInv', WInv, Working, NEW pc2 \in Plain, Goto(pc2), disk' = disk,
         UNCHANGED <<tree, remote>>, NoneWakes
  PROVE  WInv' /\ Keeps
BY GotoForm, ThinkWork DEF IInv

\* A command that ends, or was killed.
LEMMA IdleWork ==
  ASSUME FileWork', host' = Idle
  PROVE  WInv'
<1>1. host'.pc = "idle" /\ host'.mem = None /\ "idle" \in Plain
  BY DEF Idle, Plain
<1>2. CopyWork'
  BY <1>1 DEF CopyWork
<1> QED BY <1>1, <1>2, PlainPc DEF WInv

LEMMA ReturnWork ==
  ASSUME IInv, IInv', WInv, Return, UNCHANGED <<disk, tree, remote>>, NoneWakes
  PROVE  WInv' /\ Keeps
BY QuietFile, IdleWork DEF WInv, Return

LEMMA OutsideWork ==
  ASSUME IInv, IInv', WInv, UNCHANGED <<disk, host, tree, remote>>, NoneWakes
  PROVE  WInv' /\ Keeps
<1>1. FileWork' /\ Keeps
  BY QuietFile DEF WInv
<1>2. CopyWork'
  BY DEF WInv, CopyWork
<1>3. Standing' = Standing /\ Carried' = Carried /\ Of(remote)' = Of(remote)
  BY DEF Standing, Carried, Recorded, Beneath, Of
<1>4. StartWork'
  BY <1>3 DEF WInv, StartWork, Readied, Seeing
<1>5. MoveWork'
  BY <1>3 DEF WInv, MoveWork, Of
<1> QED BY <1>1, <1>2, <1>4, <1>5 DEF WInv

\* The forms in which a state is saved with the candidate it has
Like(s, m) == s \in States /\ Alike(s, m)

LEMMA Resaved ==
  ASSUME NEW m \in States, NEW x \in Statuses
  PROVE  Like([m EXCEPT !.status = x], m)
<1> PICK n : n = [m EXCEPT !.status = x]
  OBVIOUS
<1>1. n \in States
  BY DEF States
<1>2. Alike(n, m)
  BY <1>1 DEF Alike, States
<1> QED BY <1>1, <1>2 DEF Like

LEMMA Ended ==
  ASSUME NEW m \in States, NEW x \in Statuses, NEW t \in 0..MaxTurns
  PROVE  /\ Like(Disposed(m, t), m) /\ Like(Cleared(m), m)
         /\ Like(Disposed([m EXCEPT !.status = x], t), m)
         /\ Like(Cleared(Disposed([m EXCEPT !.status = x], t)), m)
<1>1. NoTurn \in ActiveTurns /\ NoTurn.turn = 0
  <2>1. 0 \in 0..MaxTurns
    BY RunnerAssumption
  <2> QED BY <2>1 DEF NoTurn, ActiveTurns, Modes
<1>2. ASSUME NEW n \in States PROVE Like(Cleared(n), n)
  <2> PICK k : k = [n EXCEPT !.active = NoTurn]
    OBVIOUS
  <2>1. k \in States
    BY <1>1 DEF States
  <2>2. k.active = NoTurn
    BY DEF States
  <2>3. Alike(k, n)
    BY <1>1, <2>1, <2>2 DEF Alike, States
  <2> QED BY <2>1, <2>3 DEF Like, Cleared
<1>3. ASSUME NEW n \in States PROVE Like(Disposed(n, t), n)
  <2> PICK k : k = [n EXCEPT !.last = t]
    OBVIOUS
  <2>1. k \in States
    BY DEF States
  <2>2. Alike(k, n)
    BY <2>1 DEF Alike, States
  <2> QED BY <2>1, <2>2 DEF Like, Disposed
<1> PICK u : u = [m EXCEPT !.status = x]
  OBVIOUS
<1>4. Like(u, m)
  BY Resaved
<1> PICK v : v = Disposed(u, t)
  OBVIOUS
<1>5. Like(v, u) /\ Like(Cleared(v), v)
  BY <1>2, <1>3, <1>4 DEF Like
<1>6. Like(v, m) /\ Like(Cleared(v), m)
  BY <1>4, <1>5 DEF Like, Alike
<1> QED BY <1>2, <1>3, <1>6

LEMMA Rebound ==
  ASSUME NEW m \in States, NEW found \in 0..MaxTurns, found # 0
  PROVE  Like(Bound(m, found), m)
<1> PICK status : status = IF m.active.mode = "rotate" THEN "ROTATED" ELSE "RUNNING"
  OBVIOUS
<1> PICK n : n = [m EXCEPT !.thread = found, !.status = status]
  OBVIOUS
<1>1. n \in States
  BY DEF States, Statuses
<1>2. Alike(n, m)
  BY <1>1 DEF Alike, States
<1>3. Bound(m, found) = n \/ Bound(m, found) = m
  BY DEF Bound
<1> QED BY <1>1, <1>2, <1>3 DEF Like, Alike

LEMMA Recounted ==
  ASSUME NEW m \in States, NEW t
  PROVE  /\ Counted(m, t).parent = m.parent /\ Counted(m, t).candResult = m.candResult
         /\ Counted(m, t).thread = m.thread
BY DEF Counted, States

LEMMA Listed == ASSUME NEW m \in States PROVE Like([m EXCEPT !.active.pid = TRUE], m)
<1> PICK a : a = [m.active EXCEPT !.pid = TRUE]
  OBVIOUS
<1> PICK n : n = [m EXCEPT !.active = a]
  OBVIOUS
<1>1. a \in ActiveTurns /\ a.turn = m.active.turn
  BY DEF States, ActiveTurns
<1>2. n \in States /\ n.active = a
  BY <1>1 DEF States
<1>3. Alike(n, m)
  BY <1>1, <1>2 DEF Alike, States
<1>4. n = [m EXCEPT !.active.pid = TRUE]
  OBVIOUS
<1> QED BY <1>2, <1>3, <1>4 DEF Like

(***************************************************************************)
(* The steps of a turn and of its judgement.                               *)
(***************************************************************************)
LEMMA TurnWork ==
  ASSUME IInv, IInv', WInv, Identity \/ Event \/ Bind \/ Reap
  PROVE  WInv' /\ Keeps
<1>1. host.pc \in Running /\ Working /\ "wait" \in Plain /\ "bind" \in Plain /\ "exited" \in Plain
  BY DEF Identity, Event, Bind, Reap, At, Working, Running, Opening, Plain
<1>2. host.mem \in States /\ Current \in Turns /\ turn \in [Turns -> Files]
  BY <1>1, RunFacts, CopyIs DEF IInv, TypeOK
<1>3. CASE Identity
  <2>1. NoneWakes
    BY <1>3, Wakes DEF Identity, world
  <2> QED BY <1>1, <1>2, <1>3, <2>1, Listed, SaveWork DEF Identity, Like
<1>4. CASE Event
  <2>1. NoneWakes
    BY <1>2, <1>4, RunnerAssumption DEF Event, NoneWakes, Alive, Files, IInv, TypeOK
  <2> QED BY <1>1, <1>4, <2>1, GotoWork DEF Event
<1>5. CASE Reap
  <2>1. NoneWakes
    BY <1>2, <1>5, RunnerAssumption DEF Reap, NoneWakes, Alive, Files, IInv, TypeOK
  <2> QED BY <1>1, <1>5, <2>1, GotoWork DEF Reap
<1>6. CASE Bind
  <2> PICK found : found = turn[Current].thread
    OBVIOUS
  <2>1. found \in 0..MaxTurns /\ found # 0
    BY <1>1, <1>2, <1>6 DEF Bind, At, Files, IInv, TurnBook
  <2>2. CASE Save(Bound(host.mem, found), "wait") /\ UNCHANGED turn
    <3> PICK s : s = Bound(host.mem, found)
      OBVIOUS
    <3>1. Like(s, host.mem)
      BY <1>2, <2>1, Rebound
    <3>2. NoneWakes /\ UNCHANGED <<tree, remote>>
      BY <1>6, <2>2, Wakes DEF Bind
    <3> QED BY <1>1, <2>2, <3>1, <3>2, SaveWork DEF Like
  <2>3. CASE Goto("wait") /\ turn' = Killed(Current) /\ UNCHANGED disk
    <3>1. Calm
      BY <1>2, <2>3, KilledCalm DEF IInv
    <3>2. NoneWakes /\ UNCHANGED <<tree, remote>>
      BY <1>6, <3>1, RunnerAssumption DEF Bind, NoneWakes, Calm, IInv, TypeOK
    <3> QED BY <1>1, <2>3, <3>2, GotoWork
  <2> QED BY <1>6, <2>2, <2>3 DEF Bind
<1> QED BY <1>3, <1>4, <1>5, <1>6

LEMMA JudgedWork ==
  ASSUME IInv, IInv', WInv, host.pc \in Judged
  PROVE  /\ Working /\ host.mem \in States /\ Current \in 0..MaxTurns
         /\ "finish" \in Plain /\ "idle" \in Plain /\ Judged \subseteq Plain
<1>1. Working
  BY DEF Working, Opening, Judged, Publishing
<1> QED BY <1>1, JudgedFacts DEF Plain, Judged

\* The command files the status, and goes on or ends.
LEMMA StatusWork ==
  ASSUME IInv, IInv', WInv, Working, UNCHANGED <<tree, world, remote>>, NEW x \in Statuses, NEW pc2 \in Plain,
         \/ Save([host.mem EXCEPT !.status = x], pc2)
         \/ Save(Disposed([host.mem EXCEPT !.status = x], Current), pc2)
         \/ Save(Cleared(Disposed([host.mem EXCEPT !.status = x], Current)), pc2)
         \/ Save(Disposed(host.mem, Current), pc2)
         \/ Save(Cleared(host.mem), pc2)
         \/ Goto(pc2) /\ UNCHANGED disk
         \/ Return /\ UNCHANGED disk
  PROVE  WInv' /\ Keeps
<1>1. NoneWakes
  BY Wakes DEF world
<1>2. host.mem \in States /\ Current \in 0..MaxTurns
  BY CopyIs, Copy DEF Working
<1>3. CASE \E s : Like(s, host.mem) /\ Save(s, pc2)
  BY <1>1, <1>3, SaveWork DEF Like
<1>4. CASE Goto(pc2) /\ UNCHANGED disk
  BY <1>1, <1>4, GotoWork
<1>5. CASE Return /\ UNCHANGED disk
  BY <1>1, <1>5, ReturnWork
<1> PICK a : a = [host.mem EXCEPT !.status = x]
  OBVIOUS
<1>6. /\ Like(a, host.mem) /\ Like(Disposed(a, Current), host.mem)
      /\ Like(Cleared(Disposed(a, Current)), host.mem)
      /\ Like(Disposed(host.mem, Current), host.mem) /\ Like(Cleared(host.mem), host.mem)
  BY <1>2, Resaved, Ended
<1> QED BY <1>3, <1>4, <1>5, <1>6

LEMMA EndedWork ==
  ASSUME IInv, IInv', WInv, Exited \/ Judge \/ Evidence \/ Recover
  PROVE  WInv' /\ Keeps
<1>1. /\ Working /\ {"idle", "judge", "dispatch", "evidence"} \subseteq Plain
      /\ UNCHANGED <<tree, world, remote>>
  BY DEF Exited, Judge, Evidence, Recover, At, Working, Opening, Plain, Judged
<1>2. NoneWakes
  BY <1>1, Wakes DEF world
<1>3. ASSUME NEW x \in Statuses, Save([host.mem EXCEPT !.status = x], "idle")
      PROVE  WInv' /\ Keeps
  BY <1>1, <1>3, StatusWork
<1>4. ASSUME Think(Counted(host.mem, Current), "judge") PROVE WInv' /\ Keeps
  <2> PICK s : s = Counted(host.mem, Current)
    OBVIOUS
  <2>1. /\ s.parent = host.mem.parent /\ s.candResult = host.mem.candResult
        /\ s.thread = host.mem.thread
    BY <1>1, CopyIs, Recounted
  <2> QED BY <1>1, <1>2, <1>4, <2>1, ThinkWork DEF Think
<1>5. {"START_FAILED_NO_THREAD", "ROTATE_FAILED_NO_THREAD", "THREAD_MISMATCH", "TURN_FAILED",
       "EMPTY_RESULT", "INVALID_RESULT", "TURN_COMPLETION_UNKNOWN"} \subseteq Statuses
  BY DEF Statuses
<1>6. CASE Exited
  BY <1>3, <1>4, <1>5, <1>6 DEF Exited, Mismatched
<1>7. CASE Evidence
  BY <1>3, <1>4, <1>5, <1>7 DEF Evidence
<1>8. CASE Judge
  <2>1. ASSUME NEW x \in Statuses,
               Save(Cleared(Disposed([host.mem EXCEPT !.status = x], Current)), "idle")
        PROVE  WInv' /\ Keeps
    BY <1>1, <2>1, StatusWork
  <2>2. ASSUME Goto("dispatch") /\ UNCHANGED disk PROVE WInv' /\ Keeps
    BY <1>1, <1>2, <2>2, GotoWork
  <2>3. turn[Current].exit \in {"ok", "failed"} /\ turn[Current].result \in Results
    BY <1>8, JudgedFacts DEF Judge, At, Judged, IInv, TurnBook, TypeOK, Files
  <2> QED BY <1>5, <1>8, <2>1, <2>2, <2>3 DEF Judge
<1>9. CASE Recover
  <2> PICK found : found = turn[Current].thread
    OBVIOUS
  <2>1. CASE found # 0 /\ Save(Bound(host.mem, found), "evidence")
    <3>1. Current # 0
      BY <1>1, <1>9, Copy DEF Recover, Working, Sound, Active, Current
    <3>2. found \in 0..MaxTurns
      <4>1. Current \in Turns
        BY <1>1, <3>1, Copy, RunnerAssumption DEF Working, Turns
      <4> QED BY <4>1 DEF IInv, TypeOK, Files
    <3>3. Like(Bound(host.mem, found), host.mem)
      BY <1>1, <2>1, <3>2, CopyIs, Rebound
    <3> QED BY <1>1, <1>2, <2>1, <3>3, SaveWork DEF Like
  <2>2. CASE Save(Mismatched(host.mem), "idle")
    BY <1>3, <1>5, <2>2 DEF Mismatched
  <2>3. CASE Return /\ UNCHANGED disk
    BY <1>1, <1>2, <2>3, ReturnWork
  <2> QED BY <1>9, <2>1, <2>2, <2>3 DEF Recover
<1> QED BY <1>6, <1>7, <1>8, <1>9

LEMMA FiledWork ==
  ASSUME IInv, IInv', WInv,
         Dispatch \/ Blocker \/ Blocked \/ Finish \/ V2 \/ Committed \/ Pending
           \/ Publish \/ Confirm \/ Finalize \/ Verify
  PROVE  WInv' /\ Keeps
<1>1. host.pc \in Judged /\ UNCHANGED <<tree, world, remote>>
  BY DEF Dispatch, Blocker, Blocked, Finish, V2, Committed, Pending, Publish, Confirm, Finalize,
         Verify, At, Judged, Publishing
<1>2. Working /\ host.mem \in States /\ Judged \subseteq Plain /\ "idle" \in Plain
  BY <1>1, JudgedWork
<1>3. ASSUME NEW x \in Statuses, NEW pc2 \in Plain,
             \/ Save([host.mem EXCEPT !.status = x], pc2)
             \/ Save(Disposed([host.mem EXCEPT !.status = x], Current), pc2)
             \/ Save(Disposed(host.mem, Current), pc2)
             \/ Save(Cleared(host.mem), pc2)
             \/ Goto(pc2) /\ UNCHANGED disk
             \/ Return /\ UNCHANGED disk
      PROVE  WInv' /\ Keeps
  BY <1>1, <1>2, <1>3, StatusWork
<1>4. "CANDIDATE" \in Statuses
  BY DEF Statuses
<1>5. CASE Dispatch
  <2>1. turn[Current].result \in {"CONTINUE", "BLOCKED", "NO_OP", "CANDIDATE_READY"}
    BY <1>5 DEF Dispatch, At, IInv, TurnBook, Answers, Results
  <2>2. {"CONTINUE", "NO_OP", "INVALID_NO_OP", "INVALID_CANDIDATE_READY", "BLOCKER_PENDING_GITHUB"} \subseteq Statuses
        /\ {"finish", "blocker", "pending", "v2"} \subseteq Plain
    BY <1>2 DEF Statuses, Judged, Publishing
  <2>3. CASE host.mem.last = Current
    BY <1>3, <1>4, <1>5, <2>2, <2>3 DEF Dispatch
  <2>4. CASE host.mem.last # Current /\ turn[Current].result = "CANDIDATE_READY"
    BY <1>3, <1>4, <1>5, <2>2, <2>4 DEF Dispatch, Done
  <2>5. CASE host.mem.last # Current /\ turn[Current].result # "CANDIDATE_READY"
    BY <1>3, <1>4, <1>5, <2>1, <2>2, <2>5 DEF Dispatch, Done
  <2> QED BY <2>3, <2>4, <2>5
<1>6. CASE Blocker \/ Blocked \/ Finish
  <2>1. "BLOCKED" \in Statuses /\ {"blocked", "finish"} \subseteq Plain
    BY <1>2 DEF Statuses, Judged
  <2> QED BY <1>2, <1>3, <1>4, <1>6, <2>1 DEF Blocker, Blocked, Finish, Done
<1>7. CASE V2
  <2>1. "V2_FAILED" \in Statuses /\ {"prepare", "finish"} \subseteq Plain
    BY <1>2 DEF Statuses, Judged
  <2> QED BY <1>3, <1>7, <2>1 DEF V2, Done
<1>8. CASE Committed \/ Pending
  <2>1. "COMMITTED_PENDING_PUSH" \in Statuses
        /\ {"publish", "prepared", "finalize", "finish"} \subseteq Plain
    BY <1>2 DEF Statuses, Judged, Publishing
  <2>2. CASE Committed
    BY <1>3, <2>1, <2>2 DEF Committed
  <2>3. CASE Pending
    <3>1. \E pc2 \in Plain : Goto(pc2) /\ UNCHANGED disk
      BY <2>1, <2>3 DEF Pending
    <3> QED BY <1>3, <1>4, <3>1
  <2> QED BY <1>8, <2>2, <2>3
<1>9. CASE Publish \/ Confirm \/ Finalize \/ Verify
  <2>1. {"PUBLISH_INCONCLUSIVE", "PUSHED_PENDING_GITHUB", "PUBLISH_CONFIRMATION_PENDING",
         "COMMITTED_PENDING_PUSH"} \subseteq Statuses
        /\ {"finish", "finalize", "push", "verify"} \subseteq Plain
    BY <1>2 DEF Statuses, Judged, Publishing
  <2>2. \/ \E x \in Statuses, pc2 \in Plain : Publication(x, pc2)
        \/ \E pc2 \in Plain : Goto(pc2) /\ UNCHANGED disk
    BY <1>4, <1>9, <2>1 DEF Publish, Confirm, Finalize, Verify
  <2> QED BY <1>3, <1>4, <2>2 DEF Publication
<1> QED BY <1>5, <1>6, <1>7, <1>8, <1>9

(***************************************************************************)
(* Commands begin.                                                         *)
(***************************************************************************)
LEMMA BeginWork ==
  ASSUME IInv, IInv', WInv, NEW s \in {None, disk}, NEW pc \in {"repair", "recover", "rebase"},
         NEW cmd, Begin(cmd, s, pc),
         s # None => disk # None,
         pc = "repair" => cmd = "start",
         cmd \in {"resume", "rotate"} => tree.there /\ Standing /\ Of(remote) \subseteq Carried,
         pc = "rebase" => tree.there /\ tree.dirty = {} /\ tree.head = disk.cand /\ remote = disk.cand
  PROVE  WInv' /\ Keeps
<1>1. host'.pc = pc /\ host'.cmd = cmd /\ host'.mem = s /\ host'.seen = remote
  BY DEF Begin, Idle
<1>2. UNCHANGED <<disk, tree, remote>> /\ NoneWakes
  BY Wakes DEF Begin, world
<1>3. FileWork' /\ Keeps
  BY <1>2, QuietFile DEF WInv
<1>4. CopyWork'
  BY <1>1, <1>2 DEF CopyWork
<1>5. Standing' = Standing /\ Carried' = Carried /\ Of(remote)' = Of(remote)
  BY <1>2 DEF Standing, Carried, Recorded, Beneath, Of
<1>6. StartWork'
  BY <1>1, <1>2, <1>5 DEF StartWork, Readied, Seeing, Opening
<1>7. MoveWork'
  BY <1>1, <1>2, <1>5 DEF MoveWork, Moving
<1> QED BY <1>3, <1>4, <1>6, <1>7 DEF WInv

LEMMA CommandWork ==
  ASSUME IInv, IInv', WInv,
         \/ StartCommand \/ RecoverCommand \/ ReconcileCommand
         \/ \E mode \in {"resume", "rotate"} : ResumeCommand(mode)
  PROVE  WInv' /\ Keeps
<1>1. CASE StartCommand
  BY <1>1, BeginWork DEF StartCommand
<1>2. CASE RecoverCommand
  BY <1>2, BeginWork DEF RecoverCommand
<1>3. CASE ReconcileCommand
  BY <1>3, BeginWork DEF ReconcileCommand
<1>4. ASSUME NEW mode \in {"resume", "rotate"}, ResumeCommand(mode) PROVE WInv' /\ Keeps
  <2>1. tree.there /\ disk # None /\ (remote # None => remote = tree.head) /\ Begin(mode, disk, "recover")
    BY <1>4 DEF ResumeCommand
  <2>2. Of(remote) \subseteq Carried
    BY <2>1, NoWork DEF Carried
  <2>3. ~Bare
    <3> SUFFICES ASSUME Bare PROVE FALSE
      OBVIOUS
    <3>1. Alien.path # <<>> /\ Alien # None
      BY AlienCommit, RunnerAssumption DEF Alien
    <3>2. remote.path # <<>> /\ remote # None
      BY <2>1, <3>1 DEF Bare, WInv, FileWork
    <3> QED BY <2>1, <3>2 DEF Bare
  <2>4. Standing
    BY <2>3 DEF WInv, FileWork
  <2> QED BY <2>1, <2>2, <2>4, BeginWork
<1> QED BY <1>1, <1>2, <1>3, <1>4

\* What the branch had when the command looked is in the commit it expects.
LEMMA SeenWork ==
  ASSUME IInv, remote \in {host.seen, Alien}
  PROVE  Expected \in Commits /\ Of(remote) \subseteq Of(Expected)
<1>1. host.onto \in 0..MaxMain /\ host.seen \in Commits \union {None}
  BY DEF IInv, TypeOK
<1> QED BY <1>1, MainCommit, NoWork DEF Expected

LEMMA GotoFields ==
  ASSUME TypeOK, NEW pc2, Goto(pc2)
  PROVE  /\ host'.pc = pc2 /\ host'.mem = host.mem /\ host'.cmd = host.cmd
         /\ host'.onto = host.onto /\ host'.seen = host.seen
BY DEF TypeOK, Goto

LEMMA RepairWork == ASSUME IInv, IInv', WInv, Repair PROVE WInv' /\ Keeps
<1>1. host.pc = "repair" /\ host.mem = None /\ host.cmd = "start" /\ remote \in {host.seen, Alien}
  BY DEF Repair, At, IInv, HostBook, Opening, WInv, StartWork, Seeing
<1>2. UNCHANGED <<tree, remote>> /\ NoneWakes
  BY Wakes DEF Repair, world
<1>3. CASE Return /\ UNCHANGED disk
  BY <1>2, <1>3, ReturnWork
<1>4. CASE Goto("align")
  <2>1. host'.pc = "align" /\ host'.mem = None /\ host'.cmd = "start" /\ host'.seen = host.seen
    BY <1>1, <1>4, GotoFields DEF IInv
  <2>2. CopyWork' /\ StartWork' /\ MoveWork'
    BY <1>1, <1>2, <2>1 DEF CopyWork, StartWork, MoveWork, Readied, Seeing, Opening, Moving
  <2>3. CASE disk' = disk
    BY <1>2, <2>2, <2>3, QuietFile DEF WInv
  <2>4. CASE disk' # disk
    <3>1. disk # None /\ disk' = None /\ disk.active.mode = "start"
      BY <2>4 DEF Repair, Return
    <3>2. disk.active.turn # 0
      <4>1. NoTurn.mode = ""
        BY DEF NoTurn
      <4>2. disk.active # NoTurn
        BY <3>1, <4>1
      <4> QED BY <3>1, <4>2, FileBook DEF Sound
    <3>3. tree.there /\ Standing /\ Of(remote) \subseteq Carried
      BY <3>1, <3>2 DEF WInv, FileWork
    <3>4. Carried' = Carried /\ Recorded' = {} /\ Of(remote)' = Of(remote) /\ tree'.there
      BY <1>2, <3>1, <3>3 DEF Carried, Recorded, Of
    <3>5. FileWork'
      BY <3>1, <3>3, <3>4 DEF FileWork, Standing
    <3>6. Keeps
      BY <3>3, <3>4, HeldParts DEF Keeps, Standing, Held, Carried
    <3> QED BY <2>2, <3>5, <3>6 DEF WInv
  <2> QED BY <2>3, <2>4
<1> QED BY <1>3, <1>4 DEF Repair

LEMMA AlignWork == ASSUME IInv, IInv', WInv, Align PROVE WInv' /\ Keeps
<1>1. host.pc = "align" /\ host.mem = None /\ host.cmd = "start" /\ remote \in {host.seen, Alien}
  BY DEF Align, At, IInv, HostBook, Opening, WInv, StartWork, Seeing
<1>2. UNCHANGED <<disk, remote>> /\ NoneWakes
  BY Wakes DEF Align, world
<1>3. CASE Return /\ UNCHANGED tree
  BY <1>2, <1>3, ReturnWork
<1>4. CASE Goto("load")
  <2>1. host'.pc = "load" /\ host'.mem = None /\ host'.cmd = "start" /\ host'.seen = host.seen
    BY <1>1, <1>4, GotoFields DEF IInv
  <2>2. CopyWork' /\ StartWork' /\ MoveWork'
    BY <1>1, <1>2, <2>1 DEF CopyWork, StartWork, MoveWork, Readied, Seeing, Opening, Moving
  <2>3. CASE tree' = tree
    BY <1>2, <2>2, <2>3, QuietFile DEF WInv
  <2>4. CASE tree' # tree
    <3> PICK e : e = Expected
      OBVIOUS
    <3>1. /\ disk = None /\ tree.there /\ tree.dirty = {} /\ IsAncestor(tree.head, e)
          /\ tree' = [tree EXCEPT !.head = e]
      BY <1>4, <2>4 DEF Align, Return
    <3>2. tree \in [there : BOOLEAN, head : Commits, dirty : SUBSET Turns]
      BY DEF IInv, TypeOK
    <3>3. tree'.there /\ tree'.dirty = {} /\ tree'.head = e
      BY <3>1, <3>2
    <3>4. Of(tree.head) \subseteq Of(e) /\ Of(remote) \subseteq Of(e)
      BY <1>1, <3>1, <3>2, SeenWork, AncestorWork
    <3>5. Carried \subseteq Carried' /\ Of(remote)' \subseteq Carried' /\ Recorded' = {} /\ Recorded = {}
      BY <1>2, <3>1, <3>3, <3>4 DEF Carried, Recorded, Of
    <3>6. FileWork'
      BY <1>2, <3>1, <3>3, <3>5 DEF FileWork, Standing
    <3>7. Of(remote)' = Of(remote)
      BY <1>2 DEF Of
    <3>8. Held \subseteq Carried' /\ Carried' \subseteq Held'
      BY <3>5, <3>7, HeldParts DEF Held, Carried
    <3>9. Keeps
      BY <3>8 DEF Keeps
    <3> QED BY <2>2, <3>6, <3>9 DEF WInv
  <2> QED BY <2>3, <2>4
<1> QED BY <1>3, <1>4 DEF Align

LEMMA LoadWork == ASSUME IInv, IInv', WInv, Load PROVE WInv' /\ Keeps
<1>1. host.pc = "load" /\ host.cmd = "start" /\ remote \in {host.seen, Alien}
  BY DEF Load, At, Opening, WInv, StartWork, Seeing
<1>2. UNCHANGED <<tree, remote>> /\ NoneWakes
  BY Wakes DEF Load, world
<1>3. CASE disk = None
  <2> PICK s : s = Fresh
    OBVIOUS
  <2>1. s.cand = None /\ s.parent = None /\ s.candResult = 0 /\ s.active.turn = 0
    BY DEF Fresh, NoTurn
  <2>2. disk' = s /\ host' = [host EXCEPT !.pc = "worktree", !.mem = s]
    BY <1>3, SaveForm DEF Load
  <2>3. host'.pc = "worktree" /\ host'.mem = s /\ host'.cmd = "start" /\ host'.seen = host.seen
    BY <1>1, <2>2, HostForm DEF IInv
  <2>4. s # None
    BY <2>3 DEF IInv, HostBook, Opening
  <2>5. Carried' = Carried /\ Of(remote)' = Of(remote) /\ Recorded' = {} /\ Recorded = {} /\ Beneath = {}
    BY <1>2, <1>3, <2>1, <2>2, NoWork DEF Carried, Recorded, Beneath, Of
  <2>6. made' \in Nat /\ made' >= 0
    BY <1>2 DEF NoneWakes
  <2>7. FileWork'
    BY <1>2, <2>1, <2>2, <2>5, <2>6 DEF FileWork, WInv, Standing
  <2>8. CopyWork' /\ StartWork' /\ MoveWork'
    BY <1>1, <1>2, <2>1, <2>2, <2>3, <2>4 DEF CopyWork, StartWork, MoveWork, Readied, Seeing, Opening, Moving
  <2>9. Held \subseteq Held'
    BY <2>5, HeldParts DEF Held, Carried
  <2> QED BY <2>7, <2>8, <2>9 DEF WInv, Keeps
<1>4. CASE disk # None
  <2>1. disk' = disk /\ host' = [host EXCEPT !.pc = "recover", !.mem = disk]
    BY <1>4 DEF Load, Think
  <2>2. host'.pc = "recover" /\ host'.mem = disk /\ host'.cmd = "start" /\ host'.seen = host.seen
    BY <1>1, <2>1, HostForm DEF IInv
  <2>3. CopyWork' /\ StartWork' /\ MoveWork'
    BY <1>1, <1>2, <1>4, <2>1, <2>2 DEF CopyWork, StartWork, MoveWork, Readied, Seeing, Opening, Moving
  <2> QED BY <1>2, <2>1, <2>3, QuietFile DEF WInv
<1> QED BY <1>3, <1>4

LEMMA WorktreeWork == ASSUME IInv, IInv', WInv, Worktree PROVE WInv' /\ Keeps
<1>1. /\ host.pc = "worktree" /\ Working /\ remote \in {host.seen, Alien} /\ disk.cand = None
      /\ Active = NoTurn
  BY DEF Worktree, At, Working, Opening, WInv, StartWork, Seeing, IInv, HostBook, Starting
<1>2. UNCHANGED <<disk, remote>> /\ NoneWakes
  BY Wakes DEF Worktree, world
<1>3. disk # None /\ disk.active.turn = 0 /\ Recorded = {}
  <2>1. NoTurn.turn = 0
    BY DEF NoTurn
  <2>2. disk # None /\ host.mem.active = disk.active
    BY <1>1, CopyIs
  <2>3. Recorded = {}
    BY <1>1, <2>2, NoWork DEF Recorded
  <2> QED BY <1>1, <2>1, <2>2, <2>3 DEF Active
<1> PICK e : e = Expected
  OBVIOUS
<1>4. e \in Commits /\ Of(remote) \subseteq Of(e)
  BY <1>1, SeenWork
<1>5. CASE Return /\ UNCHANGED tree
  BY <1>2, <1>5, ReturnWork
<1>6. CASE /\ Goto("initialize") /\ tree'.there /\ tree'.head = e /\ tree'.dirty = {}
           /\ tree' = tree \/ ~tree.there
  <2>1. host'.pc = "initialize" /\ host'.mem = host.mem /\ host'.cmd = host.cmd
    BY <1>6, GotoFields DEF IInv
  <2>2. /\ Carried' = Of(e) /\ Of(remote)' = Of(remote) /\ Recorded' = {} /\ Beneath' = Beneath
    BY <1>2, <1>3, <1>6 DEF Carried, Recorded, Beneath, Of
  <2>3. Carried \subseteq Carried'
    BY <1>6 DEF WInv, FileWork, Carried
  <2>4. Standing' /\ Of(remote)' \subseteq Carried'
    BY <1>4, <2>2 DEF Standing
  <2>5. disk.candResult <= made'
    BY <1>2, <1>3, RunnerAssumption DEF WInv, FileWork, NoneWakes, IInv, TypeOK, States
  <2>6. FileWork'
    BY <1>1, <1>2, <1>3, <1>6, <2>4, <2>5 DEF FileWork
  <2>7. CopyWork' /\ StartWork' /\ MoveWork'
    BY <1>2, <1>6, <2>1, <2>4 DEF WInv, CopyWork, StartWork, MoveWork, Readied, Seeing, Opening, Moving
  <2>8. Held \subseteq Held'
    BY <1>3, <2>2, <2>3, HeldParts DEF Held, Carried
  <2> QED BY <2>6, <2>7, <2>8 DEF WInv, Keeps
<1>7. CASE tree.there
  BY <1>5, <1>6, <1>7 DEF Worktree
<1>8. CASE ~tree.there
  <2>1. tree' = [there |-> TRUE, head |-> e, dirty |-> {}] /\ Goto("initialize")
    BY <1>8 DEF Worktree
  <2>2. tree'.there /\ tree'.head = e /\ tree'.dirty = {}
    BY <2>1
  <2> QED BY <1>6, <1>8, <2>1, <2>2
<1> QED BY <1>7, <1>8

LEMMA InitializeWork == ASSUME IInv, IInv', WInv, Initialize PROVE WInv' /\ Keeps
<1>1. /\ host.pc = "initialize" /\ Working /\ Readied /\ UNCHANGED <<tree, remote>> /\ NoneWakes
      /\ "INITIALIZING" \in Statuses
  BY Wakes DEF Initialize, At, Working, Opening, Readied, world, Statuses
<1> PICK s : s = [host.mem EXCEPT !.status = "INITIALIZING"]
  OBVIOUS
<1>2. Like(s, host.mem) /\ s # None
  <2>1. Like(s, host.mem)
    BY <1>1, CopyIs, Resaved
  <2> QED BY <2>1, RunnerAssumption DEF Like
<1>3. disk' = s /\ host' = [host EXCEPT !.pc = "intent", !.mem = s]
  BY SaveForm DEF Initialize
<1>4. host'.pc = "intent" /\ host'.mem = s
  BY <1>3, HostForm DEF IInv
<1>5. Alike(s, disk) /\ disk # None
  BY <1>1, <1>2, CopyIs DEF Like, Alike
<1>6. FileWork' /\ Keeps
  BY <1>1, <1>2, <1>3, <1>5, QuietFile DEF WInv
<1>7. Carried' = Carried /\ Of(remote)' = Of(remote) /\ Recorded' = Recorded /\ Beneath' = Beneath
  BY <1>1, <1>2, <1>3, <1>5 DEF Carried, Recorded, Beneath, Of, Alike
<1>8. tree'.there /\ Standing' /\ Of(remote)' \subseteq Carried'
  BY <1>1, <1>7 DEF WInv, StartWork, Standing
<1>9. CopyWork' /\ StartWork' /\ MoveWork'
  BY <1>2, <1>3, <1>4, <1>8 DEF CopyWork, StartWork, MoveWork, Seeing, Opening, Moving
<1> QED BY <1>6, <1>9 DEF WInv

LEMMA NotActiveWork == ASSUME IInv, IInv', WInv, NotActive PROVE WInv' /\ Keeps
<1>1. host.pc = "recover" /\ Working /\ UNCHANGED <<disk, tree, remote>> /\ NoneWakes
  BY Wakes DEF NotActive, At, Working, Opening, world
<1>2. CASE Return
  BY <1>1, <1>2, ReturnWork
<1>3. Standing' = Standing /\ Carried' = Carried /\ Of(remote)' = Of(remote)
  BY <1>1 DEF Standing, Carried, Recorded, Beneath, Of
<1>4. FileWork' /\ Keeps
  BY <1>1, QuietFile DEF WInv
<1>5. CASE host.cmd = "start" /\ host.mem.thread = 0 /\ Goto("worktree")
  <2>1. host'.pc = "worktree" /\ host'.mem = host.mem /\ host'.cmd = "start" /\ host'.seen = host.seen
    BY <1>5, GotoFields DEF IInv
  <2>2. disk # None /\ disk.thread = 0
    BY <1>1, <1>5, CopyIs
  <2>3. disk.cand = None
    BY <2>2 DEF WInv, FileWork
  <2>4. remote \in {host.seen, Alien}
    BY <1>1, <1>5 DEF WInv, StartWork, Seeing
  <2>5. CopyWork' /\ StartWork' /\ MoveWork'
    BY <1>1, <2>1, <2>3, <2>4 DEF WInv, CopyWork, StartWork, MoveWork, Readied, Seeing, Opening, Moving
  <2> QED BY <1>4, <2>5 DEF WInv
<1>6. CASE host.cmd \in {"resume", "rotate"} /\ Goto("intent")
  <2>1. host'.pc = "intent" /\ host'.mem = host.mem /\ host'.cmd = host.cmd
    BY <1>6, GotoFields DEF IInv
  <2>2. tree.there /\ Standing /\ Of(remote) \subseteq Carried
    BY <1>1, <1>6 DEF WInv, StartWork, Readied
  <2>3. CopyWork' /\ StartWork' /\ MoveWork'
    BY <1>1, <1>3, <2>1, <2>2 DEF WInv, CopyWork, StartWork, MoveWork, Readied, Seeing, Opening, Moving
  <2> QED BY <1>4, <2>3 DEF WInv
<1> QED BY <1>2, <1>5, <1>6 DEF NotActive

LEMMA IntentWork == ASSUME IInv, IInv', WInv, Intent PROVE WInv' /\ Keeps
<1>1. host.pc = "intent" /\ Working /\ Readied /\ UNCHANGED <<turn, tree, remote>> /\ made' = made + 1
  BY DEF Intent, At, Working, Opening, Readied
<1> PICK m : m = host.mem
  OBVIOUS
<1> PICK c : c = made + 1
  OBVIOUS
<1> PICK a : a = [mode |-> host.cmd, turn |-> c, prev |-> m.thread, pid |-> FALSE]
  OBVIOUS
<1> PICK s : s = [m EXCEPT !.status = "RUNNING", !.active = a]
  OBVIOUS
<1>2. disk' = s /\ host' = [host EXCEPT !.pc = "spawn", !.mem = s]
  BY SaveForm DEF Intent
<1>3. host'.pc = "spawn" /\ host'.mem = s
  BY <1>2, HostForm DEF IInv
<1>4. /\ m \in States /\ disk # None /\ m.cand = disk.cand /\ m.parent = disk.parent
      /\ m.candResult = disk.candResult /\ m.thread = disk.thread
  BY <1>1, CopyIs
<1>5. /\ s.cand = m.cand /\ s.parent = m.parent /\ s.candResult = m.candResult
      /\ s.thread = m.thread /\ s.active = a /\ a.turn = c
  BY <1>4 DEF States
<1>6. made \in Nat /\ c = made' /\ m.candResult \in Nat /\ m.candResult <= made
  BY <1>1, <1>4, RunnerAssumption DEF IInv, TypeOK, States, WInv, FileWork
<1>7. s # None
  BY <1>3 DEF IInv, HostBook, Opening
<1>8. Carried' = Carried /\ Of(remote)' = Of(remote) /\ Recorded' = Recorded /\ Beneath' = Beneath
  BY <1>1, <1>2, <1>4, <1>5, <1>7 DEF Carried, Recorded, Beneath, Of
<1>9. tree'.there /\ Standing' /\ Of(remote)' \subseteq Carried'
  BY <1>1, <1>8 DEF WInv, StartWork, Standing
<1>10. s.candResult # s.active.turn /\ s.candResult <= made'
  BY <1>5, <1>6
<1>11. FileWork'
  BY <1>2, <1>4, <1>5, <1>9, <1>10 DEF FileWork, WInv
<1>12. CopyWork' /\ StartWork' /\ MoveWork'
  BY <1>2, <1>3, <1>7, <1>10 DEF CopyWork, StartWork, MoveWork, Readied, Seeing, Opening, Moving
<1>13. Held \subseteq Held'
  BY <1>8, HeldParts DEF Held, Carried, Recorded
<1> QED BY <1>11, <1>12, <1>13 DEF WInv, Keeps

LEMMA SpawnWork == ASSUME IInv, IInv', WInv, Spawn PROVE WInv' /\ Keeps
<1>1. host.pc = "spawn" /\ Working /\ UNCHANGED <<disk, made, tree, remote>> /\ "identity" \in Plain
  BY DEF Spawn, At, Working, Opening, Plain, Running
<1>2. host'.pc = "identity" /\ host'.mem = host.mem
  BY GotoFields DEF Spawn, IInv
<1>3. disk # None /\ disk.candResult # disk.active.turn
  BY <1>1, CopyIs DEF WInv, StartWork
<1>4. Carried' = Carried /\ Of(remote)' = Of(remote) /\ Recorded' = Recorded /\ Beneath' = Beneath
  BY <1>1 DEF Carried, Recorded, Beneath, Of
<1>5. Standing' = Standing /\ Bare' = Bare
  BY <1>1, <1>4 DEF Standing, Bare
<1>6. FileWork'
  BY <1>1, <1>3, <1>4, <1>5 DEF FileWork, WInv
<1>7. CopyWork'
  BY <1>1, <1>2 DEF WInv, CopyWork
<1>8. Held \subseteq Held'
  BY <1>4, HeldParts DEF Held, Carried, Recorded
<1> QED BY <1>1, <1>2, <1>6, <1>7, <1>8, PlainPc DEF WInv, Keeps

(***************************************************************************)
(* A candidate is made, and goes to the branch.                            *)
(***************************************************************************)
LEMMA PrepareWork == ASSUME IInv, IInv', WInv, Prepare PROVE WInv' /\ Keeps
<1>1. /\ host.pc \in Judged /\ host.pc \in {"prepare"} /\ UNCHANGED <<turn, made, tree, remote>>
      /\ "reset" \in Plain
  BY DEF Prepare, At, Judged, Publishing, Plain, world
<1> PICK seen \in {remote, None} :
      Save([host.mem EXCEPT !.status = "COMMIT_PREPARED", !.candResult = Current,
              !.cand = Candidate, !.parent = tree.head, !.before = seen], "reset")
  BY DEF Prepare
<1> PICK m : m = host.mem
  OBVIOUS
<1> PICK c : c = Current
  OBVIOUS
<1> PICK k : k = Candidate
  OBVIOUS
<1> PICK p : p = tree.head
  OBVIOUS
<1> PICK s : s = [m EXCEPT !.status = "COMMIT_PREPARED", !.candResult = c,
                            !.cand = k, !.parent = p, !.before = seen]
  OBVIOUS
<1>2. /\ m \in States /\ c = m.active.turn /\ c \in Turns /\ c # 0 /\ c <= made /\ ~Alive(c)
      /\ m.thread # 0
  BY <1>1, JudgedFacts DEF Active, Current, Sound
<1>3. Working /\ disk # None /\ disk.active.turn = c
  BY <1>1, <1>2, JudgedWork, CopyIs
<1>4. /\ s.cand = k /\ s.parent = p /\ s.candResult = c /\ s.thread = m.thread /\ s.active = m.active
  BY <1>2 DEF States
<1>5. k # None /\ k.path # <<>> /\ Of(k) = Carried /\ p # None
  BY CandidateCommit, CandidatePath, CandidateWork, RunnerAssumption DEF IInv, TypeOK
<1>6. disk' = s /\ host'.pc = "reset" /\ host'.mem = s
  <2>1. Save(s, "reset") /\ "reset" # "idle"
    OBVIOUS
  <2>2. disk' = s /\ host' = [host EXCEPT !.pc = "reset", !.mem = s]
    BY <2>1, SaveForm
  <2> QED BY <2>2, HostForm DEF IInv
<1>7. s # None
  BY <1>6 DEF IInv, HostBook, Opening
<1>8. Carried' = Carried /\ Of(remote)' = Of(remote) /\ Recorded' = Carried
  BY <1>1, <1>4, <1>5, <1>6, <1>7 DEF Carried, Recorded, Of
<1>9. tree.there /\ Standing /\ Of(remote) \subseteq Carried
  BY <1>2, <1>3 DEF WInv, FileWork
<1>10. Standing' /\ (Of(remote) \subseteq Carried)' /\ tree'.there /\ ~Alive(c)'
  BY <1>1, <1>2, <1>8, <1>9 DEF Standing, Alive
<1>11. FileWork'
  BY <1>1, <1>2, <1>4, <1>5, <1>6, <1>8, <1>10 DEF FileWork
<1>12. CopyWork'
  BY <1>6, <1>7 DEF CopyWork
<1>13. Held \ Beneath \subseteq Held'
  BY <1>8, <1>9, HeldParts DEF Held, Carried, Standing
<1> QED BY <1>1, <1>6, <1>11, <1>12, <1>13, PlainPc DEF WInv, Keeps

\* While a candidate is published, it has all that is in the worktree.
LEMMA PublishingWork ==
  ASSUME IInv, WInv, host.pc \in Publishing
  PROVE  /\ Working /\ host.pc \in Judged /\ disk # None /\ disk.active.turn # 0
         /\ disk.candResult = disk.active.turn
         /\ tree.there /\ Standing /\ Of(remote) \subseteq Carried /\ Carried \subseteq Recorded
         /\ Recorded = Of(host.mem.cand)
<1>1. Working /\ host.pc \in Judged
  BY DEF Working, Opening, Judged, Publishing
<1>2. /\ disk # None /\ disk.active.turn # 0 /\ disk.candResult = disk.active.turn
      /\ Recorded = Of(host.mem.cand)
  BY <1>1, CopyIs, PublishingFacts, JudgedFacts
<1> QED BY <1>1, <1>2 DEF WInv, FileWork

LEMMA ToCandidate ==
  ASSUME IInv, WInv, host.pc \in Publishing, UNCHANGED <<disk, turn, made, remote>>,
         tree' = [tree EXCEPT !.head = host.mem.cand, !.dirty = {}]
  PROVE  FileWork' /\ Keeps
<1> PICK k : k = host.mem.cand
  OBVIOUS
<1>1. tree'.there = tree.there /\ tree'.head = k /\ tree'.dirty = {}
  BY DEF IInv, TypeOK
<1>2. /\ Carried' = Of(k) /\ Recorded' = Recorded /\ Beneath' = Beneath /\ Of(remote)' = Of(remote)
  BY <1>1 DEF Carried, Recorded, Beneath, Of
<1>3. Carried \subseteq Carried' /\ Carried' = Recorded
  BY <1>2, PublishingWork
<1>4. Standing' /\ Of(remote)' \subseteq Carried' /\ tree'.there
  BY <1>1, <1>2, <1>3, PublishingWork DEF Standing
<1>5. ~Alive(disk.active.turn)'
  BY PublishingWork DEF Alive, WInv, FileWork
<1>6. FileWork'
  BY <1>2, <1>3, <1>4, <1>5, PublishingWork DEF FileWork, WInv
<1>7. Held \subseteq Held'
  BY <1>2, <1>3, HeldParts DEF Held, Carried, Recorded
<1> QED BY <1>6, <1>7 DEF Keeps

LEMMA ResetWork == ASSUME IInv, IInv', WInv, Reset \/ Prepared PROVE WInv' /\ Keeps
<1>1. /\ host.pc \in Publishing /\ {"committed", "finish"} \subseteq Plain
      /\ UNCHANGED <<world, remote>> /\ "PUBLISH_INCONCLUSIVE" \in Statuses
  BY DEF Reset, Prepared, At, Publishing, Plain, Judged, Statuses
<1>2. /\ Working /\ host.mem \in States /\ Current \in 0..MaxTurns
      /\ UNCHANGED <<turn, made, remote>> /\ NoneWakes
  BY <1>1, JudgedWork, PublishingWork, Wakes DEF world
<1>3. ASSUME NEW pc2 \in {"committed", "finish"}, NEW s,
             s.parent = host.mem.parent, s.candResult = host.mem.candResult, s.thread = host.mem.thread,
             host' = [host EXCEPT !.pc = pc2, !.mem = s], disk' = disk,
             tree' = tree \/ tree' = [tree EXCEPT !.head = host.mem.cand, !.dirty = {}]
      PROVE  WInv' /\ Keeps
  <2>1. CASE tree' = tree
    BY <1>1, <1>2, <1>3, <2>1, ThinkWork
  <2>2. CASE tree' = [tree EXCEPT !.head = host.mem.cand, !.dirty = {}]
    <3>1. FileWork' /\ Keeps
      BY <1>1, <1>2, <1>3, <2>2, ToCandidate
    <3>2. host'.pc = pc2 /\ host'.mem = s /\ pc2 \in Plain
      BY <1>1, <1>3, HostForm DEF IInv
    <3>3. CopyWork'
      BY <1>2, <1>3, <3>2, CopyIs DEF CopyWork
    <3> QED BY <3>1, <3>2, <3>3, PlainPc DEF WInv
  <2> QED BY <1>3, <2>1, <2>2
<1>4. CASE Reset
  <2> PICK s : s = Disposed(host.mem, Current)
    OBVIOUS
  <2>1. s.parent = host.mem.parent /\ s.candResult = host.mem.candResult /\ s.thread = host.mem.thread
    BY <1>2 DEF Disposed, States
  <2>2. PICK pc2 \in {"committed", "finish"} : Think(s, pc2)
    BY <1>4 DEF Reset
  <2>3. tree' = tree \/ tree' = [tree EXCEPT !.head = host.mem.cand, !.dirty = {}]
    BY <1>4 DEF Reset
  <2> QED BY <1>3, <2>1, <2>2, <2>3 DEF Think
<1>5. CASE Prepared
  <2>1. CASE Publication("PUBLISH_INCONCLUSIVE", "finish") /\ UNCHANGED tree
    BY <1>1, <1>2, <2>1, StatusWork DEF Publication
  <2>2. CASE \E pc2 \in {"committed", "finish"} : Goto(pc2) /\ UNCHANGED disk
    <3>1. PICK pc2 \in {"committed", "finish"} : Goto(pc2)
      BY <2>2
    <3>2. tree' = tree \/ tree' = [tree EXCEPT !.head = host.mem.cand, !.dirty = {}]
      BY <1>5 DEF Prepared
    <3> PICK m : m = host.mem
      OBVIOUS
    <3>3. host' = [host EXCEPT !.pc = pc2, !.mem = m]
      BY <3>1, GotoForm DEF IInv
    <3> QED BY <1>3, <2>2, <3>2, <3>3
  <2> QED BY <1>5, <2>1, <2>2 DEF Prepared
<1> QED BY <1>4, <1>5

LEMMA PushWork == ASSUME IInv, IInv', WInv, Push PROVE WInv' /\ Keeps
<1>1. host.pc \in Publishing /\ "confirm" \in Plain /\ UNCHANGED <<disk, tree, turn, made>>
  BY DEF Push, At, Publishing, Plain, Judged, world
<1>2. remote' \in {remote, tree.head} /\ tree.head \in Commits
  BY DEF Push, IInv, TypeOK
<1>3. Of(remote') \subseteq Carried
  BY <1>1, <1>2, PublishingWork DEF Carried
<1>4. Carried' = Carried /\ Recorded' = Recorded /\ Beneath' = Beneath /\ Of(remote)' = Of(remote')
  BY <1>1 DEF Carried, Recorded, Beneath, Of
<1>5. Standing'
  BY <1>1, <1>4, PublishingWork DEF Standing
<1>6. ~Alive(disk.active.turn)'
  BY <1>1, PublishingWork DEF Alive, WInv, FileWork
<1>7. FileWork'
  BY <1>1, <1>3, <1>4, <1>5, <1>6, PublishingWork DEF FileWork, WInv
<1>8. host'.pc = "confirm" /\ host'.mem = host.mem
  BY GotoFields DEF Push, IInv
<1>9. CopyWork'
  BY <1>1, <1>8 DEF WInv, CopyWork
<1>10. Held \subseteq Held'
  BY <1>1, <1>4, PublishingWork, HeldParts DEF Held, Carried, Recorded
<1> QED BY <1>1, <1>7, <1>8, <1>9, <1>10, PlainPc DEF WInv, Keeps

(***************************************************************************)
(* A candidate moves to a new base.                                        *)
(***************************************************************************)
LEMMA MovingWork ==
  ASSUME IInv, WInv, host.pc \in Moving
  PROVE  /\ Working /\ disk # None /\ disk.active = NoTurn /\ disk.active.turn = 0
         /\ host.mem.cand = disk.cand /\ disk.cand # None
         /\ host.mem.parent = disk.parent /\ host.mem.candResult = disk.candResult
         /\ host.mem.thread = disk.thread
         /\ host.mem.cand \in Commits /\ host.mem.parent \in Commits
         /\ Recorded = Of(host.mem.cand) /\ Beneath = Of(host.mem.parent)
         /\ Diff(host.mem.parent, host.mem.cand) \subseteq Recorded
         /\ Recorded \subseteq Diff(host.mem.parent, host.mem.cand) \union Beneath
         /\ tree.there /\ MainHead(host.onto).path = <<>> /\ Of(MainHead(host.onto)) = {}
<1>1. Working
  BY DEF Working, Opening, Moving
<1>2. disk.active = NoTurn /\ NoTurn.turn = 0
  BY MovingFacts DEF NoTurn
<1>3. disk.active.turn = 0
  BY <1>2
<1>4. Of(MainHead(host.onto)) = {} /\ MainHead(host.onto).path = <<>>
  BY MovingFacts, NoWork DEF MainHead
<1>5. tree.there
  BY DEF WInv, MoveWork
<1> QED BY <1>1, <1>2, <1>3, <1>4, <1>5, MovingFacts, CopyIs, DiffOf

\* A step of the move that leaves the state file as it is
LEMMA MovingFile ==
  ASSUME IInv, WInv, host.pc \in Moving, UNCHANGED <<disk, turn, made>>,
         Of(remote)' \subseteq Carried' \union Recorded \union Beneath,
         tree'.there, Standing' \/ Bare',
         Held \ Beneath \subseteq Carried' \union Of(remote)' \union Recorded
  PROVE  FileWork' /\ Keeps
<1>1. Recorded' = Recorded /\ Beneath' = Beneath
  BY DEF Recorded, Beneath, Of
<1>2. disk' # None /\ disk'.active.turn = 0
  BY MovingWork
<1>3. /\ disk'.cand # None => disk'.thread # 0 /\ disk'.cand.path # <<>>
      /\ disk'.candResult <= made'
  BY <1>2 DEF WInv, FileWork
<1>4. FileWork'
  BY <1>1, <1>2, <1>3 DEF FileWork
<1>5. Held' = Carried' \union Of(remote)' \union Recorded'
  BY DEF Held, Carried, Recorded
<1> QED BY <1>1, <1>4, <1>5 DEF Keeps

LEMMA RebaseWork == ASSUME IInv, IInv', WInv, Rebase PROVE WInv' /\ Keeps
<1>1. host.pc = "rebase" /\ host.pc \in Moving /\ UNCHANGED <<disk, turn, made, remote>>
  BY DEF Rebase, At, Moving, world
<1>2. tree.head = disk.cand /\ remote \in {disk.cand, Alien} /\ tree.dirty = {}
  BY <1>1 DEF WInv, MoveWork
<1> PICK b : b = MainHead(host.onto)
  OBVIOUS
<1>3. tree' = [tree EXCEPT !.head = b, !.dirty = {}]
  BY DEF Rebase
<1>4. tree'.head = b /\ tree'.dirty = {} /\ tree'.there = tree.there
  BY <1>3 DEF IInv, TypeOK
<1>5. Held \subseteq Recorded /\ Of(remote)' \subseteq Recorded
  <2>1. Of(tree.head) = Recorded /\ Of(remote) \subseteq Recorded
    BY <1>1, <1>2, MovingWork, NoWork
  <2>2. Of(remote)' = Of(remote)
    BY <1>1 DEF Of
  <2> QED BY <1>2, <2>1, <2>2, HeldParts DEF Carried
<1>6. Bare'
  BY <1>1, <1>2, <1>4, MovingWork DEF Bare
<1>7. FileWork' /\ Keeps
  BY <1>1, <1>4, <1>5, <1>6, MovingWork, MovingFile
<1>8. host'.pc = "apply" /\ host'.mem = host.mem
  BY GotoFields DEF Rebase, IInv
<1>9. CopyWork' /\ StartWork' /\ MoveWork'
  BY <1>1, <1>2, <1>4, <1>8, MovingWork DEF CopyWork, StartWork, MoveWork, Readied, Seeing, Opening
<1> QED BY <1>7, <1>9 DEF WInv

LEMMA ApplyWork == ASSUME IInv, IInv', WInv, Apply PROVE WInv' /\ Keeps
<1>1. host.pc = "apply" /\ host.pc \in Moving /\ UNCHANGED <<disk, turn, made, remote>>
  BY DEF Apply, At, Moving, world
<1>2. remote \in {disk.cand, Alien} /\ tree.dirty = {} /\ tree.head = MainHead(host.onto)
  BY <1>1 DEF WInv, MoveWork, IInv, TreeBook
<1>3. Held \subseteq Recorded /\ Of(remote)' \subseteq Recorded
  <2>1. Of(tree.head) = {} /\ Of(remote) \subseteq Recorded
    BY <1>1, <1>2, MovingWork, NoWork
  <2>2. Of(remote)' = Of(remote)
    BY <1>1 DEF Of
  <2> QED BY <1>2, <2>1, <2>2, HeldParts DEF Carried
<1>4. CASE tree' = [tree EXCEPT !.dirty = Diff(host.mem.parent, host.mem.cand)] /\ Goto("move")
  <2> PICK e : e = Diff(host.mem.parent, host.mem.cand)
    OBVIOUS
  <2>1. tree'.head = tree.head /\ tree'.dirty = e /\ tree'.there = tree.there
    BY <1>4 DEF IInv, TypeOK
  <2>2. Carried' = e
    <3>1. Of(tree.head)' = {}
      BY <1>1, <1>2, <2>1, MovingWork DEF Of
    <3> QED BY <2>1, <3>1 DEF Carried
  <2>3. Recorded' = Recorded /\ Beneath' = Beneath
    BY <1>1 DEF Recorded, Beneath, Of
  <2>4. Standing'
    BY <1>1, <2>2, <2>3, MovingWork DEF Standing
  <2>5. FileWork' /\ Keeps
    BY <1>1, <1>3, <2>1, <2>4, MovingWork, MovingFile
  <2>6. host'.pc = "move" /\ host'.mem = host.mem /\ host'.onto = host.onto
    BY <1>4, GotoFields DEF IInv
  <2>7. CopyWork'
    BY <1>1, <2>6, MovingWork DEF CopyWork
  <2>8. StartWork'
    BY <2>6 DEF StartWork, Readied, Seeing, Opening
  <2>9. MoveWork'
    BY <1>1, <1>2, <2>1, <2>6, MovingWork DEF MoveWork
  <2> QED BY <2>5, <2>7, <2>8, <2>9 DEF WInv
<1>5. CASE tree' = [tree EXCEPT !.head = host.mem.cand] /\ Return
  <2> PICK k : k = host.mem.cand
    OBVIOUS
  <2>1. tree'.head = k /\ tree'.dirty = {} /\ tree'.there = tree.there
    BY <1>2, <1>5 DEF IInv, TypeOK
  <2>2. Carried' = Recorded /\ Recorded' = Recorded
    BY <1>1, <2>1, MovingWork DEF Carried, Recorded, Of
  <2>3. Standing'
    BY <2>2 DEF Standing
  <2>4. FileWork' /\ Keeps
    BY <1>1, <1>3, <2>1, <2>3, MovingWork, MovingFile
  <2> QED BY <1>5, <2>4, IdleWork DEF Return
<1> QED BY <1>4, <1>5 DEF Apply

LEMMA ShiftWork == ASSUME IInv, IInv', WInv, Move PROVE WInv' /\ Keeps
<1>1. host.pc = "move" /\ host.pc \in Moving /\ UNCHANGED <<disk, turn, made, tree>>
  BY DEF Move, At, Moving, world
<1>2. /\ tree.head = MainHead(host.onto) /\ tree.dirty = Diff(host.mem.parent, host.mem.cand)
      /\ Of(tree.head) = {}
  BY <1>1, MovingWork DEF WInv, MoveWork
<1>3. PICK pc2 \in {"moved", "restore"} :
         /\ Goto(pc2)
         /\ \/ remote = host.mem.cand /\ remote' = tree.head
            \/ pc2 = "restore" /\ remote' = remote
  BY DEF Move, Lease
<1>4. Carried' = Carried /\ Carried \subseteq Recorded
  BY <1>1, <1>2, MovingWork DEF Carried
<1>5. Standing'
  <2>1. Recorded' = Recorded /\ Beneath' = Beneath
    BY <1>1 DEF Recorded, Beneath, Of
  <2> QED BY <1>1, <1>2, <1>4, <2>1, MovingWork DEF Standing, Carried
<1>6. CASE remote = host.mem.cand /\ remote' = tree.head
  <2>1. Of(remote) = Recorded /\ Of(remote)' = {}
    <3>1. Of(remote)' = Of(tree.head)
      BY <1>6 DEF Of
    <3> QED BY <1>1, <1>2, <1>6, <3>1, MovingWork
  <2>2. FileWork' /\ Keeps
    BY <1>1, <1>4, <1>5, <2>1, HeldParts, MovingWork, MovingFile
  <2> QED
    <3>1. host'.pc = pc2 /\ host'.mem = host.mem /\ host'.onto = host.onto
      BY <1>3, GotoFields DEF IInv
    <3>2. CopyWork'
      BY <1>1, <3>1, MovingWork DEF CopyWork
    <3>3. StartWork'
      BY <3>1 DEF StartWork, Readied, Seeing, Opening
    <3>4. MoveWork'
      BY <1>1, <1>2, <2>1, <3>1, MovingWork DEF MoveWork
    <3> QED BY <2>2, <3>2, <3>3, <3>4 DEF WInv
<1>7. CASE pc2 = "restore" /\ remote' = remote
  <2>1. Of(remote)' = Of(remote) /\ Of(remote) \subseteq Carried \union Recorded \union Beneath
    BY <1>7 DEF Of, WInv, FileWork
  <2>2. FileWork' /\ Keeps
    BY <1>1, <1>4, <1>5, <2>1, HeldParts, MovingWork, MovingFile
  <2>3. host'.pc = "restore" /\ host'.mem = host.mem /\ host'.onto = host.onto
    BY <1>3, <1>7, GotoFields DEF IInv
  <2>4. CopyWork'
    BY <1>1, <2>3, MovingWork DEF CopyWork
  <2>5. StartWork'
    BY <2>3 DEF StartWork, Readied, Seeing, Opening
  <2>6. MoveWork'
    BY <1>1, <1>2, <2>3, MovingWork DEF MoveWork
  <2> QED BY <2>2, <2>4, <2>5, <2>6 DEF WInv
<1> QED BY <1>3, <1>6, <1>7

LEMMA RestoreWork == ASSUME IInv, IInv', WInv, Restore PROVE WInv' /\ Keeps
<1>1. host.pc = "restore" /\ host.pc \in Moving /\ UNCHANGED <<disk, turn, made, remote>>
  BY DEF Restore, At, Moving, world
<1>2. /\ Of(tree.head) = {} /\ tree.dirty = Diff(host.mem.parent, host.mem.cand)
  BY <1>1, MovingWork DEF WInv, MoveWork
<1> PICK k : k = host.mem.cand
  OBVIOUS
<1>3. tree'.head = k /\ tree'.dirty = {} /\ tree'.there = tree.there
  BY DEF Restore, IInv, TypeOK
<1>4. Carried' = Recorded /\ Recorded' = Recorded /\ Carried \subseteq Recorded
  BY <1>1, <1>2, <1>3, MovingWork DEF Carried, Recorded, Of
<1>5. Standing'
  BY <1>4 DEF Standing
<1>6. Of(remote)' = Of(remote) /\ Of(remote) \subseteq Carried \union Recorded \union Beneath
  BY <1>1 DEF Of, WInv, FileWork
<1>7. FileWork' /\ Keeps
  BY <1>1, <1>3, <1>4, <1>5, <1>6, HeldParts, MovingWork, MovingFile
<1> QED BY <1>7, IdleWork DEF Restore, Return

LEMMA MovedWork == ASSUME IInv, IInv', WInv, Moved PROVE WInv' /\ Keeps
<1>1. host.pc = "moved" /\ host.pc \in Moving /\ UNCHANGED <<turn, made, tree, remote>>
  BY DEF Moved, At, Moving, world
<1>2. /\ Of(tree.head) = {} /\ tree.dirty = Diff(host.mem.parent, host.mem.cand) /\ Of(remote) = {}
  BY <1>1, MovingWork DEF WInv, MoveWork
<1> PICK m : m = host.mem
  OBVIOUS
<1> PICK s : s = [m EXCEPT !.status = "RECONCILING", !.cand = None, !.parent = None,
                           !.before = None, !.candResult = 0]
  OBVIOUS
<1>3. m \in States /\ m.active.turn = 0
  <2>1. NoTurn.turn = 0 /\ m.active = NoTurn
    BY <1>1, MovingFacts DEF NoTurn, Active
  <2> QED BY <1>1, <2>1, MovingFacts
<1>4. s.active = m.active /\ s.cand = None /\ s.parent = None /\ s.candResult = 0
  BY <1>3 DEF States
<1>5. disk' = s /\ host' = Idle
  BY SaveForm DEF Moved
<1>6. Carried' = Carried /\ Of(remote)' = {} /\ Recorded' = {}
  BY <1>1, <1>2, <1>4, <1>5, NoWork DEF Carried, Recorded, Of
<1>7. 0 <= made'
  BY <1>1, RunnerAssumption DEF IInv, TypeOK
<1>8. Standing' /\ tree'.there
  BY <1>1, <1>6, MovingWork DEF Standing
<1>9. FileWork'
  BY <1>3, <1>4, <1>5, <1>6, <1>7, <1>8 DEF FileWork
<1>10. Held \ Beneath \subseteq Held'
  <2>1. Recorded \subseteq Carried \union Beneath
    BY <1>1, <1>2, MovingWork DEF Carried
  <2> QED BY <1>2, <1>6, <2>1, HeldParts DEF Held, Carried
<1> QED BY <1>5, <1>9, <1>10, IdleWork DEF Keeps

(***************************************************************************)
(* Around the command, and every step.                                     *)
(***************************************************************************)
LEMMA EditWork == ASSUME IInv, IInv', WInv, NEW t \in Turns, Edit(t) PROVE WInv' /\ Keeps
<1>1. /\ Alive(t) /\ UNCHANGED <<disk, host, turn, made, remote>>
      /\ tree' = [tree EXCEPT !.dirty = tree.dirty \union {t}]
  BY DEF Edit, Alive, world
<1>2. tree'.there = tree.there /\ tree'.head = tree.head /\ tree.dirty \subseteq tree'.dirty
  BY <1>1 DEF IInv, TypeOK
<1>3. disk # None /\ disk.active.turn = t /\ t # 0
  BY <1>1, FileBook, RunnerAssumption DEF Turns
<1>4. /\ tree.there /\ Standing /\ Of(remote) \subseteq Carried
      /\ disk.candResult # disk.active.turn
  BY <1>1, <1>3 DEF WInv, FileWork
<1>5. /\ Carried \subseteq Carried' /\ Recorded' = Recorded /\ Beneath' = Beneath
      /\ Of(remote)' = Of(remote)
  BY <1>1, <1>2 DEF Carried, Recorded, Beneath, Of
<1>6. tree'.there /\ Standing' /\ Of(remote)' \subseteq Carried'
  BY <1>2, <1>4, <1>5 DEF Standing
<1>7. FileWork'
  BY <1>1, <1>3, <1>4, <1>6 DEF FileWork, WInv
<1>8. CopyWork'
  BY <1>1 DEF WInv, CopyWork
<1>9. StartWork'
  BY <1>1, <1>6 DEF WInv, StartWork, Readied, Seeing
<1>10. host.pc \notin Moving
  BY <1>1, MovingFacts
<1>11. MoveWork'
  BY <1>1, <1>10 DEF MoveWork, Moving
<1>12. Held \subseteq Held'
  BY <1>5, HeldParts DEF Held, Carried, Recorded
<1> QED BY <1>7, <1>8, <1>9, <1>11, <1>12 DEF WInv, Keeps

LEMMA ForeignWork == ASSUME IInv, IInv', WInv, ForeignPush PROVE WInv' /\ Keeps
<1>1. UNCHANGED <<disk, host, tree, turn, made>> /\ remote' = Alien
  BY DEF ForeignPush, world
<1>2. /\ Carried' = Carried /\ Recorded' = Recorded /\ Beneath' = Beneath /\ Of(remote)' = {}
  BY <1>1, NoWork DEF Carried, Recorded, Beneath, Of
<1>3. Standing' = Standing /\ (Bare => Bare')
  BY <1>1, <1>2 DEF Standing, Bare
<1>4. FileWork'
  BY <1>1, <1>2, <1>3 DEF FileWork, WInv, Alive
<1>5. CopyWork'
  BY <1>1 DEF WInv, CopyWork
<1>6. StartWork'
  BY <1>1, <1>2, <1>3 DEF WInv, StartWork, Readied, Seeing
<1>7. MoveWork'
  BY <1>1, <1>2 DEF WInv, MoveWork
<1>8. Held \ Beneath \subseteq Held'
  BY <1>2, HeldParts DEF Held, Carried, Recorded, WInv, FileWork
<1> QED BY <1>4, <1>5, <1>6, <1>7, <1>8 DEF WInv, Keeps

LEMMA OtherWork ==
  ASSUME IInv, IInv', WInv,
         Stop \/ MainMoves \/ UNCHANGED runnerVars \/ \E t \in Turns : End(t)
  PROVE  WInv' /\ Keeps
<1>1. made \in Nat /\ turn \in [Turns -> Files] /\ made' = made
  <2>1. made \in Nat /\ turn \in [Turns -> Files]
    BY RunnerAssumption DEF IInv, TypeOK
  <2>2. made' = made
    BY DEF Stop, MainMoves, runnerVars, End
  <2> QED BY <2>1, <2>2
<1>2. UNCHANGED <<disk, host, tree, remote>>
  BY DEF Stop, MainMoves, runnerVars, End
<1>3. CASE MainMoves \/ UNCHANGED runnerVars
  BY <1>1, <1>2, <1>3, Wakes, OutsideWork DEF MainMoves, runnerVars
<1>4. ASSUME NEW t \in Turns, turn' = Killed(t) PROVE WInv' /\ Keeps
  <2>1. NoneWakes
    BY <1>1, <1>4, KilledCalm DEF NoneWakes, Calm, IInv
  <2> QED BY <1>2, <2>1, OutsideWork
<1>5. ASSUME NEW t \in Turns, NEW result \in Results,
             turn' = [turn EXCEPT ![t].proc = "dead", ![t].result = result]
      PROVE  WInv' /\ Keeps
  <2>1. \A u \in Turns : u # t => turn'[u] = turn[u]
    BY <1>1, <1>5
  <2>2. turn'[t].proc = "dead"
    BY <1>1, <1>5 DEF Files
  <2>3. NoneWakes
    BY <1>1, <2>1, <2>2 DEF NoneWakes, Alive
  <2> QED BY <1>2, <2>3, OutsideWork
<1>6. CASE Stop
  <2>1. disk # None /\ disk.active.pid /\ turn' = Killed(disk.active.turn)
    BY <1>6 DEF Stop, Owned
  <2>2. NoTurn.pid = FALSE
    BY DEF NoTurn
  <2>3. disk.active # NoTurn
    BY <2>1, <2>2
  <2>4. disk.active.turn \in Turns
    BY <2>1, <2>3, FileBook, TurnOf DEF Sound
  <2> QED BY <1>4, <2>1, <2>4
<1>7. CASE \E t \in Turns : End(t)
  BY <1>4, <1>5, <1>7 DEF End
<1> QED BY <1>3, <1>6, <1>7

LEMMA HostWork == ASSUME IInv, IInv', WInv, HostStep PROVE WInv' /\ Keeps
<1>1. CASE Repair \/ Align \/ Load \/ Worktree \/ Initialize \/ NotActive \/ Intent \/ Spawn
  BY <1>1, RepairWork, AlignWork, LoadWork, WorktreeWork, InitializeWork, NotActiveWork,
     IntentWork, SpawnWork
<1>2. CASE Identity \/ Event \/ Bind \/ Reap \/ Exited \/ Judge \/ Evidence \/ Recover
  BY <1>2, TurnWork, EndedWork
<1>3. CASE Dispatch \/ Blocker \/ Blocked \/ Finish \/ V2 \/ Committed \/ Pending
             \/ Publish \/ Confirm \/ Finalize \/ Verify
  BY <1>3, FiledWork
<1>4. CASE Prepare \/ Reset \/ Prepared \/ Push
  BY <1>4, PrepareWork, ResetWork, PushWork
<1>5. CASE Rebase \/ Apply \/ Move \/ Restore \/ Moved
  BY <1>5, RebaseWork, ApplyWork, ShiftWork, RestoreWork, MovedWork
<1> QED BY <1>1, <1>2, <1>3, <1>4, <1>5 DEF HostStep

LEMMA WorkStep == IInv /\ IInv' /\ WInv /\ [Next]_runnerVars => WInv' /\ Keeps
<1> SUFFICES ASSUME IInv, IInv', WInv, [Next]_runnerVars PROVE WInv' /\ Keeps
  OBVIOUS
<1>1. CASE \/ StartCommand \/ RecoverCommand \/ ReconcileCommand
           \/ \E mode \in {"resume", "rotate"} : ResumeCommand(mode)
  BY <1>1, CommandWork
<1>2. CASE HostStep
  BY <1>2, HostWork
<1>3. CASE Crash
  <2>1. NoneWakes /\ Return /\ UNCHANGED <<disk, tree, remote>>
    BY <1>3, Wakes DEF Crash, world
  <2> QED BY <2>1, ReturnWork
<1>4. CASE \E t \in Turns : Edit(t)
  BY <1>4, EditWork
<1>5. CASE Stop \/ MainMoves \/ UNCHANGED runnerVars \/ \E t \in Turns : End(t)
  BY <1>5, OtherWork
<1>6. CASE ForeignPush
  BY <1>6, ForeignWork
<1> QED BY <1>1, <1>2, <1>3, <1>4, <1>5, <1>6 DEF Next

LEMMA InitWork == Init => WInv
<1> SUFFICES ASSUME Init PROVE WInv
  OBVIOUS
<1>1. disk = None /\ host = Idle /\ remote = None /\ tree.dirty = {} /\ tree.head = MainHead(0)
  BY DEF Init
<1>2. Of(MainHead(0)) = {} /\ Of(None) = {}
  BY NoWork, RunnerAssumption
<1>3. Carried = {} /\ Recorded = {} /\ Of(remote) = {}
  BY <1>1, <1>2 DEF Carried, Recorded
<1>4. FileWork
  BY <1>1, <1>3 DEF FileWork, Standing
<1>5. host.pc = "idle" /\ host.mem = None
  BY <1>1 DEF Idle
<1> QED BY <1>4, <1>5 DEF WInv, CopyWork, StartWork, MoveWork, Readied, Seeing, Opening, Moving

\* A turn's edits outlive every crash, stop, foreign push and failed move: they are
\* in the worktree, on the branch or in the recorded candidate, unless they lay
\* beneath that candidate already.
THEOREM NoWorkStranded == Spec => WorkKept
<1>1. IInv /\ IInv' /\ WInv /\ [Next]_runnerVars => WInv' /\ [Held \ Beneath \subseteq Held']_runnerVars
  BY WorkStep DEF Keeps
<1> QED BY <1>1, InitWork, Invariance, PTL DEF Spec, WorkKept
=============================================================================
