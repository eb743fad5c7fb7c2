--------------------------- MODULE WorkerLoopProof ---------------------------
(***************************************************************************)
(* Proofs about WorkerLoop: what the status of a workflow command says     *)
(* about the transport and about GitHub, and that it only ever moves       *)
(* forward, and is put in doubt only for a reason, for any number of plans,*)
(* confirmations, comments and operations whose statements interleave.     *)
(***************************************************************************)
EXTENDS WorkerLoop, FiniteSetTheorems, TLAPS

(***************************************************************************)
(* The inductive invariant.                                                *)
(***************************************************************************)
Delivered(p) == link[p] # None /\ right[link[p]] = "delivered"
Marked(p, v) == \E m \in posted : m.command = p /\ m.verdict = v

\* What a status claims about the rest of the world
Holds(p, s) == /\ s # "created"
               /\ s = "awaiting_result" => Delivered(p)
               /\ s \in Executed => Marked(p, s)

CommandBook == \A p \in Commands : Holds(p, command[p])

\* An operation only ever carries statuses that would be true now: what it
\* read stays true while it waits for its next statement.
Sound(i) == Holds(i.p, i.to) /\ i.to # "absent" /\ command[i.p] # "absent"

Early == {"plan", "persist", "link"}
\* A Create before its link exists holds the status of its own delivery, which
\* becomes true of the command when the link is its own.
Confirmed(r) ==
  /\ r.d \in Deliveries /\ planOf[r.d] \in Commands /\ right[r.d] # "absent"
  /\ r.cur = None
  /\ \A i \in r.todo : /\ i.p = planOf[r.d]
                       /\ i.to \notin Executed \cup {"absent", "created"}
                       /\ i.to = "awaiting_result" => right[r.d] = "delivered"
  /\ r.pc = "link" => command[planOf[r.d]] # "absent"

Posted(s) == \A c \in Comments : s.body[c] \in posted \cup {Junk, None}

Fits(r) ==
  /\ r.pc \in Early => Confirmed(r)
  /\ r.pc \notin Early => \A i \in r.todo : Sound(i)
  /\ r.cur = None => r.read = ""
  /\ r.cur # None => Sound(r.cur)
  /\ r.cur # None /\ r.read # "" => r.read # "absent" /\ Allowed(r.read, r.cur.to)
  /\ Posted(r.snap)
  /\ r.pc = "observe" => \A c \in r.left : r.snap.body[c] # None
  /\ r.pc = "sync" => r.d \in Deliveries

JobBook == \A j \in Jobs : Fits(job[j])

\* Every marker the database or an operation knows once stood on GitHub.
MarkerBook ==
  /\ Posted(github) /\ Posted(stored)
  /\ \A c \in Comments : row[c].status = "accepted" => row[c].body \in posted

\* Only a confirmed delivery has a plan.
PlanBook == \A d \in Deliveries : planOf[d] # None => right[d] # "absent"

IInv == TypeOK /\ LinkBook /\ CommandBook /\ JobBook /\ MarkerBook /\ PlanBook

(***************************************************************************)
(* Lemmas                                                                  *)
(***************************************************************************)
\* What no step takes back
RightMoves ==
  \A d \in Deliveries : /\ right[d] = "delivered" => right'[d] = "delivered"
                        /\ right[d] # "absent" => right'[d] # "absent"
Moves ==
  /\ RightMoves
  /\ \A d \in Deliveries : /\ right[d] # "absent" => planOf'[d] = planOf[d]
                           /\ planOf'[d] = planOf[d] \/ right'[d] # "absent"
  /\ \A p \in Commands : link[p] # None => link'[p] = link[p]
  /\ \A p \in Commands : command[p] # "absent" => command'[p] # "absent"
  /\ posted \subseteq posted'

LEMMA Still ==
  ASSUME UNCHANGED <<right, planOf, link, command, posted>> PROVE Moves
BY DEF Moves, RightMoves

LEMMA PlansKept == ASSUME IInv, Moves PROVE PlanBook'
BY DEF IInv, PlanBook, Moves, RightMoves

LEMMA HoldsKept ==
  ASSUME IInv, Moves PROVE \A p \in Commands : \A s : Holds(p, s) => Holds(p, s)'
<1>1. \A p \in Commands : Delivered(p) => Delivered(p)'
  BY DEF IInv, TypeOK, Moves, RightMoves, Delivered
<1>2. \A p \in Commands : \A v : Marked(p, v) => Marked(p, v)'
  BY DEF Moves, Marked
<1> QED BY <1>1, <1>2 DEF Holds

LEMMA SoundKept ==
  ASSUME IInv, Moves PROVE \A i \in Items : Sound(i) => Sound(i)'
<1>1. \A i \in Items : i.p \in Commands BY DEF Items
<1> QED BY <1>1, HoldsKept DEF Sound, Moves

LEMMA PostedKept ==
  ASSUME Moves PROVE \A s : Posted(s) => Posted(s)'
BY DEF Moves, Posted

LEMMA FitsKept ==
  ASSUME IInv, Moves, NEW r \in JobStates, Fits(r) PROVE Fits(r)'
<1>1. r.todo \subseteq Items /\ r.cur \in Items \cup {None} BY DEF JobStates
<1>2. r.pc \in Early => Confirmed(r)'
  BY DEF Fits, Confirmed, Moves, RightMoves
<1>3. r.pc \notin Early => \A i \in r.todo : Sound(i)'
  BY <1>1, SoundKept DEF Fits
<1>4. r.cur # None => Sound(r.cur)'
  BY <1>1, SoundKept DEF Fits
<1>5. Posted(r.snap)'
  BY PostedKept DEF Fits
<1> QED BY <1>2, <1>3, <1>4, <1>5 DEF Fits

\* One operation moves on, the others wait.
LEMMA OneJob ==
  ASSUME IInv, Moves, NEW j \in Jobs, \A k \in Jobs \ {j} : job'[k] = job[k], Fits(job[j])'
  PROVE  JobBook'
<1> SUFFICES ASSUME NEW k \in Jobs PROVE Fits(job[k])' BY DEF JobBook
<1>1. CASE k = j BY <1>1
<1>2. CASE k # j
  <2>1. job[k] \in JobStates /\ Fits(job[k]) BY DEF IInv, TypeOK, JobBook
  <2>2. PICK r \in JobStates : r = job[k] BY <2>1
  <2>3. Fits(r) BY <2>1, <2>2
  <2>4. Fits(r)' BY <2>3, FitsKept
  <2>5. job'[k] = r BY <1>2, <2>2
  <2> QED BY <2>4, <2>5
<1> QED BY <1>1, <1>2

LEMMA JobChange ==
  ASSUME TypeOK, NEW j \in Jobs, NEW r \in JobStates, job' = [job EXCEPT ![j] = r]
  PROVE  /\ job' \in [Jobs -> JobStates]
         /\ job'[j] = r
         /\ \A k \in Jobs \ {j} : job'[k] = job[k]
BY DEF TypeOK

\* Nothing is said of a command that was not said before.
LEMMA SameCommands ==
  ASSUME IInv, Moves, UNCHANGED <<command, link>> PROVE CommandBook' /\ LinkBook'
<1>1. CommandBook'
  <2> SUFFICES ASSUME NEW p \in Commands PROVE Holds(p, command[p])' BY DEF CommandBook
  <2>1. Holds(p, command[p]) BY DEF IInv, CommandBook
  <2>2. PICK s : s = command[p] OBVIOUS
  <2>3. Holds(p, s) BY <2>1, <2>2
  <2>4. Holds(p, s)' BY <2>3, HoldsKept
  <2> QED BY <2>2, <2>4
<1>2. LinkBook'
  BY DEF IInv, TypeOK, LinkBook, Moves, RightMoves
<1> QED BY <1>1, <1>2

LEMMA SameMarkers ==
  ASSUME IInv, Moves, UNCHANGED <<row, stored, github>> PROVE MarkerBook'
BY PostedKept DEF IInv, MarkerBook, Moves, Posted

\* A step of one operation that leaves the commands alone.
LEMMA QuietStep ==
  ASSUME IInv, Moves, NEW j \in Jobs, TypeOK', \A k \in Jobs \ {j} : job'[k] = job[k], Fits(job[j])',
         UNCHANGED <<command, link, row, stored, github>>
  PROVE  IInv'
BY OneJob, SameCommands, SameMarkers, PlansKept DEF IInv

LEMMA IdleFits == Idle \in JobStates /\ Fits(Idle) /\ Fits(Idle)'
BY DEF Idle, JobStates, Fits, Early, Posted, Blank, NoView, NoRow, Items, Snapshots, Bodies, Views, Rows, Statuses

(***************************************************************************)
(* Steps within one operation                                              *)
(***************************************************************************)
LEMMA LocalStep ==
  ASSUME IInv, NEW j \in Jobs, NEW r \in JobStates, Fits(r), job' = [job EXCEPT ![j] = r],
         UNCHANGED <<queue, command, link, row, stored, published, made, up, github,
                     posted, edited>>
  PROVE  IInv'
<1>1. Moves BY Still DEF queue
<1>2. TypeOK BY DEF IInv
<1>3. /\ job' \in [Jobs -> JobStates] /\ job'[j] = r
      /\ \A k \in Jobs \ {j} : job'[k] = job[k]
  BY <1>2, JobChange
<1>4. TypeOK'
  BY <1>2, <1>3 DEF TypeOK, queue, Rights!RightsTypeOK
<1>5. Fits(r)' BY <1>1, FitsKept
<1>6. Fits(job[j])' BY <1>3, <1>5
<1> QED BY <1>1, <1>3, <1>4, <1>6, QuietStep

LEMMA JobFacts ==
  IInv => \A j \in Jobs : job[j] \in JobStates /\ Fits(job[j])
BY DEF IInv, TypeOK, JobBook

LEMMA RecordKeeps == ASSUME IInv, NEW j \in Jobs, Record(j) PROVE IInv'
<1>1. job[j] \in JobStates /\ Fits(job[j]) BY JobFacts
<1>2. CASE Goto(j, "refresh")
  <2> DEFINE r == [job[j] EXCEPT !.pc = "refresh"]
  <2>1. job' = [job EXCEPT ![j] = r] BY <1>2 DEF Goto
  <2>2. r \in JobStates BY <1>1 DEF JobStates
  <2>3. Fits(r) BY <1>1 DEF JobStates, Fits, Early, Record
  <2> HIDE DEF r
  <2> QED BY <2>1, <2>2, <2>3, LocalStep DEF Record
<1>3. ASSUME NEW i \in job[j].todo,
             job' = [job EXCEPT ![j] = IF command[i.p] = i.to \/ command[i.p] \in Terminal
                                       THEN [job[j] EXCEPT !.todo = @ \ {i}]
                                       ELSE [job[j] EXCEPT !.cur = i]]
      PROVE  IInv'
  <2>1. i \in Items BY <1>1 DEF JobStates
  <2>2. Sound(i) BY <1>1 DEF Fits, Record, Early
  <2>3. CASE command[i.p] = i.to \/ command[i.p] \in Terminal
    <3> DEFINE r == [job[j] EXCEPT !.todo = @ \ {i}]
    <3>1. job' = [job EXCEPT ![j] = r] BY <1>3, <2>3
    <3>2. r \in JobStates BY <1>1 DEF JobStates
    <3>3. Fits(r) BY <1>1 DEF JobStates, Fits, Early, Record
    <3> HIDE DEF r
    <3> QED BY <3>1, <3>2, <3>3, LocalStep DEF Record
  <2>4. CASE ~(command[i.p] = i.to \/ command[i.p] \in Terminal)
    <3> DEFINE r == [job[j] EXCEPT !.cur = i]
    <3>1. job' = [job EXCEPT ![j] = r] BY <1>3, <2>4
    <3>2. r \in JobStates BY <1>1, <2>1 DEF JobStates
    <3>3. Fits(r) BY <1>1, <2>2 DEF JobStates, Fits, Early, Record
    <3> HIDE DEF r
    <3> QED BY <3>1, <3>2, <3>3, LocalStep DEF Record
  <2> QED BY <2>3, <2>4
<1> QED BY <1>2, <1>3 DEF Record

LEMMA SettleKeeps == ASSUME IInv, NEW j \in Jobs, Settle(j) PROVE IInv'
<1>1. job[j] \in JobStates /\ Fits(job[j]) BY JobFacts
<1>2. CASE Goto(j, "publish")
  <2> DEFINE r == [job[j] EXCEPT !.pc = "publish"]
  <2>1. job' = [job EXCEPT ![j] = r] BY <1>2 DEF Goto
  <2>2. r \in JobStates BY <1>1 DEF JobStates
  <2>3. Fits(r) BY <1>1 DEF JobStates, Fits, Early, Settle
  <2> HIDE DEF r
  <2> QED BY <2>1, <2>2, <2>3, LocalStep DEF Settle
<1>3. ASSUME NEW i \in job[j].todo, job' = [job EXCEPT ![j].cur = i] PROVE IInv'
  <2> DEFINE r == [job[j] EXCEPT !.cur = i]
  <2>1. i \in Items /\ Sound(i) BY <1>1 DEF JobStates, Fits, Settle, Early
  <2>2. job' = [job EXCEPT ![j] = r] BY <1>3
  <2>3. r \in JobStates BY <1>1, <2>1 DEF JobStates
  <2>4. Fits(r) BY <1>1, <2>1 DEF JobStates, Fits, Early, Settle
  <2> HIDE DEF r
  <2> QED BY <2>2, <2>3, <2>4, LocalStep DEF Settle
<1> QED BY <1>2, <1>3 DEF Settle

LEMMA ViewTypes ==
  IInv => \A o \in Overlays(stored.head) : [overlay |-> o, rows |-> row] \in Views
BY DEF IInv, TypeOK, Views, Overlays, Remaining, OverlayOf, Active

LEMMA RefreshReadKeeps == ASSUME IInv, NEW j \in Jobs, RefreshRead(j) PROVE IInv'
<1>1. job[j] \in JobStates /\ Fits(job[j]) BY JobFacts
<1> DEFINE h == stored.head
           todo == [p : Outdated(h), to : {"superseded"}] \cup [p : Crowd(h), to : {"ambiguous"}]
<1>2. PICK o \in Overlays(h) :
        job' = [job EXCEPT ![j].pc = "settle", ![j].view = [overlay |-> o, rows |-> row],
                           ![j].todo = todo]
  BY DEF RefreshRead
<1>3. Outdated(h) \subseteq Commands /\ Crowd(h) \subseteq Commands
  BY DEF Outdated, Crowd, Remaining
<1>4. \A p \in Outdated(h) \cup Crowd(h) : command[p] # "absent"
  BY DEF Outdated, Crowd, Remaining, Active
<1>5. todo \subseteq Items BY <1>3 DEF Items, Statuses, Terminal
<1>6. \A i \in todo : i.p \in Outdated(h) \cup Crowd(h) /\ i.to \in {"superseded", "ambiguous"}
  OBVIOUS
<1>7. \A i \in todo : Sound(i)
  BY <1>4, <1>6 DEF Sound, Holds, Executed
<1>8. [overlay |-> o, rows |-> row] \in Views BY ViewTypes
<1> HIDE DEF todo, h
<1> DEFINE r == [job[j] EXCEPT !.pc = "settle", !.view = [overlay |-> o, rows |-> row], !.todo = todo]
<1>9. r \in JobStates BY <1>1, <1>5, <1>8 DEF JobStates
<1>10. Fits(r) BY <1>1, <1>7 DEF JobStates, Fits, Early, RefreshRead
<1>11. job' = [job EXCEPT ![j] = r] BY <1>1, <1>2 DEF IInv, TypeOK, JobStates
<1> HIDE DEF r
<1> QED BY <1>9, <1>10, <1>11, LocalStep DEF RefreshRead

LEMMA BeginSyncKeeps == ASSUME IInv, NEW j \in Jobs, BeginSync(j) PROVE IInv'
<1> DEFINE r == [Idle EXCEPT !.pc = "store", !.kind = "sync", !.snap = github]
<1>1. job' = [job EXCEPT ![j] = r] BY DEF BeginSync
<1>2. github \in Snapshots /\ Posted(github) BY DEF IInv, TypeOK, MarkerBook
<1>3. r \in JobStates BY <1>2, IdleFits DEF Idle, JobStates
<1>4. Fits(r) BY <1>2 DEF Idle, Fits, Early
<1> HIDE DEF r
<1> QED BY <1>1, <1>3, <1>4, LocalStep DEF BeginSync

LEMMA LoadKeeps == ASSUME IInv, NEW j \in Jobs, Load(j) PROVE IInv'
<1>1. job[j] \in JobStates /\ Fits(job[j]) BY JobFacts
<1> DEFINE left == {c \in Comments : stored.body[c] # None}
           r == [job[j] EXCEPT !.pc = "observe", !.snap = stored, !.left = left]
<1>2. job' = [job EXCEPT ![j] = r] BY <1>1 DEF Load, JobStates
<1>3. stored \in Snapshots /\ Posted(stored) BY DEF IInv, TypeOK, MarkerBook
<1>4. r \in JobStates BY <1>1, <1>3 DEF JobStates
<1>5. Fits(r) BY <1>1, <1>3 DEF JobStates, Fits, Early, Load
<1> HIDE DEF r
<1> QED BY <1>2, <1>4, <1>5, LocalStep DEF Load

LEMMA BootKeeps == ASSUME IInv, NEW j \in Jobs, Boot(j) PROVE IInv'
<1> DEFINE r == [Idle EXCEPT !.pc = "refresh", !.kind = "boot"]
<1>1. job' = [job EXCEPT ![j] = r] BY DEF Boot
<1>2. r \in JobStates BY IdleFits DEF Idle, JobStates
<1>3. Fits(r) BY IdleFits DEF Idle, Fits, Early
<1> HIDE DEF r
<1> QED BY <1>1, <1>2, <1>3, LocalStep DEF Boot

(***************************************************************************)
(* The queue                                                               *)
(***************************************************************************)
LEMMA QueueMoves ==
  ASSUME TypeOK,
         \/ UNCHANGED <<right, holder>>
         \/ \E d \in Deliveries : Rights!Offer(d)
         \/ \E d, w : w \in Rights!Withdrawn /\ Rights!Withdraw(d, w)
         \/ \E d \in Deliveries, o \in Rights!Outcomes : Rights!Settle(d, o)
         \/ \E d \in Deliveries, q \in Requests : Rights!Grant(d, q)
         \/ \E S \in SUBSET Deliveries : Rights!Lapse(S)
  PROVE  RightMoves /\ Rights!RightsTypeOK'
<1> USE DEF TypeOK, RightMoves, Rights!RightsTypeOK, Rights!Statuses, Rights!Settled,
            Rights!Outcomes, Rights!Withdrawn
<1>1. CASE UNCHANGED <<right, holder>> BY <1>1
<1>2. CASE \E d \in Deliveries : Rights!Offer(d) BY <1>2 DEF Rights!Offer
<1>3. CASE \E d, w : w \in Rights!Withdrawn /\ Rights!Withdraw(d, w)
  BY <1>3 DEF Rights!Withdraw
<1>4. CASE \E d \in Deliveries, o \in Rights!Outcomes : Rights!Settle(d, o)
  BY <1>4 DEF Rights!Settle
<1>5. CASE \E d \in Deliveries, q \in Requests : Rights!Grant(d, q)
  BY <1>5 DEF Rights!Grant
<1>6. CASE \E S \in SUBSET Deliveries : Rights!Lapse(S) BY <1>6 DEF Rights!Lapse
<1> QED BY <1>1, <1>2, <1>3, <1>4, <1>5, <1>6

LEMMA InvalidateMoves ==
  ASSUME TypeOK, NEW d, InvalidatePending(d) PROVE RightMoves /\ Rights!RightsTypeOK'
BY QueueMoves DEF InvalidatePending, Rights!Withdrawn

LEMMA MixedStep ==
  ASSUME IInv, Moves, NEW j \in Jobs, NEW r \in JobStates, Fits(r), job' = [job EXCEPT ![j] = r],
         TypeOK', CommandBook', LinkBook', MarkerBook'
  PROVE  IInv'
<1>1. TypeOK BY DEF IInv
<1>2. job'[j] = r /\ \A k \in Jobs \ {j} : job'[k] = job[k] BY <1>1, JobChange
<1>3. Fits(r)' BY FitsKept
<1>4. Fits(job[j])' BY <1>2, <1>3
<1>5. JobBook' BY <1>2, <1>4, OneJob
<1> QED BY <1>5, PlansKept DEF IInv

LEMMA QueueStep ==
  ASSUME IInv, NEW j \in Jobs, NEW r \in JobStates, Fits(r), job' = [job EXCEPT ![j] = r],
         RightMoves, Rights!RightsTypeOK', up' \in {"down", "refreshed", "up"},
         UNCHANGED <<planOf, command, link, row, stored, published, made, github,
                     posted, edited>>
  PROVE  IInv'
<1>1. Moves BY DEF Moves
<1>2. TypeOK BY DEF IInv
<1>3. job' \in [Jobs -> JobStates] BY <1>2, JobChange
<1>4. TypeOK' BY <1>2, <1>3 DEF TypeOK
<1>5. CommandBook' /\ LinkBook' BY <1>1, SameCommands
<1>6. MarkerBook' BY <1>1, SameMarkers
<1> QED BY <1>1, <1>4, <1>5, <1>6, MixedStep

LEMMA NextFits ==
  ASSUME IInv, NEW j \in Jobs, job[j].cur # None
  PROVE  NextItem(j) \in JobStates /\ Fits(NextItem(j))
<1>1. job[j] \in JobStates /\ Fits(job[j]) BY JobFacts
<1>2. job[j].pc \notin Early BY <1>1 DEF Fits, Confirmed
<1>3. NextItem(j) \in JobStates BY <1>1 DEF JobStates, NextItem
<1>4. Fits(NextItem(j)) BY <1>1, <1>2 DEF JobStates, Fits, NextItem
<1> QED BY <1>3, <1>4

LEMMA ConflictKeeps ==
  ASSUME IInv, NEW j \in Jobs, job[j].cur # None, Conflict(j),
         UNCHANGED <<planOf, command, link, row, stored, published, made, up, github,
                     posted, edited>>
  PROVE  IInv'
<1>1. TypeOK BY DEF IInv
<1>2. RightMoves /\ Rights!RightsTypeOK'
  <2>1. CASE InvalidatePending(job[j].d) BY <1>1, <2>1, InvalidateMoves
  <2>2. CASE UNCHANGED <<right, holder>> BY <1>1, <2>2, QueueMoves
  <2> QED BY <2>1, <2>2 DEF Conflict
<1>3. up' \in {"down", "refreshed", "up"} BY <1>1 DEF TypeOK
<1>4. CASE job' = [job EXCEPT ![j] = NextItem(j)]
  <2>1. PICK r \in JobStates : r = NextItem(j) /\ Fits(r) BY NextFits
  <2>2. job' = [job EXCEPT ![j] = r] BY <1>4, <2>1
  <2> QED BY <1>2, <1>3, <2>1, <2>2, QueueStep
<1>5. CASE Return(j)
  <2>1. job' = [job EXCEPT ![j] = Idle] BY <1>5 DEF Return
  <2> QED BY <1>2, <1>3, <2>1, IdleFits, QueueStep
<1> QED BY <1>4, <1>5 DEF Conflict

LEMMA RereadKeeps == ASSUME IInv, NEW j \in Jobs, Reread(j) PROVE IInv'
<1>1. job[j] \in JobStates /\ Fits(job[j]) BY JobFacts
<1>2. job[j].cur # None BY DEF Reread
<1> DEFINE s == command[job[j].cur.p]
           t == job[j].cur.to
<1>3. CASE s = t
  <2>1. job' = [job EXCEPT ![j] = NextItem(j)] /\ UNCHANGED <<right, holder>>
    BY <1>2, <1>3, JobFacts DEF Reread
  <2>2. PICK r \in JobStates : r = NextItem(j) /\ Fits(r) BY <1>2, NextFits
  <2>3. job' = [job EXCEPT ![j] = r] BY <2>1, <2>2
  <2> QED BY <2>1, <2>2, <2>3, LocalStep DEF Reread, queue
<1>4. CASE s # t /\ ~Allowed(s, t)
  <2>1. Conflict(j) BY <1>4 DEF Reread
  <2> QED BY <1>2, <2>1, ConflictKeeps DEF Reread
<1>5. CASE s # t /\ Allowed(s, t)
  <2> DEFINE r == [job[j] EXCEPT !.read = s]
  <2>1. job' = [job EXCEPT ![j] = r] /\ UNCHANGED <<right, holder>> BY <1>5 DEF Reread
  <2>2. job[j].cur \in Items /\ Sound(job[j].cur) BY <1>1, <1>2 DEF JobStates, Fits
  <2>3. s \in Statuses /\ s # "absent" BY <2>2 DEF IInv, TypeOK, Items, Sound
  <2>4. r \in JobStates BY <1>1, <2>3 DEF JobStates
  <2>5. r.cur # None /\ r.read = s BY <1>1, <1>2 DEF JobStates
  <2>6. job[j].pc \notin Early BY <1>1, <1>2 DEF Fits, Confirmed
  <2>7. Fits(r) BY <1>1, <1>5, <2>3, <2>5, <2>6 DEF JobStates, Fits
  <2> HIDE DEF r
  <2> QED BY <2>1, <2>4, <2>7, LocalStep DEF Reread, queue
<1> QED BY <1>3, <1>4, <1>5

\* What Write puts into the command is later than what it replaces.
LEMMA WriteForward ==
  ASSUME IInv, NEW j \in Jobs, Write(j)
  PROVE  \/ IInv' /\ UNCHANGED command
         \/ /\ IInv'
            /\ job[j].cur.p \in Commands
            /\ command' = [command EXCEPT ![job[j].cur.p] = job[j].cur.to]
            /\ job[j].cur.to \in Later(command[job[j].cur.p])
<1>1. job[j] \in JobStates /\ Fits(job[j]) BY JobFacts
<1>2. job[j].cur # None BY DEF Write
<1> DEFINE p == job[j].cur.p
           t == job[j].cur.to
<1>3. job[j].cur \in Items /\ Sound(job[j].cur) BY <1>1, <1>2 DEF JobStates, Fits
<1>4. p \in Commands /\ t \in Statuses /\ t \notin {"absent", "created"} /\ Holds(p, t)
  BY <1>3 DEF Items, Sound, Holds
<1>5. CASE ~StillReads(p, job[j].read)
  <2>1. Conflict(j) /\ UNCHANGED command BY <1>5 DEF Write
  <2> QED BY <1>2, <2>1, ConflictKeeps DEF Write
<1>6. CASE StillReads(p, job[j].read)
  <2>1. /\ command' = [command EXCEPT ![p] = t] /\ UNCHANGED <<right, holder>>
        /\ job' = [job EXCEPT ![j] = NextItem(j)]
        /\ UNCHANGED <<planOf, link, row, stored, published, made, up, github, posted, edited>>
    BY <1>6 DEF Write
  <2>2. command[p] = job[j].read /\ command[p] # "absent" /\ Allowed(command[p], t)
    BY <1>1, <1>2, <1>6 DEF StillReads, Fits, Write
  <2>3. command[p] \in Statuses \ {"created"}
    BY <1>4 DEF IInv, TypeOK, CommandBook, Holds
  <2>4. t \in Later(command[p])
    BY <1>4, <2>2, <2>3 DEF Later, Allowed, Statuses, Active, Terminal, Executed
  <2>5. command \in [Commands -> Statuses] BY DEF IInv, TypeOK
  <2>6. command' \in [Commands -> Statuses] /\ command'[p] = t
        /\ \A q \in Commands \ {p} : command'[q] = command[q]
    BY <1>4, <2>1, <2>5
  <2> HIDE DEF p, t
  <2>7. Moves BY <1>4, <2>1, <2>6 DEF Moves, RightMoves
  <2>8. PICK r \in JobStates : r = NextItem(j) /\ Fits(r) BY <1>2, NextFits
  <2>9. job' = [job EXCEPT ![j] = r] BY <2>1, <2>8
  <2>10. TypeOK'
    <3>1. TypeOK BY DEF IInv
    <3>2. job' \in [Jobs -> JobStates] BY <2>8, <2>9, <3>1, JobChange
    <3> QED BY <2>1, <2>6, <3>1, <3>2 DEF TypeOK, Rights!RightsTypeOK
  <2>11. CommandBook'
    <3> SUFFICES ASSUME NEW q \in Commands PROVE Holds(q, command[q])' BY DEF CommandBook
    <3>1. PICK u : u = command'[q] /\ Holds(q, u)
      BY <1>4, <2>6 DEF IInv, CommandBook
    <3>2. Holds(q, u)' BY <2>7, <3>1, HoldsKept
    <3> QED BY <3>1, <3>2
  <2>12. LinkBook' BY <1>4, <2>1, <2>6 DEF IInv, LinkBook
  <2>13. MarkerBook' BY <2>1, <2>7, SameMarkers
  <2>14. IInv' BY <2>7, <2>8, <2>9, <2>10, <2>11, <2>12, <2>13, MixedStep
  <2> QED BY <1>4, <2>1, <2>4, <2>14 DEF p, t
<1> QED BY <1>5, <1>6

(***************************************************************************)
(* Create                                                                  *)
(***************************************************************************)
LEMMA StatusForFacts ==
  \A o : /\ StatusFor(o) \in Statuses \ (Executed \cup {"absent", "created"})
         /\ StatusFor(o) = "awaiting_result" => o = "delivered"
BY DEF StatusFor, Statuses, Executed, Active, Terminal

LEMMA BeginCreateKeeps ==
  ASSUME IInv, NEW j \in Jobs, NEW d \in Deliveries, NEW p \in Commands, BeginCreate(j, d, p)
  PROVE  IInv'
<1>1. TypeOK BY DEF IInv
<1>2. RightMoves /\ Rights!RightsTypeOK'
  BY <1>1, QueueMoves DEF BeginCreate
<1>3. /\ planOf' \in [Deliveries -> Commands \cup {None}] /\ planOf'[d] = p
      /\ right'[d] # "absent"
      /\ \A e \in Deliveries : /\ right[e] # "absent" => planOf'[e] = planOf[e]
                               /\ planOf'[e] = planOf[e] \/ e = d
  <2>1. CASE Rights!Offer(d) /\ planOf' = [planOf EXCEPT ![d] = p]
    BY <1>1, <2>1 DEF TypeOK, Rights!Offer, Rights!RightsTypeOK
  <2>2. CASE planOf[d] = p /\ UNCHANGED <<right, holder, planOf>>
    <3>1. right[d] # "absent" BY <2>2, LoopAssumption DEF IInv, PlanBook
    <3> QED BY <1>1, <2>2, <3>1 DEF TypeOK
  <2> QED BY <2>1, <2>2 DEF BeginCreate
<1>4. Moves BY <1>2, <1>3 DEF Moves, BeginCreate
<1> DEFINE i == [p |-> p, to |-> StatusFor(right'[d])]
<1>5. PICK r : r = [Idle EXCEPT !.pc = "plan", !.kind = "create", !.d = d, !.todo = {i}]
  OBVIOUS
<1>6. job' = [job EXCEPT ![j] = r] BY <1>5 DEF BeginCreate
<1>7. i \in Items /\ i.p = p /\ i.to \notin Executed \cup {"absent", "created"}
      /\ (i.to = "awaiting_result" => right'[d] = "delivered")
  BY StatusForFacts DEF Items
<1>8. r \in JobStates BY <1>5, <1>7, IdleFits DEF Idle, JobStates
<1>9. r.pc = "plan" /\ r.d = d /\ r.todo = {i} /\ r.cur = None /\ r.read = "" /\ r.snap = Blank
  BY <1>5 DEF Idle
<1> HIDE DEF i
<1>10. Confirmed(r)' BY <1>3, <1>7, <1>9 DEF Confirmed
<1>11. Fits(r)'
  <2>1. Posted(r.snap)'
    <3>1. Posted(Blank)' BY DEF Posted, Blank
    <3> QED BY <1>9, <3>1
  <2>2. r.pc \in Early /\ r.pc # "observe" /\ r.pc # "sync" BY <1>9 DEF Early
  <2> QED BY <1>9, <1>10, <2>1, <2>2 DEF Fits
<1>12. job' \in [Jobs -> JobStates] /\ job'[j] = r /\ \A k \in Jobs \ {j} : job'[k] = job[k]
  BY <1>1, <1>6, <1>8, JobChange
<1>13. TypeOK' BY <1>1, <1>2, <1>3, <1>12 DEF TypeOK, BeginCreate
<1>14. JobBook'
  <2>1. Fits(job[j])' BY <1>11, <1>12
  <2> QED BY <1>4, <1>12, <2>1, OneJob
<1>15. CommandBook' /\ LinkBook' /\ MarkerBook'
  BY <1>4, SameCommands, SameMarkers DEF BeginCreate
<1> QED BY <1>4, <1>13, <1>14, <1>15, PlansKept DEF IInv

LEMMA GetPlanKeeps == ASSUME IInv, NEW j \in Jobs, GetPlan(j) PROVE IInv'
<1>1. job[j] \in JobStates /\ Fits(job[j]) BY JobFacts
<1>2. TypeOK BY DEF IInv
<1>3. CASE Goto(j, "persist") /\ UNCHANGED <<right, holder>>
  <2> DEFINE r == [job[j] EXCEPT !.pc = "persist"]
  <2>1. job' = [job EXCEPT ![j] = r] BY <1>3 DEF Goto
  <2>2. r \in JobStates BY <1>1 DEF JobStates
  <2>3. Fits(r) BY <1>1 DEF JobStates, Fits, Early, Confirmed, GetPlan
  <2> HIDE DEF r
  <2> QED BY <1>3, <2>1, <2>2, <2>3, LocalStep DEF GetPlan, queue
<1>4. CASE Return(j) /\ InvalidatePending(job[j].d)
  <2>1. job' = [job EXCEPT ![j] = Idle] BY <1>4 DEF Return
  <2>2. RightMoves /\ Rights!RightsTypeOK' BY <1>2, <1>4, InvalidateMoves
  <2> QED BY <1>2, <2>1, <2>2, IdleFits, QueueStep DEF GetPlan, TypeOK
<1> QED BY <1>3, <1>4 DEF GetPlan

\* Persist makes the command of the plan, if it is new.
LEMMA PersistForward ==
  ASSUME IInv, NEW j \in Jobs, Persist(j)
  PROVE  /\ IInv'
         /\ \A p \in Commands : \/ command'[p] = command[p]
                                \/ command[p] = "absent" /\ command'[p] = "delivery_pending"
<1>1. job[j] \in JobStates /\ Fits(job[j]) BY JobFacts
<1>2. TypeOK BY DEF IInv
<1>3. Confirmed(job[j]) BY <1>1 DEF Fits, Persist, Early
<1> DEFINE p == planOf[job[j].d]
           s == IF command[p] = "absent" THEN "delivery_pending" ELSE command[p]
<1>4. p \in Commands BY <1>3 DEF Confirmed
<1>5. command' = [command EXCEPT ![p] = s] /\ command \in [Commands -> Statuses]
  BY <1>2 DEF Persist, TypeOK
<1>6. s \in Statuses \ {"absent"} BY <1>4, <1>5 DEF Statuses, Active
<1> HIDE DEF s, p
<1>7. command' \in [Commands -> Statuses] /\ command'[p] = s
      /\ \A q \in Commands \ {p} : command'[q] = command[q]
  BY <1>4, <1>5, <1>6
<1>8. Moves BY <1>6, <1>7 DEF Moves, RightMoves, Persist, queue
<1>9. PICK r : r = [job[j] EXCEPT !.pc = "link"] OBVIOUS
<1>10. job' = [job EXCEPT ![j] = r] BY <1>9 DEF Persist, Goto
<1>11. r \in JobStates BY <1>1, <1>9 DEF JobStates
<1>12. job' \in [Jobs -> JobStates] /\ job'[j] = r /\ \A k \in Jobs \ {j} : job'[k] = job[k]
  BY <1>2, <1>10, <1>11, JobChange
<1>13. /\ r.pc = "link" /\ r.d = job[j].d /\ r.todo = job[j].todo /\ r.cur = None
       /\ r.read = job[j].read /\ r.snap = job[j].snap /\ r.left = job[j].left
  BY <1>1, <1>3, <1>9 DEF JobStates, Confirmed
<1>14. Fits(r)'
  <2>1. Confirmed(r)'
    BY <1>3, <1>6, <1>7, <1>8, <1>13 DEF Confirmed, Moves, RightMoves, Persist, queue, p
  <2>2. Posted(r.snap)' BY <1>1, <1>8, <1>13, PostedKept DEF Fits
  <2>3. r.pc \in Early /\ r.pc # "observe" /\ r.pc # "sync" BY <1>13 DEF Early
  <2>4. r.read = "" BY <1>1, <1>3, <1>13 DEF Fits, Confirmed
  <2> QED BY <1>13, <2>1, <2>2, <2>3, <2>4 DEF Fits
<1>15. JobBook'
  <2>1. Fits(job[j])' BY <1>12, <1>14
  <2> QED BY <1>8, <1>12, <2>1, OneJob
<1>16. TypeOK' BY <1>2, <1>7, <1>12 DEF TypeOK, Persist, queue, Rights!RightsTypeOK
<1>17. CommandBook'
  <2> SUFFICES ASSUME NEW q \in Commands PROVE Holds(q, command[q])' BY DEF CommandBook
  <2>1. PICK u : u = command'[q] OBVIOUS
  <2>2. Holds(q, u) \/ u = "delivery_pending"
    BY <1>7, <2>1 DEF IInv, CommandBook, s
  <2>3. Holds(q, u)' BY <1>8, <2>2, HoldsKept DEF Holds, Executed
  <2> QED BY <2>1, <2>3
<1>18. LinkBook' BY <1>6, <1>7 DEF IInv, LinkBook, Persist, queue
<1>19. MarkerBook' BY <1>8, SameMarkers DEF Persist
<1>20. IInv' BY <1>8, <1>15, <1>16, <1>17, <1>18, <1>19, PlansKept DEF IInv
<1> QED BY <1>7, <1>20 DEF s

LEMMA LinkKeeps == ASSUME IInv, NEW j \in Jobs, Link(j) PROVE IInv'
<1>1. job[j] \in JobStates /\ Fits(job[j]) BY JobFacts
<1>2. TypeOK BY DEF IInv
<1>3. Confirmed(job[j]) BY <1>1 DEF Fits, Link, Early
<1>4. PICK d \in Deliveries, p \in Commands :
        /\ d = job[j].d /\ p = planOf[d] /\ d # None
        /\ right[d] # "absent" /\ command[p] # "absent"
  BY <1>3, LoopAssumption DEF Confirmed, Link
<1>5. link \in [Commands -> Deliveries \cup {None}] BY <1>2 DEF TypeOK
<1>6. link' = [link EXCEPT ![p] = IF link[p] = None THEN d ELSE link[p]]
  BY <1>4 DEF Link, Linked
<1>7. /\ link' \in [Commands -> Deliveries \cup {None}]
      /\ \A q \in Commands \ {p} : link'[q] = link[q]
      /\ link[p] # None => link'[p] = link[p]
      /\ link[p] = None => link'[p] = d
  BY <1>4, <1>5, <1>6
<1>8. RightMoves /\ Rights!RightsTypeOK'
  <2>1. CASE InvalidatePending(d) BY <1>2, <2>1, InvalidateMoves
  <2>2. CASE UNCHANGED <<right, holder>> BY <1>2, <2>2, QueueMoves
  <2> QED BY <1>4, <2>1, <2>2 DEF Link
<1>9. /\ UNCHANGED <<planOf, command, row, stored, published, made, up, github, posted, edited>>
      /\ \/ link'[p] = d /\ job' = [job EXCEPT ![j] = [job[j] EXCEPT !.pc = "record"]]
         \/ job' = [job EXCEPT ![j] = Idle]
  BY <1>4 DEF Link, Goto, Return
<1>10. Moves BY <1>7, <1>8, <1>9 DEF Moves
<1>11. CommandBook'
  <2> SUFFICES ASSUME NEW q \in Commands PROVE Holds(q, command[q])' BY DEF CommandBook
  <2>1. PICK u : u = command[q] /\ Holds(q, u) BY DEF IInv, CommandBook
  <2>2. Holds(q, u)' BY <1>10, <2>1, HoldsKept
  <2> QED BY <1>9, <2>1, <2>2
<1>12. LinkBook'
  <2> SUFFICES ASSUME NEW q \in Commands, link'[q] # None
               PROVE  command[q] # "absent" /\ planOf[link'[q]] = q /\ right'[link'[q]] # "absent"
    BY <1>9 DEF LinkBook
  <2>1. CASE link[q] # None
    BY <1>5, <1>7, <1>8, <2>1 DEF IInv, LinkBook, RightMoves
  <2>2. CASE link[q] = None
    <3>1. q = p /\ link'[q] = d BY <1>7, <2>2
    <3> QED BY <1>4, <1>8, <3>1 DEF RightMoves
  <2> QED BY <2>1, <2>2
<1>13. MarkerBook' BY <1>9, <1>10, SameMarkers
<1>14. CASE job' = [job EXCEPT ![j] = Idle]
  <2>1. job' \in [Jobs -> JobStates] BY <1>2, <1>14, IdleFits, JobChange
  <2>2. TypeOK' BY <1>2, <1>7, <1>8, <1>9, <2>1 DEF TypeOK
  <2> QED BY <1>10, <1>11, <1>12, <1>13, <1>14, <2>2, IdleFits, MixedStep
<1>15. CASE link'[p] = d /\ job' = [job EXCEPT ![j] = [job[j] EXCEPT !.pc = "record"]]
  <2>1. PICK r : r = [job[j] EXCEPT !.pc = "record"] OBVIOUS
  <2>2. r \in JobStates BY <1>1, <2>1 DEF JobStates
  <2>3. job' = [job EXCEPT ![j] = r] BY <1>15, <2>1
  <2>4. job' \in [Jobs -> JobStates] /\ job'[j] = r /\ \A k \in Jobs \ {j} : job'[k] = job[k]
    BY <1>2, <2>2, <2>3, JobChange
  <2>5. TypeOK' BY <1>2, <1>7, <1>8, <1>9, <2>4 DEF TypeOK
  <2>6. /\ r.pc = "record" /\ r.todo = job[j].todo /\ r.cur = None
        /\ r.read = job[j].read /\ r.snap = job[j].snap
    BY <1>1, <1>3, <2>1 DEF JobStates, Confirmed
  <2>7. \A i \in r.todo : Sound(i)'
    <3> SUFFICES ASSUME NEW i \in job[j].todo PROVE Sound(i)' BY <2>6
    <3>1. i.p = p /\ i.to \notin Executed \cup {"absent", "created"}
          /\ (i.to = "awaiting_result" => right[d] = "delivered")
      BY <1>3, <1>4 DEF Confirmed
    <3>2. i.to = "awaiting_result" => Delivered(p)'
      BY <1>4, <1>8, <1>15, <3>1 DEF Delivered, RightMoves
    <3> QED BY <1>4, <1>9, <3>1, <3>2 DEF Sound, Holds
  <2>8. Posted(r.snap)' BY <1>1, <1>10, <2>6, PostedKept DEF Fits
  <2>9. r.read = "" BY <1>1, <1>3, <2>6 DEF Fits, Confirmed
  <2>10. r.pc \notin Early /\ r.pc # "observe" /\ r.pc # "sync" BY <2>6 DEF Early
  <2>11. Fits(r)' BY <2>6, <2>7, <2>8, <2>9, <2>10 DEF Fits
  <2>12. JobBook'
    <3>1. Fits(job[j])' BY <2>4, <2>11
    <3> QED BY <1>10, <2>4, <3>1, OneJob
  <2> QED BY <1>10, <1>11, <1>12, <1>13, <2>5, <2>12, PlansKept DEF IInv
<1> QED BY <1>9, <1>14, <1>15

(***************************************************************************)
(* The worker, reconciliation, the projection                              *)
(***************************************************************************)
\* No operation takes part.
LEMMA OutsideStep ==
  ASSUME IInv, Moves, TypeOK', UNCHANGED <<job, command, link>>, MarkerBook' PROVE IInv'
<1>1. JobBook'
  <2> SUFFICES ASSUME NEW k \in Jobs PROVE Fits(job[k])' BY DEF JobBook
  <2>1. PICK r \in JobStates : r = job[k] /\ Fits(r) BY JobFacts
  <2>2. Fits(r)' BY <2>1, FitsKept
  <2> QED BY <2>1, <2>2
<1> QED BY <1>1, SameCommands, PlansKept DEF IInv

LEMMA ClaimKeeps ==
  ASSUME IInv, NEW d \in Deliveries, NEW q \in Requests, Claim(d, q) PROVE IInv'
<1>1. TypeOK BY DEF IInv
<1>2. RightMoves /\ Rights!RightsTypeOK' BY <1>1, QueueMoves DEF Claim
<1>3. Moves /\ TypeOK' BY <1>1, <1>2 DEF Moves, TypeOK, Claim
<1> QED BY <1>3, SameMarkers, OutsideStep DEF Claim

LEMMA QueueAloneKeeps == ASSUME IInv, NEW d \in Deliveries, QueueAlone(d) PROVE IInv'
<1>1. TypeOK BY DEF IInv
<1>2. RightMoves /\ Rights!RightsTypeOK'
  <2>1. CASE \E w \in {"expired", "invalidated"} : Rights!Withdraw(d, w)
    BY <1>1, <2>1, QueueMoves DEF Rights!Withdrawn
  <2>2. CASE Rights!Settle(d, "uncertain") BY <1>1, <2>2, QueueMoves DEF Rights!Outcomes
  <2> QED BY <2>1, <2>2 DEF QueueAlone
<1>3. Moves /\ TypeOK' BY <1>1, <1>2 DEF Moves, TypeOK, QueueAlone
<1> QED BY <1>3, SameMarkers, OutsideStep DEF QueueAlone

LEMMA BeginCompleteKeeps ==
  ASSUME IInv, NEW j \in Jobs, NEW d \in Deliveries, NEW o \in Rights!Outcomes,
         BeginComplete(j, d, o)
  PROVE  IInv'
<1>1. TypeOK BY DEF IInv
<1>2. RightMoves /\ Rights!RightsTypeOK' BY <1>1, QueueMoves DEF BeginComplete
<1> DEFINE r == [Idle EXCEPT !.pc = "sync", !.kind = "complete", !.d = d]
<1>3. job' = [job EXCEPT ![j] = r] BY DEF BeginComplete
<1>4. r \in JobStates BY IdleFits DEF Idle, JobStates
<1>5. Fits(r) BY IdleFits DEF Idle, Fits, Early
<1> HIDE DEF r
<1> QED BY <1>1, <1>2, <1>3, <1>4, <1>5, QueueStep DEF BeginComplete, TypeOK

\* A command is told the outcome of the delivery it is linked to.
LEMMA LinkedSound ==
  ASSUME IInv, NEW p \in Commands, link[p] # None
  PROVE  Sound([p |-> p, to |-> StatusFor(right[link[p]])])
BY StatusForFacts DEF IInv, LinkBook, Sound, Holds, Delivered

LEMMA SyncCommandKeeps == ASSUME IInv, NEW j \in Jobs, SyncCommand(j) PROVE IInv'
<1>1. job[j] \in JobStates /\ Fits(job[j]) BY JobFacts
<1>2. PICK d \in Deliveries : d = job[j].d /\ d # None
  <2>1. job[j].pc = "sync" BY DEF SyncCommand
  <2>2. job[j].d \in Deliveries BY <1>1, <2>1 DEF Fits
  <2> QED BY <2>2, LoopAssumption
<1> DEFINE todo == [p : {p \in Commands : link[p] = d}, to : {StatusFor(right[d])}]
           r == [job[j] EXCEPT !.pc = "record", !.d = None, !.todo = todo]
<1>3. job' = [job EXCEPT ![j].pc = "record", ![j].d = None, ![j].todo = todo]
  BY <1>2 DEF SyncCommand
<1>4. \A i \in todo : i \in Items /\ Sound(i)
  <2> SUFFICES ASSUME NEW p \in Commands, link[p] = d
               PROVE  [p |-> p, to |-> StatusFor(right[d])] \in Items
                        /\ Sound([p |-> p, to |-> StatusFor(right[d])])
    OBVIOUS
  <2>1. [p |-> p, to |-> StatusFor(right[d])] \in Items BY StatusForFacts DEF Items
  <2> QED BY <1>2, <2>1, LinkedSound
<1> HIDE DEF todo
<1>5. job' = [job EXCEPT ![j] = r] BY <1>1, <1>3 DEF IInv, TypeOK, JobStates
<1>6. r \in JobStates BY <1>1, <1>4 DEF JobStates
<1>7. Fits(r) BY <1>1, <1>4 DEF JobStates, Fits, Early, SyncCommand
<1> HIDE DEF r
<1> QED BY <1>5, <1>6, <1>7, LocalStep DEF SyncCommand

LEMMA BeginReconcileKeeps ==
  ASSUME IInv, NEW j \in Jobs, NEW S \in SUBSET Deliveries, BeginReconcile(j, S) PROVE IInv'
<1>1. TypeOK BY DEF IInv
<1>2. RightMoves /\ Rights!RightsTypeOK' BY <1>1, QueueMoves DEF BeginReconcile
<1> DEFINE r == [Idle EXCEPT !.pc = "links", !.kind = "reconcile"]
<1>3. job' = [job EXCEPT ![j] = r] BY DEF BeginReconcile
<1>4. r \in JobStates BY IdleFits DEF Idle, JobStates
<1>5. Fits(r) BY IdleFits DEF Idle, Fits, Early
<1> HIDE DEF r
<1> QED BY <1>1, <1>2, <1>3, <1>4, <1>5, QueueStep DEF BeginReconcile, TypeOK

LEMMA ReadLinksKeeps == ASSUME IInv, NEW j \in Jobs, ReadLinks(j) PROVE IInv'
<1>1. job[j] \in JobStates /\ Fits(job[j]) BY JobFacts
<1>2. TypeOK BY DEF IInv
<1>3. RightMoves /\ Rights!RightsTypeOK' BY <1>2, QueueMoves DEF ReadLinks, queue
<1>4. up' \in {"down", "refreshed", "up"} BY <1>2 DEF ReadLinks, TypeOK
<1>5. CASE Return(j)
  <2>1. job' = [job EXCEPT ![j] = Idle] BY <1>5 DEF Return
  <2> QED BY <1>3, <1>4, <2>1, IdleFits, QueueStep DEF ReadLinks, queue
<1>6. CASE ~Return(j)
  <2> DEFINE todo == {[p |-> p, to |-> StatusFor(right[link[p]])] :
                        p \in {x \in Commands : link[x] # None}}
             r == [job[j] EXCEPT !.pc = "record", !.todo = todo]
  <2>1. job' = [job EXCEPT ![j].pc = "record", ![j].todo = todo] BY <1>6 DEF ReadLinks
  <2>2. \A i \in todo : i \in Items /\ Sound(i)
    <3> SUFFICES ASSUME NEW p \in Commands, link[p] # None
                 PROVE  [p |-> p, to |-> StatusFor(right[link[p]])] \in Items
                          /\ Sound([p |-> p, to |-> StatusFor(right[link[p]])])
      OBVIOUS
    <3>1. [p |-> p, to |-> StatusFor(right[link[p]])] \in Items BY StatusForFacts DEF Items
    <3> QED BY <3>1, LinkedSound
  <2> HIDE DEF todo
  <2>3. job' = [job EXCEPT ![j] = r] BY <1>1, <1>2, <2>1 DEF TypeOK, JobStates
  <2>4. r \in JobStates BY <1>1, <2>2 DEF JobStates
  <2>5. Fits(r) BY <1>1, <2>2 DEF JobStates, Fits, Early, ReadLinks
  <2> HIDE DEF r
  <2> QED BY <1>3, <1>4, <2>3, <2>4, <2>5, QueueStep DEF ReadLinks, queue
<1> QED BY <1>5, <1>6

\* An operation ends and leaves the books alone.
LEMMA ReturnStep ==
  ASSUME IInv, NEW j \in Jobs, Return(j), RightMoves, TypeOK',
         UNCHANGED <<planOf, command, link, row, stored, github, posted>>
  PROVE  IInv'
<1>1. Moves BY DEF Moves
<1>2. job' = [job EXCEPT ![j] = Idle] BY DEF Return
<1> QED BY <1>1, <1>2, IdleFits, SameCommands, SameMarkers, MixedStep

LEMMA PublishKeeps == ASSUME IInv, NEW j \in Jobs, Publish(j) PROVE IInv'
<1>1. TypeOK BY DEF IInv
<1>2. job' \in [Jobs -> JobStates] BY <1>1, IdleFits, JobChange DEF Publish, Return
<1>3. published' \in Views BY JobFacts DEF Publish, JobStates
<1>4. up' \in {"down", "refreshed", "up"} BY <1>1 DEF Publish, TypeOK
<1>5. TypeOK' BY <1>1, <1>2, <1>3, <1>4 DEF TypeOK, Publish, queue, Rights!RightsTypeOK
<1> QED BY <1>5, ReturnStep DEF Publish, queue, RightMoves

LEMMA AbortKeeps == ASSUME IInv, NEW j \in Jobs, Abort(j) PROVE IInv'
<1>1. TypeOK BY DEF IInv
<1>2. RightMoves /\ Rights!RightsTypeOK'
  <2>1. CASE InvalidatePending(job[j].d) BY <1>1, <2>1, InvalidateMoves
  <2>2. CASE UNCHANGED <<right, holder>> BY <1>1, <2>2, QueueMoves
  <2> QED BY <2>1, <2>2 DEF Abort
<1>3. job' \in [Jobs -> JobStates] BY <1>1, IdleFits, JobChange DEF Abort, Return
<1>4. TypeOK' BY <1>1, <1>2, <1>3 DEF TypeOK, Abort
<1> QED BY <1>2, <1>4, ReturnStep DEF Abort

LEMMA CrashKeeps == ASSUME IInv, Crash PROVE IInv'
<1>1. TypeOK BY DEF IInv
<1>2. Moves BY Still DEF Crash, queue
<1>3. NoView \in Views BY DEF NoView, Views, NoRow, Rows, Bodies
<1>4. job' = [j \in Jobs |-> Idle] BY DEF Crash
<1>5. TypeOK' BY <1>1, <1>3, <1>4, IdleFits DEF TypeOK, Crash, queue, Rights!RightsTypeOK
<1>6. JobBook'
  <2>1. \A j \in Jobs : Fits(job[j])' BY <1>4, IdleFits
  <2> QED BY <2>1 DEF JobBook
<1> QED BY <1>2, <1>5, <1>6, SameCommands, SameMarkers, PlansKept DEF IInv, Crash

(***************************************************************************)
(* Synchronisation                                                         *)
(***************************************************************************)
LEMMA StoreKeeps == ASSUME IInv, NEW j \in Jobs, Store(j) PROVE IInv'
<1>1. job[j] \in JobStates /\ Fits(job[j]) BY JobFacts
<1>2. TypeOK BY DEF IInv
<1>3. Moves BY Still DEF Store, queue
<1>4. PICK r : r = [job[j] EXCEPT !.pc = "load"] OBVIOUS
<1>5. r \in JobStates BY <1>1, <1>4 DEF JobStates
<1>6. Fits(r) BY <1>1, <1>4 DEF JobStates, Fits, Early, Store
<1>7. job' = [job EXCEPT ![j] = r] BY <1>4 DEF Store, Goto
<1>8. stored' \in Snapshots /\ Posted(stored')
  BY <1>1 DEF Store, JobStates, Fits
<1>9. TypeOK'
  <2>1. job' \in [Jobs -> JobStates] BY <1>2, <1>5, <1>7, JobChange
  <2> QED BY <1>2, <1>8, <2>1 DEF TypeOK, Store, queue, Rights!RightsTypeOK
<1>10. MarkerBook'
  BY <1>8 DEF IInv, MarkerBook, Posted, Store
<1> QED BY <1>3, <1>5, <1>6, <1>7, <1>9, <1>10, SameCommands, MixedStep DEF Store

LEMMA CorrelatedFacts ==
  \A b \in Bodies : /\ Correlated(b) \in Rows
                    /\ Correlated(b).body = b
                    /\ Correlated(b).status = "accepted" => b # Junk
BY DEF Correlated, Rows, Bodies

LEMMA ObserveKeeps == ASSUME IInv, NEW j \in Jobs, Observe(j) PROVE IInv'
<1>1. job[j] \in JobStates /\ Fits(job[j]) BY JobFacts
<1>2. TypeOK BY DEF IInv
<1>3. Moves BY Still DEF Observe, queue
<1>4. PICK c \in job[j].left :
        /\ row' = [row EXCEPT ![c] = Persisted(c, Correlated(job[j].snap.body[c]))]
        /\ job' = [job EXCEPT ![j].left = @ \ {c}]
  BY DEF Observe
<1>5. PICK r : r = [job[j] EXCEPT !.left = @ \ {c}] OBVIOUS
<1>6. r \in JobStates BY <1>1, <1>5 DEF JobStates
<1>7. Fits(r) BY <1>1, <1>5 DEF JobStates, Fits, Early, Observe
<1>8. job' = [job EXCEPT ![j] = r] BY <1>4, <1>5
<1>9. c \in Comments /\ row \in [Comments -> Rows] BY <1>1, <1>2 DEF JobStates, TypeOK
<1>10. PICK b \in Bodies : b = job[j].snap.body[c] /\ b \in posted \cup {Junk}
  <2>1. job[j].snap \in Snapshots BY <1>1 DEF JobStates
  <2>2. job[j].snap.body[c] \in Bodies BY <1>9, <2>1 DEF Snapshots
  <2>3. Posted(job[j].snap) /\ job[j].snap.body[c] # None BY <1>1 DEF Fits, Observe
  <2> QED BY <1>9, <2>2, <2>3 DEF Posted
<1>11. PICK new \in Rows : new = Correlated(b) /\ (new.status = "accepted" => b # Junk) /\ new.body = b
  BY CorrelatedFacts
<1>12. PICK w \in Rows : w = Persisted(c, new) /\ (w.status = "accepted" => w = new)
  <2>1. [new EXCEPT !.status = "ambiguous"] \in Rows
        /\ [new EXCEPT !.status = "ambiguous"].status = "ambiguous"
    BY <1>11 DEF Rows
  <2> QED BY <1>11, <2>1 DEF Persisted
<1>13. row' = [row EXCEPT ![c] = w] BY <1>4, <1>10, <1>11, <1>12
<1>14. TypeOK'
  <2>1. job' \in [Jobs -> JobStates] BY <1>2, <1>6, <1>8, JobChange
  <2>2. row' \in [Comments -> Rows] BY <1>9, <1>13
  <2> QED BY <1>2, <2>1, <2>2 DEF TypeOK, Observe, queue, Rights!RightsTypeOK
<1>15. MarkerBook'
  BY <1>9, <1>10, <1>11, <1>12, <1>13 DEF IInv, MarkerBook, Posted, Observe
<1> QED BY <1>3, <1>6, <1>7, <1>8, <1>14, <1>15, SameCommands, MixedStep DEF Observe

LEMMA NoRowFacts == NoRow \in Rows /\ NoRow.status # "accepted"
BY DEF NoRow, Rows, Bodies

LEMMA PurgeKeeps == ASSUME IInv, NEW j \in Jobs, Purge(j) PROVE IInv'
<1>1. job[j] \in JobStates /\ Fits(job[j]) BY JobFacts
<1>2. TypeOK BY DEF IInv
<1>3. Moves BY Still DEF Purge, queue
<1> DEFINE todo == {[p |-> p, to |-> command[p]] : p \in {x \in Commands : command[x] # "absent"}}
<1>4. \A i \in todo : i \in Items /\ Sound(i)
  BY <1>2 DEF TypeOK, IInv, CommandBook, Items, Sound
<1>5. job' = [job EXCEPT ![j].pc = "judge", ![j].snap = Blank, ![j].todo = todo] BY DEF Purge
<1> HIDE DEF todo
<1>6. PICK r : r = [job[j] EXCEPT !.pc = "judge", !.snap = Blank, !.todo = todo] OBVIOUS
<1>7. job' = [job EXCEPT ![j] = r] BY <1>1, <1>2, <1>5, <1>6 DEF TypeOK, JobStates
<1>8. Blank \in Snapshots /\ Posted(Blank) BY DEF Blank, Snapshots, Posted, Bodies
<1>9. r \in JobStates BY <1>1, <1>4, <1>6, <1>8 DEF JobStates
<1>10. Fits(r) BY <1>1, <1>4, <1>6, <1>8 DEF JobStates, Fits, Early, Purge
<1>11. row' \in [Comments -> Rows]
       /\ \A c \in Comments : row'[c] = NoRow \/ row'[c] = row[c]
  BY <1>2, NoRowFacts DEF Purge, TypeOK
<1>12. TypeOK'
  <2>1. job' \in [Jobs -> JobStates] BY <1>2, <1>7, <1>9, JobChange
  <2> QED BY <1>2, <1>11, <2>1 DEF TypeOK, Purge, queue, Rights!RightsTypeOK
<1>13. MarkerBook'
  BY <1>11, NoRowFacts DEF IInv, MarkerBook, Posted, Purge
<1> QED BY <1>3, <1>7, <1>9, <1>10, <1>12, <1>13, SameCommands, MixedStep DEF Purge

\* A verdict is the verdict of an accepted marker of the command.
LEMMA DesiredHolds ==
  ASSUME IInv, NEW p \in Commands, NEW listed \in Statuses \ {"absent"}, Holds(p, listed)
  PROVE  Desired(p, listed) \in Statuses \ {"absent"} /\ Holds(p, Desired(p, listed))
<1> DEFINE payloads == {row[c].body : c \in Accepted(p)}
           v == (CHOOSE m \in payloads : TRUE).verdict
<1>1. "ambiguous" \in Statuses \ {"absent"} /\ Holds(p, "ambiguous")
  BY DEF Holds, Executed, Statuses, Terminal
<1>2. \A m \in payloads : m \in posted /\ m.command = p
  BY DEF Accepted, IInv, MarkerBook
<1>3. payloads # {} => (CHOOSE m \in payloads : TRUE) \in payloads
  OBVIOUS
<1>4. posted \subseteq Markers BY DEF IInv, TypeOK
<1> HIDE DEF payloads
<1>5. payloads # {} => v \in Executed /\ Marked(p, v)
  BY <1>2, <1>3, <1>4, LoopAssumption DEF Markers, Marked
<1>6. payloads # {} => v \in Statuses \ {"absent"} /\ Holds(p, v)
  BY <1>5 DEF Statuses, Terminal, Executed, Holds
<1> HIDE DEF v
<1>7. \/ Desired(p, listed) \in {"ambiguous", listed}
      \/ payloads # {} /\ Desired(p, listed) = v
  BY DEF Desired, payloads, v
<1> QED BY <1>1, <1>6, <1>7

LEMMA JudgeKeeps == ASSUME IInv, NEW j \in Jobs, Judge(j) PROVE IInv'
<1>1. job[j] \in JobStates /\ Fits(job[j]) BY JobFacts
<1>2. TypeOK BY DEF IInv
<1>3. Moves BY Still DEF Judge, queue
<1>4. CASE Goto(j, "refresh") /\ UNCHANGED row
  <2> DEFINE r == [job[j] EXCEPT !.pc = "refresh"]
  <2>1. job' = [job EXCEPT ![j] = r] BY <1>4 DEF Goto
  <2>2. r \in JobStates BY <1>1 DEF JobStates
  <2>3. Fits(r) BY <1>1 DEF JobStates, Fits, Early, Judge
  <2> HIDE DEF r
  <2> QED BY <1>4, <2>1, <2>2, <2>3, LocalStep DEF Judge
<1>5. ASSUME NEW i \in job[j].todo, NEW t, t = Desired(i.p, i.to),
             row' = [c \in Comments |->
                       IF Conflicting(i.p, i.to) /\ c \in Accepted(i.p)
                       THEN [row[c] EXCEPT !.status = "ambiguous"] ELSE row[c]],
             job' = [job EXCEPT ![j].todo = @ \ {i},
                       ![j].cur = IF t = i.to THEN None ELSE [p |-> i.p, to |-> t]]
      PROVE  IInv'
  <2>1. i \in Items /\ Sound(i) BY <1>1 DEF JobStates, Fits, Judge, Early
  <2>2. t \in Statuses \ {"absent"} /\ Holds(i.p, t)
    BY <1>5, <2>1, DesiredHolds DEF Items, Sound
  <2>3. PICK cur : cur = IF t = i.to THEN None ELSE [p |-> i.p, to |-> t] OBVIOUS
  <2>4. cur \in Items \cup {None} /\ (cur # None => Sound(cur))
    BY <2>1, <2>2, <2>3 DEF Items, Sound
  <2>5. PICK r : r = [job[j] EXCEPT !.todo = @ \ {i}, !.cur = cur] OBVIOUS
  <2>6. job' = [job EXCEPT ![j] = r] BY <1>1, <1>2, <1>5, <2>3, <2>5 DEF TypeOK, JobStates
  <2>7. r \in JobStates BY <1>1, <2>4, <2>5 DEF JobStates
  <2>8. Fits(r) BY <1>1, <2>4, <2>5 DEF JobStates, Fits, Early, Judge
  <2>9. \A c \in Comments : row'[c] \in Rows
          /\ (row'[c].status = "accepted" => row'[c] = row[c])
    BY <1>2, <1>5 DEF TypeOK, Rows
  <2>10. TypeOK'
    <3>1. job' \in [Jobs -> JobStates] BY <1>2, <2>6, <2>7, JobChange
    <3>2. row' \in [Comments -> Rows] BY <1>5, <2>9
    <3> QED BY <1>2, <3>1, <3>2 DEF TypeOK, Judge, queue, Rights!RightsTypeOK
  <2>11. MarkerBook'
    BY <2>9 DEF IInv, MarkerBook, Posted, Judge
  <2> QED BY <1>3, <2>6, <2>7, <2>8, <2>10, <2>11, SameCommands, MixedStep DEF Judge
<1> QED BY <1>4, <1>5 DEF Judge

(***************************************************************************)
(* The operator's plans, and GitHub                                        *)
(***************************************************************************)
LEMMA GenerateKeeps == ASSUME IInv, NEW p \in Commands, Generate(p) PROVE IInv'
<1>1. TypeOK BY DEF IInv
<1>2. Moves BY Still DEF Generate, queue
<1>3. Context \in [snap : Snapshots, view : Views] BY <1>1 DEF Context, TypeOK
<1>4. made' \in [Commands -> {None} \cup [snap : Snapshots, view : Views]]
  BY <1>1, <1>3 DEF Generate, TypeOK
<1>5. TypeOK' BY <1>1, <1>4 DEF TypeOK, Generate, queue, Rights!RightsTypeOK
<1> QED BY <1>2, <1>5, SameMarkers, OutsideStep DEF Generate

LEMMA PostKeeps ==
  ASSUME IInv, NEW c \in Comments, NEW b \in Bodies, Post(c, b) PROVE IInv'
<1>1. TypeOK BY DEF IInv
<1>2. Moves BY DEF Moves, RightMoves, Post, queue
<1>3. github' = [github EXCEPT !.body = [github.body EXCEPT ![c] = b]] /\ github \in Snapshots
  BY <1>1 DEF Post, TypeOK
<1>4. /\ github' \in Snapshots
      /\ \A e \in Comments : github'.body[e] = IF e = c THEN b ELSE github.body[e]
  BY <1>3 DEF Snapshots
<1>5. posted' \subseteq Markers /\ edited' \subseteq Comments /\ b \in posted' \cup {Junk, None}
      /\ posted \subseteq posted'
  BY <1>1 DEF Post, TypeOK, Bodies
<1>6. TypeOK' BY <1>1, <1>4, <1>5 DEF TypeOK, Post, queue, Rights!RightsTypeOK
<1>7. MarkerBook'
  <2>1. Posted(github)' BY <1>4, <1>5 DEF IInv, MarkerBook, Posted
  <2> QED BY <1>5, <2>1 DEF IInv, MarkerBook, Posted, Post
<1> QED BY <1>2, <1>6, <1>7, OutsideStep DEF Post

LEMMA PushKeeps == ASSUME IInv, NEW h \in Heads \cup {None}, Push(h) PROVE IInv'
<1>1. TypeOK BY DEF IInv
<1>2. Moves BY Still DEF Push, queue
<1>3. github' \in Snapshots /\ github'.body = github.body
  BY <1>1 DEF Push, TypeOK, Snapshots
<1>4. TypeOK' BY <1>1, <1>3 DEF TypeOK, Push, queue, Rights!RightsTypeOK
<1>5. MarkerBook' BY <1>3 DEF IInv, MarkerBook, Posted, Push
<1> QED BY <1>2, <1>4, <1>5, OutsideStep DEF Push

(***************************************************************************)
(* The theorems                                                            *)
(***************************************************************************)
LEMMA InitInv == ASSUME Init PROVE IInv
<1>1. NoView \in Views /\ NoRow \in Rows BY DEF NoView, Views, NoRow, Rows, Bodies
<1>2. TypeOK
  BY <1>1, IdleFits DEF Init, TypeOK, Rights!RightsInit, Rights!RightsTypeOK, Rights!Statuses,
     Statuses, Snapshots, Bodies
<1>3. LinkBook /\ CommandBook /\ PlanBook
  BY DEF Init, LinkBook, CommandBook, PlanBook, Holds, Executed
<1>4. JobBook BY IdleFits DEF Init, JobBook
<1>5. MarkerBook
  <2>1. PICK h : github = [head |-> h, body |-> [c \in Comments |-> None]] BY DEF Init
  <2>2. Posted(github) BY <2>1 DEF Posted
  <2> QED BY <2>2, NoRowFacts DEF Init, MarkerBook
<1> QED BY <1>2, <1>3, <1>4, <1>5 DEF IInv

\* A step keeps the books, and what it does to a command is forward.
LEMMA StepInv ==
  ASSUME IInv, [Next]_loopVars
  PROVE  IInv' /\ \A p \in Commands : command'[p] \in {command[p]} \cup Later(command[p])
<1>1. CASE UNCHANGED loopVars
  <2>1. Moves BY <1>1, Still DEF loopVars
  <2>2. TypeOK' BY <1>1 DEF IInv, TypeOK, loopVars, Rights!RightsTypeOK
  <2> QED BY <1>1, <2>1, <2>2, SameMarkers, OutsideStep DEF loopVars
<1>2. CASE \E j \in Jobs : Write(j)
  BY <1>2, WriteForward DEF IInv, TypeOK
<1>3. CASE \E j \in Jobs : Persist(j)
  BY <1>3, PersistForward DEF Later
<1>4. CASE \E j \in Jobs : \/ GetPlan(j) \/ Link(j) \/ SyncCommand(j) \/ ReadLinks(j)
                           \/ Record(j) \/ Reread(j)
                           \/ Store(j) \/ Load(j) \/ Observe(j) \/ Purge(j) \/ Judge(j)
                           \/ RefreshRead(j) \/ Settle(j) \/ Publish(j)
                           \/ Abort(j) \/ BeginSync(j) \/ Boot(j)
  <2>1. IInv'
    BY <1>4, GetPlanKeeps, LinkKeeps, SyncCommandKeeps, ReadLinksKeeps, RecordKeeps, RereadKeeps,
       StoreKeeps, LoadKeeps, ObserveKeeps, PurgeKeeps, JudgeKeeps, RefreshReadKeeps,
       SettleKeeps, PublishKeeps, AbortKeeps, BeginSyncKeeps, BootKeeps
  <2>2. UNCHANGED command
    BY <1>4 DEF GetPlan, Link, SyncCommand, ReadLinks, Record, Reread, Store, Load, Observe,
       Purge, Judge, RefreshRead, Settle, Publish, Abort, BeginSync, Boot
  <2> QED BY <2>1, <2>2
<1>5. CASE Operator \/ Worker \/ Environment \/ Crash
           \/ \E j \in Jobs, S \in SUBSET Deliveries : BeginReconcile(j, S)
  <2>1. IInv'
    BY <1>5, GenerateKeeps, BeginCreateKeeps, ClaimKeeps, QueueAloneKeeps, BeginCompleteKeeps,
       PostKeeps, PushKeeps, CrashKeeps, BeginReconcileKeeps DEF Operator, Worker, Environment
  <2>2. UNCHANGED command
    BY <1>5 DEF Operator, Worker, Environment, Generate, BeginCreate, Claim, QueueAlone,
       BeginComplete, Post, Push, Crash, BeginReconcile
  <2> QED BY <2>1, <2>2
<1> QED BY <1>1, <1>2, <1>3, <1>4, <1>5 DEF Next, JobStep

\* Every variable keeps its type, every link joins a command to a delivery of its
\* own plan, and no operation acts on a status that has become untrue.
THEOREM Invariance == Spec => []IInv
BY InitInv, StepInv, PTL DEF Spec

\* A command waits for its result only after its own delivery was reported
\* delivered, however reports, retries and reconciliation interleave.
THEOREM DeliveredFirst == Spec => []AwaitsAfterDelivery
<1>1. IInv => AwaitsAfterDelivery
  BY DEF IInv, CommandBook, Holds, Delivered, AwaitsAfterDelivery
<1> QED BY <1>1, Invariance, PTL

\* A command that ended with a verdict ended with the verdict of a marker that
\* stood on GitHub; the transport alone completes nothing.
THEOREM MarkedVerdict == Spec => []VerdictHasMarker
<1>1. IInv => VerdictHasMarker
  BY DEF IInv, CommandBook, Holds, Marked, VerdictHasMarker
<1> QED BY <1>1, Invariance, PTL

\* A link never joins a command to a delivery of another plan.
THEOREM LinksMatch == Spec => []LinkBook
<1>1. IInv => LinkBook BY DEF IInv
<1> QED BY <1>1, Invariance, PTL

\* The status of a command only moves forward, although every operation reads
\* it in one statement and writes it in another.
THEOREM OnlyForward == Spec => Monotone
<1>1. IInv /\ [Next]_loopVars =>
        [\A p \in Commands : command'[p] \in {command[p]} \cup Later(command[p])]_loopVars
  BY StepInv
<1> QED BY <1>1, Invariance, PTL DEF Spec, Monotone

(***************************************************************************)
(* Doubt.  Synchronisations must not overlap here: an older fetch that is  *)
(* observed after a newer one takes an accepted marker for a changed one.  *)
(***************************************************************************)
Syncing(r) == r.pc \in {"store", "load", "observe", "judge"}
OneAtATime == \A j, k \in Jobs : Syncing(job[j]) /\ Syncing(job[k]) => j = k

\* Reasons to put a command in doubt, none of which ever goes away
Cause(p) == \/ edited # {}
            \/ \E m, n \in posted : m # n /\ m.command = p /\ n.command = p
            \/ link[p] # None /\ right[link[p]] = "uncertain"
            \/ \E q \in Commands \ {p} : command[q] # "absent"

Exceptional(p) == command[p] \in {"failed", "ambiguous"}

\* Without a reason a verdict keeps the accepted marker it came from.
Kept(p) == Cause(p) \/ Accepted(p) # {}

\* What an operation is to write it still has grounds for when it writes it.
Grounded(i) == /\ i.to = "ambiguous" => Cause(i.p) \/ Exceptional(i.p)
               /\ i.to \in Executed => Kept(i.p)

Careful(r) ==
  /\ r.pc \in Early => \A i \in r.todo : i.to = "ambiguous" => right[r.d] = "uncertain"
  /\ r.pc \notin Early => \A i \in r.todo : Grounded(i)
  /\ r.cur # None => Grounded(r.cur)
  /\ r.pc = "judge" => \A i \in r.todo : i.to = "failed" => Exceptional(i.p)

\* While no comment is edited, what is known of the issue only grows.
Within(s, t) == \A c \in Comments : s.body[c] \in {None, t.body[c]}

Informed(r) ==
  edited = {} =>
    /\ r.pc = "store" => Within(stored, r.snap) /\ Within(r.snap, github)
    /\ r.pc = "observe" => \A c \in Comments : r.snap.body[c] = stored.body[c]

Acceptable(b) == b \notin {None, Junk} /\ command[b.command] # "absent"

RowBook ==
  edited = {} =>
    /\ Within(stored, github)
    /\ \A c \in Comments :
         row[c].status = "accepted" => row[c].body = stored.body[c] /\ Acceptable(row[c].body)

VerdictBook == \A p \in Commands : command[p] \in Executed => Kept(p)

DoubtInv == VerdictBook /\ RowBook /\ \A j \in Jobs : Careful(job[j]) /\ Informed(job[j])

\* What no step takes back
Steady ==
  /\ edited \subseteq edited' /\ posted \subseteq posted'
  /\ \A p \in Commands : link[p] # None => link'[p] = link[p]
  /\ \A d \in Deliveries : right[d] = "uncertain" => right'[d] = "uncertain"
  /\ \A p \in Commands : command[p] # "absent" => command'[p] # "absent"
  /\ \A p \in Commands : Exceptional(p) => Exceptional(p)'

LEMMA UncertainStays ==
  ASSUME TypeOK,
         \/ UNCHANGED <<right, holder>>
         \/ \E d \in Deliveries : Rights!Offer(d)
         \/ \E d, w : Rights!Withdraw(d, w)
         \/ \E d \in Deliveries, o \in Rights!Outcomes : Rights!Settle(d, o)
         \/ \E d \in Deliveries, q \in Requests : Rights!Grant(d, q)
         \/ \E S \in SUBSET Deliveries : Rights!Lapse(S)
  PROVE  \A d \in Deliveries : right[d] = "uncertain" => right'[d] = "uncertain"
<1> USE DEF TypeOK, Rights!RightsTypeOK
<1>1. CASE UNCHANGED <<right, holder>> BY <1>1
<1>2. CASE \E d \in Deliveries : Rights!Offer(d) BY <1>2 DEF Rights!Offer
<1>3. CASE \E d, w : Rights!Withdraw(d, w) BY <1>3 DEF Rights!Withdraw
<1>4. CASE \E d \in Deliveries, o \in Rights!Outcomes : Rights!Settle(d, o)
  BY <1>4 DEF Rights!Settle
<1>5. CASE \E d \in Deliveries, q \in Requests : Rights!Grant(d, q)
  BY <1>5 DEF Rights!Grant
<1>6. CASE \E S \in SUBSET Deliveries : Rights!Lapse(S) BY <1>6 DEF Rights!Lapse
<1> QED BY <1>1, <1>2, <1>3, <1>4, <1>5, <1>6

LEMMA StepSteady ==
  ASSUME IInv, [Next]_loopVars
  PROVE  Steady
<1>1. TypeOK BY DEF IInv
<1>2. \A p \in Commands : command'[p] \in {command[p]} \cup Later(command[p])
  BY StepInv
<1>3. /\ \A p \in Commands : command[p] # "absent" => command'[p] # "absent"
      /\ \A p \in Commands : Exceptional(p) => Exceptional(p)'
  BY <1>2 DEF Later, Exceptional, Terminal, Executed
<1>4. edited \subseteq edited' /\ posted \subseteq posted'
  <2>1. CASE \E c \in Comments, b \in Bodies : Post(c, b) BY <2>1 DEF Post
  <2>2. CASE UNCHANGED <<edited, posted>> BY <2>2
  <2> QED BY <2>1, <2>2 DEF Next, Operator, Worker, Environment, JobStep, Generate, BeginCreate,
             Claim, QueueAlone, BeginComplete, Push, Crash, BeginReconcile, GetPlan, Persist, Link,
             SyncCommand, ReadLinks, Record, Reread, Write, Store, Load, Observe, Purge, Judge,
             RefreshRead, Settle, Publish, Abort, BeginSync, Boot, loopVars
<1>5. \A p \in Commands : link[p] # None => link'[p] = link[p]
  <2>1. CASE \E j \in Jobs : Link(j) BY <1>1, <2>1 DEF Link, Linked, TypeOK
  <2>2. CASE UNCHANGED link BY <2>2
  <2> QED BY <2>1, <2>2 DEF Next, Operator, Worker, Environment, JobStep, Generate, BeginCreate,
             Claim, QueueAlone, BeginComplete, Post, Push, Crash, BeginReconcile, GetPlan, Persist,
             SyncCommand, ReadLinks, Record, Reread, Write, Store, Load, Observe, Purge, Judge,
             RefreshRead, Settle, Publish, Abort, BeginSync, Boot, loopVars
<1>6. \A d \in Deliveries : right[d] = "uncertain" => right'[d] = "uncertain"
  <2>1. CASE \E d : InvalidatePending(d)
    BY <1>1, <2>1, UncertainStays DEF InvalidatePending
  <2>2. CASE UNCHANGED <<right, holder>> BY <1>1, <2>2, UncertainStays
  <2>3. CASE \E j \in Jobs : \/ GetPlan(j) \/ Link(j) \/ Abort(j) \/ Reread(j) \/ Write(j)
    BY <2>1, <2>2, <2>3 DEF GetPlan, Link, Abort, Reread, Write, Conflict
  <2>4. CASE Operator
    BY <1>1, <2>2, <2>4, UncertainStays DEF Operator, Generate, queue, BeginCreate
  <2>5. CASE Worker
    <3>1. CASE \E d \in Deliveries : QueueAlone(d)
      BY <1>1, <3>1, UncertainStays DEF QueueAlone, Rights!Outcomes
    <3>2. CASE \E d \in Deliveries, q \in Requests : Claim(d, q)
      BY <1>1, <3>2, UncertainStays DEF Claim
    <3>3. CASE \E j \in Jobs, d \in Deliveries, o \in Rights!Outcomes : BeginComplete(j, d, o)
      BY <1>1, <3>3, UncertainStays DEF BeginComplete
    <3> QED BY <2>5, <3>1, <3>2, <3>3 DEF Worker
  <2>6. CASE \E j \in Jobs, S \in SUBSET Deliveries : BeginReconcile(j, S)
    BY <1>1, <2>6, UncertainStays DEF BeginReconcile
  <2>7. CASE Environment \/ Crash \/ UNCHANGED loopVars
             \/ \E j \in Jobs : \/ Persist(j) \/ SyncCommand(j) \/ ReadLinks(j) \/ Record(j)
                                \/ Store(j) \/ Load(j) \/ Observe(j) \/ Purge(j) \/ Judge(j)
                                \/ RefreshRead(j) \/ Settle(j) \/ Publish(j) \/ BeginSync(j) \/ Boot(j)
    <3>1. UNCHANGED <<right, holder>>
      BY <2>7 DEF Environment, Post, Push, Crash, Persist, SyncCommand, ReadLinks, Record, Store,
         Load, Observe, Purge, Judge, RefreshRead, Settle, Publish, BeginSync, Boot, loopVars, queue
    <3> QED BY <2>2, <3>1
  <2> QED BY <2>3, <2>4, <2>5, <2>6, <2>7 DEF Next, JobStep
<1> QED BY <1>3, <1>4, <1>5, <1>6 DEF Steady

LEMMA CauseStays ==
  ASSUME IInv, Steady, NEW p \in Commands, Cause(p)
  PROVE  Cause(p)'
<1>1. CASE edited # {} BY <1>1 DEF Steady, Cause
<1>2. CASE \E m, n \in posted : m # n /\ m.command = p /\ n.command = p
  BY <1>2 DEF Steady, Cause
<1>3. CASE link[p] # None /\ right[link[p]] = "uncertain"
  <2>1. link[p] \in Deliveries BY <1>3 DEF IInv, TypeOK
  <2> QED BY <1>3, <2>1 DEF Steady, Cause
<1>4. CASE \E q \in Commands \ {p} : command[q] # "absent" BY <1>4 DEF Steady, Cause
<1> QED BY <1>1, <1>2, <1>3, <1>4 DEF Cause

\* No accepted marker is lost without a reason.
RowsStay == \A p \in Commands : ~Cause(p)' =>
              \A c \in Comments : c \in Accepted(p) => row'[c] = row[c]

LEMMA KeptStays ==
  ASSUME IInv, Steady, RowsStay, NEW p \in Commands, Kept(p)
  PROVE  Kept(p)'
<1>1. CASE Cause(p) BY <1>1, CauseStays DEF Kept
<1>2. CASE Accepted(p) # {} /\ ~Cause(p)'
  <2>1. PICK c \in Comments : c \in Accepted(p) BY <1>2 DEF Accepted
  <2>2. row'[c] = row[c] BY <1>2, <2>1 DEF RowsStay
  <2>3. c \in Accepted(p)' BY <2>1, <2>2 DEF Accepted
  <2> QED BY <2>3 DEF Kept
<1> QED BY <1>1, <1>2 DEF Kept

LEMMA GroundedStays ==
  ASSUME IInv, Steady, RowsStay, NEW i \in Items, Grounded(i)
  PROVE  Grounded(i)'
<1>1. i.p \in Commands BY DEF Items
<1> QED BY <1>1, CauseStays, KeptStays DEF Grounded, Steady

LEMMA CarefulStays ==
  ASSUME IInv, Steady, RowsStay, NEW r \in JobStates, Careful(r), r.pc \in Early => r.d \in Deliveries
  PROVE  Careful(r)'
<1>1. r.todo \subseteq Items /\ r.cur \in Items \cup {None} BY DEF JobStates
<1>2. \A i \in Items : i.p \in Commands BY DEF Items
<1>3. r.pc \in Early => \A i \in r.todo : i.to = "ambiguous" => right'[r.d] = "uncertain"
  BY DEF Careful, Steady
<1>4. r.pc \notin Early => \A i \in r.todo : Grounded(i)'
  BY <1>1, GroundedStays DEF Careful
<1>5. r.cur # None => Grounded(r.cur)'
  BY <1>1, GroundedStays DEF Careful
<1>6. r.pc = "judge" => \A i \in r.todo : i.to = "failed" => Exceptional(i.p)'
  BY <1>1, <1>2 DEF Careful, Steady
<1> QED BY <1>3, <1>4, <1>5, <1>6 DEF Careful

\* The issue, and what is stored of it, has not changed under an operation's feet.
WorldStays == edited' = {} => /\ \A c \in Comments : stored'.body[c] = stored.body[c]
                              /\ Within(github, github')

LEMMA InformedStays ==
  ASSUME Steady, WorldStays, NEW r, Informed(r)
  PROVE  Informed(r)'
<1> SUFFICES ASSUME edited' = {}
             PROVE  /\ r.pc = "store" => Within(stored', r.snap) /\ Within(r.snap, github')
                    /\ r.pc = "observe" => \A c \in Comments : r.snap.body[c] = stored'.body[c]
  BY DEF Informed
<1>1. edited = {} BY DEF Steady
<1> QED BY <1>1 DEF Informed, WorldStays, Within

\* A comment that counts goes on counting.
LEMMA RowsKept ==
  ASSUME IInv, RowBook, Steady, row' = row, WorldStays
  PROVE  RowBook'
<1> SUFFICES ASSUME edited' = {} PROVE RowBook' BY DEF RowBook
<1>1. edited = {} BY DEF Steady
<1>2. Within(stored', github') BY <1>1 DEF RowBook, WorldStays, Within
<1>3. ASSUME NEW c \in Comments, row'[c].status = "accepted"
      PROVE  row'[c].body = stored'.body[c] /\ Acceptable(row[c].body)'
  <2>1. row[c].body = stored.body[c] /\ Acceptable(row[c].body) BY <1>1, <1>3 DEF RowBook
  <2>2. row[c].body \in posted BY <1>3 DEF IInv, MarkerBook
  <2>3. row[c].body.command \in Commands BY <2>2 DEF IInv, TypeOK, Markers
  <2> QED BY <2>1, <2>3 DEF WorldStays, Acceptable, Steady
<1> QED BY <1>2, <1>3 DEF RowBook

\* The step changes no row and no snapshot, and an operation either waits or goes
\* on with care.
LEMMA CommonStep ==
  ASSUME IInv, DoubtInv, Steady, UNCHANGED <<row, stored>>,
         edited' = {} => Within(github, github'),
         \A p \in Commands : command'[p] \in Executed => command'[p] = command[p] \/ Kept(p),
         \A k \in Jobs : job'[k] = job[k] \/ (Careful(job[k])' /\ Informed(job[k])')
  PROVE  DoubtInv'
<1>1. RowsStay /\ WorldStays BY DEF RowsStay, WorldStays
<1>2. VerdictBook'
  BY <1>1, KeptStays DEF DoubtInv, VerdictBook
<1>3. RowBook' BY <1>1, RowsKept DEF DoubtInv
<1>4. ASSUME NEW k \in Jobs, job'[k] = job[k] PROVE Careful(job[k])' /\ Informed(job[k])'
  <2>1. PICK r \in JobStates : r = job[k] /\ Fits(r) BY JobFacts
  <2>2. Careful(r) /\ Informed(r) BY <2>1 DEF DoubtInv
  <2>3. r.pc \in Early => r.d \in Deliveries BY <2>1 DEF Fits, Confirmed
  <2>4. Careful(r)' BY <1>1, <2>2, <2>3, CarefulStays
  <2>5. Informed(r)' BY <1>1, <2>2, InformedStays
  <2> QED BY <1>4, <2>1, <2>4, <2>5
<1> QED BY <1>2, <1>3, <1>4 DEF DoubtInv

\* No operation takes part.
LEMMA OutsideCareful ==
  ASSUME IInv, DoubtInv, Steady, UNCHANGED <<job, command, row, stored>>,
         edited' = {} => Within(github, github')
  PROVE  DoubtInv'
BY CommonStep

LEMMA NothingNew ==
  ASSUME github' = github PROVE Within(github, github')
BY DEF Within

\* An operation moves on, with a record that is careful already.
LEMMA MovesOn ==
  ASSUME IInv, DoubtInv, Steady, UNCHANGED <<row, stored, github>>,
         \A p \in Commands : command'[p] \in Executed => command'[p] = command[p] \/ Kept(p),
         NEW j \in Jobs, NEW r \in JobStates, Careful(r), Informed(r),
         r.pc \in Early => r.d \in Deliveries, job' = [job EXCEPT ![j] = r]
  PROVE  DoubtInv'
<1>1. RowsStay /\ WorldStays BY NothingNew DEF RowsStay, WorldStays
<1>2. Careful(r)' BY <1>1, CarefulStays
<1>3. Informed(r)' BY <1>1, InformedStays
<1>4. job'[j] = r /\ \A k \in Jobs \ {j} : job'[k] = job[k] BY JobChange DEF IInv
<1>5. \A k \in Jobs : job'[k] = job[k] \/ (Careful(job[k])' /\ Informed(job[k])')
  BY <1>2, <1>3, <1>4
<1> QED BY <1>5, NothingNew, CommonStep

\* What an operation does with the items it has: nothing, take one up, drop some.
Derived(r, s) ==
  /\ r.todo \subseteq s.todo
  /\ r.d = s.d \/ r.pc \notin Early
  /\ r.pc \in Early => s.pc \in Early
  /\ s.pc \in Early /\ r.pc \notin Early => r.todo = {}
  /\ r.cur \in {None, s.cur} \/ (s.pc \notin Early /\ r.cur \in s.todo)
  /\ r.pc = "judge" => s.pc = "judge"
  /\ r.pc \in {"store", "observe"} => r.pc = s.pc /\ r.snap = s.snap

LEMMA DerivedCareful ==
  ASSUME NEW r, NEW s, Derived(r, s), Careful(s), Informed(s)
  PROVE  Careful(r) /\ Informed(r)
<1>1. Careful(r)
  <2>1. r.pc \in Early => \A i \in r.todo : i.to = "ambiguous" => right[r.d] = "uncertain"
    BY DEF Derived, Careful
  <2>2. r.pc \notin Early => \A i \in r.todo : Grounded(i)
    BY DEF Derived, Careful
  <2>3. r.cur # None => Grounded(r.cur)
    BY DEF Derived, Careful
  <2>4. r.pc = "judge" => \A i \in r.todo : i.to = "failed" => Exceptional(i.p)
    BY DEF Derived, Careful
  <2> QED BY <2>1, <2>2, <2>3, <2>4 DEF Careful
<1>2. Informed(r)
  BY DEF Derived, Informed
<1> QED BY <1>1, <1>2

\* An operation without items.
LEMMA FreshCareful ==
  ASSUME NEW r, r.todo = {}, r.cur = None, r.pc \notin {"store", "observe"}
  PROVE  Careful(r) /\ Informed(r)
BY DEF Careful, Informed

LEMMA IdleCareful ==
  /\ Idle.todo = {} /\ Idle.cur = None /\ Idle.pc = "idle" /\ Idle.pc \notin Early
  /\ Careful(Idle) /\ Informed(Idle) /\ Careful(Idle)' /\ Informed(Idle)'
<1>1. Idle.todo = {} /\ Idle.cur = None /\ Idle.pc = "idle" /\ Idle.pc \notin Early
  BY DEF Idle, Early
<1>2. Careful(Idle) /\ Informed(Idle) BY <1>1, FreshCareful
<1>3. Careful(Idle)' /\ Informed(Idle)' BY <1>1 DEF Careful, Informed
<1> QED BY <1>1, <1>2, <1>3

LEMMA ReturnCareful ==
  ASSUME IInv, DoubtInv, Steady, NEW j \in Jobs, Return(j),
         UNCHANGED <<command, row, stored, github>>
  PROVE  DoubtInv'
<1>1. job' = [job EXCEPT ![j] = Idle] /\ Idle \in JobStates BY IdleFits DEF Return
<1> QED BY <1>1, IdleCareful, MovesOn

LEMMA DerivedStep ==
  ASSUME IInv, DoubtInv, Steady, NEW j \in Jobs, NEW r \in JobStates, Derived(r, job[j]),
         job' = [job EXCEPT ![j] = r],
         \A p \in Commands : command'[p] \in Executed => command'[p] = command[p] \/ Kept(p),
         UNCHANGED <<row, stored, github>>
  PROVE  DoubtInv'
<1>1. PICK s \in JobStates : s = job[j] /\ Fits(s) BY JobFacts
<1>2. Careful(s) /\ Informed(s) /\ Derived(r, s) BY <1>1 DEF DoubtInv
<1>3. Careful(r) /\ Informed(r) BY <1>2, DerivedCareful
<1>4. r.pc \in Early => r.d \in Deliveries BY <1>1, <1>2 DEF Derived, Fits, Confirmed
<1> QED BY <1>3, <1>4, MovesOn

(***************************************************************************)
(* Steps that change neither a row nor the snapshot                        *)
(***************************************************************************)
\* What an operation carries when it does not write
LEMMA JobParts ==
  ASSUME IInv, NEW j \in Jobs
  PROVE  /\ job[j] \in JobStates /\ Fits(job[j]) /\ job[j].todo \subseteq Items
         /\ job[j].cur # None => job[j].pc \notin Early
         /\ job[j].pc \in Early => job[j].d \in Deliveries /\ job[j].cur = None
<1>1. job[j] \in JobStates /\ Fits(job[j]) BY JobFacts
<1> QED BY <1>1 DEF JobStates, Fits, Confirmed

LEMMA RecordCareful == ASSUME IInv, DoubtInv, Steady, NEW j \in Jobs, Record(j) PROVE DoubtInv'
<1> PICK s \in JobStates : s = job[j] BY JobParts
<1>1. s.pc = "record" /\ s.cur = None /\ s.pc \notin Early BY DEF Record, Early
<1>2. UNCHANGED <<command, row, stored, github>> BY DEF Record
<1>3. CASE Goto(j, "refresh")
  <2>1. PICK r : r = [s EXCEPT !.pc = "refresh"] OBVIOUS
  <2>2. r \in JobStates /\ Derived(r, s) BY <1>1, <2>1 DEF JobStates, Derived, Early
  <2>3. job' = [job EXCEPT ![j] = r] BY <1>3, <2>1 DEF Goto
  <2> QED BY <1>2, <2>2, <2>3, DerivedStep
<1>4. ASSUME NEW i \in s.todo,
             job' = [job EXCEPT ![j] = IF command[i.p] = i.to \/ command[i.p] \in Terminal
                                       THEN [job[j] EXCEPT !.todo = @ \ {i}]
                                       ELSE [job[j] EXCEPT !.cur = i]]
      PROVE  DoubtInv'
  <2>1. i \in Items BY DEF JobStates
  <2>2. PICK a : a = [s EXCEPT !.todo = @ \ {i}] OBVIOUS
  <2>3. PICK b : b = [s EXCEPT !.cur = i] OBVIOUS
  <2>4. a \in JobStates /\ Derived(a, s) BY <1>1, <2>2 DEF JobStates, Derived
  <2>5. b \in JobStates /\ Derived(b, s) BY <1>1, <2>1, <2>3 DEF JobStates, Derived
  <2>6. job' = [job EXCEPT ![j] = a] \/ job' = [job EXCEPT ![j] = b] BY <1>4, <2>2, <2>3
  <2> QED BY <1>2, <2>4, <2>5, <2>6, DerivedStep
<1> QED BY <1>3, <1>4 DEF Record

LEMMA SettleCareful == ASSUME IInv, DoubtInv, Steady, NEW j \in Jobs, Settle(j) PROVE DoubtInv'
<1> PICK s \in JobStates : s = job[j] BY JobParts
<1>1. s.pc = "settle" /\ s.cur = None /\ s.pc \notin Early BY DEF Settle, Early
<1>2. UNCHANGED <<command, row, stored, github>> BY DEF Settle
<1>3. CASE Goto(j, "publish")
  <2>1. PICK r : r = [s EXCEPT !.pc = "publish"] OBVIOUS
  <2>2. r \in JobStates /\ Derived(r, s) BY <1>1, <2>1 DEF JobStates, Derived, Early
  <2>3. job' = [job EXCEPT ![j] = r] BY <1>3, <2>1 DEF Goto
  <2> QED BY <1>2, <2>2, <2>3, DerivedStep
<1>4. ASSUME NEW i \in s.todo, job' = [job EXCEPT ![j].cur = i] PROVE DoubtInv'
  <2>1. i \in Items BY DEF JobStates
  <2>2. PICK r : r = [s EXCEPT !.cur = i] OBVIOUS
  <2>3. r \in JobStates /\ Derived(r, s) BY <1>1, <2>1, <2>2 DEF JobStates, Derived
  <2>4. job' = [job EXCEPT ![j] = r] BY <1>4, <2>2
  <2> QED BY <1>2, <2>3, <2>4, DerivedStep
<1> QED BY <1>3, <1>4 DEF Settle

LEMMA NextDerived ==
  ASSUME IInv, NEW j \in Jobs, job[j].cur # None
  PROVE  NextItem(j) \in JobStates /\ Derived(NextItem(j), job[j])
<1>1. NextItem(j) \in JobStates BY NextFits
<1> PICK s \in JobStates : s = job[j] BY JobParts
<1>2. s.pc \notin Early BY JobParts
<1> PICK r : r = NextItem(j) OBVIOUS
<1>3. r.todo \subseteq s.todo /\ r.cur = None /\ r.pc = s.pc /\ r.d = s.d /\ r.snap = s.snap
  BY DEF NextItem, JobStates
<1>4. Derived(r, s) BY <1>2, <1>3 DEF Derived
<1> QED BY <1>1, <1>4

LEMMA ConflictCareful ==
  ASSUME IInv, DoubtInv, Steady, NEW j \in Jobs, job[j].cur # None, Conflict(j),
         UNCHANGED <<command, row, stored, github>>
  PROVE  DoubtInv'
<1>1. CASE job' = [job EXCEPT ![j] = NextItem(j)]
  <2>1. PICK r \in JobStates : r = NextItem(j) /\ Derived(r, job[j]) BY NextDerived
  <2>2. job' = [job EXCEPT ![j] = r] BY <1>1, <2>1
  <2> QED BY <2>1, <2>2, DerivedStep
<1>2. CASE Return(j) BY <1>2, ReturnCareful
<1> QED BY <1>1, <1>2 DEF Conflict

LEMMA RereadCareful == ASSUME IInv, DoubtInv, Steady, NEW j \in Jobs, Reread(j) PROVE DoubtInv'
<1>1. job[j].cur # None /\ UNCHANGED <<command, row, stored, github>> BY DEF Reread
<1> PICK s \in JobStates : s = job[j] BY JobParts
<1>2. s.pc \notin Early BY <1>1, JobParts
<1>3. CASE Conflict(j) BY <1>1, <1>3, ConflictCareful
<1>4. CASE job' = [job EXCEPT ![j] = NextItem(j)]
  <2>1. PICK r \in JobStates : r = NextItem(j) /\ Derived(r, job[j]) BY <1>1, NextDerived
  <2>2. job' = [job EXCEPT ![j] = r] BY <1>4, <2>1
  <2> QED BY <1>1, <2>1, <2>2, DerivedStep
<1>5. CASE job' = [job EXCEPT ![j].read = command[job[j].cur.p]]
  <2>1. PICK r : r = [s EXCEPT !.read = command[job[j].cur.p]] OBVIOUS
  <2>2. job' = [job EXCEPT ![j] = r] BY <1>5, <2>1
  <2>3. command[job[j].cur.p] \in Statuses
    BY <1>1 DEF JobStates, Items, IInv, TypeOK
  <2>4. r \in JobStates /\ Derived(r, s) BY <1>2, <2>1, <2>3 DEF JobStates, Derived
  <2> QED BY <1>1, <2>2, <2>4, DerivedStep
<1> QED BY <1>3, <1>4, <1>5 DEF Reread

LEMMA WriteCareful == ASSUME IInv, DoubtInv, Steady, NEW j \in Jobs, Write(j) PROVE DoubtInv'
<1>1. job[j].cur # None /\ UNCHANGED <<row, stored, github>> BY DEF Write
<1>2. CASE Conflict(j) /\ UNCHANGED command BY <1>1, <1>2, ConflictCareful
<1>3. CASE /\ job' = [job EXCEPT ![j] = NextItem(j)]
           /\ command' = [command EXCEPT ![job[j].cur.p] = job[j].cur.to]
  <2>1. PICK r \in JobStates : r = NextItem(j) /\ Derived(r, job[j]) BY <1>1, NextDerived
  <2>2. job' = [job EXCEPT ![j] = r] BY <1>3, <2>1
  <2>3. PICK i \in Items : i = job[j].cur BY <1>1, JobFacts DEF JobStates
  <2>4. Grounded(i) BY <1>1, <2>3 DEF DoubtInv, Careful
  <2>5. command' = [command EXCEPT ![i.p] = i.to] /\ command \in [Commands -> Statuses] /\ i.p \in Commands
    BY <1>3, <2>3 DEF IInv, TypeOK, Items
  <2>6. \A p \in Commands : command'[p] \in Executed => command'[p] = command[p] \/ Kept(p)
    BY <2>4, <2>5 DEF Grounded
  <2> QED BY <1>1, <2>1, <2>2, <2>6, DerivedStep
<1> QED BY <1>2, <1>3 DEF Write

LEMMA GetPlanCareful == ASSUME IInv, DoubtInv, Steady, NEW j \in Jobs, GetPlan(j) PROVE DoubtInv'
<1> PICK s \in JobStates : s = job[j] BY JobParts
<1>1. s.pc = "plan" /\ UNCHANGED <<command, row, stored, github>> BY DEF GetPlan
<1>2. CASE Return(j) BY <1>1, <1>2, ReturnCareful
<1>3. CASE Goto(j, "persist")
  <2>1. PICK r : r = [s EXCEPT !.pc = "persist"] OBVIOUS
  <2>2. r \in JobStates /\ Derived(r, s) BY <1>1, <2>1 DEF JobStates, Derived, Early
  <2>3. job' = [job EXCEPT ![j] = r] BY <1>3, <2>1 DEF Goto
  <2> QED BY <1>1, <2>2, <2>3, DerivedStep
<1> QED BY <1>2, <1>3 DEF GetPlan

LEMMA PersistCareful == ASSUME IInv, DoubtInv, Steady, NEW j \in Jobs, Persist(j) PROVE DoubtInv'
<1> PICK s \in JobStates : s = job[j] BY JobParts
<1>1. s.pc = "persist" /\ UNCHANGED <<row, stored, github>> BY DEF Persist
<1>2. PICK r : r = [s EXCEPT !.pc = "link"] OBVIOUS
<1>3. r \in JobStates /\ Derived(r, s) BY <1>1, <1>2 DEF JobStates, Derived, Early
<1>4. job' = [job EXCEPT ![j] = r] BY <1>2 DEF Persist, Goto
<1>5. \A p \in Commands : command'[p] \in Executed => command'[p] = command[p] \/ Kept(p)
  BY PersistForward DEF Executed
<1> QED BY <1>1, <1>3, <1>4, <1>5, DerivedStep

LEMMA FreshStep ==
  ASSUME IInv, DoubtInv, Steady, NEW j \in Jobs, NEW r \in JobStates, r.todo = {}, r.cur = None,
         r.pc \notin Early \cup {"store", "observe"}, job' = [job EXCEPT ![j] = r],
         UNCHANGED <<command, row, stored, github>>
  PROVE  DoubtInv'
BY FreshCareful, MovesOn

LEMMA BeginSyncCareful == ASSUME IInv, DoubtInv, Steady, NEW j \in Jobs, BeginSync(j) PROVE DoubtInv'
<1> PICK r : r = [Idle EXCEPT !.pc = "store", !.kind = "sync", !.snap = github] OBVIOUS
<1>1. job' = [job EXCEPT ![j] = r] /\ UNCHANGED <<command, row, stored, github>> BY DEF BeginSync
<1>2. r \in JobStates BY IdleFits DEF Idle, JobStates, IInv, TypeOK
<1>3. r.pc = "store" /\ r.todo = {} /\ r.cur = None /\ r.snap = github BY DEF Idle
<1>4. Careful(r) BY <1>3 DEF Careful, Early
<1>5. Informed(r) BY <1>3 DEF Informed, DoubtInv, RowBook, Within
<1>6. r.pc \notin Early BY <1>3 DEF Early
<1> QED BY <1>1, <1>2, <1>4, <1>5, <1>6, MovesOn

LEMMA BeginCareful ==
  ASSUME IInv, DoubtInv, Steady, NEW j \in Jobs,
         \/ Boot(j)
         \/ \E S \in SUBSET Deliveries : BeginReconcile(j, S)
         \/ \E d \in Deliveries, o \in Rights!Outcomes : BeginComplete(j, d, o)
  PROVE  DoubtInv'
<1>1. UNCHANGED <<command, row, stored, github>> BY DEF Boot, BeginReconcile, BeginComplete
<1>2. ASSUME NEW r \in JobStates, r.todo = {}, r.cur = None, r.pc \in {"refresh", "links", "sync"},
             job' = [job EXCEPT ![j] = r]
      PROVE  DoubtInv'
  <2>1. r.pc \notin Early \cup {"store", "observe"} BY <1>2 DEF Early
  <2> QED BY <1>1, <1>2, <2>1, FreshStep
<1>3. CASE Boot(j)
  <2> PICK r : r = [Idle EXCEPT !.pc = "refresh", !.kind = "boot"] OBVIOUS
  <2>1. r \in JobStates /\ r.todo = {} /\ r.cur = None /\ r.pc = "refresh"
    BY IdleFits DEF Idle, JobStates
  <2> QED BY <1>2, <1>3, <2>1 DEF Boot
<1>4. ASSUME NEW S \in SUBSET Deliveries, BeginReconcile(j, S) PROVE DoubtInv'
  <2> PICK r : r = [Idle EXCEPT !.pc = "links", !.kind = "reconcile"] OBVIOUS
  <2>1. r \in JobStates /\ r.todo = {} /\ r.cur = None /\ r.pc = "links"
    BY IdleFits DEF Idle, JobStates
  <2> QED BY <1>2, <1>4, <2>1 DEF BeginReconcile
<1>5. ASSUME NEW d \in Deliveries, NEW o \in Rights!Outcomes, BeginComplete(j, d, o)
      PROVE  DoubtInv'
  <2> PICK r : r = [Idle EXCEPT !.pc = "sync", !.kind = "complete", !.d = d] OBVIOUS
  <2>1. r \in JobStates /\ r.todo = {} /\ r.cur = None /\ r.pc = "sync"
    BY IdleFits DEF Idle, JobStates
  <2> QED BY <1>2, <1>5, <2>1 DEF BeginComplete
<1> QED BY <1>3, <1>4, <1>5

\* One operation moves on to a record that is careful afterwards.
LEMMA OneMoves ==
  ASSUME IInv, DoubtInv, Steady, RowsStay, WorldStays, RowBook', command' = command,
         NEW j \in Jobs, NEW r \in JobStates, job' = [job EXCEPT ![j] = r],
         Careful(r)', Informed(r)'
  PROVE  DoubtInv'
<1>1. VerdictBook' BY KeptStays DEF DoubtInv, VerdictBook
<1>2. job'[j] = r /\ \A k \in Jobs \ {j} : job'[k] = job[k] BY JobChange DEF IInv
<1>3. ASSUME NEW k \in Jobs PROVE Careful(job[k])' /\ Informed(job[k])'
  <2>1. CASE k = j BY <1>2, <2>1
  <2>2. CASE k # j
    <3>1. PICK s \in JobStates : s = job[k] /\ Fits(s) BY JobFacts
    <3>2. Careful(s) /\ Informed(s) BY <3>1 DEF DoubtInv
    <3>3. s.pc \in Early => s.d \in Deliveries BY <3>1 DEF Fits, Confirmed
    <3>4. Careful(s)' BY <3>2, <3>3, CarefulStays
    <3>5. Informed(s)' BY <3>2, InformedStays
    <3>6. job'[k] = s BY <1>2, <2>2, <3>1
    <3> QED BY <3>4, <3>5, <3>6
  <2> QED BY <2>1, <2>2
<1> QED BY <1>1, <1>3 DEF DoubtInv

\* The same when only the operation itself and the queue change.
LEMMA PrimedStep ==
  ASSUME IInv, DoubtInv, Steady, UNCHANGED <<command, row, stored, github>>,
         NEW j \in Jobs, NEW r \in JobStates, job' = [job EXCEPT ![j] = r],
         Careful(r)', Informed(r)'
  PROVE  DoubtInv'
<1>1. RowsStay /\ WorldStays BY NothingNew DEF RowsStay, WorldStays
<1>2. RowBook' BY <1>1, RowsKept DEF DoubtInv
<1> QED BY <1>1, <1>2, OneMoves

LEMMA AmbiguousFor == \A o : StatusFor(o) = "ambiguous" => o = "uncertain"
BY DEF StatusFor

LEMMA BeginCreateCareful ==
  ASSUME IInv, DoubtInv, Steady, NEW j \in Jobs, NEW d \in Deliveries, NEW p \in Commands,
         BeginCreate(j, d, p)
  PROVE  DoubtInv'
<1>1. PICK i : i = [p |-> p, to |-> StatusFor(right'[d])] OBVIOUS
<1>2. PICK r : r = [Idle EXCEPT !.pc = "plan", !.kind = "create", !.d = d, !.todo = {i}]
  OBVIOUS
<1>3. job' = [job EXCEPT ![j] = r] /\ UNCHANGED <<command, row, stored, github>>
  BY <1>1, <1>2 DEF BeginCreate
<1>4. i \in Items BY <1>1, StatusForFacts DEF Items
<1>5. r \in JobStates BY <1>2, <1>4, IdleFits DEF Idle, JobStates
<1>6. r.pc = "plan" /\ r.d = d /\ r.todo = {i} /\ r.cur = None BY <1>2 DEF Idle
<1>7. i.to = "ambiguous" => right'[d] = "uncertain" BY <1>1, AmbiguousFor
<1>8. Careful(r)' BY <1>6, <1>7 DEF Careful, Early
<1>9. Informed(r)' BY <1>6 DEF Informed
<1> QED BY <1>3, <1>5, <1>8, <1>9, PrimedStep

LEMMA LinkCareful == ASSUME IInv, DoubtInv, Steady, NEW j \in Jobs, Link(j) PROVE DoubtInv'
<1> PICK s \in JobStates : s = job[j] /\ Fits(s) BY JobParts
<1>1. s.pc = "link" /\ s.pc \in Early /\ UNCHANGED <<command, row, stored, github>>
  BY DEF Link, Early
<1>2. Confirmed(s) BY <1>1 DEF Fits
<1>3. CASE Return(j) BY <1>1, <1>3, ReturnCareful
<1>4. CASE Goto(j, "record") /\ link'[planOf[s.d]] = s.d
  <2>1. PICK r : r = [s EXCEPT !.pc = "record"] OBVIOUS
  <2>2. job' = [job EXCEPT ![j] = r] BY <1>4, <2>1 DEF Goto
  <2>3. r \in JobStates BY <2>1 DEF JobStates
  <2>4. r.pc = "record" /\ r.todo = s.todo /\ r.cur = None BY <1>2, <2>1 DEF JobStates, Confirmed
  <2>5. s.d \in Deliveries /\ s.d # None BY <1>2, LoopAssumption DEF Confirmed
  <2>6. ASSUME NEW i \in s.todo PROVE Grounded(i)'
    <3>1. i.p = planOf[s.d] /\ i.to \notin Executed BY <1>2 DEF Confirmed
    <3>2. i.to = "ambiguous" => right'[s.d] = "uncertain"
      <4>1. i.to = "ambiguous" => right[s.d] = "uncertain" BY <1>1 DEF DoubtInv, Careful
      <4> QED BY <2>5, <4>1 DEF Steady
    <3>3. link'[i.p] = s.d BY <1>4, <3>1
    <3>4. i.to = "ambiguous" => Cause(i.p)' BY <2>5, <3>2, <3>3 DEF Cause
    <3> QED BY <3>1, <3>4 DEF Grounded
  <2>7. Careful(r)' BY <2>4, <2>6 DEF Careful, Early
  <2>8. Informed(r)' BY <2>4 DEF Informed
  <2> QED BY <1>1, <2>2, <2>3, <2>7, <2>8, PrimedStep
<1> QED BY <1>3, <1>4 DEF Link

\* What a linked command is told about its delivery has its ground in the queue.
LEMMA LinkedGrounded ==
  ASSUME NEW p \in Commands, link[p] # None
  PROVE  Grounded([p |-> p, to |-> StatusFor(right[link[p]])])
<1>1. PICK i : i = [p |-> p, to |-> StatusFor(right[link[p]])] OBVIOUS
<1>2. i.p = p /\ i.to = StatusFor(right[link[p]]) BY <1>1
<1>3. i.to \notin Executed BY <1>2, StatusForFacts
<1>4. i.to = "ambiguous" => Cause(p) BY <1>2, AmbiguousFor DEF Cause
<1>5. Grounded(i) BY <1>2, <1>3, <1>4 DEF Grounded
<1> QED BY <1>1, <1>5

LEMMA SyncCommandCareful ==
  ASSUME IInv, DoubtInv, Steady, NEW j \in Jobs, SyncCommand(j)
  PROVE  DoubtInv'
<1> PICK s \in JobStates : s = job[j] /\ Fits(s) BY JobParts
<1>1. s.pc = "sync" /\ UNCHANGED <<command, row, stored, github>> BY DEF SyncCommand
<1>2. s.d \in Deliveries /\ s.d # None BY <1>1, LoopAssumption DEF Fits
<1>3. PICK todo : todo = [p : {p \in Commands : link[p] = s.d}, to : {StatusFor(right[s.d])}]
  OBVIOUS
<1>4. \A i \in todo : i \in Items /\ Grounded(i)
  <2>1. ASSUME NEW i \in todo
        PROVE  \E p \in Commands : /\ link[p] = s.d
                                   /\ i = [p |-> p, to |-> StatusFor(right[link[p]])]
    BY <1>3
  <2>2. ASSUME NEW i \in todo PROVE i \in Items /\ Grounded(i)
    <3>1. PICK p \in Commands : /\ link[p] = s.d
                                /\ i = [p |-> p, to |-> StatusFor(right[link[p]])]
      BY <2>1
    <3>2. Grounded(i) BY <1>2, <3>1, LinkedGrounded
    <3>3. i \in Items BY <3>1, StatusForFacts DEF Items
    <3> QED BY <3>2, <3>3
  <2> QED BY <2>2
<1>5. PICK r : r = [s EXCEPT !.pc = "record", !.d = None, !.todo = todo] OBVIOUS
<1>6. job' = [job EXCEPT ![j] = r]
  <2>1. job' = [job EXCEPT ![j].pc = "record", ![j].d = None, ![j].todo = todo]
    BY <1>3 DEF SyncCommand
  <2> QED BY <1>5, <2>1 DEF IInv, TypeOK, JobStates
<1>7. r \in JobStates BY <1>4, <1>5 DEF JobStates
<1>8. r.pc = "record" /\ r.todo = todo /\ r.cur = s.cur BY <1>5 DEF JobStates
<1>9. r.pc \notin Early /\ r.pc \notin {"judge", "store", "observe"} BY <1>8 DEF Early
<1>10. r.cur # None => Grounded(r.cur) BY <1>8 DEF DoubtInv, Careful
<1>11. Careful(r) BY <1>4, <1>8, <1>9, <1>10 DEF Careful
<1>12. Informed(r) BY <1>9 DEF Informed
<1> QED BY <1>1, <1>6, <1>7, <1>9, <1>11, <1>12, MovesOn

LEMMA ReadLinksCareful ==
  ASSUME IInv, DoubtInv, Steady, NEW j \in Jobs, ReadLinks(j)
  PROVE  DoubtInv'
<1> PICK s \in JobStates : s = job[j] /\ Fits(s) BY JobParts
<1>1. UNCHANGED <<command, row, stored, github>> BY DEF ReadLinks
<1>2. CASE Return(j) BY <1>1, <1>2, ReturnCareful
<1>3. PICK todo : todo = {[p |-> p, to |-> StatusFor(right[link[p]])] :
                            p \in {x \in Commands : link[x] # None}}
  OBVIOUS
<1>4. CASE job' = [job EXCEPT ![j].pc = "record", ![j].todo = todo]
  <2>1. \A i \in todo : i \in Items /\ Grounded(i)
    BY <1>3, LinkedGrounded, StatusForFacts DEF Items
  <2>2. PICK r : r = [s EXCEPT !.pc = "record", !.todo = todo] OBVIOUS
  <2>3. job' = [job EXCEPT ![j] = r] BY <1>4, <2>2 DEF IInv, TypeOK, JobStates
  <2>4. r \in JobStates BY <2>1, <2>2 DEF JobStates
  <2>5. r.pc = "record" /\ r.todo = todo /\ r.cur = s.cur BY <2>2 DEF JobStates
  <2>6. r.pc \notin Early /\ r.pc \notin {"judge", "store", "observe"} BY <2>5 DEF Early
  <2>7. r.cur # None => Grounded(r.cur) BY <2>5 DEF DoubtInv, Careful
  <2>8. Careful(r) BY <2>1, <2>5, <2>6, <2>7 DEF Careful
  <2>9. Informed(r) BY <2>6 DEF Informed
  <2> QED BY <1>1, <2>3, <2>4, <2>6, <2>8, <2>9, MovesOn
<1> QED BY <1>2, <1>3, <1>4 DEF ReadLinks

\* More than one member means two that differ.
LEMMA TwoApart ==
  ASSUME NEW S, Cardinality(S) > 1
  PROVE  \E x, y \in S : x # y
<1> SUFFICES ASSUME \A x, y \in S : x = y PROVE FALSE OBVIOUS
<1>1. CASE S = {} BY <1>1, FS_EmptySet
<1>2. CASE S # {}
  <2>1. PICK x : x \in S BY <1>2
  <2>2. S = {x} BY <2>1
  <2>3. Cardinality({x}) = 1 BY FS_Singleton
  <2> QED BY <2>2, <2>3
<1> QED BY <1>1, <1>2

LEMMA RefreshReadCareful ==
  ASSUME IInv, DoubtInv, Steady, NEW j \in Jobs, RefreshRead(j)
  PROVE  DoubtInv'
<1> PICK s \in JobStates : s = job[j] /\ Fits(s) BY JobParts
<1>1. s.pc = "refresh" /\ UNCHANGED <<command, row, stored, github>> BY DEF RefreshRead
<1>2. PICK h : h = stored.head OBVIOUS
<1>3. PICK todo : todo = [p : Outdated(h), to : {"superseded"}]
                           \cup [p : Crowd(h), to : {"ambiguous"}]
  OBVIOUS
<1>4. PICK o \in Overlays(h) :
        job' = [job EXCEPT ![j].pc = "settle", ![j].view = [overlay |-> o, rows |-> row],
                           ![j].todo = todo]
  BY <1>2, <1>3 DEF RefreshRead
<1>5. \A i \in todo : /\ i \in Items /\ i.to \in {"superseded", "ambiguous"}
                      /\ i.to = "ambiguous" => i.p \in Crowd(h)
  <2>1. Outdated(h) \subseteq Commands /\ Crowd(h) \subseteq Commands
    BY DEF Outdated, Crowd, Remaining
  <2> QED BY <1>3, <2>1 DEF Items, Statuses, Terminal
<1>6. ASSUME NEW p \in Crowd(h) PROVE Cause(p)
  <2>1. Cardinality(Remaining(h)) > 1 BY DEF Crowd
  <2>2. PICK x \in Remaining(h), y \in Remaining(h) : x # y BY <2>1, TwoApart
  <2>3. \E q \in Remaining(h) : q # p BY <2>2
  <2>4. Remaining(h) \subseteq {q \in Commands : command[q] # "absent"} BY DEF Remaining, Active
  <2> QED BY <2>3, <2>4 DEF Cause
<1>7. \A i \in todo : Grounded(i) BY <1>5, <1>6 DEF Grounded, Executed
<1>8. [overlay |-> o, rows |-> row] \in Views BY <1>2, ViewTypes
<1>9. PICK r : r = [s EXCEPT !.pc = "settle", !.view = [overlay |-> o, rows |-> row], !.todo = todo]
  OBVIOUS
<1>10. job' = [job EXCEPT ![j] = r] BY <1>4, <1>9 DEF IInv, TypeOK, JobStates
<1>11. r \in JobStates BY <1>5, <1>8, <1>9 DEF JobStates
<1>12. r.pc = "settle" /\ r.todo = todo /\ r.cur = s.cur BY <1>9 DEF JobStates
<1>13. r.pc \notin Early /\ r.pc \notin {"judge", "store", "observe"} BY <1>12 DEF Early
<1>14. r.cur # None => Grounded(r.cur) BY <1>12 DEF DoubtInv, Careful
<1>15. Careful(r) BY <1>7, <1>12, <1>13, <1>14 DEF Careful
<1>16. Informed(r) BY <1>13 DEF Informed
<1> QED BY <1>1, <1>10, <1>11, <1>13, <1>15, <1>16, MovesOn

(***************************************************************************)
(* Synchronisation, and what happens outside the operations                *)
(***************************************************************************)
LEMMA LeaveCareful ==
  ASSUME IInv, DoubtInv, Steady, NEW j \in Jobs, Publish(j) \/ Abort(j)
  PROVE  DoubtInv'
BY ReturnCareful DEF Publish, Abort

LEMMA CrashCareful == ASSUME IInv, DoubtInv, Steady, Crash PROVE DoubtInv'
<1>1. \A k \in Jobs : Careful(job[k])' /\ Informed(job[k])'
  BY IdleCareful DEF Crash
<1> QED BY <1>1, NothingNew, CommonStep DEF Crash

LEMMA OutsideDoubt ==
  ASSUME IInv, DoubtInv, Steady,
         \/ UNCHANGED loopVars
         \/ \E p \in Commands : Generate(p)
         \/ \E d \in Deliveries, q \in Requests : Claim(d, q)
         \/ \E d \in Deliveries : QueueAlone(d)
         \/ Environment
  PROVE  DoubtInv'
<1>1. UNCHANGED <<job, command, row, stored>>
  BY DEF loopVars, Generate, Claim, QueueAlone, Environment, Post, Push
<1>2. edited' = {} => Within(github, github')
  <2>1. CASE \E c \in Comments, b \in Bodies : Post(c, b)
    <3>1. PICK c \in Comments, b \in Bodies : Post(c, b) BY <2>1
    <3>2. edited' = {} => github.body[c] = None BY <3>1 DEF Post
    <3>3. \A e \in Comments : e # c => github'.body[e] = github.body[e]
      BY <3>1 DEF Post, IInv, TypeOK, Snapshots
    <3> QED BY <3>2, <3>3 DEF Within
  <2>2. CASE \E h \in Heads \cup {None} : Push(h)
    <3>1. github'.body = github.body BY <2>2 DEF Push, IInv, TypeOK, Snapshots
    <3> QED BY <3>1 DEF Within
  <2>3. CASE github' = github BY <2>3, NothingNew
  <2> QED BY <2>1, <2>2, <2>3
      DEF loopVars, Generate, Claim, QueueAlone, Environment
<1> QED BY <1>1, <1>2, OutsideCareful

LEMMA StoreCareful ==
  ASSUME IInv, DoubtInv, OneAtATime, Steady, NEW j \in Jobs, Store(j)
  PROVE  DoubtInv'
<1> PICK s \in JobStates : s = job[j] /\ Fits(s) BY JobParts
<1>1. s.pc = "store" /\ stored' = s.snap /\ UNCHANGED <<command, row, github, edited>>
  BY DEF Store
<1>2. Careful(s) /\ Informed(s) BY DEF DoubtInv
<1>3. edited = {} => Within(stored, s.snap) /\ Within(s.snap, github)
  BY <1>1, <1>2 DEF Informed
<1>4. RowsStay BY <1>1 DEF RowsStay
<1>5. VerdictBook' BY <1>1, <1>4, KeptStays DEF DoubtInv, VerdictBook
<1>6. RowBook'
  <2> SUFFICES ASSUME edited = {} PROVE RowBook' BY <1>1 DEF RowBook
  <2>1. Within(stored', github') BY <1>1, <1>3
  <2>2. ASSUME NEW c \in Comments, row'[c].status = "accepted"
        PROVE  row'[c].body = stored'.body[c] /\ Acceptable(row[c].body)'
    <3>1. row[c].body = stored.body[c] /\ Acceptable(row[c].body)
      BY <1>1, <2>2 DEF DoubtInv, RowBook
    <3>2. stored.body[c] = s.snap.body[c] BY <1>3, <3>1 DEF Within, Acceptable
    <3> QED BY <1>1, <3>1, <3>2 DEF Acceptable
  <2> QED BY <2>1, <2>2 DEF RowBook
<1>7. PICK r : r = [s EXCEPT !.pc = "load"] OBVIOUS
<1>8. r \in JobStates /\ Derived(r, s) BY <1>1, <1>7 DEF JobStates, Derived, Early
<1>9. r.pc = "load" /\ r.pc \notin Early BY <1>7 DEF JobStates, Early
<1>10. Careful(r) BY <1>2, <1>8, DerivedCareful
<1>11. job' = [job EXCEPT ![j] = r] BY <1>7 DEF Store, Goto
<1>12. job'[j] = r /\ \A k \in Jobs \ {j} : job'[k] = job[k] BY <1>8, <1>11, JobChange DEF IInv
<1>13. ASSUME NEW k \in Jobs PROVE Careful(job[k])' /\ Informed(job[k])'
  <2>1. CASE k = j
    <3>1. Careful(r)' BY <1>4, <1>8, <1>9, <1>10, CarefulStays
    <3>2. Informed(r)' BY <1>9 DEF Informed
    <3> QED BY <1>12, <2>1, <3>1, <3>2
  <2>2. CASE k # j
    <3>1. PICK t \in JobStates : t = job[k] /\ Fits(t) BY JobFacts
    <3>2. Careful(t) BY <3>1 DEF DoubtInv
    <3>3. t.pc \in Early => t.d \in Deliveries BY <3>1 DEF Fits, Confirmed
    <3>4. Careful(t)' BY <1>4, <3>2, <3>3, CarefulStays
    <3>5. ~Syncing(t) BY <1>1, <2>2, <3>1 DEF OneAtATime, Syncing
    <3>6. Informed(t)' BY <3>5 DEF Informed, Syncing
    <3>7. job'[k] = t BY <1>12, <2>2, <3>1
    <3> QED BY <3>4, <3>6, <3>7
  <2> QED BY <2>1, <2>2
<1> QED BY <1>5, <1>6, <1>13 DEF DoubtInv

LEMMA LoadCareful == ASSUME IInv, DoubtInv, Steady, NEW j \in Jobs, Load(j) PROVE DoubtInv'
<1> PICK s \in JobStates : s = job[j] /\ Fits(s) BY JobParts
<1>1. s.pc = "load" /\ s.pc \notin Early /\ UNCHANGED <<command, row, stored, github>>
  BY DEF Load, Early
<1>2. Careful(s) BY DEF DoubtInv
<1>3. PICK left : left = {c \in Comments : stored.body[c] # None} OBVIOUS
<1>4. PICK r : r = [s EXCEPT !.pc = "observe", !.snap = stored, !.left = left] OBVIOUS
<1>5. job' = [job EXCEPT ![j] = r] BY <1>3, <1>4 DEF Load, IInv, TypeOK, JobStates
<1>6. left \subseteq Comments /\ stored \in Snapshots BY <1>3 DEF IInv, TypeOK
<1>7. r \in JobStates BY <1>4, <1>6 DEF JobStates
<1>8. r.pc = "observe" /\ r.snap = stored /\ r.todo = s.todo /\ r.cur = s.cur
  BY <1>4 DEF JobStates
<1>9. r.pc \notin Early BY <1>8 DEF Early
<1>10. Careful(r) BY <1>1, <1>2, <1>8, <1>9 DEF Careful
<1>11. Informed(r) BY <1>8 DEF Informed
<1> QED BY <1>1, <1>5, <1>7, <1>9, <1>10, <1>11, MovesOn

LEMMA ObserveCareful == ASSUME IInv, DoubtInv, Steady, NEW j \in Jobs, Observe(j) PROVE DoubtInv'
<1> PICK s \in JobStates : s = job[j] /\ Fits(s) BY JobParts
<1>1. s.pc = "observe" /\ s.pc \notin Early /\ UNCHANGED <<command, stored, github, edited>>
  BY DEF Observe, Early
<1>2. Careful(s) /\ Informed(s) BY DEF DoubtInv
<1>3. PICK c \in s.left :
        /\ row' = [row EXCEPT ![c] = Persisted(c, Correlated(s.snap.body[c]))]
        /\ job' = [job EXCEPT ![j].left = @ \ {c}]
  BY DEF Observe
<1>4. PICK r : r = [s EXCEPT !.left = @ \ {c}] OBVIOUS
<1>5. job' = [job EXCEPT ![j] = r] BY <1>3, <1>4
<1>6. c \in Comments /\ row \in [Comments -> Rows] BY DEF IInv, TypeOK, JobStates
<1>7. r \in JobStates /\ Derived(r, s) BY <1>1, <1>4 DEF JobStates, Derived, Early
<1>8. r.pc \notin Early BY <1>1, <1>7 DEF Derived
<1>9. PICK b : b = s.snap.body[c] OBVIOUS
<1>10. b # None /\ b \in Bodies BY <1>1, <1>6, <1>9 DEF Fits, JobStates, Snapshots
<1>11. edited = {} => b = stored.body[c] BY <1>1, <1>2, <1>6, <1>9 DEF Informed
<1>12. PICK w : w = Persisted(c, Correlated(b)) OBVIOUS
<1>13. row'[c] = w /\ \A e \in Comments \ {c} : row'[e] = row[e] BY <1>3, <1>6, <1>9, <1>12
<1>14. Acceptable(b) => Correlated(b) = [body |-> b, status |-> "accepted"]
  BY DEF Acceptable, Correlated
<1>15. Correlated(b).status = "accepted" => Acceptable(b) /\ Correlated(b).body = b
  BY <1>10 DEF Acceptable, Correlated
<1>16. w.status = "accepted" => w = Correlated(b)
  <2>1. Correlated(b) \in Rows BY <1>10, CorrelatedFacts
  <2> QED BY <1>12, <2>1 DEF Persisted, Rows
<1>17. row[c].status = "accepted" /\ edited = {} => w = row[c]
  <2> SUFFICES ASSUME row[c].status = "accepted", edited = {} PROVE w = row[c] OBVIOUS
  <2>1. row[c].body = b /\ Acceptable(b) BY <1>6, <1>11 DEF DoubtInv, RowBook
  <2>2. row[c] \in Rows BY <1>6
  <2>3. row[c] = [body |-> b, status |-> "accepted"] BY <2>1, <2>2 DEF Rows
  <2> QED BY <1>12, <1>14, <2>1, <2>3 DEF Persisted
<1>18. RowsStay
  <2> SUFFICES ASSUME NEW p \in Commands, ~Cause(p)', NEW e \in Comments, e \in Accepted(p)
               PROVE  row'[e] = row[e]
    BY DEF RowsStay
  <2>1. edited = {} BY <1>1 DEF Cause
  <2>2. row[e].status = "accepted" BY DEF Accepted
  <2> QED BY <1>13, <1>17, <2>1, <2>2
<1>19. RowBook'
  <2> SUFFICES ASSUME edited = {} PROVE RowBook' BY <1>1 DEF RowBook
  <2>1. Within(stored', github') BY <1>1 DEF DoubtInv, RowBook
  <2>2. ASSUME NEW e \in Comments, row'[e].status = "accepted"
        PROVE  row'[e].body = stored'.body[e] /\ Acceptable(row[e].body)'
    <3>1. CASE e = c
      <4>1. Acceptable(b) /\ row'[e].body = b BY <1>13, <1>15, <1>16, <2>2, <3>1
      <4> QED BY <1>1, <1>11, <3>1, <4>1 DEF Acceptable
    <3>2. CASE e # c
      <4>1. row'[e] = row[e] BY <1>13, <3>2
      <4>2. row[e].body = stored.body[e] /\ Acceptable(row[e].body)
        BY <2>2, <4>1 DEF DoubtInv, RowBook
      <4> QED BY <1>1, <4>1, <4>2 DEF Acceptable
    <3> QED BY <3>1, <3>2
  <2> QED BY <2>1, <2>2 DEF RowBook
<1>20. WorldStays BY <1>1, NothingNew DEF WorldStays
<1>21. Careful(r) /\ Informed(r) BY <1>2, <1>7, DerivedCareful
<1>22. Careful(r)' BY <1>7, <1>8, <1>18, <1>21, CarefulStays
<1>23. Informed(r)' BY <1>20, <1>21, InformedStays
<1> QED BY <1>1, <1>5, <1>7, <1>18, <1>19, <1>20, <1>22, <1>23, OneMoves

LEMMA PurgeCareful == ASSUME IInv, DoubtInv, Steady, NEW j \in Jobs, Purge(j) PROVE DoubtInv'
<1> PICK s \in JobStates : s = job[j] /\ Fits(s) BY JobParts
<1>1. s.pc = "observe" /\ s.pc \notin Early /\ UNCHANGED <<command, stored, github, edited>>
  BY DEF Purge, Early
<1>2. Careful(s) /\ Informed(s) BY DEF DoubtInv
<1>3. PICK todo : todo = {[p |-> p, to |-> command[p]] : p \in {x \in Commands : command[x] # "absent"}}
  OBVIOUS
<1>4. PICK r : r = [s EXCEPT !.pc = "judge", !.snap = Blank, !.todo = todo] OBVIOUS
<1>5. job' = [job EXCEPT ![j] = r] BY <1>3, <1>4 DEF Purge, IInv, TypeOK, JobStates
<1>6. todo \subseteq Items BY <1>3 DEF Items, IInv, TypeOK
<1>7. Blank \in Snapshots BY DEF Blank, Snapshots, Bodies
<1>8. r \in JobStates BY <1>4, <1>6, <1>7 DEF JobStates
<1>9. r.pc = "judge" /\ r.todo = todo /\ r.cur = s.cur BY <1>4 DEF JobStates
<1>10. r.pc \notin Early BY <1>9 DEF Early
<1>11. \A c \in Comments : row'[c] = IF s.snap.body[c] = None THEN NoRow ELSE row[c]
  BY DEF Purge
<1>12. edited = {} => \A c \in Comments : row[c].status = "accepted" => row'[c] = row[c]
  <2> SUFFICES ASSUME edited = {}, NEW c \in Comments, row[c].status = "accepted"
               PROVE  row'[c] = row[c]
    OBVIOUS
  <2>1. row[c].body = stored.body[c] /\ row[c].body # None BY DEF DoubtInv, RowBook, Acceptable
  <2>2. s.snap.body[c] = stored.body[c] BY <1>1, <1>2 DEF Informed
  <2> QED BY <1>11, <2>1, <2>2
<1>13. RowsStay
  <2> SUFFICES ASSUME NEW p \in Commands, ~Cause(p)', NEW e \in Comments, e \in Accepted(p)
               PROVE  row'[e] = row[e]
    BY DEF RowsStay
  <2>1. edited = {} BY <1>1 DEF Cause
  <2> QED BY <1>12, <2>1 DEF Accepted
<1>14. RowBook'
  <2> SUFFICES ASSUME edited = {} PROVE RowBook' BY <1>1 DEF RowBook
  <2>1. Within(stored', github') BY <1>1 DEF DoubtInv, RowBook
  <2>2. ASSUME NEW e \in Comments, row'[e].status = "accepted"
        PROVE  row'[e].body = stored'.body[e] /\ Acceptable(row[e].body)'
    <3>1. row'[e] = row[e] BY <1>11, <2>2, NoRowFacts
    <3>2. row[e].body = stored.body[e] /\ Acceptable(row[e].body)
      BY <2>2, <3>1 DEF DoubtInv, RowBook
    <3> QED BY <1>1, <3>1, <3>2 DEF Acceptable
  <2> QED BY <2>1, <2>2 DEF RowBook
<1>15. WorldStays BY <1>1, NothingNew DEF WorldStays
<1>16. \A i \in todo : i.p \in Commands /\ i.to = command[i.p] BY <1>3
<1>17. \A i \in todo : Grounded(i)
  BY <1>16 DEF Grounded, Exceptional, DoubtInv, VerdictBook
<1>18. \A i \in todo : i.to = "failed" => Exceptional(i.p) BY <1>16 DEF Exceptional
<1>19. r.cur # None => Grounded(r.cur) BY <1>2, <1>9 DEF Careful
<1>20. Careful(r) BY <1>9, <1>10, <1>17, <1>18, <1>19 DEF Careful
<1>21. Careful(r)' BY <1>8, <1>10, <1>13, <1>20, CarefulStays
<1>22. Informed(r)' BY <1>9 DEF Informed
<1> QED BY <1>1, <1>5, <1>8, <1>13, <1>14, <1>15, <1>21, <1>22, OneMoves

\* Judging a command changes its verdict only on good grounds.
LEMMA DesiredGrounded ==
  ASSUME IInv, NEW i \in Items, Sound(i), Grounded(i), i.to = "failed" => Exceptional(i.p),
         NEW t, t = Desired(i.p, i.to), t # i.to
  PROVE  Grounded([p |-> i.p, to |-> t])
<1>1. PICK p \in Commands, listed \in Statuses : p = i.p /\ listed = i.to BY DEF Items
<1>2. PICK payloads : payloads = {row[c].body : c \in Accepted(p)} OBVIOUS
<1>3. \A m \in payloads : m \in posted /\ m.command = p
  BY <1>2 DEF Accepted, IInv, MarkerBook
<1>4. PICK m : m = CHOOSE x \in payloads : TRUE OBVIOUS
<1>5. payloads # {} => m \in payloads BY <1>4
<1>6. payloads # {} => m.verdict \in Executed
  BY <1>3, <1>5, LoopAssumption DEF IInv, TypeOK, Markers
<1>7. payloads = {} <=> Accepted(p) = {} BY <1>2
<1>8. listed \notin {"ambiguous", "superseded"} BY <1>1 DEF Desired
<1>9. Cardinality(payloads) > 1 => Cause(p)
  <2> SUFFICES ASSUME Cardinality(payloads) > 1 PROVE Cause(p) OBVIOUS
  <2>1. PICK x \in payloads, y \in payloads : x # y BY TwoApart
  <2> QED BY <1>3, <2>1 DEF Cause
<1>10. \/ Cardinality(payloads) > 1 /\ t = "ambiguous"
       \/ payloads = {} /\ listed \in Terminal /\ t = "ambiguous"
       \/ payloads # {} /\ listed \in Terminal /\ listed # m.verdict /\ t = "ambiguous"
       \/ payloads # {} /\ t = m.verdict
  BY <1>1, <1>2, <1>4, <1>8 DEF Desired
<1>11. t \in Executed => Kept(p)
  BY <1>7, <1>10 DEF Executed, Kept
<1>12. listed = "failed" => Exceptional(p) BY <1>1
<1>13. listed \in Executed => Kept(p) /\ Marked(p, listed)
  BY <1>1 DEF Grounded, Sound, Holds
<1>14. listed \in Terminal => listed = "failed" \/ listed \in Executed
  BY <1>8 DEF Terminal
<1>15. t = "ambiguous" => Cause(p) \/ Exceptional(p)
  <2>1. CASE Cardinality(payloads) > 1 BY <1>9, <2>1
  <2>2. CASE payloads = {} /\ listed \in Terminal
    BY <1>7, <1>12, <1>13, <1>14, <2>2 DEF Kept
  <2>3. CASE payloads # {} /\ listed \in Terminal /\ listed # m.verdict
    <3>1. CASE listed = "failed" BY <1>12, <3>1
    <3>2. CASE listed \in Executed
      <4>1. PICK n \in posted : n.command = p /\ n.verdict = listed
        BY <1>13, <3>2 DEF Marked
      <4>2. m \in posted /\ m.command = p /\ m # n BY <1>3, <1>5, <2>3, <4>1
      <4> QED BY <4>1, <4>2 DEF Cause
    <3> QED BY <1>14, <2>3, <3>1, <3>2
  <2>4. CASE payloads # {} /\ t = m.verdict BY <1>6, <2>4 DEF Executed
  <2> QED BY <1>10, <2>1, <2>2, <2>3, <2>4
<1>16. PICK k : k = [p |-> i.p, to |-> t] OBVIOUS
<1>17. k.p = p /\ k.to = t BY <1>1, <1>16
<1>18. Grounded(k) BY <1>11, <1>15, <1>17 DEF Grounded
<1> QED BY <1>16, <1>18

LEMMA JudgeCareful == ASSUME IInv, DoubtInv, Steady, NEW j \in Jobs, Judge(j) PROVE DoubtInv'
<1> PICK s \in JobStates : s = job[j] /\ Fits(s) BY JobParts
<1>1. s.pc = "judge" /\ s.cur = None /\ s.pc \notin Early
      /\ UNCHANGED <<command, stored, github, edited, posted, link, right>>
  BY DEF Judge, Early, queue
<1>2. Careful(s) /\ Informed(s) BY DEF DoubtInv
<1>3. CASE Goto(j, "refresh") /\ UNCHANGED row
  <2>1. PICK r : r = [s EXCEPT !.pc = "refresh"] OBVIOUS
  <2>2. r \in JobStates /\ Derived(r, s) BY <1>1, <2>1 DEF JobStates, Derived, Early
  <2>3. job' = [job EXCEPT ![j] = r] BY <1>3, <2>1 DEF Goto
  <2> QED BY <1>1, <1>3, <2>2, <2>3, DerivedStep
<1>4. ASSUME NEW i \in s.todo, NEW t, t = Desired(i.p, i.to),
             row' = [c \in Comments |->
                       IF Conflicting(i.p, i.to) /\ c \in Accepted(i.p)
                       THEN [row[c] EXCEPT !.status = "ambiguous"] ELSE row[c]],
             job' = [job EXCEPT ![j].todo = @ \ {i},
                       ![j].cur = IF t = i.to THEN None ELSE [p |-> i.p, to |-> t]]
      PROVE  DoubtInv'
  <2>1. i \in Items /\ Sound(i) BY <1>1 DEF JobStates, Fits
  <2>2. Grounded(i) /\ (i.to = "failed" => Exceptional(i.p)) BY <1>1, <1>2 DEF Careful
  <2>3. PICK cur : cur = IF t = i.to THEN None ELSE [p |-> i.p, to |-> t] OBVIOUS
  <2>4. cur # None => Grounded(cur) BY <1>4, <2>1, <2>2, <2>3, DesiredGrounded
  <2>5. cur \in Items \cup {None}
    <3>1. t \in Statuses BY <1>4, <2>1, DesiredHolds DEF Items, Sound
    <3> QED BY <2>1, <2>3, <3>1 DEF Items
  <2>6. PICK r : r = [s EXCEPT !.todo = @ \ {i}, !.cur = cur] OBVIOUS
  <2>7. job' = [job EXCEPT ![j] = r] BY <1>4, <2>3, <2>6 DEF IInv, TypeOK, JobStates
  <2>8. r \in JobStates BY <2>5, <2>6 DEF JobStates
  <2>9. r.pc = "judge" /\ r.todo \subseteq s.todo /\ r.cur = cur BY <1>1, <2>6 DEF JobStates
  <2>10. r.pc \notin Early BY <1>1, <2>9
  <2>11. Careful(r) BY <1>1, <1>2, <2>4, <2>9, <2>10 DEF Careful
  <2>12. \A c \in Comments : row'[c].status = "accepted" => row'[c] = row[c]
    BY <1>4 DEF IInv, TypeOK, Rows
  <2>13. RowsStay
    <3> SUFFICES ASSUME NEW p \in Commands, ~Cause(p)', NEW e \in Comments, e \in Accepted(p),
                        row'[e] # row[e]
                 PROVE  FALSE
      BY DEF RowsStay
    <3>1. Conflicting(i.p, i.to) /\ e \in Accepted(i.p) BY <1>4
    <3>2. i.p = p BY <3>1 DEF Accepted
    <3>3. PICK x, y \in {row[c].body : c \in Accepted(p)} : x # y
      BY <3>1, <3>2, TwoApart DEF Conflicting
    <3>4. \A m \in {row[c].body : c \in Accepted(p)} : m \in posted /\ m.command = p
      BY DEF Accepted, IInv, MarkerBook
    <3>5. Cause(p)' BY <1>1, <3>3, <3>4 DEF Cause
    <3> QED BY <3>5
  <2>14. WorldStays BY <1>1, NothingNew DEF WorldStays
  <2>15. RowBook'
    <3> SUFFICES ASSUME edited = {} PROVE RowBook' BY <1>1 DEF RowBook
    <3>1. Within(stored', github') BY <1>1 DEF DoubtInv, RowBook
    <3>2. ASSUME NEW e \in Comments, row'[e].status = "accepted"
          PROVE  row'[e].body = stored'.body[e] /\ Acceptable(row[e].body)'
      <4>1. row'[e] = row[e] BY <2>12, <3>2
      <4>2. row[e].body = stored.body[e] /\ Acceptable(row[e].body)
        BY <3>2, <4>1 DEF DoubtInv, RowBook
      <4> QED BY <1>1, <4>1, <4>2 DEF Acceptable
    <3> QED BY <3>1, <3>2 DEF RowBook
  <2>16. Careful(r)' BY <2>8, <2>10, <2>11, <2>13, CarefulStays
  <2>17. Informed(r)' BY <2>9 DEF Informed
  <2> QED BY <1>1, <2>7, <2>8, <2>13, <2>14, <2>15, <2>16, <2>17, OneMoves
<1> QED BY <1>3, <1>4 DEF Judge

LEMMA InitDoubt == ASSUME Init PROVE DoubtInv
<1>1. \A j \in Jobs : job[j] = Idle BY DEF Init
<1>2. \A j \in Jobs : Careful(job[j]) /\ Informed(job[j]) BY <1>1, IdleCareful
<1>3. VerdictBook BY DEF Init, VerdictBook, Executed
<1>4. RowBook
  <2>1. Within(stored, github) BY DEF Init, Within
  <2> QED BY <2>1, NoRowFacts DEF Init, RowBook
<1> QED BY <1>2, <1>3, <1>4 DEF DoubtInv

\* Every step, as long as two synchronisations do not run at once
LEMMA StepDoubt ==
  ASSUME IInv, DoubtInv, OneAtATime, [Next]_loopVars
  PROVE  DoubtInv'
<1>1. Steady BY StepSteady
<1>2. CASE Operator \/ Worker
  <2>1. CASE \E p \in Commands : Generate(p) BY <1>1, <2>1, OutsideDoubt
  <2>2. CASE \E j \in Jobs, d \in Deliveries, p \in Commands : BeginCreate(j, d, p)
    BY <1>1, <2>2, BeginCreateCareful
  <2>3. CASE \/ \E d \in Deliveries, q \in Requests : Claim(d, q)
             \/ \E d \in Deliveries : QueueAlone(d)
    BY <1>1, <2>3, OutsideDoubt
  <2>4. CASE \E j \in Jobs, d \in Deliveries, o \in Rights!Outcomes : BeginComplete(j, d, o)
    BY <1>1, <2>4, BeginCareful
  <2> QED BY <1>2, <2>1, <2>2, <2>3, <2>4 DEF Operator, Worker
<1>3. CASE Environment \/ UNCHANGED loopVars BY <1>1, <1>3, OutsideDoubt
<1>4. CASE Crash BY <1>1, <1>4, CrashCareful
<1>5. CASE \E j \in Jobs, S \in SUBSET Deliveries : BeginReconcile(j, S)
  BY <1>1, <1>5, BeginCareful
<1>6. ASSUME NEW j \in Jobs, JobStep(j) \/ Abort(j) \/ BeginSync(j) \/ Boot(j) PROVE DoubtInv'
  <2>1. CASE \/ GetPlan(j) \/ Persist(j) \/ Link(j) \/ SyncCommand(j) \/ ReadLinks(j)
             \/ Record(j) \/ Reread(j) \/ Write(j)
    BY <1>1, <2>1, GetPlanCareful, PersistCareful, LinkCareful, SyncCommandCareful,
       ReadLinksCareful, RecordCareful, RereadCareful, WriteCareful
  <2>2. CASE \/ Store(j) \/ Load(j) \/ Observe(j) \/ Purge(j) \/ Judge(j)
             \/ RefreshRead(j) \/ Settle(j) \/ Publish(j)
    BY <1>1, <2>2, StoreCareful, LoadCareful, ObserveCareful, PurgeCareful, JudgeCareful,
       RefreshReadCareful, SettleCareful, LeaveCareful
  <2>3. CASE Abort(j) \/ BeginSync(j) \/ Boot(j)
    BY <1>1, <2>3, LeaveCareful, BeginSyncCareful, BeginCareful
  <2> QED BY <1>6, <2>1, <2>2, <2>3 DEF JobStep
<1> QED BY <1>2, <1>3, <1>4, <1>5, <1>6 DEF Next

\* Only Write puts a verdict in doubt, and it has grounds to.
LEMMA DoubtStep ==
  ASSUME IInv, DoubtInv, [Next]_loopVars, NEW p \in Commands,
         command[p] \in Executed, command'[p] = "ambiguous"
  PROVE  Cause(p)
<1>1. "ambiguous" \notin Executed /\ command[p] # "absent" BY DEF Executed
<1>2. CASE UNCHANGED command BY <1>1, <1>2
<1>3. CASE \E j \in Jobs : Persist(j) BY <1>1, <1>3, PersistForward
<1>4. ASSUME NEW j \in Jobs, Write(j), ~UNCHANGED command PROVE Cause(p)
  <2>1. PICK i : i = job[j].cur OBVIOUS
  <2>2. i # None /\ command' = [command EXCEPT ![i.p] = i.to] BY <1>4, <2>1 DEF Write
  <2>3. Grounded(i) BY <2>1, <2>2 DEF DoubtInv, Careful
  <2>4. p = i.p /\ i.to = "ambiguous" BY <1>1, <2>2 DEF IInv, TypeOK
  <2>5. ~Exceptional(p) BY DEF Exceptional, Executed
  <2> QED BY <2>3, <2>4, <2>5 DEF Grounded
<1> QED BY <1>2, <1>3, <1>4
    DEF Next, Operator, Worker, Environment, JobStep, Generate, BeginCreate, Claim, QueueAlone,
        BeginComplete, Post, Push, Crash, BeginReconcile, GetPlan, Link, SyncCommand, ReadLinks,
        Record, Reread, Store, Load, Observe, Purge, Judge, RefreshRead, Settle, Publish, Abort,
        BeginSync, Boot, loopVars

\* A command that ended with a verdict is put in doubt only for a reason, for
\* any number of commands, comments and operations, provided that no two
\* synchronisations of the project run at once.
THEOREM DoubtCaused == Spec /\ []OneAtATime => DoubtHasCause
<1>1. Init => DoubtInv BY InitDoubt
<1>2. IInv /\ DoubtInv /\ OneAtATime /\ [Next]_loopVars => DoubtInv' BY StepDoubt
<1>3. IInv /\ DoubtInv /\ [Next]_loopVars =>
        [\A p \in Commands :
           (command[p] \in Executed /\ command'[p] = "ambiguous") =>
              \/ edited # {}
              \/ \E m, n \in posted : m # n /\ m.command = p /\ n.command = p
              \/ link[p] # None /\ right[link[p]] = "uncertain"
              \/ \E q \in Commands \ {p} : command[q] # "absent"]_loopVars
  BY DoubtStep DEF Cause
<1> QED BY <1>1, <1>2, <1>3, Invariance, PTL DEF Spec, DoubtHasCause

(***************************************************************************)
(* Who synchronises                                                        *)
(***************************************************************************)
SyncersOnly == \A j \in Jobs : Syncing(job[j]) => j \in Syncers

LEMMA SyncersStep == ASSUME IInv, SyncersOnly, [Next]_loopVars PROVE SyncersOnly'
<1>1. job \in [Jobs -> JobStates] BY DEF IInv, TypeOK
<1>2. ASSUME NEW j \in Jobs, NEW pc, job'[j].pc = pc, \A k \in Jobs \ {j} : job'[k] = job[k],
             pc \in {"store", "load", "observe", "judge"} => j \in Syncers \/ Syncing(job[j])
      PROVE  SyncersOnly'
  BY <1>2 DEF SyncersOnly, Syncing
<1>3. ASSUME NEW j \in Jobs, JobStep(j) \/ Abort(j) \/ BeginSync(j) \/ Boot(j) PROVE SyncersOnly'
  <2>1. \A k \in Jobs \ {j} : job'[k] = job[k]
    BY <1>1, <1>3 DEF JobStep, GetPlan, Persist, Link, SyncCommand, ReadLinks, Record, Reread, Write,
       Conflict, Store, Load, Observe, Purge, Judge, RefreshRead, Settle, Publish, Abort, BeginSync,
       Boot, Return, Goto
  <2>2. Idle.pc = "idle" BY DEF Idle
  <2>3. NextItem(j).pc = job[j].pc BY <1>1 DEF NextItem, JobStates
  <2>4. CASE BeginSync(j)
    BY <1>2, <2>1, <2>4 DEF BeginSync
  <2>5. CASE GetPlan(j) \/ Persist(j) \/ Link(j) \/ SyncCommand(j) \/ ReadLinks(j)
    <3>1. job'[j].pc \in {"idle", "persist", "link", "record"}
      <4>1. CASE Return(j) BY <1>1, <2>2, <4>1 DEF Return
      <4>2. CASE Goto(j, "persist") \/ Goto(j, "link") \/ Goto(j, "record")
        BY <1>1, <4>2 DEF JobStates, Goto
      <4>3. ASSUME NEW todo, \/ job' = [job EXCEPT ![j].pc = "record", ![j].d = None, ![j].todo = todo]
                             \/ job' = [job EXCEPT ![j].pc = "record", ![j].todo = todo]
            PROVE  job'[j].pc = "record"
        BY <1>1, <4>3 DEF JobStates
      <4>4. CASE SyncCommand(j) BY <4>3, <4>4 DEF SyncCommand
      <4>5. CASE ReadLinks(j) /\ ~Return(j) BY <4>3, <4>5 DEF ReadLinks
      <4> QED BY <2>5, <4>1, <4>2, <4>4, <4>5 DEF GetPlan, Persist, Link
    <3> QED BY <1>2, <2>1, <3>1
  <2>6. CASE Reread(j) \/ Write(j)
    <3>1. job'[j].pc \in {"idle", job[j].pc}
      BY <1>1, <2>2, <2>3, <2>6 DEF JobStates, Reread, Write, Conflict, Return
    <3> QED BY <1>2, <2>1, <3>1 DEF Syncing
  <2>7. CASE Store(j) \/ Load(j) \/ Observe(j) \/ Purge(j)
    <3>1. Syncing(job[j]) BY <2>7 DEF Store, Load, Observe, Purge, Syncing
    <3> QED BY <1>2, <2>1, <3>1
  <2>8. CASE Judge(j)
    <3>1. Syncing(job[j]) BY <2>8 DEF Judge, Syncing
    <3> QED BY <1>2, <2>1, <3>1
  <2>9. CASE Record(j) \/ Settle(j)
    <3>1. job[j].pc \in {"record", "settle"} BY <2>9 DEF Record, Settle
    <3>2. job'[j].pc \in {"refresh", "publish", "record", "settle"}
      <4>1. CASE Goto(j, "refresh") \/ Goto(j, "publish") BY <1>1, <4>1 DEF JobStates, Goto
      <4>2. ASSUME NEW i, \/ job' = [job EXCEPT ![j] = [job[j] EXCEPT !.todo = @ \ {i}]]
                          \/ job' = [job EXCEPT ![j] = [job[j] EXCEPT !.cur = i]]
                          \/ job' = [job EXCEPT ![j].cur = i]
            PROVE  job'[j].pc = job[j].pc
        BY <1>1, <4>2 DEF JobStates
      <4>3. CASE Settle(j) /\ ~Goto(j, "publish") BY <3>1, <4>2, <4>3 DEF Settle
      <4>4. CASE Record(j) /\ ~Goto(j, "refresh") BY <3>1, <4>2, <4>4 DEF Record
      <4> QED BY <2>9, <4>1, <4>3, <4>4
    <3> QED BY <1>2, <2>1, <3>2
  <2>10. CASE RefreshRead(j) \/ Publish(j) \/ Abort(j) \/ Boot(j)
    <3>1. job'[j].pc \in {"settle", "idle", "refresh"}
      <4>1. CASE RefreshRead(j) BY <1>1, <4>1 DEF JobStates, RefreshRead
      <4>2. CASE Publish(j) \/ Abort(j) BY <1>1, <2>2, <4>2 DEF Publish, Abort, Return
      <4>3. CASE Boot(j) BY <1>1, <4>3 DEF Boot, Idle
      <4> QED BY <2>10, <4>1, <4>2, <4>3
    <3> QED BY <1>2, <2>1, <3>1
  <2> QED BY <1>3, <2>4, <2>5, <2>6, <2>7, <2>8, <2>9, <2>10 DEF JobStep
<1>4. ASSUME NEW j \in Jobs,
             \/ \E d \in Deliveries, p \in Commands : BeginCreate(j, d, p)
             \/ \E d \in Deliveries, o \in Rights!Outcomes : BeginComplete(j, d, o)
             \/ \E S \in SUBSET Deliveries : BeginReconcile(j, S)
      PROVE  SyncersOnly'
  <2>1. \A k \in Jobs \ {j} : job'[k] = job[k]
    BY <1>1, <1>4 DEF BeginCreate, BeginComplete, BeginReconcile
  <2>2. job'[j].pc \in {"plan", "sync", "links"}
    BY <1>1, <1>4 DEF Idle, BeginCreate, BeginComplete, BeginReconcile
  <2> QED BY <1>2, <2>1, <2>2
<1>5. CASE Crash BY <1>5 DEF Crash, Idle, SyncersOnly, Syncing
<1>6. CASE UNCHANGED job BY <1>6 DEF SyncersOnly
<1> QED BY <1>3, <1>4, <1>5, <1>6 DEF Next, Operator, Worker, Environment, Generate, Claim,
      QueueAlone, Post, Push, loopVars

\* What the run checks, for any number of the rest: where only one operation at
\* a time may synchronise, a verdict is put in doubt only for a reason.
THEOREM OneSyncer ==
  ASSUME \A j, k \in Syncers : j = k
  PROVE  Spec => DoubtHasCause
<1>1. Init => SyncersOnly BY IdleCareful DEF Init, SyncersOnly, Syncing
<1>2. IInv /\ SyncersOnly /\ [Next]_loopVars => SyncersOnly' BY SyncersStep
<1>3. SyncersOnly => OneAtATime BY DEF SyncersOnly, OneAtATime
<1> QED BY <1>1, <1>2, <1>3, Invariance, DoubtCaused, PTL DEF Spec

(***************************************************************************)
(* The abstract queue                                                      *)
(***************************************************************************)
\* A withdrawal that finds nothing pending is no step of the queue.
LEMMA InvalidateRight ==
  ASSUME TypeOK, NEW d, InvalidatePending(d)
  PROVE  [Rights!RightsNext]_<<right, holder>>
<1>1. CASE right[d] = "pending" /\ d \in Deliveries
  BY <1>1 DEF InvalidatePending, Rights!RightsNext, Rights!Withdrawn
<1>2. CASE right[d] = "pending" /\ d \notin Deliveries
  BY <1>2 DEF InvalidatePending, Rights!Withdraw, TypeOK, Rights!RightsTypeOK
<1>3. CASE right[d] # "pending" BY <1>3 DEF InvalidatePending
<1> QED BY <1>1, <1>2, <1>3

LEMMA StepRights ==
  ASSUME IInv, [Next]_loopVars
  PROVE  [Rights!RightsNext]_<<right, holder>>
<1>1. TypeOK BY DEF IInv
<1>2. CASE UNCHANGED <<right, holder>> BY <1>2
<1>3. CASE \E d : InvalidatePending(d) BY <1>1, <1>3, InvalidateRight
<1>4. ASSUME NEW j \in Jobs, \/ GetPlan(j) \/ Link(j) \/ Abort(j) \/ Reread(j) \/ Write(j)
      PROVE  [Rights!RightsNext]_<<right, holder>>
  BY <1>2, <1>3, <1>4 DEF GetPlan, Link, Abort, Reread, Write, Conflict
<1>5. CASE Operator
  BY <1>2, <1>5 DEF Operator, Generate, queue, BeginCreate, Rights!RightsNext
<1>6. CASE Worker
  <2>1. CASE \E d \in Deliveries : QueueAlone(d)
    BY <2>1 DEF QueueAlone, Rights!RightsNext, Rights!Withdrawn, Rights!Outcomes
  <2>2. CASE \E d \in Deliveries, q \in Requests : Claim(d, q)
    BY <2>2 DEF Claim, Rights!RightsNext
  <2>3. CASE \E j \in Jobs, d \in Deliveries, o \in Rights!Outcomes : BeginComplete(j, d, o)
    BY <1>2, <2>3 DEF BeginComplete, Rights!RightsNext
  <2> QED BY <1>6, <2>1, <2>2, <2>3 DEF Worker
<1>7. CASE \E j \in Jobs, S \in SUBSET Deliveries : BeginReconcile(j, S)
  BY <1>7 DEF BeginReconcile, Rights!RightsNext
<1>8. CASE Environment \/ Crash \/ UNCHANGED loopVars
           \/ \E j \in Jobs : \/ Persist(j) \/ SyncCommand(j) \/ ReadLinks(j) \/ Record(j)
                              \/ Store(j) \/ Load(j) \/ Observe(j) \/ Purge(j) \/ Judge(j)
                              \/ RefreshRead(j) \/ Settle(j) \/ Publish(j) \/ BeginSync(j) \/ Boot(j)
  <2>1. UNCHANGED <<right, holder>>
    BY <1>8 DEF Environment, Post, Push, Crash, Persist, SyncCommand, ReadLinks, Record, Store,
       Load, Observe, Purge, Judge, RefreshRead, Settle, Publish, BeginSync, Boot, loopVars, queue
  <2> QED BY <1>2, <2>1
<1> QED BY <1>4, <1>5, <1>6, <1>7, <1>8 DEF Next, JobStep

\* What the coordinator and the workers do to the queue, with retries, withdrawals,
\* errors and restarts, are steps of DeliveryRights, the specification the queue of
\* the module Delivery implements.
THEOREM QueueWithinRights == Spec => Rights!RightsSpec
<1>1. Init => Rights!RightsInit BY DEF Init
<1>2. IInv /\ [Next]_loopVars => [Rights!RightsNext]_(Rights!rightsVars)
  BY StepRights DEF Rights!rightsVars
<1> QED BY <1>1, <1>2, Invariance, PTL DEF Spec, Rights!RightsSpec
=============================================================================
