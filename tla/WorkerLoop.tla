----------------------------- MODULE WorkerLoop -----------------------------
(***************************************************************************)
(* backend/internal/workerloop for one work unit: the delivery coordinator *)
(* around the queue, the workflow commands with their results, and the     *)
(* process-local projection that routing and planning read.                *)
(*                                                                         *)
(* The queue itself is taken at the level of DeliveryRights, which the     *)
(* module Delivery implements.  Every operation is a job: a program        *)
(* counter over statements that are transactions of their own.             *)
(***************************************************************************)
EXTENDS Naturals, FiniteSets

CONSTANTS Commands,    \* workflow commands; the id is a hash of the plan, so
                       \* a command stands for its plan too
          Deliveries,  \* delivery commands, one per confirmation key
          Requests,    \* claim requests of the browser worker
          Comments,    \* comments of the issue
          Verdicts,    \* what a marker's result means to the command
          Texts,       \* the rest of a marker's payload
          Heads,       \* heads the pull request may have
          Jobs,        \* operations running at the same time
          Syncers,     \* those of them that may be a synchronisation
          Junk,        \* a marker that does not validate
          None

Active   == {"created", "delivery_pending", "awaiting_result"}
Executed == {"completed", "blocked", "inconclusive"}
Terminal == Executed \cup {"failed", "ambiguous", "superseded"}

ASSUME LoopAssumption == /\ Syncers \subseteq Jobs
                         /\ Verdicts \subseteq Executed
                         /\ None \notin Deliveries \cup Commands \cup Requests \cup Heads

VARIABLES right, holder,  \* the queue: see DeliveryRights
          planOf,     \* planOf[d]: the plan a delivery was confirmed with
          command,    \* command[p]: status of the workflow command, or "absent"
          link,       \* link[p]: workflow_delivery_links
          row,        \* row[c]: workflow_results, by comment
          stored,     \* the persisted GitHub snapshot
          published,  \* SetProjectExternalState: what the router sees
          made,       \* made[p]: the context plan p was generated in
          job,        \* job[j]: a running operation
          up,         \* "down", "refreshed" or "up": how far start-up is
          github,     \* the issue on GitHub
          posted,     \* history: markers that ever stood on GitHub
          edited      \* history: comments edited or deleted after posting

queue == <<right, holder, planOf>>
loopVars == <<right, holder, planOf, command, link, row, stored, published,
              made, job, up, github, posted, edited>>

Rights == INSTANCE DeliveryRights WITH Commands <- Deliveries

Markers == [command : Commands, verdict : Verdicts, text : Texts]
Bodies  == Markers \cup {Junk, None}

NoRow   == [body |-> None, status |-> "absent"]
Blank   == [head |-> None, body |-> [c \in Comments |-> None]]
NoView  == [overlay |-> "open", rows |-> [c \in Comments |-> NoRow]]
Idle    == [pc |-> "idle", kind |-> "", d |-> None, todo |-> {}, cur |-> None,
            read |-> "", snap |-> Blank, left |-> {}, view |-> NoView]

Init == /\ Rights!RightsInit
        /\ planOf = [d \in Deliveries |-> None]
        /\ command = [p \in Commands |-> "absent"]
        /\ link = [p \in Commands |-> None]
        /\ row = [c \in Comments |-> NoRow]
        /\ \E h \in Heads \cup {None} :
             github = [head |-> h, body |-> [c \in Comments |-> None]]
        /\ stored = github
        /\ published = NoView
        /\ made = [p \in Commands |-> None]
        /\ job = [j \in Jobs |-> Idle]
        /\ up = "up"
        /\ posted = {} /\ edited = {}

Return(j) == job' = [job EXCEPT ![j] = Idle]
Goto(j, pc) == job' = [job EXCEPT ![j].pc = pc]

(***************************************************************************)
(* Currentness: a plan is valid exactly in the context it was made in, and *)
(* the context is derived from the stored snapshot and the projection.     *)
(***************************************************************************)
Context == [snap |-> stored, view |-> published]
Current(p) == made[p] = Context
ExpectedHead(p) == made[p].snap.head

\* A plan that may be dispatched is only made while no command stands in the way.
Generate(p) ==
  /\ up = "up"
  /\ made[p] = None
  /\ published.overlay = "open"
  /\ made' = [made EXCEPT ![p] = Context]
  /\ UNCHANGED <<queue, command, link, row, stored, published, job, up,
                 github, posted, edited>>

(***************************************************************************)
(* SetCommandStatus: read the status, check the transition, compare and    *)
(* set.  A job in it has job.cur set; job.read is what the first statement *)
(* saw.  A conflict ends the operation, except in Reconcile; Create also   *)
(* withdraws the delivery it made.                                         *)
(***************************************************************************)
Allowed(from, to) ==
  \/ to = "ambiguous" /\ from \notin {"ambiguous", "superseded"}
  \/ from = "created" /\ to \in {"delivery_pending", "awaiting_result"} \cup Terminal
  \/ from = "delivery_pending" /\ to \in {"awaiting_result"} \cup Terminal
  \/ from = "awaiting_result" /\ to \in Terminal

\* invalidatePendingDelivery: nothing happens unless it is still pending.
InvalidatePending(d) ==
  IF right[d] = "pending" THEN Rights!Withdraw(d, "invalidated")
                          ELSE UNCHANGED <<right, holder>>

NextItem(j) == [job[j] EXCEPT !.todo = @ \ {job[j].cur}, !.cur = None, !.read = ""]

Conflict(j) ==
  /\ IF job[j].kind = "reconcile" /\ job[j].pc = "record"
     THEN job' = [job EXCEPT ![j] = NextItem(j)] ELSE Return(j)
  /\ IF job[j].kind = "create" /\ job[j].pc = "record"
     THEN InvalidatePending(job[j].d) ELSE UNCHANGED <<right, holder>>

Reread(j) ==
  LET s == command[job[j].cur.p]
      t == job[j].cur.to IN
  /\ job[j].cur # None /\ job[j].read = ""
  /\ \/ /\ s = t
        /\ job' = [job EXCEPT ![j] = NextItem(j)]
        /\ UNCHANGED <<right, holder>>
     \/ s # t /\ ~Allowed(s, t) /\ Conflict(j)
     \/ /\ s # t /\ Allowed(s, t)
        /\ job' = [job EXCEPT ![j].read = s]
        /\ UNCHANGED <<right, holder>>
  /\ UNCHANGED <<planOf, command, link, row, stored, published, made, up,
                 github, posted, edited>>

\* (fault) the UPDATE loses its "AND status = ?"
UnguardedUpdate(p, read) == TRUE

StillReads(p, read) == command[p] = read

Write(j) ==
  LET p == job[j].cur.p IN
  /\ job[j].cur # None /\ job[j].read # ""
  /\ \/ /\ StillReads(p, job[j].read)
        /\ command' = [command EXCEPT ![p] = job[j].cur.to]
        /\ job' = [job EXCEPT ![j] = NextItem(j)]
        /\ UNCHANGED <<right, holder>>
     \/ /\ ~StillReads(p, job[j].read)
        /\ Conflict(j)
        /\ UNCHANGED command
  /\ UNCHANGED <<planOf, link, row, stored, published, made, up,
                 github, posted, edited>>

(***************************************************************************)
(* RecordDeliveryOutcome, once for every [p, to] in job.todo.  Terminal    *)
(* states are left alone; the check and SetCommandStatus read separately.  *)
(***************************************************************************)
\* (fault) the transport's success counts as the command's
DeliveredCompletes(outcome) ==
  CASE outcome = "delivered" -> "completed"
    [] outcome \in {"pending", "claimed"} -> "delivery_pending"
    [] outcome = "uncertain" -> "ambiguous"
    [] outcome = "invalidated" -> "superseded"
    [] OTHER -> "failed"

StatusFor(outcome) ==
  CASE outcome \in {"pending", "claimed"} -> "delivery_pending"
    [] outcome = "delivered" -> "awaiting_result"
    [] outcome = "uncertain" -> "ambiguous"
    [] outcome = "invalidated" -> "superseded"
    [] OTHER -> "failed"

Record(j) ==
  /\ job[j].pc = "record" /\ job[j].cur = None
  /\ \/ /\ job[j].todo = {}
        /\ Goto(j, "refresh")
     \/ \E i \in job[j].todo :
          job' = [job EXCEPT ![j] =
            IF command[i.p] = i.to \/ command[i.p] \in Terminal
            THEN [job[j] EXCEPT !.todo = @ \ {i}]
            ELSE [job[j] EXCEPT !.cur = i]]
  /\ UNCHANGED <<queue, command, link, row, stored, published, made, up,
                 github, posted, edited>>

(***************************************************************************)
(* DeliveryCoordinator.Create                                              *)
(***************************************************************************)
\* The queue's own Create: a new confirmation of a current plan, or a replay.
BeginCreate(j, d, p) ==
  /\ up = "up" /\ job[j].pc = "idle"
  /\ \/ /\ Current(p)
        /\ Rights!Offer(d)
        /\ planOf' = [planOf EXCEPT ![d] = p]
     \/ /\ planOf[d] = p
        /\ UNCHANGED <<right, holder, planOf>>
  /\ job' = [job EXCEPT ![j] = [Idle EXCEPT !.pc = "plan", !.kind = "create", !.d = d,
                                   !.todo = {[p |-> p, to |-> StatusFor(right'[d])]}]]
  /\ UNCHANGED <<command, link, row, stored, published, made, up, github,
                 posted, edited>>

\* plans.Get and BuildWorkflowCommand: a stale plan makes no command.
GetPlan(j) ==
  /\ job[j].pc = "plan"
  /\ IF Current(planOf[job[j].d])
     THEN Goto(j, "persist") /\ UNCHANGED <<right, holder>>
     ELSE Return(j) /\ InvalidatePending(job[j].d)
  /\ UNCHANGED <<planOf, command, link, row, stored, published, made, up,
                 github, posted, edited>>

\* The same plan gives the same command: an existing one is taken as it is.
Persist(j) ==
  LET p == planOf[job[j].d] IN
  /\ job[j].pc = "persist"
  /\ command' = [command EXCEPT ![p] = IF @ = "absent" THEN "delivery_pending" ELSE @]
  /\ Goto(j, "link")
  /\ UNCHANGED <<queue, link, row, stored, published, made, up, github,
                 posted, edited>>

\* (fault) the INSERT replaces a link that exists
Relinked(p, d) == [link EXCEPT ![p] = d]

Linked(p, d) == [link EXCEPT ![p] = IF @ = None THEN d ELSE @]

\* INSERT ... ON CONFLICT DO NOTHING and the read-back; links never change
\* after that, so the two are one step.
Link(j) ==
  LET d == job[j].d
      p == planOf[d] IN
  /\ job[j].pc = "link"
  /\ link' = Linked(p, d)
  /\ IF link'[p] = d
     THEN Goto(j, "record") /\ UNCHANGED <<right, holder>>
     ELSE Return(j) /\ InvalidatePending(d)
  /\ UNCHANGED <<planOf, command, row, stored, published, made, up, github,
                 posted, edited>>

(***************************************************************************)
(* RefreshProject: read results, snapshot and commands (one step here),    *)
(* supersede what the head left behind, publish what was read.             *)
(***************************************************************************)
Outdated(head) == {p \in Commands : /\ command[p] \in Active
                                    /\ ExpectedHead(p) \notin {None, head}}
Remaining(head) == {p \in Commands : command[p] \in Active} \ Outdated(head)

\* (fault) several active commands are not noticed
NoCrowd(head) == {}

Crowd(head) == IF Cardinality(Remaining(head)) > 1 THEN Remaining(head) ELSE {}

\* (fault) a command that waits for its delivery does not close the route
PendingIsOpen(status) ==
  CASE status = "awaiting_result" -> "awaiting"
    [] status \in {"ambiguous", "failed"} -> status
    [] OTHER -> "open"

OverlayOf(status) ==
  CASE status \in {"created", "delivery_pending"} -> "pending"
    [] status = "awaiting_result" -> "awaiting"
    [] OTHER -> status

\* currentCommand: the active command; else the latest exceptional one, here any.
Overlays(head) ==
  LET exceptional == {p \in Commands : command[p] \in {"ambiguous", "failed"}} IN
  IF Crowd(head) # {} THEN {"ambiguous"}
  ELSE IF Remaining(head) # {} THEN {OverlayOf(command[p]) : p \in Remaining(head)}
  ELSE IF exceptional # {} THEN {OverlayOf(command[p]) : p \in exceptional}
  ELSE {"open"}

RefreshRead(j) ==
  LET h == stored.head IN
  /\ job[j].pc = "refresh"
  /\ \E o \in Overlays(h) :
       job' = [job EXCEPT ![j].pc = "settle",
                 ![j].view = [overlay |-> o, rows |-> row],
                 ![j].todo = [p : Outdated(h), to : {"superseded"}]
                               \cup [p : Crowd(h), to : {"ambiguous"}]]
  /\ UNCHANGED <<queue, command, link, row, stored, published, made, up,
                 github, posted, edited>>

Settle(j) ==
  /\ job[j].pc = "settle" /\ job[j].cur = None
  /\ \/ /\ job[j].todo = {}
        /\ Goto(j, "publish")
     \/ \E i \in job[j].todo : job' = [job EXCEPT ![j].cur = i]
  /\ UNCHANGED <<queue, command, link, row, stored, published, made, up,
                 github, posted, edited>>

Publish(j) ==
  /\ job[j].pc = "publish"
  /\ published' = job[j].view
  /\ up' = CASE job[j].kind = "boot" -> "refreshed"
             [] job[j].kind = "reconcile" -> "up"
             [] OTHER -> up
  /\ Return(j)
  /\ UNCHANGED <<queue, command, link, row, stored, made, github, posted,
                 edited>>

(***************************************************************************)
(* The browser worker: ClaimNext and Complete.                             *)
(***************************************************************************)
\* A claim of a stale plan fails with the planning adapter's error, is rolled
\* back and changes nothing.
Claim(d, q) ==
  /\ up = "up"
  /\ Rights!Grant(d, q)
  /\ Current(planOf[d])
  /\ UNCHANGED <<planOf, command, link, row, stored, published, made, job, up,
                 github, posted, edited>>

\* What the queue does outside the coordinator: a claim finds the command
\* expired or its binding gone, a completion comes too late.
QueueAlone(d) ==
  /\ up = "up"
  /\ \/ \E w \in {"expired", "invalidated"} : Rights!Withdraw(d, w)
     \/ Rights!Settle(d, "uncertain")
  /\ UNCHANGED <<planOf, command, link, row, stored, published, made, job, up,
                 github, posted, edited>>

\* The queue's own Complete, in time or repeated.
BeginComplete(j, d, o) ==
  /\ up = "up" /\ job[j].pc = "idle"
  /\ \/ Rights!Settle(d, o)
     \/ right[d] = o /\ UNCHANGED <<right, holder>>
  /\ job' = [job EXCEPT ![j] = [Idle EXCEPT !.pc = "sync", !.kind = "complete", !.d = d]]
  /\ UNCHANGED <<planOf, command, link, row, stored, published, made, up,
                 github, posted, edited>>

\* syncCommand: the linked command, if there is one, is to follow the outcome.
SyncCommand(j) ==
  LET d == job[j].d IN
  /\ job[j].pc = "sync"
  /\ job' = [job EXCEPT ![j].pc = "record", ![j].d = None,
               ![j].todo = [p : {p \in Commands : link[p] = d}, to : {StatusFor(right[d])}]]
  /\ UNCHANGED <<queue, command, link, row, stored, published, made, up,
                 github, posted, edited>>

(***************************************************************************)
(* Reconcile, periodically and at start-up.                                *)
(***************************************************************************)
BeginReconcile(j, S) ==
  /\ job[j].pc = "idle"
  /\ \/ up = "up"
     \/ up = "refreshed" /\ \A k \in Jobs : job[k].pc = "idle"
  /\ Rights!Lapse(S)
  /\ job' = [job EXCEPT ![j] = [Idle EXCEPT !.pc = "links", !.kind = "reconcile"]]
  /\ UNCHANGED <<planOf, command, link, row, stored, published, made, up,
                 github, posted, edited>>

ReadLinks(j) ==
  LET linked == {p \in Commands : link[p] # None} IN
  /\ job[j].pc = "links"
  /\ IF linked = {}
     THEN Return(j) /\ up' = "up"
     ELSE /\ job' = [job EXCEPT ![j].pc = "record",
                       ![j].todo = {[p |-> p, to |-> StatusFor(right[link[p]])] : p \in linked}]
          /\ UNCHANGED up
  /\ UNCHANGED <<queue, command, link, row, stored, published, made,
                 github, posted, edited>>

(***************************************************************************)
(* A synchronisation: fetch, ReplaceSnapshot, ObserveProjectSnapshot.      *)
(***************************************************************************)
BeginSync(j) ==
  /\ up = "up" /\ job[j].pc = "idle"
  /\ j \in Syncers
  /\ job' = [job EXCEPT ![j] = [Idle EXCEPT !.pc = "store", !.kind = "sync", !.snap = github]]
  /\ UNCHANGED <<queue, command, link, row, stored, published, made, up,
                 github, posted, edited>>

Store(j) ==
  /\ job[j].pc = "store"
  /\ stored' = job[j].snap
  /\ Goto(j, "load")
  /\ UNCHANGED <<queue, command, link, row, published, made, up, github,
                 posted, edited>>

Load(j) ==
  /\ job[j].pc = "load"
  /\ job' = [job EXCEPT ![j].pc = "observe", ![j].snap = stored,
               ![j].left = {c \in Comments : stored.body[c] # None}]
  /\ UNCHANGED <<queue, command, link, row, stored, published, made, up,
                 github, posted, edited>>

Correlated(b) ==
  [body |-> b, status |-> IF b = Junk THEN "malformed"
                          ELSE IF command[b.command] = "absent" THEN "unbound"
                          ELSE "accepted"]

\* (fault) a marker that was accepted before counts as changed
AnyRepeatIsMutation(c, new) ==
  IF row[c].status = "accepted" THEN [new EXCEPT !.status = "ambiguous"] ELSE new

\* persistResult: a changed accepted marker is ambiguous.
Persisted(c, new) ==
  IF row[c].status = "accepted" /\ new # row[c]
  THEN [new EXCEPT !.status = "ambiguous"] ELSE new

Observe(j) ==
  /\ job[j].pc = "observe"
  /\ \E c \in job[j].left :
       /\ row' = [row EXCEPT ![c] = Persisted(c, Correlated(job[j].snap.body[c]))]
       /\ job' = [job EXCEPT ![j].left = @ \ {c}]
  /\ UNCHANGED <<queue, command, link, stored, published, made, up, github,
                 posted, edited>>

\* DeleteMissingResults and ListCommands.
Purge(j) ==
  /\ job[j].pc = "observe" /\ job[j].left = {}
  /\ row' = [c \in Comments |-> IF job[j].snap.body[c] = None THEN NoRow ELSE row[c]]
  /\ job' = [job EXCEPT ![j].pc = "judge", ![j].snap = Blank,
               ![j].todo = {[p |-> p, to |-> command[p]] :
                              p \in {x \in Commands : command[x] # "absent"}}]
  /\ UNCHANGED <<queue, command, link, stored, published, made, up, github,
                 posted, edited>>

Accepted(p) == {c \in Comments : row[c].status = "accepted" /\ row[c].body.command = p}

\* reconcileCommand, with the status the command was listed with: the status
\* it is to have, or the listed one where nothing is to be done.
Desired(p, listed) ==
  LET payloads == {row[c].body : c \in Accepted(p)} IN
  IF listed \in {"ambiguous", "superseded"} THEN listed
  ELSE IF Cardinality(payloads) > 1 THEN "ambiguous"
  ELSE IF payloads = {} THEN IF listed \in Terminal THEN "ambiguous" ELSE listed
  ELSE LET v == (CHOOSE m \in payloads : TRUE).verdict IN
       IF listed \in Terminal /\ listed # v THEN "ambiguous" ELSE v

Conflicting(p, listed) ==
  /\ listed \notin {"ambiguous", "superseded"}
  /\ Cardinality({row[c].body : c \in Accepted(p)}) > 1

Judge(j) ==
  /\ job[j].pc = "judge" /\ job[j].cur = None
  /\ \/ /\ job[j].todo = {}
        /\ Goto(j, "refresh")
        /\ UNCHANGED row
     \/ \E i \in job[j].todo :
          LET t == Desired(i.p, i.to) IN
          /\ row' = [c \in Comments |->
                       IF Conflicting(i.p, i.to) /\ c \in Accepted(i.p)
                       THEN [row[c] EXCEPT !.status = "ambiguous"] ELSE row[c]]
          /\ job' = [job EXCEPT ![j].todo = @ \ {i},
                       ![j].cur = IF t = i.to THEN None ELSE [p |-> i.p, to |-> t]]
  /\ UNCHANGED <<queue, command, link, stored, published, made, up, github,
                 posted, edited>>

(***************************************************************************)
(* Errors, crashes, start-up.                                              *)
(***************************************************************************)
\* A cancelled request, a busy database, a failing statement; the withdrawal
\* after a failed Create runs in the same, possibly cancelled, context.
Abort(j) ==
  /\ job[j].pc # "idle"
  /\ Return(j)
  /\ \/ UNCHANGED <<right, holder>>
     \/ job[j].kind = "create" /\ InvalidatePending(job[j].d)
  /\ UNCHANGED <<planOf, command, link, row, stored, published, made, up,
                 github, posted, edited>>

Crash ==
  /\ job' = [j \in Jobs |-> Idle]
  /\ published' = NoView
  /\ up' = "down"
  /\ UNCHANGED <<queue, command, link, row, stored, made, github, posted,
                 edited>>

\* main: refresh every project, then reconcile, then serve.
Boot(j) ==
  /\ up = "down"
  /\ \A k \in Jobs : job[k].pc = "idle"
  /\ job' = [job EXCEPT ![j] = [Idle EXCEPT !.pc = "refresh", !.kind = "boot"]]
  /\ UNCHANGED <<queue, command, link, row, stored, published, made, up,
                 github, posted, edited>>

(***************************************************************************)
(* GitHub.  A comment is posted and changed or deleted at most once.       *)
(***************************************************************************)
Post(c, b) ==
  /\ c \notin edited
  /\ b # github.body[c]
  /\ github' = [github EXCEPT !.body[c] = b]
  /\ edited' = IF github.body[c] = None THEN edited ELSE edited \cup {c}
  /\ posted' = posted \cup ({b} \cap Markers)
  /\ UNCHANGED <<queue, command, link, row, stored, published, made, job, up>>

Push(h) ==
  /\ h # github.head
  /\ github' = [github EXCEPT !.head = h]
  /\ UNCHANGED <<queue, command, link, row, stored, published, made, job, up,
                 posted, edited>>

JobStep(j) ==
  \/ GetPlan(j) \/ Persist(j) \/ Link(j) \/ SyncCommand(j) \/ ReadLinks(j)
  \/ Record(j) \/ Reread(j) \/ Write(j)
  \/ Store(j) \/ Load(j) \/ Observe(j) \/ Purge(j) \/ Judge(j)
  \/ RefreshRead(j) \/ Settle(j) \/ Publish(j)

Worker ==
  \/ \E d \in Deliveries, q \in Requests : Claim(d, q)
  \/ \E d \in Deliveries : QueueAlone(d)
  \/ \E j \in Jobs, d \in Deliveries, o \in Rights!Outcomes : BeginComplete(j, d, o)

Operator ==
  \/ \E p \in Commands : Generate(p)
  \/ \E j \in Jobs, d \in Deliveries, p \in Commands : BeginCreate(j, d, p)

Environment ==
  \/ \E c \in Comments, b \in Bodies : Post(c, b)
  \/ \E h \in Heads \cup {None} : Push(h)

Next ==
  \/ Operator \/ Worker \/ Environment
  \/ \E j \in Jobs, S \in SUBSET Deliveries : BeginReconcile(j, S)
  \/ \E j \in Jobs : JobStep(j) \/ Abort(j) \/ BeginSync(j) \/ Boot(j)
  \/ Crash

Spec == Init /\ [][Next]_loopVars

\* Operations run to their end, synchronisation and reconciliation are
\* periodic, a stopped server is started again, every deadline passes, and from
\* some point on no operation fails half way any more.
Overdue == {d \in Deliveries : right[d] \in {"pending", "claimed"}}
FairSpec ==
  /\ Spec
  /\ \A j \in Jobs : WF_loopVars(JobStep(j))
  /\ WF_loopVars(\E j \in Jobs : Boot(j))
  /\ SF_loopVars(\E j \in Syncers : BeginSync(j))
  /\ SF_loopVars(\E j \in Jobs : BeginReconcile(j, Overdue))
  /\ <>[][~Crash /\ \A j \in Jobs : Abort(j) => JobStep(j)]_loopVars

(***************************************************************************)
(* Properties.                                                             *)
(***************************************************************************)
Statuses == Active \cup Terminal \cup {"absent"}
Rows == [body : Bodies, status : {"absent", "accepted", "unbound", "malformed", "ambiguous"}]
Snapshots == [head : Heads \cup {None}, body : [Comments -> Bodies]]
Views == [overlay : {"open", "pending", "awaiting", "ambiguous", "failed"},
          rows : [Comments -> Rows]]
Items == [p : Commands, to : Statuses]
JobStates ==
  [pc : {"idle", "plan", "persist", "link", "sync", "links", "record", "store", "load",
         "observe", "judge", "refresh", "settle", "publish"},
   kind : {"", "create", "complete", "reconcile", "sync", "boot"},
   d : Deliveries \cup {None}, todo : SUBSET Items, cur : Items \cup {None},
   read : Statuses \cup {""}, snap : Snapshots, left : SUBSET Comments, view : Views]

\* Every variable stays in its type.
TypeOK ==
  /\ Rights!RightsTypeOK
  /\ planOf \in [Deliveries -> Commands \cup {None}]
  /\ command \in [Commands -> Statuses]
  /\ link \in [Commands -> Deliveries \cup {None}]
  /\ row \in [Comments -> Rows]
  /\ stored \in Snapshots /\ github \in Snapshots
  /\ published \in Views
  /\ made \in [Commands -> {None} \cup [snap : Snapshots, view : Views]]
  /\ job \in [Jobs -> JobStates]
  /\ up \in {"down", "refreshed", "up"}
  /\ posted \subseteq Markers /\ edited \subseteq Comments

\* A link joins a command that exists to one confirmed delivery of its own
\* plan, and no delivery serves two commands.  AwaitsAfterDelivery
\* rests on it.
LinkBook ==
  \A p \in Commands :
     link[p] # None =>
       /\ command[p] # "absent"
       /\ planOf[link[p]] = p /\ right[link[p]] # "absent"
       /\ \A q \in Commands : link[q] = link[p] => q = p

\* The execution states say what the transport did: a command waits for its
\* result only if its delivery was reported delivered, however the reports of
\* the worker, of retries and of reconciliation were interleaved.
AwaitsAfterDelivery ==
  \A p \in Commands :
     command[p] = "awaiting_result" => /\ link[p] # None
                                       /\ right[link[p]] = "delivered"

\* Transport never completes a command: one that ended with a verdict ended
\* with the verdict of a marker that stood on GitHub.
VerdictHasMarker ==
  \A p \in Commands :
     command[p] \in Executed => \E m \in posted : m.command = p /\ m.verdict = command[p]

\* The life of a command is monotone under every interleaving of the
\* operations that read its status before they write it.
Later(s) == CASE s = "delivery_pending" -> {"awaiting_result"} \cup Terminal
              [] s = "awaiting_result"  -> Terminal
              [] s \in Executed \cup {"failed"} -> {"ambiguous"}
              [] s = "absent" -> {"delivery_pending"}
              [] OTHER -> {}
Monotone == [][\A p \in Commands : command'[p] \in {command[p]} \cup Later(command[p])]_loopVars

\* A command that ended with a verdict is put in doubt only for a reason: its
\* comment was edited, GitHub shows two markers for it, its delivery became
\* uncertain, or another command exists beside it.  Synchronising again, or
\* after a crash, is no reason.
DoubtHasCause ==
  [][\A p \in Commands :
       (command[p] \in Executed /\ command'[p] = "ambiguous") =>
          \/ edited # {}
          \/ \E m, n \in posted : m # n /\ m.command = p /\ n.command = p
          \/ link[p] # None /\ right[link[p]] = "uncertain"
          \/ \E q \in Commands \ {p} : command[q] # "absent"]_loopVars

\* The projection catches up: an active command closes the route in the end,
\* whatever stale projection was published meanwhile.
RouteCloses ==
  \A p \in Commands :
     (command[p] \in Active) ~> (published.overlay # "open" \/ command[p] \notin Active)

\* Two plans confirmed side by side make two active commands; the projection
\* puts them in doubt instead of letting both run on.
CrowdEnds ==
  \A p, q \in Commands :
     (p # q /\ command[p] \in Active /\ command[q] \in Active)
       ~> (command[p] \notin Active \/ command[q] \notin Active)

=============================================================================
