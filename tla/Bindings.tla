------------------------------ MODULE Bindings ------------------------------
(***************************************************************************)
(* Browser bindings: the presence of one worker (an installed extension),  *)
(* kept in memory under a mutex, the rows that bind a lane to one of its   *)
(* conversations, kept in the database, and the retirement of the bindings *)
(* of finished QA deliveries.                                              *)
(*                                                                         *)
(* A mutex section is one step and a statement is one step, so a request   *)
(* that checks presence, reads a row and writes it takes three.  A write   *)
(* in a transaction fails if anything was committed since its first read   *)
(* (SQLite's snapshot in WAL mode).  Presence tokens are random: all that  *)
(* is kept of one is whether a reader has seen it.                         *)
(***************************************************************************)
EXTENDS Naturals, FiniteSets

CONSTANTS Sessions,    \* runtimes of the extension, all with one worker id
          Targets,     \* conversations
          Lanes,
          Requests,    \* Put and Disable requests
          TTL,         \* a session not heard of for longer is stale
          MaxDelay,    \* bound: how long Register may wait for the database
          MaxVersion,  \* bound on binding versions
          None

ASSUME BindingsAssumption ==
  /\ TTL \in Nat /\ MaxDelay \in Nat /\ MaxVersion \in Nat
  /\ None \notin Targets

VARIABLES session,   \* session -> [seen, target, token, conflict]: those in memory
          beat,      \* session -> the Register it waits for, or None
          row,       \* lane -> [version, target, enabled]; version 0: no row
          req,       \* request -> where it stands
          finished,  \* <<lane, version>>: captured by a QA delivery that is over
          sweep,     \* what a running retirement still has to do, or None
          heard      \* history: time since a session last had an answer

vars == <<session, beat, row, req, finished, sweep, heard>>
presence == <<session, beat, heard>>
book     == <<row, finished, sweep>>

Far == TTL + MaxDelay + 1      \* ages are not told apart from here on
Older(n) == IF n < Far THEN n + 1 ELSE n

NoRow == [version |-> 0, target |-> None, enabled |-> FALSE]
Idle  == [pc |-> "idle", kind |-> "put", lane |-> None, target |-> None,
          expected |-> 0, clean |-> FALSE]

Init == /\ session = << >>
        /\ beat = [s \in Sessions |-> None]
        /\ row = [l \in Lanes |-> NoRow]
        /\ req = [r \in Requests |-> Idle]
        /\ finished = {}
        /\ sweep = None
        /\ heard = [s \in Sessions |-> Far]

(***************************************************************************)
(* Presence.  The operators take and return the map of the sessions.       *)
(***************************************************************************)
Alone(f) == \A s, t \in DOMAIN f : s = t

\* (fault) a conflict leaves the tokens as they are
KeepTokens(f) == [s \in DOMAIN f |-> [f[s] EXCEPT !.conflict = ~Alone(f)]]

\* A conflict that was not there before gives every session a new token.
Marked(f) ==
  LET erupts == ~Alone(f) /\ \A s \in DOMAIN f : ~f[s].conflict
  IN [s \in DOMAIN f |-> [f[s] EXCEPT !.conflict = ~Alone(f),
                                      !.token = IF erupts THEN "new" ELSE @]]

\* now: how long ago the caller looked at the clock.
Pruned(f, now) ==
  Marked([s \in {x \in DOMAIN f : f[x].seen <= TTL + now} |-> f[s]])

SameTarget(t, u) == t # None /\ t = u

\* (fault) the session that registers takes the worker over
TakesOver(f, s, t, now) ==
  [x \in {s} |-> [seen |-> now, target |-> t, token |-> "new", conflict |-> FALSE]]

\* The session that reports a target is added, or brought up to date.
Registered(f, s, t, now) ==
  LET kept == s \in DOMAIN f /\ SameTarget(f[s].target, t)
      mine == [seen |-> now, target |-> t,
               token |-> IF kept THEN f[s].token ELSE "new",
               conflict |-> s \in DOMAIN f /\ f[s].conflict]
  IN [x \in DOMAIN f \union {s} |-> IF x = s THEN mine ELSE f[x]]

\* project, of an enabled binding to t, after pruning
Readiness(f, t) ==
  LET s == CHOOSE x \in DOMAIN f : TRUE
  IN IF ~Alone(f) THEN "conflict"
     ELSE IF DOMAIN f = {} THEN "stale"
     ELSE IF f[s].conflict THEN "conflict"
     ELSE IF SameTarget(f[s].target, t) THEN "ready" ELSE "unavailable"

\* What a look at target t leaves of the tokens: one that is given out is
\* seen, and one seen before but no longer given out for t is spent.
Noted(f, t) ==
  [s \in DOMAIN f |->
     [f[s] EXCEPT !.token = IF f[s].target # t THEN @
                            ELSE IF Readiness(f, t) = "ready" /\ @ = "new" THEN "seen"
                            ELSE IF Readiness(f, t) # "ready" /\ @ = "seen" THEN "spent"
                            ELSE @]]

\* Register, up to its statement; a session has one heartbeat in flight.
Beat(s) ==
  /\ beat[s] = None
  /\ \E t \in Targets \union {None} : beat' = [beat EXCEPT ![s] = [target |-> t, age |-> 0]]
  /\ UNCHANGED <<session, heard, book, req>>

\* Something was committed: open transactions that have read can no longer write.
Spoilt == [r \in Requests |-> [req[r] EXCEPT !.clean = FALSE]]

\* The row of the worker is stored, then the section under the mutex runs.
Register(s) ==
  /\ beat[s] # None
  /\ LET b == beat[s]
     IN session' = Marked(Registered(Pruned(session, b.age), s, b.target, b.age))
  /\ beat' = [beat EXCEPT ![s] = None]
  /\ heard' = [heard EXCEPT ![s] = 0]
  /\ req' = Spoilt
  /\ UNCHANGED book

RegisterFails(s) ==
  /\ beat[s] # None
  /\ beat' = [beat EXCEPT ![s] = None]
  /\ UNCHANGED <<session, heard, book, req>>

\* ListWorkers prunes; so does every look at a binding, which also shows its token.
ListWorkers ==
  /\ session' = Pruned(session, 0)
  /\ UNCHANGED <<beat, heard, book, req>>

\* Get, and the end of Put and Disable: t is the target the binding had when it was read.
Get(t) ==
  /\ session' = Noted(Pruned(session, 0), t)
  /\ UNCHANGED <<beat, heard, book, req>>

Tick ==
  /\ \A s \in Sessions : beat[s] # None => beat[s].age < MaxDelay
  /\ session' = [s \in DOMAIN session |-> [session[s] EXCEPT !.seen = Older(@)]]
  /\ beat' = [s \in Sessions |->
                IF beat[s] = None THEN None ELSE [beat[s] EXCEPT !.age = @ + 1]]
  /\ heard' = [s \in Sessions |-> Older(heard[s])]
  /\ UNCHANGED <<book, req>>

(***************************************************************************)
(* The rows                                                                *)
(***************************************************************************)
\* (fault) whoever asks gets the target
AnyTarget(l, t) == TRUE

\* ensureTargetFree
TargetFree(l, t) == \A m \in Lanes \ {l} : ~(row[m].enabled /\ row[m].target = t)

RowExists(l) == row[l].version > 0

\* requireFreshTarget: an operator who has seen some version asks for a target.
PutCheck(r, l, t) ==
  LET f == Pruned(session, 0)
  IN /\ req[r].pc = "idle"
     /\ session' = f
     /\ \/ /\ Readiness(f, t) = "ready"
           /\ \E e \in 0..row[l].version :
                req' = [req EXCEPT ![r] = [Idle EXCEPT !.pc = "read", !.lane = l,
                                                       !.target = t, !.expected = e]]
        \/ Readiness(f, t) # "ready" /\ UNCHANGED req
     /\ UNCHANGED <<beat, heard, book>>

DisableStart(r, l) ==
  /\ req[r].pc = "idle"
  /\ \E e \in 0..row[l].version :
       req' = [req EXCEPT ![r] = [Idle EXCEPT !.pc = "read", !.kind = "disable",
                                              !.lane = l, !.expected = e]]
  /\ UNCHANGED <<presence, book>>

\* The first read of the transaction and what is decided on it.
Accepted(q) ==
  /\ q.expected = row[q.lane].version
  /\ IF q.kind = "put" THEN TargetFree(q.lane, q.target) ELSE RowExists(q.lane)

Read(r) ==
  /\ req[r].pc = "read"
  /\ req' = [req EXCEPT ![r] = IF Accepted(req[r])
                               THEN [req[r] EXCEPT !.pc = "write", !.clean = TRUE] ELSE Idle]
  /\ UNCHANGED <<presence, book>>

MayWrite(q) == q.clean

\* The enabled rows of a worker have different targets (unique index).
IndexHolds(q) == q.kind = "put" =>
  \A m \in Lanes \ {q.lane} : ~(row[m].enabled /\ row[m].target = q.target)

Written(q) == [version |-> q.expected + 1,
               target  |-> IF q.kind = "put" THEN q.target ELSE row[q.lane].target,
               enabled |-> q.kind = "put"]

Write(r) ==
  LET q == req[r]
  IN /\ q.pc = "write" /\ MayWrite(q) /\ IndexHolds(q)
     /\ q.expected < MaxVersion
     /\ row' = [row EXCEPT ![q.lane] = Written(q)]
     /\ req' = [Spoilt EXCEPT ![r] = Idle]
     /\ UNCHANGED <<presence, finished, sweep>>

\* A statement fails, or the snapshot is out of date: nothing is written.
Fail(r) ==
  /\ req[r].pc # "idle"
  /\ req' = [req EXCEPT ![r] = Idle]
  /\ UNCHANGED <<presence, book>>

(***************************************************************************)
(* Retirement                                                              *)
(***************************************************************************)
\* A QA delivery captured the binding, and its result is accepted by the time
\* a retirement finds it, which may be long after the capture.
Finish(l) ==
  /\ row[l].enabled
  /\ finished' = finished \union {<<l, row[l].version>>}
  /\ UNCHANGED <<presence, row, sweep, req>>

RetireRead ==
  /\ sweep = None /\ finished # {}
  /\ sweep' = finished
  /\ UNCHANGED <<presence, row, finished, req>>

\* (fault) the lane's binding is retired, whatever its version
AnyVersion(c) == row[c[1]].enabled

Retirable(c) == row[c[1]].version = c[2] /\ row[c[1]].enabled

Retire(c) ==
  /\ sweep # None /\ c \in sweep
  /\ sweep' = IF sweep = {c} THEN None ELSE sweep \ {c}
  /\ IF Retirable(c) /\ row[c[1]].version < MaxVersion
     THEN /\ row' = [row EXCEPT ![c[1]].enabled = FALSE, ![c[1]].version = @ + 1]
          /\ req' = Spoilt
     ELSE UNCHANGED <<row, req>>
  /\ UNCHANGED <<presence, finished>>

RetireFails ==
  /\ sweep # None
  /\ sweep' = None
  /\ UNCHANGED <<presence, row, finished, req>>

\* The process ends; what it held in memory is lost.
Restart ==
  /\ session' = << >>
  /\ beat' = [s \in Sessions |-> None]
  /\ heard' = [s \in Sessions |-> Far]
  /\ req' = [r \in Requests |-> Idle]
  /\ sweep' = None
  /\ UNCHANGED <<row, finished>>

Next ==
  \/ \E s \in Sessions : Beat(s) \/ Register(s) \/ RegisterFails(s)
  \/ ListWorkers \/ (\E t \in Targets : Get(t)) \/ Tick
  \/ \E r \in Requests :
       \/ \E l \in Lanes : DisableStart(r, l) \/ \E t \in Targets : PutCheck(r, l, t)
       \/ Read(r) \/ Write(r) \/ Fail(r)
  \/ (\E l \in Lanes : Finish(l)) \/ RetireRead \/ (\E c \in finished : Retire(c)) \/ RetireFails
  \/ Restart

Spec == Init /\ [][Next]_vars

(***************************************************************************)
(* Properties                                                              *)
(***************************************************************************)
Versions == 0..MaxVersion
SessionStates == [seen : 0..Far, target : Targets \union {None},
                  token : {"new", "seen", "spent"}, conflict : BOOLEAN]

\* Types, and: a row that is not there has no target, and the flag of a
\* session says whether it has company.
TypeOK ==
  /\ DOMAIN session \subseteq Sessions
  /\ \A s \in DOMAIN session :
       session[s] \in SessionStates /\ session[s].conflict = ~Alone(session)
  /\ beat \in [Sessions -> [target : Targets \union {None}, age : 0..MaxDelay] \union {None}]
  /\ row \in [Lanes -> [version : Versions, target : Targets \union {None}, enabled : BOOLEAN]]
  /\ \A l \in Lanes : row[l].target = None <=> row[l] = NoRow
  /\ req \in [Requests -> [pc : {"idle", "read", "write"}, kind : {"put", "disable"},
                           lane : Lanes \union {None}, target : Targets \union {None},
                           expected : Versions, clean : BOOLEAN]]
  /\ finished \subseteq Lanes \X Versions
  /\ sweep = None \/ sweep \subseteq finished
  /\ heard \in [Sessions -> 0..Far]

\* A confirmation that saw a presence token cannot come true again: once a
\* reader was told that the target is not ready, the token shown for it before
\* is never shown again, through conflicts, staleness and late heartbeats.
TokenNeverReturns ==
  \A t \in Targets, s \in DOMAIN session :
     Readiness(session, t) = "ready" => session[s].token # "spent"

\* Of two runtimes with one worker id none is ready before the other has been
\* silent for the time limit, less what Register may have waited.
SoleSession ==
  \A t \in Targets, s \in DOMAIN session :
     Readiness(session, t) = "ready" => \A x \in Sessions \ {s} : heard[x] + MaxDelay > TTL

\* A lane and a version name one binding for ever: what changes a row moves its
\* version by one, so neither of two operators who read the same version
\* overwrites the other.
VersionsNameBindings ==
  [][\A l \in Lanes : row'[l] # row[l] => row'[l].version = row[l].version + 1]_vars

Named(l) == \/ <<l, row[l].version>> \in finished
            \/ \E r \in Requests : /\ req[r].pc = "write" /\ req[r].lane = l
                                  /\ req[r].expected = row[l].version

\* Nobody changes a binding he has not named: it is either the version an
\* operator's request expected, or one a finished QA delivery captured.  A newer
\* replacement is not retired.
NamedFirst == [][\A l \in Lanes : row'[l] # row[l] => Named(l)]_vars

\* A target found free in a transaction is free when it is written, so that the
\* unique index is never what refuses a binding.
TargetStaysFree ==
  \A r \in Requests : req[r].pc = "write" /\ MayWrite(req[r]) => IndexHolds(req[r])
=============================================================================
