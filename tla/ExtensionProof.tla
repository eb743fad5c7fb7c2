---------------------------- MODULE ExtensionProof ----------------------------
(***************************************************************************)
(* Proofs about Extension: a prompt is sent at most once, backends are     *)
(* told the truth and only the backend concerned, and the ledger is        *)
(* written ahead and stands, for any number of commands, backends, claims  *)
(* and stops of the service worker.                                        *)
(***************************************************************************)
EXTENDS Extension, TLAPS

Working == {"claim", "reserve", "guard", "insert", "recheck", "send", "mark", "ack",
            "note", "prune"}

\* Every variable keeps its type, and nothing goes astray.
QueueRows   == [status : {"pending", "claimed", "delivered", "failed", "uncertain"},
                claim : {0} \cup Claims]
RequestRows == [origin : Origins \cup {None}, done : BOOLEAN, cmd : Commands \cup {None}]
Ledgers     == [Claims -> Entries \cup {None}]
SwStates    == [up : BOOLEAN, bound : Origins \cup {None}, ready : BOOLEAN]
PollStates  == [pc : {"idle", "look"} \cup Working, req : {0} \cup Claims, state : States]
BeatStates  == [pc : {"idle", "report", "ack", "note"}, left : Ledgers, k : {0} \cup Claims]

TypeOK ==
  /\ queue \in [Commands -> QueueRows]
  /\ request \in [Claims -> RequestRows]
  /\ asked \in {0} \cup Claims
  /\ ledger \in Ledgers
  /\ config \in Origins \cup {None}
  /\ sw \in SwStates
  /\ poll \in PollStates
  /\ beat \in BeatStates
  /\ clicks \in [Commands -> Nat]
  /\ astray = {}

(***************************************************************************)
(* The inductive invariant.  A claim is named by its request; what is      *)
(* known of it depends on whether the running poll still works on it.      *)
(***************************************************************************)
\* A command was claimed by one request of its own backend, and by no other.
RequestBook ==
  \A r \in Claims :
    /\ request[r].origin # None => r <= asked
    /\ request[r].cmd # None =>
         /\ request[r].done
         /\ r <= asked
         /\ request[r].origin = Home(request[r].cmd)
         /\ queue[request[r].cmd].claim = r
         /\ queue[request[r].cmd].status # "pending"

\* Nothing is clicked for a pending command, twice for any, or against what its
\* backend was told.
ClickBook ==
  \A c \in Commands :
    /\ clicks[c] \in {0, 1}
    /\ queue[c].status = "pending" => clicks[c] = 0
    /\ queue[c].status = "delivered" => clicks[c] = 1
    /\ queue[c].status = "failed" => clicks[c] = 0

\* An outcome that agrees with the clicks
Agrees(state, c) == /\ state = "sent" => clicks[c] = 1
                    /\ state = "failed_pre_send" => clicks[c] = 0

Fresh  == {"claim", "reserve", "guard", "insert", "recheck", "send"}
AtWork(r) == poll.pc \in Fresh \cup {"mark"} /\ poll.req = r
NoOutcome(c) == queue[c].status \notin {"delivered", "failed"}

\* Until the click the prompt is unsent and the backend has no outcome.
PollBook ==
  /\ poll.pc # "idle" => sw.up
  /\ poll.pc \in Working => poll.req \in Claims /\ poll.req <= asked
  /\ poll.pc \in Working \ {"claim"} => Cmd # None
  /\ poll.pc \in Fresh /\ Cmd # None => clicks[Cmd] = 0
  /\ poll.pc \in Fresh \cup {"mark"} /\ Cmd # None => NoOutcome(Cmd)
  /\ poll.pc \in {"mark", "ack", "note", "prune"} => Agrees(poll.state, Cmd) /\ poll.state # "reserved"
  /\ poll.pc \in {"claim", "reserve"} => ledger[poll.req] = None
  /\ poll.pc \in {"ack", "note", "prune"} /\ ledger[poll.req] # None =>
        ledger[poll.req].state # "reserved"
  /\ poll.pc \in {"guard", "insert", "recheck", "send", "mark"} =>
       ledger[poll.req] # None /\ ledger[poll.req].state = "reserved"

\* An entry is of the claim it is kept for, says what happened, and is not
\* acknowledged before it has an outcome.
EntryOf(k, e) == /\ k <= asked
                 /\ e.cmd = request[k].cmd /\ e.origin = Home(e.cmd)
                 /\ Agrees(e.state, e.cmd)
LedgerBook ==
  \A k \in Claims : ledger[k] # None =>
     /\ EntryOf(k, ledger[k])
     /\ ledger[k].state = "reserved" => ~ledger[k].acked

\* A heartbeat reports to the backend it was read for, and only what is over.
BeatBook ==
  \A k \in Claims :
    /\ beat.left[k] # None =>
         /\ beat.pc \in {"ack", "note"}
         /\ EntryOf(k, beat.left[k]) /\ beat.left[k].state # "reserved"
         /\ beat.left[k].origin = sw.bound
         /\ ~AtWork(k)
         /\ ledger[k] # None => ledger[k].state # "reserved"
    /\ beat.pc = "note" /\ beat.k = k => 
         /\ k <= asked /\ ~AtWork(k)
         /\ ledger[k] # None => ledger[k].state # "reserved"

IInv == TypeOK /\ RequestBook /\ ClickBook /\ PollBook /\ LedgerBook /\ BeatBook

(***************************************************************************)
(* Lemmas                                                                  *)
(***************************************************************************)
LEMMA Numbers == /\ Claims \subseteq Nat /\ 0 \notin Claims
                 /\ None \notin Commands /\ None \notin Origins /\ None \notin Entries
                 /\ \A c \in Commands : Home(c) \in Origins
                 /\ \A k \in {0} \cup Claims : k \in Nat
BY ExtensionAssumption DEF Claims

\* What is known of one claim of the running poll
LEMMA PollFacts ==
  IInv /\ poll.pc \in Working =>
    /\ poll.req \in Claims /\ request[poll.req] \in RequestRows
    /\ poll.pc # "claim" => Cmd \in Commands /\ Origin = Home(Cmd)
BY DEF IInv, TypeOK, PollBook, RequestBook, Cmd, Origin, RequestRows, Working, PollStates

\* Requests name different commands.
LEMMA OneRequest ==
  IInv => \A q, r \in Claims : request[q].cmd # None /\ request[q].cmd = request[r].cmd => q = r
BY DEF IInv, RequestBook

\* What pruning leaves of a ledger
LEMMA PrunedEntries ==
  \A l : \A m \in Pruned(l) :
     \E gone : /\ m = [k \in Claims |-> IF k \in gone THEN None ELSE l[k]]
               /\ \A k \in gone : Removable(l[k])
BY DEF Pruned

\* A ledger that forgets entries and settles some as uncertain
Follows(l) == /\ l \in Ledgers
              /\ \A k \in Claims : l[k] # None =>
                   /\ ledger[k] # None
                   /\ l[k].cmd = ledger[k].cmd /\ l[k].origin = ledger[k].origin
                   /\ l[k].acked = ledger[k].acked
                   /\ \/ l[k].state = ledger[k].state
                      \/ ledger[k].state = "reserved" /\ l[k].state = "uncertain"

LEMMA PrunedFollows == \A l : Follows(l) => \A m \in Pruned(l) : Follows(m)
<1> SUFFICES ASSUME NEW l, Follows(l), NEW m \in Pruned(l) PROVE Follows(m)
  OBVIOUS
<1>1. PICK gone : m = [k \in Claims |-> IF k \in gone THEN None ELSE l[k]]
  BY PrunedEntries
<1>2. \A k \in Claims : m[k] = None \/ m[k] = l[k]
  BY <1>1
<1>3. m \in Ledgers
  BY <1>1 DEF Follows, Ledgers
<1> QED
  BY <1>2, <1>3 DEF Follows

LEMMA RecoveredFollows ==
  IInv => Follows(Recovered) /\ \A k \in Claims : Recovered[k] # None => Recovered[k].state # "reserved"
<1> SUFFICES ASSUME IInv PROVE Follows(Recovered)
                /\ \A k \in Claims : Recovered[k] # None => Recovered[k].state # "reserved"
  OBVIOUS
<1>1. \A k \in Claims : ledger[k] \in Entries \cup {None}
  BY DEF IInv, TypeOK, Ledgers
<1>2. ASSUME NEW k \in Claims, InDoubt(ledger[k])
      PROVE  /\ Recovered[k] \in Entries
             /\ Recovered[k].cmd = ledger[k].cmd /\ Recovered[k].origin = ledger[k].origin
             /\ Recovered[k].acked = ledger[k].acked /\ Recovered[k].state = "uncertain"
  <2>1. ledger[k] \in Entries /\ Recovered[k] = [ledger[k] EXCEPT !.state = "uncertain"]
    BY <1>1, <1>2 DEF Recovered, InDoubt
  <2> QED
    BY <2>1 DEF Entries, States, Terminal
<1>3. \A k \in Claims : ~InDoubt(ledger[k]) => Recovered[k] = ledger[k]
  BY DEF Recovered
<1>4. Recovered \in Ledgers
  <2>1. \A k \in Claims : Recovered[k] \in Entries \cup {None}
    BY <1>1, <1>2, <1>3
  <2> QED
    BY <2>1 DEF Recovered, Ledgers
<1> QED
  BY <1>2, <1>3, <1>4 DEF Follows, InDoubt

\* Noting the answer changes one flag of one entry.
LEMMA AckedEntries ==
  IInv => \A k \in Claims :
    /\ Acked(k) \in Ledgers
    /\ \A i \in Claims :
         /\ Acked(k)[i] = None <=> ledger[i] = None
         /\ i # k => Acked(k)[i] = ledger[i]
         /\ ledger[i] # None => /\ Acked(k)[i].cmd = ledger[i].cmd
                                /\ Acked(k)[i].origin = ledger[i].origin
                                /\ Acked(k)[i].state = ledger[i].state
<1> SUFFICES ASSUME IInv, NEW k \in Claims
             PROVE  /\ Acked(k) \in Ledgers
                    /\ \A i \in Claims :
                         /\ Acked(k)[i] = None <=> ledger[i] = None
                         /\ i # k => Acked(k)[i] = ledger[i]
                         /\ ledger[i] # None => /\ Acked(k)[i].cmd = ledger[i].cmd
                                                /\ Acked(k)[i].origin = ledger[i].origin
                                                /\ Acked(k)[i].state = ledger[i].state
  OBVIOUS
<1>1. ledger \in [Claims -> Entries \cup {None}]
  BY DEF IInv, TypeOK, Ledgers
<1>2. CASE ledger[k] = None
  BY <1>1, <1>2 DEF Acked, Ledgers
<1>3. CASE ledger[k] # None
  <2> DEFINE e == [ledger[k] EXCEPT !.acked = TRUE]
  <2>1. ledger[k] \in Entries
    BY <1>1, <1>3
  <2>2. e \in Entries /\ e.cmd = ledger[k].cmd /\ e.origin = ledger[k].origin /\ e.state = ledger[k].state
    BY <2>1 DEF Entries
  <2>3. Acked(k) = [ledger EXCEPT ![k] = e]
    BY <1>3 DEF Acked
  <2>4. e # None
    BY <2>2, Numbers
  <2> HIDE DEF e
  <2> QED
    BY <1>1, <1>3, <2>2, <2>3, <2>4 DEF Ledgers
<1> QED
  BY <1>2, <1>3

\* A backend that is told the truth about a claim takes it over or stays as it is.
Told(c, r, state) ==
  /\ queue' \in [Commands -> QueueRows]
  /\ \A d \in Commands :
       /\ queue'[d].claim = queue[d].claim
       /\ \/ queue'[d] = queue[d]
          \/ /\ d = c /\ queue[d].claim = r /\ queue[d].status = "claimed"
             /\ queue'[d].status = OutcomeOf(state)

LEMMA PostTells ==
  ASSUME IInv, NEW c \in Commands, NEW r \in Claims, NEW state \in Terminal, NEW origin,
         origin = Home(c), Unanswered(c, r, state, origin)
  PROVE  Told(c, r, state) /\ astray' = {}
<1>1. astray' = {}
  BY DEF Unanswered, Post, Sent, IInv, TypeOK
<1>2. CASE UNCHANGED queue
  BY <1>1, <1>2 DEF IInv, TypeOK, Told
<1>3. CASE queue' # queue
  <2> DEFINE w == [queue[c] EXCEPT !.status = OutcomeOf(state)]
  <2>1. queue' = [queue EXCEPT ![c] = w] /\ Taken(c, r, origin)
    BY <1>3 DEF Unanswered, Post
  <2>2. queue[c] \in QueueRows /\ queue[c].status = "claimed" /\ queue[c].claim = r
    BY <2>1 DEF Taken, IInv, TypeOK
  <2>3. w \in QueueRows /\ w.claim = queue[c].claim /\ w.status = OutcomeOf(state)
    BY <2>2 DEF QueueRows, OutcomeOf, Terminal
  <2> HIDE DEF w
  <2> QED
    BY <1>1, <2>1, <2>2, <2>3 DEF Told, IInv, TypeOK
<1> QED
  BY <1>1, <1>2, <1>3

LEMMA ToldBooks ==
  ASSUME IInv, NEW c \in Commands, NEW r \in Claims, NEW state \in Terminal,
         Told(c, r, state), Agrees(state, c), UNCHANGED <<request, asked, clicks>>
  PROVE  /\ RequestBook' /\ ClickBook'
         /\ \A d \in Commands :
              NoOutcome(d) => NoOutcome(d)' \/ (d = c /\ queue[d].claim = r /\ state # "uncertain")
<1>1. RequestBook'
  <2>1. \A d \in Commands : queue[d].status # "pending" => queue'[d].status # "pending"
    BY DEF Told, OutcomeOf
  <2> QED
    BY <2>1 DEF IInv, TypeOK, RequestBook, Told, RequestRows
<1>2. ASSUME NEW d \in Commands
      PROVE  /\ clicks[d] \in {0, 1}
             /\ queue'[d].status = "pending" => clicks[d] = 0
             /\ queue'[d].status = "delivered" => clicks[d] = 1
             /\ queue'[d].status = "failed" => clicks[d] = 0
             /\ NoOutcome(d) => NoOutcome(d)' \/ (d = c /\ queue[d].claim = r /\ state # "uncertain")
  <2>1. CASE queue'[d] = queue[d]
    BY <2>1 DEF IInv, ClickBook, NoOutcome
  <2>2. CASE d = c /\ queue[d].claim = r /\ queue'[d].status = OutcomeOf(state)
    <3>1. clicks[d] \in {0, 1}
      BY DEF IInv, ClickBook
    <3>2. CASE state = "sent"
      <4>1. queue'[d].status = "delivered"
        BY <2>2, <3>2 DEF OutcomeOf
      <4>2. clicks[c] = 1
        BY <3>2 DEF Agrees
      <4> QED
        BY <2>2, <3>1, <3>2, <4>1, <4>2
    <3>3. CASE state = "failed_pre_send"
      <4>1. queue'[d].status = "failed" /\ clicks[d] = 0
        BY <2>2, <3>3 DEF OutcomeOf, Agrees
      <4> QED
        BY <2>2, <3>1, <3>3, <4>1
    <3>4. CASE state = "uncertain"
      <4>1. queue'[d].status = "uncertain"
        BY <2>2, <3>4 DEF OutcomeOf
      <4> QED
        BY <2>2, <3>1, <4>1 DEF NoOutcome
    <3> QED
      BY <3>2, <3>3, <3>4 DEF Terminal
  <2> QED
    BY <2>1, <2>2 DEF Told
<1>3. ClickBook'
  BY <1>2 DEF ClickBook
<1> QED
  BY <1>1, <1>2, <1>3

\* A step of the poll alone that stays before the ledger mark
LEMMA PollForward ==
  ASSUME IInv, poll.pc \in {"guard", "insert", "recheck"},
         UNCHANGED <<backend, ledger, config, record, sw, beat>>,
         \/ \E pc \in {"insert", "recheck", "send"} : Step(pc)
         \/ \E state \in {"uncertain", "failed_pre_send"} : Decide(state)
  PROVE  IInv'
<1> USE DEF backend, record
<1>1. /\ poll' \in PollStates /\ poll'.req = poll.req
      /\ \/ poll'.pc \in {"insert", "recheck", "send"}
         \/ poll'.pc = "mark" /\ poll'.state \in {"uncertain", "failed_pre_send"}
  BY DEF IInv, TypeOK, PollStates, Working, States, Terminal, Step, Decide
<1>2. TypeOK' /\ RequestBook' /\ ClickBook' /\ LedgerBook'
  BY <1>1 DEF IInv, TypeOK, RequestBook, ClickBook, LedgerBook, EntryOf, Agrees
<1>3. PollBook'
  BY <1>1 DEF IInv, PollBook, Cmd, Fresh, Working, NoOutcome, Agrees
<1>4. BeatBook'
  BY <1>1 DEF IInv, BeatBook, EntryOf, Agrees, AtWork, Fresh
<1> QED
  BY <1>2, <1>3, <1>4 DEF IInv

LEMMA GuardKeeps == ASSUME IInv, Guard PROVE IInv'
BY PollForward DEF Guard
LEMMA InsertKeeps == ASSUME IInv, Insert PROVE IInv'
BY PollForward DEF Insert
LEMMA RecheckKeeps == ASSUME IInv, Recheck PROVE IInv'
BY PollForward DEF Recheck

\* The poll ends, and the service worker may take note of a problem.
LEMMA PollEnds ==
  ASSUME IInv, poll' = NoPoll, sw' \in SwStates, sw'.bound = sw.bound,
         UNCHANGED <<request, asked, ledger, config, clicks, beat>>,
         RequestBook', ClickBook', queue' \in [Commands -> QueueRows], astray' = {}
  PROVE  IInv'
<1>1. TypeOK'
  BY DEF IInv, TypeOK, NoPoll, PollStates, States, Working
<1>2. PollBook'
  BY DEF PollBook, NoPoll, Working, Fresh
<1>3. LedgerBook'
  BY DEF IInv, LedgerBook, EntryOf, Agrees
<1>4. BeatBook'
  BY DEF IInv, BeatBook, EntryOf, Agrees, AtWork, Fresh, NoPoll
<1> QED
  BY <1>1, <1>2, <1>3, <1>4 DEF IInv

LEMMA PollPassKeeps == ASSUME IInv, PollPass PROVE IInv'
<1>1. sw' \in SwStates /\ sw'.bound = sw.bound
  BY DEF PollPass, IInv, TypeOK, SwStates
<1>2. RequestBook' /\ ClickBook' /\ queue' \in [Commands -> QueueRows] /\ astray' = {}
  BY DEF PollPass, backend, record, IInv, TypeOK, RequestBook, ClickBook
<1> QED
  BY <1>1, <1>2, PollEnds DEF PollPass, backend, record

LEMMA PollReadKeeps == ASSUME IInv, PollRead PROVE IInv'
<1> USE DEF backend, record
<1>1. sw' \in SwStates /\ sw'.bound = sw.bound /\ sw'.up
  BY DEF PollRead, IInv, TypeOK, SwStates
<1>2. poll' \in PollStates /\ poll'.pc \in {"idle", "look"}
  BY DEF PollRead, IInv, TypeOK, PollStates
<1>3. TypeOK' /\ RequestBook' /\ ClickBook' /\ LedgerBook'
  BY <1>1, <1>2 DEF PollRead, IInv, TypeOK, RequestBook, ClickBook, LedgerBook, EntryOf, Agrees
<1>4. PollBook'
  BY <1>1, <1>2 DEF PollBook, Working, Fresh
<1>5. BeatBook'
  BY <1>1, <1>2 DEF PollRead, IInv, BeatBook, EntryOf, Agrees, AtWork, Fresh
<1> QED
  BY <1>3, <1>4, <1>5 DEF IInv

LEMMA PollStartKeeps == ASSUME IInv, PollStart PROVE IInv'
<1> DEFINE r == asked + 1
           w == [request[r] EXCEPT !.origin = sw.bound]
<1>1. asked \in Nat /\ r \in Claims /\ asked < r /\ \A k \in Claims : k <= asked => k <= r /\ k # r
  BY Numbers, ExtensionAssumption DEF PollStart, IInv, TypeOK, Claims
<1>2. /\ request' = [request EXCEPT ![r] = w] /\ asked' = r
      /\ poll' = [NoPoll EXCEPT !.pc = "claim", !.req = r]
      /\ UNCHANGED <<queue, ledger, config, clicks, astray, sw, beat>>
  BY DEF PollStart, record
<1>3. request[r].cmd = None /\ ledger[r] = None /\ beat.left[r] = None /\ ~(beat.pc = "note" /\ beat.k = r)
  BY <1>1 DEF IInv, RequestBook, LedgerBook, BeatBook, EntryOf
<1>4. w \in RequestRows /\ w.cmd = None
  BY <1>1, <1>3 DEF IInv, TypeOK, RequestRows, SwStates
<1>5. /\ poll' \in PollStates /\ poll'.pc = "claim" /\ poll'.req = r
  BY <1>1, <1>2 DEF NoPoll, PollStates, Working, States
<1>6. sw.up
  BY DEF PollStart, IInv, PollBook
<1> HIDE DEF r, w
<1>7. TypeOK'
  BY <1>1, <1>2, <1>4, <1>5 DEF IInv, TypeOK
<1>8. /\ request'[r] = w
      /\ \A k \in Claims : k # r => request'[k] = request[k]
  BY <1>1, <1>2 DEF IInv, TypeOK
<1>9. RequestBook' /\ ClickBook'
  <2>1. ASSUME NEW k \in Claims, k # r
        PROVE  /\ request'[k].origin # None => k <= asked'
               /\ request'[k].cmd # None =>
                    /\ request'[k].done /\ k <= asked'
                    /\ request'[k].origin = Home(request'[k].cmd)
                    /\ queue'[request'[k].cmd].claim = k
                    /\ queue'[request'[k].cmd].status # "pending"
    <3>1. request'[k] = request[k] /\ asked' = r /\ queue' = queue /\ (k <= asked => k <= r)
      BY <1>1, <1>2, <1>8, <2>1
    <3> QED
      BY <3>1 DEF IInv, RequestBook
  <2>2. r <= r
    BY <1>1, Numbers
  <2>3. RequestBook'
    BY <1>2, <1>4, <1>8, <2>1, <2>2 DEF RequestBook
  <2>4. ClickBook'
    BY <1>2 DEF IInv, ClickBook
  <2> QED
    BY <2>3, <2>4
<1>10. PollBook'
  <2>1. poll'.pc = "claim" /\ poll'.req = r /\ asked' = r /\ ledger'[r] = None /\ sw'.up
        /\ request'[r].cmd = None /\ r <= r
    BY <1>1, <1>2, <1>3, <1>4, <1>5, <1>6, <1>8, Numbers
  <2> QED
    BY <1>1, <2>1 DEF PollBook, Cmd, Fresh, Working
<1>11. LedgerBook'
  BY <1>1, <1>2, <1>3, <1>8 DEF IInv, LedgerBook, EntryOf, Agrees
<1>12. BeatBook'
  BY <1>1, <1>2, <1>3, <1>5, <1>8 DEF IInv, BeatBook, EntryOf, Agrees, AtWork
<1> QED
  BY <1>7, <1>9, <1>10, <1>11, <1>12 DEF IInv

LEMMA PollAnswerKeeps == ASSUME IInv, PollAnswer PROVE IInv'
<1> USE DEF backend, record
<1>0. RequestBook' /\ ClickBook' /\ queue' \in [Commands -> QueueRows] /\ astray' = {}
  BY DEF PollAnswer, IInv, TypeOK, RequestBook, ClickBook
<1>1. CASE request[poll.req].done /\ Cmd # None /\ Step("reserve") /\ UNCHANGED sw
  <2>1. /\ poll' \in PollStates /\ poll'.req = poll.req /\ poll'.pc = "reserve" /\ poll.pc = "claim"
    BY <1>1 DEF PollAnswer, IInv, TypeOK, PollStates, Working, Step
  <2>2. TypeOK' /\ LedgerBook'
    BY <1>1, <2>1 DEF PollAnswer, IInv, TypeOK, LedgerBook, EntryOf, Agrees
  <2>3. PollBook'
    BY <1>1, <2>1 DEF PollAnswer, IInv, PollBook, Cmd, Fresh, Working, NoOutcome
  <2>4. BeatBook'
    BY <1>1, <2>1 DEF PollAnswer, IInv, BeatBook, EntryOf, Agrees, AtWork, Fresh
  <2> QED
    BY <1>0, <2>2, <2>3, <2>4 DEF IInv
<1>2. CASE poll' = NoPoll /\ sw' \in {sw, [sw EXCEPT !.ready = FALSE]}
  <2>1. sw' \in SwStates /\ sw'.bound = sw.bound
    BY <1>2 DEF IInv, TypeOK, SwStates
  <2> QED
    BY <1>0, <1>2, <2>1, PollEnds DEF PollAnswer
<1> QED
  BY <1>1, <1>2 DEF PollAnswer

LEMMA StopKeeps == ASSUME IInv, Stop PROVE IInv'
<1> USE Numbers DEF IInv, Stop, Agrees, NoOutcome, AtWork, EntryOf, Fresh, Working, Terminal,
                 States, Entries, Cmd, Origin, Step, Decide, NoPoll, NoBeat, Started, backend, record
<1>1. TypeOK'
  BY DEF TypeOK, QueueRows, Ledgers, SwStates, PollStates, BeatStates
<1>2. RequestBook'
  BY DEF TypeOK, RequestBook
<1>3. ClickBook'
  BY DEF TypeOK, ClickBook
<1>4. PollBook'
  BY DEF TypeOK, PollBook
<1>5. LedgerBook'
  BY DEF TypeOK, LedgerBook
<1>6. BeatBook'
  BY DEF TypeOK, BeatBook
<1> QED
  BY <1>1, <1>2, <1>3, <1>4, <1>5, <1>6

LEMMA BeatEndKeeps == ASSUME IInv, BeatEnd PROVE IInv'
<1> USE Numbers DEF IInv, BeatEnd, Agrees, NoOutcome, AtWork, EntryOf, Fresh, Working, Terminal,
                 States, Entries, Cmd, Origin, Step, Decide, NoPoll, NoBeat, Started, backend, record
<1>1. TypeOK'
  BY DEF TypeOK, QueueRows, Ledgers, SwStates, PollStates, BeatStates
<1>2. RequestBook'
  BY DEF TypeOK, RequestBook
<1>3. ClickBook'
  BY DEF TypeOK, ClickBook
<1>4. PollBook'
  BY DEF TypeOK, PollBook
<1>5. LedgerBook'
  BY DEF TypeOK, LedgerBook
<1>6. BeatBook'
  BY DEF TypeOK, BeatBook
<1> QED
  BY <1>1, <1>2, <1>3, <1>4, <1>5, <1>6

LEMMA ConfigureKeeps == ASSUME IInv, Configure PROVE IInv'
<1> USE Numbers DEF IInv, Configure, Agrees, NoOutcome, AtWork, EntryOf, Fresh, Working, Terminal,
                 States, Entries, Cmd, Origin, Step, Decide, NoPoll, NoBeat, Started, backend, record
<1>1. TypeOK'
  BY DEF TypeOK, QueueRows, Ledgers, SwStates, PollStates, BeatStates
<1>2. RequestBook'
  BY DEF TypeOK, RequestBook
<1>3. ClickBook'
  BY DEF TypeOK, ClickBook
<1>4. PollBook'
  BY DEF TypeOK, PollBook
<1>5. LedgerBook'
  BY DEF TypeOK, LedgerBook
<1>6. BeatBook'
  BY DEF TypeOK, BeatBook
<1> QED
  BY <1>1, <1>2, <1>3, <1>4, <1>5, <1>6

LEMMA ExpireKeeps == ASSUME IInv, NEW c \in Commands, Expire(c) PROVE IInv'
<1> DEFINE w == [queue[c] EXCEPT !.status = "uncertain"]
<1>1. /\ queue' = [queue EXCEPT ![c] = w] /\ queue[c] \in QueueRows /\ queue[c].status = "claimed"
      /\ UNCHANGED <<request, asked, ledger, config, clicks, astray, sw, poll, beat>>
  BY DEF Expire, record, IInv, TypeOK
<1>2. w \in QueueRows /\ w.claim = queue[c].claim /\ w.status = "uncertain"
  BY <1>1 DEF QueueRows
<1> HIDE DEF w
<1>3. /\ queue' \in [Commands -> QueueRows]
      /\ \A d \in Commands : /\ queue'[d].claim = queue[d].claim
                             /\ \/ queue'[d].status = queue[d].status
                                \/ queue[d].status = "claimed" /\ queue'[d].status = "uncertain"
  <2>1. /\ queue' \in [Commands -> QueueRows] /\ queue'[c] = w
        /\ \A d \in Commands : d # c => queue'[d] = queue[d]
    BY <1>1, <1>2 DEF IInv, TypeOK
  <2> QED
    BY <1>1, <1>2, <2>1
<1>4. TypeOK'
  BY <1>1, <1>3 DEF IInv, TypeOK
<1>5. RequestBook'
  BY <1>1, <1>3 DEF IInv, TypeOK, RequestRows, RequestBook
<1>6. ClickBook'
  BY <1>1, <1>3 DEF IInv, ClickBook
<1>7. PollBook'
  <2>1. poll.pc \in Working /\ Cmd # None => Cmd \in Commands
    BY DEF IInv, TypeOK, PollBook, RequestRows, Cmd
  <2>2. poll.pc \in Working /\ Cmd # None => (NoOutcome(Cmd) => NoOutcome(Cmd)')
    BY <1>1, <1>3, <2>1 DEF NoOutcome, Cmd
  <2> QED
    BY <1>1, <2>2 DEF IInv, PollBook, Cmd, Agrees, Fresh, Working
<1>8. LedgerBook' /\ BeatBook'
  BY <1>1 DEF IInv, LedgerBook, BeatBook, EntryOf, Agrees, AtWork
<1> QED
  BY <1>4, <1>5, <1>6, <1>7, <1>8 DEF IInv

LEMMA ServerClaimKeeps == ASSUME IInv, NEW r \in Claims, ServerClaim(r) PROVE IInv'
<1>1. /\ request[r] \in RequestRows /\ request[r].origin # None /\ request[r].done = FALSE
      /\ request[r].cmd = None /\ r <= asked
      /\ UNCHANGED <<asked, ledger, config, clicks, astray, sw, poll, beat>>
  BY DEF ServerClaim, record, IInv, TypeOK, RequestBook, RequestRows
<1>2. /\ ledger[r] = None /\ beat.left[r] = None
      /\ poll.pc \in Working \ {"claim"} => poll.req # r
  BY <1>1, Numbers DEF IInv, TypeOK, LedgerBook, BeatBook, PollBook, EntryOf, Ledgers, Entries, BeatStates, Cmd
<1>3. CASE \E c \in Commands :
             /\ Home(c) = request[r].origin /\ queue[c].status = "pending"
             /\ queue' = [queue EXCEPT ![c] = [status |-> "claimed", claim |-> r]]
             /\ request' = [request EXCEPT ![r].done = TRUE, ![r].cmd = c]
  <2> PICK c \in Commands :
             /\ Home(c) = request[r].origin /\ queue[c].status = "pending"
             /\ queue' = [queue EXCEPT ![c] = [status |-> "claimed", claim |-> r]]
             /\ request' = [request EXCEPT ![r].done = TRUE, ![r].cmd = c]
    BY <1>3
  <2> DEFINE w == [request[r] EXCEPT !.done = TRUE, !.cmd = c]
             v == [status |-> "claimed", claim |-> r]
  <2>1. request' = [request EXCEPT ![r] = w] /\ queue' = [queue EXCEPT ![c] = v]
    BY DEF IInv, TypeOK
  <2>2. w \in RequestRows /\ w.origin = request[r].origin /\ w.cmd = c /\ w.done
    BY <1>1 DEF RequestRows
  <2>3. v \in QueueRows /\ v.status = "claimed" /\ v.claim = r
    BY DEF QueueRows
  <2> HIDE DEF w, v
  <2>4. /\ request'[r] = w /\ \A k \in Claims : k # r => request'[k] = request[k]
        /\ queue'[c] = v /\ \A d \in Commands : d # c => queue'[d] = queue[d]
        /\ request' \in [Claims -> RequestRows] /\ queue' \in [Commands -> QueueRows]
    <3>1. request \in [Claims -> RequestRows] /\ queue \in [Commands -> QueueRows]
      BY DEF IInv, TypeOK
    <3>2. /\ request'[r] = w /\ \A k \in Claims : k # r => request'[k] = request[k]
          /\ request' \in [Claims -> RequestRows]
      <4>1. request'[r] = w /\ \A k \in Claims : k # r => request'[k] = request[k]
        BY <2>1, <3>1
      <4>2. DOMAIN request' = Claims
        BY <2>1, <3>1
      <4>3. request' = [k \in Claims |-> request'[k]]
        BY <2>1, <3>1
      <4>4. \A k \in Claims : request'[k] \in RequestRows
        BY <2>2, <3>1, <4>1
      <4> QED
        BY <4>1, <4>3, <4>4
    <3>3. /\ queue'[c] = v /\ \A d \in Commands : d # c => queue'[d] = queue[d]
          /\ queue' \in [Commands -> QueueRows]
      BY <2>1, <2>3, <3>1
    <3> QED
      BY <3>2, <3>3
  <2>5. clicks[c] = 0 /\ c # None /\ \A k \in Claims : k # r => request[k].cmd # c
    BY Numbers DEF IInv, ClickBook, RequestBook
  <2>6. TypeOK'
    BY <1>1, <2>4 DEF IInv, TypeOK
  <2>7. RequestBook'
    <3>1. ASSUME NEW k \in Claims, k # r
          PROVE  /\ request'[k].origin # None => k <= asked
                 /\ request'[k].cmd # None =>
                      /\ request'[k].done /\ k <= asked
                      /\ request'[k].origin = Home(request'[k].cmd)
                      /\ queue'[request'[k].cmd].claim = k
                      /\ queue'[request'[k].cmd].status # "pending"
      <4>1. request[k].cmd # None =>
              request[k].cmd \in Commands /\ queue'[request[k].cmd] = queue[request[k].cmd]
        BY <2>4, <2>5, <3>1 DEF IInv, TypeOK, RequestRows
      <4> QED
        BY <2>4, <3>1, <4>1 DEF IInv, RequestBook
    <3>2. request'[r].cmd = c /\ request'[r].done /\ request'[r].origin = Home(c)
          /\ queue'[c].claim = r /\ queue'[c].status # "pending"
      BY <2>2, <2>3, <2>4
    <3> QED
      BY <1>1, <3>1, <3>2 DEF RequestBook
  <2>8. ClickBook'
    BY <1>1, <2>3, <2>4, <2>5 DEF IInv, ClickBook
  <2>9. PollBook'
    <3>1. CASE poll.pc = "claim" /\ poll.req = r
      <4>1. Cmd' = c /\ NoOutcome(c)'
        BY <1>1, <2>2, <2>3, <2>4, <3>1 DEF Cmd, NoOutcome
      <4> QED
        BY <1>1, <2>5, <3>1, <4>1 DEF IInv, PollBook, Fresh, Working
    <3>2. CASE poll.pc \in Working /\ poll.req # r
      <4>1. poll.req \in Claims /\ Cmd' = Cmd /\ Cmd # c
            /\ (Cmd # None => Cmd \in Commands /\ queue'[Cmd] = queue[Cmd])
        BY <1>1, <2>4, <2>5, <3>2 DEF IInv, TypeOK, PollBook, Cmd, RequestRows
      <4> QED
        BY <1>1, <3>2, <4>1 DEF IInv, PollBook, NoOutcome, Agrees
    <3>3. CASE poll.pc \notin Working
      BY <1>1, <3>3 DEF IInv, PollBook, Fresh, Working
    <3> QED
      BY <1>2, <3>1, <3>2, <3>3
  <2>10. LedgerBook' /\ BeatBook'
    BY <1>1, <1>2, <2>4 DEF IInv, LedgerBook, BeatBook, EntryOf, Agrees, AtWork
  <2> QED
    BY <2>6, <2>7, <2>8, <2>9, <2>10 DEF IInv
<1>4. CASE request' = [request EXCEPT ![r].done = TRUE] /\ UNCHANGED queue
  <2> DEFINE w == [request[r] EXCEPT !.done = TRUE]
  <2>1. request' = [request EXCEPT ![r] = w]
    BY <1>4 DEF IInv, TypeOK
  <2>2. w \in RequestRows /\ w.origin = request[r].origin /\ w.cmd = None
    BY <1>1 DEF RequestRows
  <2> HIDE DEF w
  <2>3. /\ \A k \in Claims : /\ request'[k].origin = request[k].origin /\ request'[k].cmd = request[k].cmd
                             /\ k # r => request'[k] = request[k]
        /\ request' \in [Claims -> RequestRows]
    BY <1>1, <2>1, <2>2 DEF IInv, TypeOK
  <2>4. TypeOK' /\ ClickBook' /\ LedgerBook' /\ BeatBook'
    BY <1>1, <1>4, <2>3 DEF IInv, TypeOK, ClickBook, LedgerBook, BeatBook, EntryOf, Agrees, AtWork
  <2>5. RequestBook'
    BY <1>1, <1>4, <2>3 DEF IInv, RequestBook
  <2>6. PollBook'
    <3>1. poll.pc \in Working => Cmd' = Cmd
      BY <1>1, <2>3 DEF IInv, PollBook, Cmd
    <3> QED
      BY <1>1, <1>4, <3>1 DEF IInv, PollBook, NoOutcome, Agrees, Fresh, Working
  <2> QED
    BY <2>4, <2>5, <2>6 DEF IInv
<1> QED
  BY <1>3, <1>4 DEF ServerClaim

LEMMA BeatReadKeeps == ASSUME IInv, BeatRead PROVE IInv'
<1>1. /\ beat.pc = "idle" /\ \A k \in Claims : beat.left[k] = None
      /\ UNCHANGED <<queue, request, asked, ledger, config, clicks, astray, poll>>
  BY DEF BeatRead, backend, record, IInv, BeatBook
<1>2. /\ beat' \in BeatStates /\ beat'.pc \in {"idle", "report"} /\ beat'.left = beat.left
  <2>1. CASE UNCHANGED beat
    BY <1>1, <2>1 DEF IInv, TypeOK
  <2>2. CASE beat' = [beat EXCEPT !.pc = "report"]
    BY <2>2 DEF IInv, TypeOK, BeatStates
  <2> QED
    BY <2>1, <2>2 DEF BeatRead
<1>3. sw' \in SwStates /\ sw'.up = sw.up
  <2>1. CASE config = None
    BY <2>1 DEF BeatRead, IInv, TypeOK, SwStates, Started
  <2>2. CASE config # None
    BY <2>2 DEF BeatRead, IInv, TypeOK, SwStates
  <2> QED
    BY <2>1, <2>2
<1>4. TypeOK' /\ RequestBook' /\ ClickBook' /\ LedgerBook'
  BY <1>1, <1>2, <1>3 DEF IInv, TypeOK, RequestBook, ClickBook, LedgerBook, EntryOf, Agrees
<1>5. PollBook'
  BY <1>1, <1>3 DEF IInv, PollBook, Cmd, Agrees, NoOutcome
<1>6. BeatBook'
  BY <1>1, <1>2 DEF BeatBook
<1> QED
  BY <1>4, <1>5, <1>6 DEF IInv

LEMMA BeatReportKeeps == ASSUME IInv, BeatReport PROVE IInv'
<1>1. beat.pc = "report" /\ UNCHANGED <<queue, request, asked, ledger, config, clicks, astray, poll>>
  BY DEF BeatReport, backend, record
<1>2. sw' \in SwStates /\ sw'.up = sw.up /\ sw'.bound = sw.bound
  <2>1. CASE sw' \in {[sw EXCEPT !.ready = ready] : ready \in BOOLEAN}
    <3> PICK ready \in BOOLEAN : sw' = [sw EXCEPT !.ready = ready]
      BY <2>1
    <3> QED
      BY DEF IInv, TypeOK, SwStates
  <2>2. CASE sw' = [sw EXCEPT !.ready = FALSE]
    BY <2>2 DEF IInv, TypeOK, SwStates
  <2> QED
    BY <2>1, <2>2 DEF BeatReport
<1>3. PollBook'
  BY <1>1, <1>2 DEF IInv, PollBook, Cmd, Agrees, NoOutcome
<1>4. /\ beat' \in BeatStates
      /\ \A k \in Claims : beat'.left[k] = None \/ (beat'.left[k] = ledger[k] /\ MayAck(ledger[k], sw.bound))
      /\ \A k \in Claims : beat'.left[k] # None => beat'.pc = "ack"
      /\ beat'.pc # "note"
  <2>1. CASE beat' = NoBeat
    BY <2>1 DEF NoBeat, BeatStates, Ledgers
  <2>2. CASE beat' = [NoBeat EXCEPT !.pc = "ack",
                        !.left = [k \in Claims |-> IF MayAck(ledger[k], sw.bound)
                                                   THEN ledger[k] ELSE None]]
    <3> DEFINE f == [k \in Claims |-> IF MayAck(ledger[k], sw.bound) THEN ledger[k] ELSE None]
    <3>1. f \in Ledgers
      BY DEF IInv, TypeOK, Ledgers
    <3>2. \A k \in Claims : f[k] = None \/ (f[k] = ledger[k] /\ MayAck(ledger[k], sw.bound))
      OBVIOUS
    <3>3. beat' = [pc |-> "ack", left |-> f, k |-> 0]
      BY <2>2 DEF NoBeat
    <3> HIDE DEF f
    <3> QED
      BY <3>1, <3>2, <3>3 DEF BeatStates
  <2> QED
    BY <2>1, <2>2 DEF BeatReport
<1>5. TypeOK' /\ RequestBook' /\ ClickBook' /\ LedgerBook'
  BY <1>1, <1>2, <1>4 DEF IInv, TypeOK, RequestBook, ClickBook, LedgerBook, EntryOf, Agrees
<1>6. \A k \in Claims : MayAck(ledger[k], sw.bound) =>
        /\ EntryOf(k, ledger[k]) /\ ledger[k].state # "reserved" /\ ledger[k].origin = sw.bound
        /\ ~AtWork(k)
  <2> SUFFICES ASSUME NEW k \in Claims, MayAck(ledger[k], sw.bound)
               PROVE  /\ EntryOf(k, ledger[k]) /\ ledger[k].state # "reserved" /\ ledger[k].origin = sw.bound
                      /\ ~AtWork(k)
    OBVIOUS
  <2>1. ledger[k] # None /\ ledger[k].state # "reserved" /\ ledger[k].origin = sw.bound
    BY DEF MayAck
  <2>2. EntryOf(k, ledger[k])
    BY <2>1 DEF IInv, LedgerBook
  <2>3. ~AtWork(k)
    BY <2>1 DEF IInv, PollBook, AtWork, Fresh
  <2> QED
    BY <2>1, <2>2, <2>3
<1>7. \A k \in Claims : \A e : EntryOf(k, e) => EntryOf(k, e)'
  BY <1>1 DEF EntryOf, Agrees
<1>8. \A k \in Claims : AtWork(k)' <=> AtWork(k)
  BY <1>1 DEF AtWork
<1>9. BeatBook'
  <2> SUFFICES ASSUME NEW k \in Claims
               PROVE  /\ beat'.left[k] # None =>
                           /\ beat'.pc \in {"ack", "note"}
                           /\ EntryOf(k, beat.left[k])' /\ beat'.left[k].state # "reserved"
                           /\ beat'.left[k].origin = sw'.bound
                           /\ ~AtWork(k)'
                           /\ ledger'[k] # None => ledger'[k].state # "reserved"
                      /\ ~(beat'.pc = "note" /\ beat'.k = k)
    BY DEF BeatBook
  <2>1. beat'.pc # "note"
    BY <1>4
  <2>2. ASSUME beat'.left[k] # None
        PROVE  /\ beat'.pc \in {"ack", "note"}
               /\ EntryOf(k, beat.left[k])' /\ beat'.left[k].state # "reserved"
               /\ beat'.left[k].origin = sw'.bound
               /\ ~AtWork(k)'
               /\ ledger'[k] # None => ledger'[k].state # "reserved"
    <3>1. beat'.left[k] = ledger[k] /\ MayAck(ledger[k], sw.bound) /\ beat'.pc = "ack"
      BY <1>4, <2>2
    <3>2. EntryOf(k, beat.left[k])'
      BY <1>1, <1>6, <3>1 DEF EntryOf, Agrees
    <3> QED
      BY <1>1, <1>2, <1>6, <1>8, <3>1, <3>2
  <2> QED
    BY <2>1, <2>2
<1> QED
  BY <1>3, <1>5, <1>9 DEF IInv

LEMMA SendKeeps == ASSUME IInv, Send PROVE IInv'
<1>1. /\ poll.pc = "send" /\ poll.req \in Claims /\ Cmd \in Commands /\ Cmd # None
      /\ UNCHANGED <<queue, request, asked, ledger, config, astray, sw, beat>>
      /\ clicks[Cmd] = 0 /\ NoOutcome(Cmd)
      /\ ledger[poll.req] # None /\ ledger[poll.req].state = "reserved"
  BY PollFacts, Numbers DEF Send, backend, IInv, PollBook, Working, Fresh
<1>2. /\ poll' \in PollStates /\ poll'.pc = "mark" /\ poll'.req = poll.req /\ Cmd' = Cmd
      /\ poll'.state \in {"sent", "failed_pre_send", "uncertain"}
  BY <1>1 DEF Send, Decide, InDoubtSend, IInv, TypeOK, PollStates, Working, States, Terminal, Cmd
<1>3. /\ clicks' \in [Commands -> Nat]
      /\ \A d \in Commands : d # Cmd => clicks'[d] = clicks[d]
      /\ clicks'[Cmd] \in {0, 1}
      /\ Agrees(poll.state, Cmd)'
  <2>1. CASE clicks' = [clicks EXCEPT ![Cmd] = @ + 1] /\ (Decide("sent") \/ InDoubtSend)
    <3>1. clicks'[Cmd] = 1 /\ \A d \in Commands : d # Cmd => clicks'[d] = clicks[d]
      BY <1>1, <2>1 DEF IInv, TypeOK
    <3>2. clicks' \in [Commands -> Nat]
      BY <1>1, <2>1 DEF IInv, TypeOK
    <3>3. poll'.state # "failed_pre_send"
      BY <1>1, <2>1 DEF Decide, InDoubtSend, IInv, TypeOK, PollStates
    <3> QED
      BY <1>2, <3>1, <3>2, <3>3 DEF Agrees
  <2>2. CASE UNCHANGED clicks /\ (Decide("failed_pre_send") \/ InDoubtSend)
    <3>1. poll'.state # "sent"
      BY <1>1, <2>2 DEF Decide, InDoubtSend, IInv, TypeOK, PollStates
    <3>2. clicks'[Cmd] = 0
      BY <1>1, <2>2
    <3> QED
      BY <1>1, <1>2, <2>2, <3>1, <3>2 DEF IInv, TypeOK, Agrees
  <2> QED
    BY <2>1, <2>2 DEF Send
<1>4. TypeOK' /\ RequestBook'
  BY <1>1, <1>2, <1>3 DEF IInv, TypeOK, RequestBook
<1>5. ClickBook'
  <2> SUFFICES ASSUME NEW d \in Commands
               PROVE  /\ clicks'[d] \in {0, 1}
                      /\ queue[d].status = "pending" => clicks'[d] = 0
                      /\ queue[d].status = "delivered" => clicks'[d] = 1
                      /\ queue[d].status = "failed" => clicks'[d] = 0
    BY <1>1 DEF ClickBook
  <2>1. CASE d = Cmd
    <3>1. queue[d].status # "pending"
      BY <1>1, <2>1 DEF IInv, RequestBook, Cmd
    <3> QED
      BY <1>1, <1>3, <2>1, <3>1 DEF NoOutcome
  <2>2. CASE d # Cmd
    BY <1>3, <2>2 DEF IInv, ClickBook
  <2> QED
    BY <2>1, <2>2
<1>6. PollBook'
  BY <1>1, <1>2, <1>3 DEF IInv, PollBook, Cmd, NoOutcome, Fresh, Working
<1>7. \A k \in Claims : k # poll.req /\ request[k].cmd # None =>
         request[k].cmd \in Commands /\ clicks'[request[k].cmd] = clicks[request[k].cmd]
  BY <1>1, <1>3, OneRequest DEF Cmd, IInv, TypeOK, RequestRows
<1>8. \A k \in Claims : \A e \in Entries :
        EntryOf(k, e) /\ (k # poll.req \/ e.state = "reserved") => EntryOf(k, e)'
  <2> SUFFICES ASSUME NEW k \in Claims, NEW e \in Entries, EntryOf(k, e),
                      k # poll.req \/ e.state = "reserved"
               PROVE  EntryOf(k, e)'
    OBVIOUS
  <2>1. CASE e.state = "reserved"
    BY <1>1, <2>1 DEF EntryOf, Agrees
  <2>2. CASE k # poll.req
    <3>1. request[k].cmd = e.cmd /\ e.cmd # None
      BY Numbers DEF EntryOf, Entries
    <3>2. clicks'[e.cmd] = clicks[e.cmd]
      BY <1>7, <2>2, <3>1
    <3> QED
      BY <1>1, <3>2 DEF EntryOf, Agrees
  <2> QED
    BY <2>1, <2>2
<1>9. LedgerBook'
  BY <1>1, <1>8 DEF IInv, TypeOK, Ledgers, LedgerBook, EntryOf
<1>10. BeatBook'
  <2>1. \A k \in Claims : AtWork(k)' <=> AtWork(k)
    BY <1>1, <1>2 DEF AtWork, Fresh
  <2>2. AtWork(poll.req)
    BY <1>1 DEF AtWork, Fresh
  <2>3. \A k \in Claims : beat.left[k] # None => k # poll.req /\ beat.left[k] \in Entries
    BY <2>2 DEF IInv, BeatBook, TypeOK, BeatStates, Ledgers
  <2> QED
    BY <1>1, <1>8, <2>1, <2>3 DEF IInv, BeatBook, EntryOf
<1> QED
  BY <1>4, <1>5, <1>6, <1>9, <1>10 DEF IInv

\* A ledger in which entries were noted as answered, or removed
Trimmed(l) == /\ l \in Ledgers
              /\ \A k \in Claims : l[k] # None =>
                   /\ ledger[k] # None
                   /\ l[k].cmd = ledger[k].cmd /\ l[k].origin = ledger[k].origin
                   /\ l[k].state = ledger[k].state
                   /\ l[k].state = "reserved" => ~l[k].acked

LEMMA Trims ==
  ASSUME IInv, Trimmed(ledger'), UNCHANGED <<backend, config, record, sw>>,
         poll' \in PollStates, \A k \in Claims : AtWork(k)' => AtWork(k),
         beat' \in BeatStates, beat'.left = beat.left,
         \/ beat'.pc = beat.pc /\ beat'.k = beat.k
         \/ beat'.pc = "ack" /\ beat.pc \in {"ack", "note"}
  PROVE  TypeOK' /\ RequestBook' /\ ClickBook' /\ LedgerBook' /\ BeatBook'
<1> USE DEF backend, record
<1>1. TypeOK' /\ RequestBook' /\ ClickBook'
  BY DEF Trimmed, IInv, TypeOK, RequestBook, ClickBook
<1>2. LedgerBook'
  BY DEF Trimmed, IInv, LedgerBook, EntryOf, Agrees
<1>3. BeatBook'
  BY DEF Trimmed, IInv, BeatBook, EntryOf, Agrees
<1> QED
  BY <1>1, <1>2, <1>3

LEMMA BeatNoteKeeps == ASSUME IInv, NEW k \in Claims, BeatNote(k) PROVE IInv'
<1>1. /\ beat.pc = "note" /\ beat.k = k /\ ~AtWork(k) /\ (ledger[k] # None => ledger[k].state # "reserved")
      /\ UNCHANGED <<backend, config, record, sw, poll>>
  BY DEF BeatNote, IInv, BeatBook
<1>2. Trimmed(ledger') /\ \A i \in Claims : i # k => ledger'[i] = ledger[i]
  <2>1. CASE ledger' = ledger
    BY <2>1 DEF IInv, TypeOK, LedgerBook, Trimmed
  <2>2. CASE ledger' = Acked(k)
    BY <1>1, <2>2, AckedEntries DEF IInv, LedgerBook, Trimmed
  <2> QED
    BY <2>1, <2>2 DEF BeatNote
<1>3. beat' \in BeatStates /\ beat'.left = beat.left /\ beat'.pc = "ack"
  BY DEF BeatNote, IInv, TypeOK, BeatStates
<1>4. TypeOK' /\ RequestBook' /\ ClickBook' /\ LedgerBook' /\ BeatBook'
  <2>1. poll' \in PollStates /\ \A i \in Claims : AtWork(i)' => AtWork(i)
    BY <1>1 DEF IInv, TypeOK, AtWork
  <2> QED
    BY <1>1, <1>2, <1>3, <2>1, Trims
<1>5. PollBook'
  <2>1. poll.pc \in {"claim", "reserve", "guard", "insert", "recheck", "send", "mark"} =>
           poll.req \in Claims /\ ledger'[poll.req] = ledger[poll.req]
    BY <1>1, <1>2, PollFacts DEF AtWork, Fresh, Working
  <2>2. poll.pc \in Working => poll.req \in Claims
    BY PollFacts
  <2>3. poll.pc \in {"ack", "note", "prune"} /\ ledger'[poll.req] # None =>
           ledger'[poll.req].state # "reserved"
    BY <1>2, <2>2 DEF IInv, PollBook, Trimmed, Working
  <2> QED
    BY <1>1, <2>1, <2>2, <2>3 DEF IInv, PollBook, Cmd, Agrees, NoOutcome, backend, record, Working, Fresh
<1> QED
  BY <1>4, <1>5 DEF IInv

\* The poll after its report: it notes the answer, prunes and ends.
LEMMA PollTail ==
  ASSUME IInv, poll.pc \in {"note", "prune"}, Trimmed(ledger'),
         poll' = NoPoll \/ Step("prune"), UNCHANGED <<backend, config, record, sw, beat>>
  PROVE  IInv'
<1>1. /\ poll' \in PollStates /\ poll'.pc \in {"idle", "prune"}
      /\ poll'.pc = "prune" => poll'.req = poll.req /\ poll'.state = poll.state /\ poll.req \in Claims
  BY PollFacts DEF Step, NoPoll, IInv, TypeOK, PollStates, Working, States
<1>2. TypeOK' /\ RequestBook' /\ ClickBook' /\ LedgerBook' /\ BeatBook'
  <2>1. \A i \in Claims : AtWork(i)' => AtWork(i)
    BY <1>1 DEF AtWork, Fresh
  <2>2. beat' \in BeatStates /\ beat'.left = beat.left /\ beat'.pc = beat.pc /\ beat'.k = beat.k
    BY DEF IInv, TypeOK
  <2>3. UNCHANGED <<backend, config, record, sw>>
    OBVIOUS
  <2> QED
    BY <1>1, <2>1, <2>2, <2>3, Trims
<1>3. PollBook'
  BY <1>1 DEF Trimmed, IInv, PollBook, Cmd, Agrees, NoOutcome, backend, record, Working, Fresh
<1> QED
  BY <1>2, <1>3 DEF IInv

LEMMA PollNoteKeeps == ASSUME IInv, PollNote PROVE IInv'
<1>1. poll.req \in Claims /\ (ledger[poll.req] # None => ledger[poll.req].state # "reserved")
  BY PollFacts DEF PollNote, IInv, PollBook, Working
<1>2. Trimmed(ledger')
  <2>1. CASE ledger' = ledger
    BY <2>1 DEF IInv, TypeOK, LedgerBook, Trimmed
  <2>2. CASE ledger' = Acked(poll.req)
    BY <1>1, <2>2, AckedEntries DEF IInv, LedgerBook, Trimmed
  <2> QED
    BY <2>1, <2>2 DEF PollNote
<1> QED
  BY <1>2, PollTail DEF PollNote

LEMMA PruneKeeps == ASSUME IInv, Prune PROVE IInv'
<1>1. Trimmed(ledger')
  <2>1. CASE ledger' = ledger
    BY <2>1 DEF IInv, TypeOK, LedgerBook, Trimmed
  <2>2. CASE ledger' \in Pruned(ledger)
    <3>1. PICK gone : ledger' = [k \in Claims |-> IF k \in gone THEN None ELSE ledger[k]]
      BY <2>2, PrunedEntries
    <3>2. \A k \in Claims : ledger'[k] = None \/ ledger'[k] = ledger[k]
      BY <3>1
    <3>3. ledger' \in Ledgers
      BY <3>1 DEF IInv, TypeOK, Ledgers
    <3> QED
      BY <3>2, <3>3 DEF IInv, LedgerBook, Trimmed
  <2> QED
    BY <2>1, <2>2 DEF Prune
<1> QED
  BY <1>1, PollTail DEF Prune

LEMMA RecoverKeeps == ASSUME IInv, Recover PROVE IInv'
<1>1. /\ poll.pc = "idle" /\ UNCHANGED <<queue, request, asked, config, clicks, astray, poll, beat>>
      /\ sw' \in SwStates /\ sw'.up /\ sw'.bound = sw.bound
  BY DEF Recover, backend, record, IInv, TypeOK, SwStates, PollBook
<1>2. Follows(ledger') /\ \A k \in Claims : ledger'[k] # None => ledger'[k].state # "reserved"
  <2>1. Follows(Recovered) /\ \A k \in Claims : Recovered[k] # None => Recovered[k].state # "reserved"
    BY RecoveredFollows
  <2>2. PICK gone : ledger' = [k \in Claims |-> IF k \in gone THEN None ELSE Recovered[k]]
    BY PrunedEntries DEF Recover
  <2>3. \A k \in Claims : ledger'[k] = None \/ ledger'[k] = Recovered[k]
    BY <2>2
  <2> QED
    BY <2>1, <2>3, PrunedFollows DEF Recover
<1>3. TypeOK' /\ RequestBook' /\ ClickBook'
  BY <1>1, <1>2 DEF Follows, IInv, TypeOK, RequestBook, ClickBook
<1>4. PollBook'
  BY <1>1 DEF PollBook, Fresh, Working
<1>5. LedgerBook'
  BY <1>1, <1>2 DEF Follows, IInv, LedgerBook, EntryOf, Agrees
<1>6. BeatBook'
  BY <1>1, <1>2 DEF IInv, BeatBook, EntryOf, Agrees, AtWork
<1> QED
  BY <1>3, <1>4, <1>5, <1>6 DEF IInv

\* A heartbeat's report reaches the entry's backend, or is lost.
LEMMA BeatTells ==
  ASSUME IInv, NEW k \in Claims, beat.pc = "ack", beat.left[k] # None,
         Unanswered(beat.left[k].cmd, k, beat.left[k].state, sw.bound),
         UNCHANGED <<request, asked, ledger, config, clicks, sw, poll>>,
         beat' \in BeatStates, \A i \in Claims : beat'.left[i] = None \/ beat'.left[i] = beat.left[i],
         beat'.pc = "ack" \/ (beat'.pc = "note" /\ beat'.k = k)
  PROVE  IInv'
<1> DEFINE e == beat.left[k]
<1>1. /\ e \in Entries /\ e.cmd \in Commands /\ e.state \in Terminal
      /\ EntryOf(k, e) /\ sw.bound = Home(e.cmd) /\ ~AtWork(k) /\ k <= asked
      /\ ledger[k] # None => ledger[k].state # "reserved"
      /\ request[k].cmd = e.cmd /\ e.cmd # None /\ Agrees(e.state, e.cmd)
  <2>1. e \in Entries
    BY DEF IInv, TypeOK, BeatStates, Ledgers
  <2>2. e.cmd \in Commands /\ e.state \in States
    BY <2>1 DEF Entries
  <2>3. /\ EntryOf(k, e) /\ e.state # "reserved" /\ e.origin = sw.bound /\ ~AtWork(k)
        /\ ledger[k] # None => ledger[k].state # "reserved"
    BY DEF IInv, BeatBook
  <2> QED
    BY <2>1, <2>2, <2>3, Numbers DEF EntryOf, States
<1> HIDE DEF e
<1>2. Unanswered(e.cmd, k, e.state, sw.bound)
  BY DEF e
<1>3. Told(e.cmd, k, e.state) /\ astray' = {}
  BY <1>1, <1>2, PostTells
<1>4. /\ RequestBook' /\ ClickBook'
      /\ \A d \in Commands :
           NoOutcome(d) => NoOutcome(d)' \/ (d = e.cmd /\ queue[d].claim = k /\ e.state # "uncertain")
  BY <1>1, <1>3, ToldBooks
<1>5. TypeOK' /\ LedgerBook'
  BY <1>3 DEF Told, IInv, TypeOK, LedgerBook, EntryOf, Agrees
<1>6. PollBook'
  <2>1. poll.pc \in Fresh \cup {"mark"} /\ Cmd # None => Cmd # e.cmd
    BY <1>1, PollFacts, OneRequest DEF AtWork, Cmd, Fresh, Working
  <2>2. poll.pc \in Fresh \cup {"mark"} /\ Cmd # None => Cmd \in Commands
    BY PollFacts DEF Fresh, Working, Cmd, RequestRows
  <2>3. poll.pc \in Fresh \cup {"mark"} /\ Cmd # None => NoOutcome(Cmd)'
    BY <1>4, <2>1, <2>2 DEF IInv, PollBook, Cmd, NoOutcome
  <2> QED
    BY <2>3 DEF IInv, PollBook, Cmd, Agrees
<1>7. BeatBook'
  <2>1. \A i \in Claims : AtWork(i)' <=> AtWork(i)
    BY DEF AtWork
  <2>2. \A i \in Claims : beat'.left[i] # None =>
           beat'.left[i] = beat.left[i] /\ beat.left[i] # None
    OBVIOUS
  <2> QED
    BY <1>1, <2>1, <2>2 DEF IInv, BeatBook, EntryOf, Agrees
<1> QED
  BY <1>4, <1>5, <1>6, <1>7 DEF IInv

LEMMA SkippedBeat ==
  ASSUME IInv, NEW k \in Claims
  PROVE  /\ Skipped(k) \in BeatStates /\ Skipped(k).pc = beat.pc
         /\ \A i \in Claims : Skipped(k).left[i] = None \/ Skipped(k).left[i] = beat.left[i]
<1> DEFINE f == [beat.left EXCEPT ![k] = None]
<1>1. beat \in BeatStates /\ beat.left \in Ledgers
  BY DEF IInv, TypeOK, BeatStates
<1>2. f \in Ledgers /\ \A i \in Claims : f[i] = None \/ f[i] = beat.left[i]
  BY <1>1 DEF Ledgers
<1>3. Skipped(k) = [beat EXCEPT !.left = f]
  BY DEF Skipped
<1> HIDE DEF f
<1> QED
  BY <1>1, <1>2, <1>3 DEF BeatStates

LEMMA BeatLostKeeps == ASSUME IInv, NEW k \in Claims, BeatLost(k) PROVE IInv'
BY BeatTells, SkippedBeat DEF BeatLost

LEMMA BeatPostKeeps == ASSUME IInv, NEW k \in Claims, BeatPost(k) PROVE IInv'
<1>1. beat' \in BeatStates /\ beat'.left = Skipped(k).left /\ beat'.pc = "note" /\ beat'.k = k
  BY SkippedBeat DEF BeatPost, BeatStates
<1>2. Unanswered(beat.left[k].cmd, k, beat.left[k].state, sw.bound)
  BY DEF BeatPost, Unanswered
<1> QED
  BY <1>1, <1>2, SkippedBeat, BeatTells DEF BeatPost

\* A poll without its ledger entry reports that it does not know.
LEMMA GivesUp ==
  ASSUME IInv, poll.pc \in {"reserve", "mark"}, GiveUp,
         UNCHANGED <<request, asked, ledger, config, clicks, sw, beat>>
  PROVE  IInv'
<1>1. poll.req \in Claims /\ Cmd \in Commands /\ Origin = Home(Cmd)
  BY PollFacts DEF Working
<1>2. Told(Cmd, poll.req, "uncertain") /\ astray' = {}
  BY <1>1, PostTells DEF GiveUp, Terminal
<1>3. RequestBook' /\ ClickBook'
  <2>1. Agrees("uncertain", Cmd)
    BY DEF Agrees
  <2> QED
    BY <1>1, <1>2, <2>1, ToldBooks DEF Terminal
<1>4. sw' \in SwStates /\ sw'.bound = sw.bound /\ queue' \in [Commands -> QueueRows]
  BY <1>2 DEF Told, IInv, TypeOK
<1> QED
  BY <1>2, <1>3, <1>4, PollEnds DEF GiveUp

LEMMA PollPostKeeps == ASSUME IInv, PollPost PROVE IInv'
<1>1. /\ poll.pc = "ack" /\ poll.req \in Claims /\ Cmd \in Commands /\ Origin = Home(Cmd)
      /\ poll.state \in Terminal /\ Agrees(poll.state, Cmd)
      /\ Unanswered(Cmd, poll.req, poll.state, Origin)
      /\ UNCHANGED <<request, asked, ledger, config, clicks, sw, beat>>
  BY PollFacts DEF PollPost, Unanswered, IInv, TypeOK, PollBook, PollStates, States, Working
<1>2. Told(Cmd, poll.req, poll.state) /\ astray' = {}
  BY <1>1, PostTells
<1>3. RequestBook' /\ ClickBook'
  BY <1>1, <1>2, ToldBooks
<1>4. /\ poll' \in PollStates /\ poll'.pc \in {"note", "prune"}
      /\ poll'.req = poll.req /\ poll'.state = poll.state
  BY DEF PollPost, Step, IInv, TypeOK, PollStates, Working
<1>5. TypeOK' /\ LedgerBook'
  BY <1>1, <1>2, <1>4 DEF Told, IInv, TypeOK, LedgerBook, EntryOf, Agrees
<1>6. PollBook'
  BY <1>1, <1>4 DEF IInv, PollBook, Cmd, Agrees, Fresh, Working
<1>7. BeatBook'
  BY <1>1, <1>4 DEF IInv, BeatBook, EntryOf, Agrees, AtWork, Fresh
<1> QED
  BY <1>3, <1>5, <1>6, <1>7 DEF IInv

\* The poll writes the entry of its own claim.
LEMMA PollWrites ==
  ASSUME IInv, poll.pc \in {"reserve", "mark"}, NEW e \in Entries, EntryOf(poll.req, e),
         e.state = "reserved" => ~e.acked,
         ledger' = [ledger EXCEPT ![poll.req] = e], poll' \in PollStates, poll'.req = poll.req,
         \/ poll'.pc = "guard" /\ e.state = "reserved" /\ poll.pc = "reserve"
         \/ poll'.pc = "ack" /\ e.state # "reserved" /\ poll'.state = poll.state /\ poll.pc = "mark",
         UNCHANGED <<request, asked, config, clicks, sw, beat, astray, queue>>
  PROVE  IInv'
<1>1. poll.req \in Claims /\ Cmd \in Commands /\ e # None
  BY PollFacts, Numbers DEF Working
<1>2. /\ ledger' \in Ledgers /\ ledger'[poll.req] = e
      /\ \A k \in Claims : k # poll.req => ledger'[k] = ledger[k]
  BY <1>1 DEF IInv, TypeOK, Ledgers
<1>3. TypeOK' /\ RequestBook' /\ ClickBook'
  BY <1>2 DEF IInv, TypeOK, RequestBook, ClickBook
<1>4. LedgerBook'
  BY <1>1, <1>2 DEF IInv, LedgerBook, EntryOf, Agrees
<1>5. PollBook'
  BY <1>1, <1>2 DEF IInv, PollBook, Cmd, Agrees, NoOutcome, Fresh, Working
<1>6. BeatBook'
  <2>1. AtWork(poll.req) /\ \A k \in Claims : AtWork(k)' => k = poll.req
    BY DEF AtWork, Fresh
  <2> QED
    BY <1>2, <2>1 DEF IInv, BeatBook, EntryOf, Agrees
<1> QED
  BY <1>3, <1>4, <1>5, <1>6 DEF IInv

LEMMA ReserveKeeps == ASSUME IInv, Reserve PROVE IInv'
<1>1. /\ poll.pc = "reserve" /\ poll.req \in Claims /\ Cmd \in Commands /\ Origin = Home(Cmd)
      /\ poll.req <= asked /\ Home(Cmd) \in Origins
  BY PollFacts, Numbers DEF Reserve, IInv, PollBook, Working
<1>2. CASE ledger' = [ledger EXCEPT ![poll.req] = Reservation] /\ Step("guard") /\ UNCHANGED <<astray, queue>>
  <2>1. /\ Reservation \in Entries /\ Reservation.state = "reserved" /\ Reservation.acked = FALSE
        /\ EntryOf(poll.req, Reservation)
    BY <1>1 DEF Reservation, Entries, States, EntryOf, Agrees, Cmd
  <2>2. poll' \in PollStates /\ poll'.req = poll.req /\ poll'.pc = "guard"
    BY <1>2 DEF Step, IInv, TypeOK, PollStates, Working
  <2> QED
    BY <1>1, <1>2, <2>1, <2>2, PollWrites DEF Reserve
<1>3. CASE NoLedger /\ UNCHANGED ledger
  BY <1>1, <1>3, GivesUp DEF Reserve, NoLedger
<1> QED
  BY <1>2, <1>3 DEF Reserve

LEMMA MarkKeeps == ASSUME IInv, Mark PROVE IInv'
<1>1. /\ poll.pc = "mark" /\ poll.req \in Claims /\ Cmd \in Commands
      /\ poll.state \in Terminal /\ Agrees(poll.state, Cmd)
      /\ ledger[poll.req] # None /\ ledger[poll.req].state = "reserved"
  BY PollFacts DEF Mark, IInv, TypeOK, PollBook, PollStates, States, Working
<1>2. CASE ledger' = Marked(poll.req, poll.state) /\ Step("ack") /\ UNCHANGED <<astray, queue>>
  <2> DEFINE e == [ledger[poll.req] EXCEPT !.state = poll.state]
  <2>1. ledger[poll.req] \in Entries /\ EntryOf(poll.req, ledger[poll.req])
    BY <1>1 DEF IInv, TypeOK, Ledgers, LedgerBook
  <2>2. /\ e \in Entries /\ e.state = poll.state /\ e.cmd = ledger[poll.req].cmd
        /\ e.origin = ledger[poll.req].origin
    BY <1>1, <2>1 DEF Entries, States
  <2>3. ledger' = [ledger EXCEPT ![poll.req] = e]
    BY <1>2 DEF Marked
  <2> HIDE DEF e
  <2>4. EntryOf(poll.req, e)
    BY <1>1, <2>1, <2>2 DEF EntryOf, Cmd
  <2>5. poll' \in PollStates /\ poll'.req = poll.req /\ poll'.pc = "ack" /\ poll'.state = poll.state
    BY <1>2 DEF Step, IInv, TypeOK, PollStates, Working
  <2>6. e.state # "reserved"
    BY <1>1, <2>2 DEF Terminal
  <2> QED
    BY <1>1, <1>2, <2>2, <2>3, <2>4, <2>5, <2>6, PollWrites DEF Mark
<1>3. CASE GiveUp /\ UNCHANGED ledger
  BY <1>1, <1>3, GivesUp DEF Mark
<1> QED
  BY <1>2, <1>3 DEF Mark

(***************************************************************************)
(* The invariant, and what it gives                                        *)
(***************************************************************************)
LEMMA InitHolds == Init => IInv
<1> SUFFICES ASSUME Init PROVE IInv
  OBVIOUS
<1> USE Numbers DEF Init
<1>1. TypeOK
  BY DEF TypeOK, QueueRows, RequestRows, Ledgers, SwStates, PollStates, BeatStates, Started,
         NoPoll, NoBeat, States
<1>2. RequestBook /\ ClickBook /\ LedgerBook
  BY DEF RequestBook, ClickBook, LedgerBook
<1>3. PollBook /\ BeatBook
  BY DEF PollBook, BeatBook, NoPoll, NoBeat, Fresh, Working
<1> QED
  BY <1>1, <1>2, <1>3 DEF IInv

LEMMA NextKeeps == IInv /\ [Next]_vars => IInv'
<1> SUFFICES ASSUME IInv, [Next]_vars PROVE IInv'
  OBVIOUS
<1>1. CASE UNCHANGED vars
  BY <1>1 DEF vars, IInv, TypeOK, RequestBook, ClickBook, PollBook, LedgerBook, BeatBook,
              EntryOf, Agrees, AtWork, NoOutcome, Cmd
<1>2. CASE \E r \in Claims : ServerClaim(r)
  BY <1>2, ServerClaimKeeps
<1>3. CASE \E c \in Commands : Expire(c)
  BY <1>3, ExpireKeeps
<1>4. CASE Recover \/ Stop \/ Configure
  BY <1>4, RecoverKeeps, StopKeeps, ConfigureKeeps
<1>5. CASE BeatStep
  BY <1>5, BeatReadKeeps, BeatReportKeeps, BeatEndKeeps, BeatPostKeeps, BeatLostKeeps,
     BeatNoteKeeps DEF BeatStep
<1>6. CASE PollRead \/ PollPass \/ PollStart
  BY <1>6, PollReadKeeps, PollPassKeeps, PollStartKeeps
<1>7. CASE PollStep
  BY <1>7, PollAnswerKeeps, ReserveKeeps, GuardKeeps, InsertKeeps, RecheckKeeps, SendKeeps,
     MarkKeeps, PollPostKeeps, PollNoteKeeps, PruneKeeps DEF PollStep
<1> QED
  BY <1>1, <1>2, <1>3, <1>4, <1>5, <1>6, <1>7 DEF Next

THEOREM Invariance == Spec => []IInv
BY InitHolds, NextKeeps, PTL DEF Spec

\* The prompt of a command is sent at most once, however claims, answers,
\* reports, reservations and stops of the service worker fall together.
THEOREM SentOnce == Spec => []OneClick
<1>1. IInv => OneClick
  BY DEF IInv, ClickBook, OneClick
<1> QED
  BY <1>1, Invariance, PTL

\* A backend that holds a prompt as delivered holds one that was sent, and one
\* that failed was not sent and never will be.
THEOREM BackendsToldTruth == Spec => []HonestOutcome
<1>1. IInv => HonestOutcome
  BY DEF IInv, ClickBook, HonestOutcome
<1> QED
  BY <1>1, Invariance, PTL

\* No backend is told about a claim of another one, although the user may
\* choose another backend between any two steps.
THEOREM ToldAtHome == Spec => []HomeOnly
<1>1. IInv => HomeOnly
  BY DEF IInv, TypeOK, HomeOnly
<1> QED
  BY <1>1, Invariance, PTL

\* The click comes after the reservation in durable storage.
THEOREM WrittenAhead == Spec => WriteAhead
<1>1. IInv /\ [Next]_vars =>
        [\A c \in Commands : clicks'[c] # clicks[c] =>
           ledger[poll.req] # None /\ ledger[poll.req].state = "reserved"]_vars
  <2> SUFFICES ASSUME IInv, Next, NEW c \in Commands, clicks'[c] # clicks[c]
               PROVE  ledger[poll.req] # None /\ ledger[poll.req].state = "reserved"
    BY DEF vars
  <2>1. Send
    BY DEF Next, BeatStep, PollStep, ServerClaim, Expire, Recover, Stop, BeatRead, BeatReport,
           BeatPost, BeatLost, BeatNote, BeatEnd, PollRead, PollPass, PollStart, PollAnswer,
           Reserve, Guard, Insert, Recheck, Mark, PollPost, PollNote, Prune, Configure, record
  <2> QED
    BY <2>1 DEF Send, IInv, PollBook
<1> QED
  BY <1>1, Invariance, PTL DEF Spec, WriteAhead

\* Entries of the ledger only move on: from reserved to one outcome, from there
\* to acknowledged, and only then out of the ledger.
Stands(k) == ledger[k] # None =>
               IF ledger'[k] = None THEN ledger[k].acked /\ ledger[k].state # "reserved"
               ELSE /\ ledger[k].state # "reserved" => ledger'[k].state = ledger[k].state
                    /\ ledger[k].acked => ledger'[k].acked

LEMMA PrunedStands ==
  ASSUME IInv, NEW k \in Claims, ledger' \in Pruned(ledger)
  PROVE  Stands(k)
<1>1. PICK gone : /\ ledger' = [i \in Claims |-> IF i \in gone THEN None ELSE ledger[i]]
                  /\ \A i \in gone : Removable(ledger[i])
  BY PrunedEntries
<1>2. ledger'[k] = IF k \in gone THEN None ELSE ledger[k]
  BY <1>1
<1> QED
  BY <1>1, <1>2 DEF Stands, Removable, Terminal

LEMMA RecoveredStands ==
  ASSUME IInv, NEW k \in Claims, ledger' \in Pruned(Recovered)
  PROVE  Stands(k)
<1>1. PICK gone : /\ ledger' = [i \in Claims |-> IF i \in gone THEN None ELSE Recovered[i]]
                  /\ \A i \in gone : Removable(Recovered[i])
  BY PrunedEntries
<1>2. ledger'[k] = IF k \in gone THEN None ELSE Recovered[k]
  BY <1>1
<1>3. CASE ledger[k] # None /\ ledger[k].state = "reserved"
  <2>1. ~Recovered[k].acked /\ ~ledger[k].acked /\ Recovered[k] # None
    <3>1. ledger[k] \in Entries /\ ~ledger[k].acked
      BY <1>3 DEF IInv, TypeOK, Ledgers, LedgerBook
    <3>2. Recovered[k] = [ledger[k] EXCEPT !.state = "uncertain"]
      BY <1>3 DEF Recovered, InDoubt
    <3>3. Recovered[k] \in Entries /\ Recovered[k].acked = ledger[k].acked
      BY <3>1, <3>2 DEF Entries, States, Terminal
    <3> QED
      BY <3>1, <3>3, Numbers
  <2>2. k \notin gone
    BY <1>1, <2>1 DEF Removable
  <2> QED
    BY <1>2, <1>3, <2>1, <2>2 DEF Stands
<1>4. CASE ledger[k] = None \/ ledger[k].state # "reserved"
  <2>1. Recovered[k] = ledger[k]
    BY <1>4 DEF Recovered, InDoubt
  <2> QED
    BY <1>1, <1>2, <2>1 DEF Stands, Removable, Terminal
<1> QED
  BY <1>3, <1>4

LEMMA AckedStands ==
  ASSUME IInv, NEW k \in Claims, NEW i \in Claims, ledger' = Acked(i)
  PROVE  Stands(k)
<1>1. CASE k # i \/ ledger[k] = None
  BY <1>1, AckedEntries DEF Stands
<1>2. CASE k = i /\ ledger[k] # None
  <2>1. ledger[k] \in Entries /\ ledger \in [Claims -> Entries \cup {None}]
    BY <1>2 DEF IInv, TypeOK, Ledgers
  <2>2. ledger'[k] = [ledger[k] EXCEPT !.acked = TRUE]
    BY <1>2, <2>1 DEF Acked
  <2>3. ledger'[k].acked /\ ledger'[k].state = ledger[k].state /\ ledger'[k] # None
    BY <1>2, <2>1, <2>2, AckedEntries DEF Entries
  <2> QED
    BY <2>3 DEF Stands
<1> QED
  BY <1>1, <1>2

LEMMA WrittenStands ==
  ASSUME IInv, poll.pc \in {"reserve", "mark"}, NEW k \in Claims, NEW e \in Entries,
         e.acked = FALSE \/ e.acked = ledger[poll.req].acked,
         ledger' = [ledger EXCEPT ![poll.req] = e]
  PROVE  Stands(k)
<1>1. /\ poll.req \in Claims /\ e # None
      /\ ledger[poll.req] # None => ledger[poll.req].state = "reserved" /\ ~ledger[poll.req].acked
  BY PollFacts, Numbers DEF IInv, PollBook, LedgerBook, Working
<1>2. ledger'[poll.req] = e /\ (k # poll.req => ledger'[k] = ledger[k])
  BY <1>1 DEF IInv, TypeOK, Ledgers
<1> QED
  BY <1>1, <1>2 DEF Stands

LEMMA SameStands == ASSUME NEW k \in Claims, ledger' = ledger PROVE Stands(k)
BY DEF Stands

THEOREM LedgerMovesOn == Spec => LedgerStands
<1>1. IInv /\ [Next]_vars => [\A k \in Claims : Stands(k)]_vars
  <2> SUFFICES ASSUME IInv, Next, NEW k \in Claims PROVE Stands(k)
    OBVIOUS
  <2>1. CASE ledger' = ledger
    BY <2>1, SameStands
  <2>2. CASE Recover
    BY <2>2, RecoveredStands DEF Recover
  <2>3. CASE \E i \in Claims : BeatNote(i)
    BY <2>3, AckedStands, SameStands DEF BeatNote
  <2>4. CASE PollNote
    BY <2>4, AckedStands, SameStands, PollFacts DEF PollNote, Working
  <2>5. CASE Prune
    BY <2>5, PrunedStands, SameStands DEF Prune
  <2>6. CASE Reserve
    <3>1. CASE ledger' = [ledger EXCEPT ![poll.req] = Reservation]
      <4>1. Cmd \in Commands /\ Origin \in Origins
        BY <2>6, PollFacts, Numbers DEF Reserve, Working
      <4>2. Reservation \in Entries /\ Reservation.acked = FALSE
        BY <4>1 DEF Reservation, Entries, States
      <4> QED
        BY <2>6, <3>1, <4>2, WrittenStands DEF Reserve
    <3> QED
      BY <2>6, <3>1, SameStands DEF Reserve
  <2>7. CASE Mark
    <3>1. CASE ledger[poll.req] # None /\ ledger' = Marked(poll.req, poll.state)
      <4> DEFINE e == [ledger[poll.req] EXCEPT !.state = poll.state]
      <4>1. poll.req \in Claims /\ ledger[poll.req] \in Entries /\ poll.state \in States
        BY <2>7, <3>1, PollFacts DEF Mark, Working, IInv, TypeOK, Ledgers, PollStates
      <4>2. e \in Entries /\ e.acked = ledger[poll.req].acked
        BY <4>1 DEF Entries
      <4>3. ledger' = [ledger EXCEPT ![poll.req] = e]
        BY <3>1 DEF Marked
      <4> HIDE DEF e
      <4> QED
        BY <2>7, <4>2, <4>3, WrittenStands DEF Mark
    <3> QED
      BY <2>7, <3>1, SameStands DEF Mark
  <2> QED
    BY <2>1, <2>2, <2>3, <2>4, <2>5, <2>6, <2>7
       DEF Next, BeatStep, PollStep, ServerClaim, Expire, Stop, BeatRead, BeatReport,
           BeatPost, BeatLost, BeatEnd, PollRead, PollPass, PollStart, PollAnswer,
           Guard, Insert, Recheck, Send, PollPost, Configure
<1>2. [\A k \in Claims : Stands(k)]_vars =>
        [\A k \in Claims : ledger[k] # None =>
           IF ledger'[k] = None THEN ledger[k].acked /\ ledger[k].state # "reserved"
           ELSE /\ ledger[k].state # "reserved" => ledger'[k].state = ledger[k].state
                /\ ledger[k].acked => ledger'[k].acked]_vars
  BY DEF Stands
<1> QED
  BY <1>1, <1>2, Invariance, PTL DEF Spec, LedgerStands
=============================================================================
