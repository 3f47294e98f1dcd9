---------------------------- MODULE Runbook_proofs --------------------------
(***************************************************************************)
(* What every step of the runbook, of the gateway and of their environment *)
(* keeps, whoever drives the runbook: RunbookInv.  A run past the purchase *)
(* owns its row in the gateway's ledger, the gateway claims nothing the    *)
(* Pilot has not noted first, and no counter leaves its limit.  The        *)
(* theorems it leads to are those of a driver, in module Drivers_proofs.   *)
(***************************************************************************)
EXTENDS Runbook, TLAPS

Served == {"P3", "P4", "P5", "P6", "P7", "P8", "DONE"}
Undone == {"P1", "P2", "P2H", "P3", "P4", "P5", "P6", "P7"}

Owns(r, k) == gw[k].state = "COMMITTED" /\ gw[k].run = r
Noted(r) == \E i \in 1..Len(rows) :
  rows[i].key = "P2" /\ rows[i].state = "INTENT" /\ rows[i].run = r

(* What is true of a state of run r, in memory or saved.                   *)
Sound(r, s) ==
  /\ s.server <=> s.step \in Served
  /\ lane = "automated" => s.step # "P2H" /\ (s.server => Owns(r, "P2"))
  /\ s.step \in {"P7", "P8", "DONE"} => Owns(r, "P6")
  /\ s.status \in {"DEPLOYED", "CUTOVER"} => s.step = "DONE"

(* Polls stay below their limit where the next one is counted unasked.     *)
Counted(s) ==
  /\ s.step = "P2" => s.polls = 0
  /\ s.status \notin Terminal /\ s.step \in {"P3", "P7"} => s.polls < PollLimit

StepOf(k) == IF k \in {"P4P", "P4A"} THEN "P4" ELSE k

JobAt(r) ==
  /\ ~At(r, "idle") => Sound(r, job[r].s)
  /\ job[r].pc \notin {"idle", "undo"} => Counted(job[r].s)
  /\ job[r].pc \in {"intent", "bought", "notBought"} => job[r].s.step = "P2"
  /\ job[r].pc \in {"call", "wait"} => job[r].s.step = StepOf(job[r].key)
  /\ At(r, "note") => job[r].s.step = "P1" /\ lane = "handoff"
  /\ At(r, "status") => job[r].s.step = "P2H"
  /\ At(r, "undo") => /\ job[r].s.step \in Undone
                      /\ job[r].s.step = "P2" => job[r].s.polls = 0
  /\ job[r].pc \notin {"idle", "step", "save", "cleanDns", "clean"} => job[r].s.status \notin Terminal
  /\ lane = "automated" /\ At(r, "bought") => Owns(r, "P2")
  /\ lane = "automated" /\ job[r].pc \in {"call", "wait"} /\ job[r].key = "P2" => Noted(r)

StoreAt(r) == r \in Saved => Sound(r, store[r]) /\ Counted(store[r])

GatewayAt ==
  /\ \A k \in acting : gw[k].state = "INTENT" /\ gw[k].run \in Runs
  /\ "P8" \in acting => Owns(gw["P8"].run, "P6")
  /\ gw["P2"].state = "FAILED" \/ "P2" \in acting => server # "live"

RunbookInv ==
  /\ TypeOK /\ GatewayAt /\ IntentBeforeClaim
  /\ \A r \in Runs : JobAt(r) /\ StoreAt(r)

-----------------------------------------------------------------------------
(* The run's state under the moves of one job.                             *)

LEMMA FailType ==
  ASSUME NEW s \in RunState, NEW e \in Errors
  PROVE  /\ Fail(s, e) \in RunState
         /\ Fail(s, e).step = s.step /\ Fail(s, e).status = "FAILED" /\ Fail(s, e).error = e
         /\ Fail(s, e).server = s.server /\ Fail(s, e).polls = s.polls /\ Fail(s, e).over = s.over
         /\ Fail(s, e).cost = s.cost /\ Fail(s, e).tok = s.tok
BY DEF RunState, Fail, Statuses

LEMMA WaitType ==
  ASSUME NEW s \in RunState, s.polls < PollLimit \/ s.polls < StepRetries
  PROVE  /\ Wait(s) \in RunState
         /\ Wait(s).step = s.step /\ Wait(s).status = "WAITING" /\ Wait(s).error = s.error
         /\ Wait(s).server = s.server /\ Wait(s).polls = s.polls + 1 /\ Wait(s).over = s.over
         /\ Wait(s).cost = s.cost /\ Wait(s).tok = s.tok
<1>1. s.polls + 1 \in 0..(IF PollLimit > StepRetries THEN PollLimit ELSE StepRetries)
  BY RunbookAssumption DEF RunState
<1> QED
  BY <1>1 DEF RunState, Wait, Statuses

LEMMA EnterType ==
  ASSUME NEW s \in RunState, NEW step \in Steps
  PROVE  /\ Enter(s, step) \in RunState
         /\ Enter(s, step).step = step /\ Enter(s, step).status = s.status
         /\ Enter(s, step).error = s.error
         /\ Enter(s, step).server = s.server /\ Enter(s, step).polls = 0
         /\ Enter(s, step).over = s.over /\ Enter(s, step).cost = s.cost /\ Enter(s, step).tok = s.tok
<1>1. 0 \in 0..(IF PollLimit > StepRetries THEN PollLimit ELSE StepRetries)
  BY RunbookAssumption
<1> QED
  BY <1>1 DEF RunState, Enter

Jobs == [Runs -> [pc : Pcs, s : RunState, key : Keys, seen : BOOLEAN]]

(* advance() returns: the state it returns is all that is left to check.   *)
LEMMA ReturnJob ==
  ASSUME TypeOK, NEW r \in Runs, NEW s \in RunState, Return(r, s)
  PROVE  /\ job' \in Jobs
         /\ job'[r].pc = "save" /\ job'[r].s = s /\ job'[r].key = job[r].key
         /\ \A q \in Runs \ {r} : job'[q] = job[q]
BY DEF TypeOK, Return, Jobs, Pcs

LEMMA GotoJob ==
  ASSUME TypeOK, NEW r \in Runs, NEW l \in Pcs, Goto(r, l)
  PROVE  /\ job' \in Jobs
         /\ job'[r].pc = l /\ job'[r].s = job[r].s /\ job'[r].key = job[r].key
         /\ \A q \in Runs \ {r} : job'[q] = job[q]
BY DEF TypeOK, Goto, Jobs

LEMMA UndoJob ==
  ASSUME TypeOK, NEW r \in Runs, NEW s \in RunState, NEW e \in Errors, Undo(r, s, e)
  PROVE  /\ job' \in Jobs
         /\ job'[r].pc = "undo" /\ job'[r].s = [s EXCEPT !.error = e] /\ job'[r].key = job[r].key
         /\ \A q \in Runs \ {r} : job'[q] = job[q]
<1>1. [s EXCEPT !.error = e] \in RunState
  BY DEF RunState
<1> QED
  BY <1>1 DEF TypeOK, Undo, Jobs, Pcs

LEMMA CallJob ==
  ASSUME TypeOK, NEW r \in Runs, NEW k \in Keys, job' = [job EXCEPT ![r].pc = "call", ![r].key = k]
  PROVE  /\ job' \in Jobs
         /\ job'[r].pc = "call" /\ job'[r].s = job[r].s /\ job'[r].key = k
         /\ \A q \in Runs \ {r} : job'[q] = job[q]
BY DEF TypeOK, Jobs, Pcs

LEMMA Replaced ==
  ASSUME NEW D, NEW S, NEW f \in [D -> S], NEW d \in D, NEW v \in S
  PROVE  /\ [f EXCEPT ![d] = v] \in [D -> S]
         /\ [f EXCEPT ![d] = v][d] = v
         /\ \A e \in D \ {d} : [f EXCEPT ![d] = v][e] = f[e]
OBVIOUS

LEMMA PutJob ==
  ASSUME TypeOK, NEW r \in Runs,
         NEW i \in [pc : Pcs, s : RunState, key : Keys, seen : BOOLEAN],
         job' = [job EXCEPT ![r] = i]
  PROVE  /\ job' \in Jobs /\ job'[r] = i
         /\ \A q \in Runs \ {r} : job'[q] = job[q]
<1> DEFINE R == [pc : Pcs, s : RunState, key : Keys, seen : BOOLEAN]
<1>1. job \in [Runs -> R]
  BY DEF TypeOK
<1>2. i \in R
  OBVIOUS
<1> HIDE DEF R
<1>3. /\ [job EXCEPT ![r] = i] \in [Runs -> R] /\ [job EXCEPT ![r] = i][r] = i
      /\ \A q \in Runs \ {r} : [job EXCEPT ![r] = i][q] = job[q]
  BY <1>1, <1>2, Replaced
<1> QED
  BY <1>3 DEF Jobs, R

LEMMA SeenJob ==
  ASSUME TypeOK, NEW r \in Runs, NEW b \in BOOLEAN,
         job' = [job EXCEPT ![r].pc = "status", ![r].seen = b]
  PROVE  /\ job' \in Jobs
         /\ job'[r].pc = "status" /\ job'[r].s = job[r].s
         /\ \A q \in Runs \ {r} : job'[q] = job[q]
BY DEF TypeOK, Jobs, Pcs

LEMMA ReturnAt ==
  ASSUME TypeOK, NEW r \in Runs, NEW s \in RunState, Return(r, s), Sound(r, s)', Counted(s)
  PROVE  JobAt(r)'
<1>1. job'[r].pc = "save" /\ job'[r].s = s
  BY ReturnJob
<1> QED
  BY <1>1 DEF JobAt, At

LEMMA UndoAt ==
  ASSUME TypeOK, NEW r \in Runs, NEW s \in RunState, NEW e \in Errors, Undo(r, s, e),
         Sound(r, s)', s.step \in Undone, s.step = "P2" => s.polls = 0, s.status \notin Terminal
  PROVE  JobAt(r)'
<1>1. job'[r].pc = "undo" /\ job'[r].s = [s EXCEPT !.error = e]
  BY UndoJob
<1> DEFINE t == [s EXCEPT !.error = e]
<1>2. t.server = s.server /\ t.step = s.step /\ t.status = s.status /\ t.polls = s.polls
  BY DEF RunState
<1> HIDE DEF t
<1>3. job'[r].s = t
  BY <1>1 DEF t
<1> QED
  BY <1>1, <1>2, <1>3 DEF JobAt, At, Sound

-----------------------------------------------------------------------------
(* What a step leaves standing: the lane, what the gateway has recorded,   *)
(* what the Pilot has noted.                                               *)

Kept ==
  /\ lane' = lane
  /\ \A r : \A k \in Keys : Owns(r, k) => Owns(r, k)'
  /\ \A r : Noted(r) => Noted(r)'

LEMMA SoundKept ==
  ASSUME Kept, NEW r, NEW s, Sound(r, s)
  PROVE  Sound(r, s)'
BY DEF Kept, Sound, Keys

LEMMA JobKept ==
  ASSUME Kept, NEW r \in Runs, JobAt(r), job'[r] = job[r]
  PROVE  JobAt(r)'
<1>1. PICK j : j = job[r] /\ j = job'[r]
  OBVIOUS
<1>2. Sound(r, j.s) => Sound(r, j.s)'
  BY SoundKept
<1> QED
  BY <1>1, <1>2 DEF Kept, JobAt, At, Keys

LEMMA StoreKept ==
  ASSUME Kept, NEW r \in Runs, StoreAt(r), store'[r] = store[r]
  PROVE  StoreAt(r)'
<1>1. PICK s : s = store[r] /\ s = store'[r]
  OBVIOUS
<1>2. Sound(r, s) => Sound(r, s)'
  BY SoundKept
<1> QED
  BY <1>1, <1>2 DEF StoreAt, Saved

LEMMA NothingChanged ==
  ASSUME UNCHANGED <<lane, gw, rows>>
  PROVE  Kept
BY DEF Kept, Owns, Noted

LEMMA RowsGrow ==
  ASSUME UNCHANGED <<lane, gw>>, TypeOK, NEW n, rows' = Append(rows, n)
  PROVE  Kept
<1>1. Len(rows) \in Nat /\ Len(rows') = Len(rows) + 1 /\ \A i \in 1..Len(rows) : rows'[i] = rows[i]
  BY DEF TypeOK
<1> QED
  BY <1>1 DEF Kept, Owns, Noted

(* The gateway writes its ledger where nothing is recorded for good.       *)
LEMMA LatestKept ==
  ASSUME UNCHANGED <<lane, rows>>, TypeOK, NEW k \in Keys, NEW st, NEW r, NEW was,
         Latest(k, st, r, was), gw[k].state # "COMMITTED"
  PROVE  /\ Kept
         /\ gw'[k].state = st /\ gw'[k].run = r /\ gw'[k].previous = was
         /\ \A l \in Keys \ {k} : gw'[l] = gw[l]
<1>1. gw' = [gw EXCEPT ![k] = [state |-> st, run |-> r, previous |-> was]]
  BY DEF Latest
<1>2. \A l \in Keys : gw'[l] = IF l = k THEN [state |-> st, run |-> r, previous |-> was] ELSE gw[l]
  BY <1>1 DEF TypeOK
<1> QED
  BY <1>2 DEF Kept, Owns, Noted

-----------------------------------------------------------------------------
(* The catch around the steps.                                             *)
LEMMA CaughtAt ==
  ASSUME TypeOK, NEW r \in Runs, NEW s \in RunState, NEW a \in Errors, Caught(r, s, a),
         Sound(r, s)', s.step \in {"P4", "P5", "P6"}, s.status \notin Terminal
  PROVE  /\ job' \in Jobs /\ JobAt(r)'
         /\ \A q \in Runs \ {r} : job'[q] = job[q]
<1>1. CASE s.polls < StepRetries /\ Return(r, Wait(s))
  <2>1. PICK t \in RunState : /\ t = Wait(s) /\ t.step = s.step /\ t.status = "WAITING"
                             /\ t.server = s.server
    BY <1>1, WaitType
  <2>2. Return(r, t) /\ Sound(r, t)' /\ Counted(t)
    BY <1>1, <2>1 DEF Sound, Counted
  <2> QED
    BY <2>2, ReturnJob, ReturnAt
<1>2. CASE Undo(r, s, a)
  BY <1>2, UndoJob, UndoAt DEF Undone
<1> QED
  BY <1>1, <1>2 DEF Caught

(* What advance() leaves to the gateway and to the driver.                 *)
Own(r) ==
  /\ Kept /\ job' \in Jobs /\ JobAt(r)'
  /\ \A q \in Runs \ {r} : job'[q] = job[q]
  /\ rows' \in Seq([key : {"P2", "P2H"}, run : Runs, state : States])

LEMMA ReturnOwn ==
  ASSUME RunbookInv, NEW r \in Runs, NEW s \in RunState, Return(r, s), Sound(r, s), Counted(s),
         UNCHANGED <<lane, gw, rows>>
  PROVE  Own(r)
<1>1. Kept
  BY NothingChanged
<1>2. Sound(r, s)'
  BY <1>1, SoundKept
<1> QED
  BY <1>1, <1>2, ReturnJob, ReturnAt DEF Own, RunbookInv, TypeOK

LEMMA UndoOwn ==
  ASSUME RunbookInv, NEW r \in Runs, NEW s \in RunState, NEW e \in Errors, Undo(r, s, e),
         Sound(r, s), s.step \in Undone, s.step = "P2" => s.polls = 0, s.status \notin Terminal,
         UNCHANGED <<lane, gw, rows>>
  PROVE  Own(r)
<1>1. Kept
  BY NothingChanged
<1>2. Sound(r, s)'
  BY <1>1, SoundKept
<1> QED
  BY <1>1, <1>2, UndoJob, UndoAt DEF Own, RunbookInv, TypeOK

LEMMA CaughtOwn ==
  ASSUME RunbookInv, NEW r \in Runs, NEW s \in RunState, NEW a \in Errors, Caught(r, s, a),
         Sound(r, s), s.step \in {"P4", "P5", "P6"}, s.status \notin Terminal,
         UNCHANGED <<lane, gw, rows>>
  PROVE  Own(r)
<1>1. Kept
  BY NothingChanged
<1>2. Sound(r, s)'
  BY <1>1, SoundKept
<1> QED
  BY <1>1, <1>2, CaughtAt DEF Own, RunbookInv, TypeOK

(* A step of advance() starts from a sound state of a run under way.       *)
LEMMA OnState ==
  ASSUME RunbookInv, NEW r \in Runs, NEW step, On(r, step)
  PROVE  /\ At(r, "step") /\ job[r].s \in RunState /\ job[r].s.step = step
         /\ Sound(r, job[r].s) /\ Counted(job[r].s)
         /\ job[r].s.status \notin Terminal /\ step # "DONE"
BY DEF RunbookInv, TypeOK, On, Stays, JobAt, At

LEMMA BeginOwn ==
  ASSUME RunbookInv, NEW r \in Runs, Nothing(r) \/ Expires(r) \/ Verified(r)
  PROVE  Own(r)
<1> PICK s \in RunState : s = job[r].s
  BY DEF RunbookInv, TypeOK
<1>1. At(r, "step") /\ Sound(r, s) /\ Counted(s) /\ UNCHANGED <<lane, gw, rows>>
  BY DEF Nothing, Expires, Verified, On, RunbookInv, JobAt, At, mandate, gateway
<1>2. CASE Nothing(r)
  BY <1>1, <1>2, ReturnOwn DEF Nothing
<1>3. CASE Expires(r)
  <2>1. PICK t \in RunState : /\ t = Fail(s, "EXPIRED") /\ t.step = s.step /\ t.server = s.server
                             /\ t.status = "FAILED" /\ t.polls = s.polls
    BY FailType DEF Errors, Answers
  <2>2. Sound(r, t) /\ Counted(t) /\ Return(r, t)
    BY <1>1, <1>3, <2>1 DEF Sound, Counted, Terminal, Expires
  <2> QED
    BY <1>1, <2>2, ReturnOwn
<1>4. CASE Verified(r)
  <2> PICK t : t = [s EXCEPT !.step = "P1"]
    OBVIOUS
  <2>1. /\ t \in RunState /\ t.step = "P1" /\ t.server = s.server /\ t.status = s.status
        /\ s.step = "P0" /\ s.status \notin Terminal
    BY <1>4, OnState DEF Verified, RunState, Steps
  <2>2. Sound(r, t) /\ Counted(t) /\ Return(r, t)
    BY <1>1, <1>4, <2>1 DEF Sound, Counted, Terminal, Verified, Served
  <2> QED
    BY <1>1, <2>1, <2>2, ReturnOwn
<1> QED
  BY <1>2, <1>3, <1>4

(* An error that ends the run where it stands.                             *)
LEMMA FailOwn ==
  ASSUME RunbookInv, NEW r \in Runs, NEW s \in RunState, NEW e \in Errors, Return(r, Fail(s, e)),
         Sound(r, s), Counted(s), s.status \notin Terminal, UNCHANGED <<lane, gw, rows>>
  PROVE  Own(r)
<1>1. PICK t \in RunState : /\ t = Fail(s, e) /\ t.step = s.step /\ t.server = s.server
                           /\ t.status = "FAILED" /\ t.polls = s.polls
  BY FailType
<1>2. Sound(r, t) /\ Counted(t) /\ Return(r, t)
  BY <1>1 DEF Sound, Counted, Terminal
<1> QED
  BY <1>2, ReturnOwn

(* One more poll, where the limit allows it.                               *)
LEMMA WaitOwn ==
  ASSUME RunbookInv, NEW r \in Runs, NEW s \in RunState, Return(r, Wait(s)),
         Sound(r, s), s.step # "P2", s.polls + 1 < PollLimit, s.status \notin Terminal,
         UNCHANGED <<lane, gw, rows>>
  PROVE  Own(r)
<1>1. s.polls \in Nat /\ PollLimit \in Nat
  BY RunbookAssumption DEF RunState
<1>2. PICK t \in RunState : /\ t = Wait(s) /\ t.step = s.step /\ t.server = s.server
                           /\ t.status = "WAITING" /\ t.polls = s.polls + 1
  BY <1>1, WaitType
<1>3. Sound(r, t) /\ Counted(t) /\ Return(r, t)
  BY <1>2 DEF Sound, Counted
<1> QED
  BY <1>3, ReturnOwn

LEMMA PriceOwn ==
  ASSUME RunbookInv, NEW r \in Runs, NEW s \in RunState, NEW t \in Priced(s) \cup {Enter(s, "P1C")},
         Return(r, t), Sound(r, s), s.step \in {"P1B", "P1C"}, s.status \notin Terminal,
         UNCHANGED <<lane, gw, rows>>
  PROVE  Own(r)
<1>1. PICK u \in RunState : /\ u = Enter(s, "P2") /\ u.step = "P2" /\ u.server = s.server /\ u.polls = 0
  BY EnterType DEF Steps
<1>2. \A o \in BOOLEAN : LET v == [u EXCEPT !.status = "RUNNING", !.over = o] IN
        /\ v \in RunState /\ v.step = u.step /\ v.server = u.server /\ v.polls = u.polls
        /\ v.status = "RUNNING"
  BY <1>1 DEF RunState, Statuses
<1>3. Enter(s, "P1C") \in RunState /\ Enter(s, "P1C").step = "P1C" /\ Enter(s, "P1C").server = s.server
      /\ Enter(s, "P1C").status = s.status
  BY EnterType DEF Steps
<1>4. /\ t \in RunState /\ t.step \in {"P2", "P1C"} /\ t.server = s.server
      /\ t.step = "P2" => t.polls = 0 /\ t.status = "RUNNING"
      /\ t.step = "P1C" => t.status = s.status
  BY <1>1, <1>2, <1>3 DEF Priced
<1>5. Sound(r, t) /\ Counted(t)
  BY <1>4 DEF Sound, Counted, Served, Terminal
<1> QED
  BY <1>4, <1>5, ReturnOwn

LEMMA PreflightOwn ==
  ASSUME RunbookInv, NEW r \in Runs,
         Preflight(r) \/ NoteHandoff(r) \/ PriceSubmit(r) \/ PricePoll(r)
  PROVE  Own(r)
<1> PICK s \in RunState : s = job[r].s
  BY DEF RunbookInv, TypeOK
<1>1. UNCHANGED <<lane, gw>>
  BY DEF Preflight, NoteHandoff, PriceSubmit, PricePoll, mandate, gateway
<1>2. CASE Preflight(r)
  <2>1. /\ At(r, "step") /\ s.step = "P1" /\ Sound(r, s) /\ Counted(s) /\ s.status \notin Terminal
        /\ UNCHANGED rows
    BY <1>2, OnState DEF Preflight
  <2>2. CASE Return(r, Fail(s, "REPLAY"))
    BY <1>1, <2>1, <2>2, FailOwn DEF Errors, Answers
  <2>3. CASE Return(r, [s EXCEPT !.step = "P1B"])
    <3> PICK t : t = [s EXCEPT !.step = "P1B"]
      OBVIOUS
    <3>1. t \in RunState /\ t.step = "P1B" /\ t.server = s.server /\ t.status = s.status
      BY DEF RunState, Steps
    <3>2. Sound(r, t) /\ Counted(t) /\ Return(r, t)
      BY <2>1, <2>3, <3>1 DEF Sound, Counted, Terminal, Served
    <3> QED
      BY <1>1, <2>1, <3>1, <3>2, ReturnOwn
  <2>4. CASE lane = "handoff" /\ Goto(r, "note")
    <3>1. job' \in Jobs /\ job'[r].pc = "note" /\ job'[r].s = s
          /\ \A q \in Runs \ {r} : job'[q] = job[q]
      BY <2>4, GotoJob DEF Pcs, RunbookInv
    <3>2. Kept
      BY <1>1, <2>1, NothingChanged
    <3>3. Sound(r, s)'
      BY <2>1, <3>2, SoundKept
    <3>4. JobAt(r)'
      BY <1>1, <2>1, <2>4, <3>1, <3>3 DEF JobAt, At
    <3> QED
      BY <2>1, <3>1, <3>2, <3>4 DEF Own, RunbookInv, TypeOK
  <2>5. CASE Undo(r, s, "LEDGER")
    BY <1>1, <2>1, <2>5, UndoOwn DEF Errors, Undone
  <2> QED
    BY <1>2, <2>2, <2>3, <2>4, <2>5 DEF Preflight, Unreadable
<1>3. CASE NoteHandoff(r)
  <2>1. At(r, "note") /\ Sound(r, s) /\ s.step = "P1" /\ lane = "handoff" /\ s.status \notin Terminal
    BY <1>3 DEF NoteHandoff, RunbookInv, JobAt, At
  <2> PICK t : t = [s EXCEPT !.step = "P2H"]
    OBVIOUS
  <2>2. t \in RunState /\ t.step = "P2H" /\ t.server = s.server /\ t.status = s.status
    BY DEF RunState, Steps
  <2>3. Sound(r, t) /\ Counted(t) /\ Return(r, t)
    BY <1>3, <2>1, <2>2 DEF Sound, Counted, Terminal, Served, NoteHandoff
  <2>4. rows \in Seq([key : {"P2", "P2H"}, run : Runs, state : States])
    BY DEF RunbookInv, TypeOK
  <2>5. \A st \in States : Note(r, "P2H", st) \in [key : {"P2", "P2H"}, run : Runs, state : States]
    BY DEF Note
  <2>6. rows' \in Seq([key : {"P2", "P2H"}, run : Runs, state : States]) /\ Kept
    <3>1. CASE UNCHANGED rows
      BY <1>1, <2>4, <3>1, NothingChanged
    <3>2. CASE rows' = rows \o <<Note(r, "P2H", "INTENT"), Note(r, "P2H", "COMMITTED")>>
      <4> DEFINE a == Note(r, "P2H", "INTENT")  b == Note(r, "P2H", "COMMITTED")
      <4>1. a \in [key : {"P2", "P2H"}, run : Runs, state : States]
            /\ b \in [key : {"P2", "P2H"}, run : Runs, state : States]
        BY <2>5 DEF States
      <4> HIDE DEF a, b
      <4>2. rows' = rows \o <<a, b>>
        BY <3>2 DEF a, b
      <4>3. rows' \in Seq([key : {"P2", "P2H"}, run : Runs, state : States])
            /\ Len(rows') = Len(rows) + 2 /\ \A i \in 1..Len(rows) : rows'[i] = rows[i]
        BY <2>4, <4>1, <4>2
      <4> QED
        BY <1>1, <2>4, <4>3 DEF Kept, Owns, Noted
    <3> QED
      BY <1>3, <3>1, <3>2 DEF NoteHandoff
  <2>7. Sound(r, t)'
    BY <2>3, <2>6, SoundKept
  <2> QED
    BY <2>2, <2>3, <2>6, <2>7, ReturnJob, ReturnAt DEF Own, RunbookInv
<1>4. CASE PriceSubmit(r)
  <2>1. /\ s.step = "P1B" /\ Sound(r, s) /\ s.status \notin Terminal /\ UNCHANGED rows
    BY <1>4, OnState DEF PriceSubmit
  <2> QED
    BY <1>1, <1>4, <2>1, PriceOwn DEF PriceSubmit
<1>5. CASE PricePoll(r)
  <2>1. /\ s.step = "P1C" /\ Sound(r, s) /\ s.status \notin Terminal /\ UNCHANGED rows
    BY <1>5, OnState DEF PricePoll
  <2>2. CASE \E t \in Priced(s) : Return(r, t)
    BY <1>1, <2>1, <2>2, PriceOwn
  <2>3. CASE s.polls + 1 < PollLimit /\ Return(r, Wait(s))
    BY <1>1, <2>1, <2>3, WaitOwn
  <2> QED
    BY <1>5, <2>2, <2>3 DEF PricePoll
<1> QED
  BY <1>2, <1>3, <1>4, <1>5

LEMMA RegistrationOwn ==
  ASSUME RunbookInv, NEW r \in Runs, ReadRegistration(r) \/ UseRegistration(r)
  PROVE  Own(r)
<1> PICK s \in RunState : s = job[r].s
  BY DEF RunbookInv, TypeOK
<1>1. UNCHANGED <<lane, gw, rows>> /\ rows \in Seq([key : {"P2", "P2H"}, run : Runs, state : States])
  BY DEF ReadRegistration, UseRegistration, mandate, gateway, RunbookInv, TypeOK
<1>2. Kept
  BY <1>1, NothingChanged
<1> PICK t : t = [s EXCEPT !.status = "AWAITING_HUMAN_PURCHASE"]
  OBVIOUS
<1>3. /\ t \in RunState /\ t.step = s.step /\ t.server = s.server /\ t.polls = s.polls
      /\ t.status = "AWAITING_HUMAN_PURCHASE"
  BY DEF RunState, Statuses
<1>4. CASE ReadRegistration(r)
  <2>1. /\ s.step = "P2H" /\ Sound(r, s) /\ Counted(s) /\ s.status \notin Terminal
    BY <1>4, OnState DEF ReadRegistration
  <2>2. CASE \E b \in BOOLEAN : job' = [job EXCEPT ![r].pc = "status", ![r].seen = b]
    <3>1. /\ job' \in Jobs /\ job'[r].pc = "status" /\ job'[r].s = s
          /\ \A q \in Runs \ {r} : job'[q] = job[q]
      BY <2>2, SeenJob DEF RunbookInv
    <3>2. JobAt(r)'
      <4>1. Sound(r, s)'
        BY <1>2, <2>1, SoundKept
      <4> QED
        BY <2>1, <3>1, <4>1 DEF JobAt, At
    <3> QED
      BY <1>1, <1>2, <3>1, <3>2 DEF Own
  <2>3. CASE Undo(r, s, "CLOSED")
    BY <1>1, <2>1, <2>3, UndoOwn DEF Errors, Answers, Undone
  <2>4. CASE Return(r, [s EXCEPT !.status = "AWAITING_HUMAN_PURCHASE"])
    <3>1. Sound(r, t) /\ Counted(t)
      BY <1>3, <2>1 DEF Sound, Counted
    <3> QED
      BY <1>1, <1>3, <2>4, <3>1, ReturnOwn
  <2> QED
    BY <1>4, <2>2, <2>3, <2>4 DEF ReadRegistration
<1>5. CASE UseRegistration(r)
  <2>1. /\ s.step = "P2H" /\ Sound(r, s) /\ Counted(s) /\ s.status \notin Terminal
    BY <1>5 DEF UseRegistration, RunbookInv, JobAt, At
  <2>2. CASE Return(r, [Enter(s, "P3") EXCEPT !.status = "RUNNING", !.server = TRUE])
    <3>1. PICK u \in RunState : u = Enter(s, "P3") /\ u.step = "P3" /\ u.polls = 0
      BY EnterType DEF Steps
    <3>2. PICK v : v = [u EXCEPT !.status = "RUNNING", !.server = TRUE]
      OBVIOUS
    <3>3. v \in RunState /\ v.step = "P3" /\ v.polls = 0 /\ v.server = TRUE /\ v.status = "RUNNING"
      BY <3>1, <3>2 DEF RunState, Statuses
    <3>4. lane # "automated"
      BY <2>1 DEF Sound
    <3>5. Sound(r, v) /\ Counted(v) /\ Return(r, v)
      BY <2>2, <3>1, <3>2, <3>3, <3>4, RunbookAssumption DEF Sound, Counted, Served
    <3> QED
      BY <1>1, <3>3, <3>5, ReturnOwn
  <2>3. CASE Return(r, Fail(s, "EXPIRED"))
    BY <1>1, <2>1, <2>3, FailOwn DEF Errors, Answers
  <2>4. CASE Return(r, [s EXCEPT !.status = "AWAITING_HUMAN_PURCHASE"])
    <3>1. Sound(r, t) /\ Counted(t)
      BY <1>3, <2>1 DEF Sound, Counted
    <3> QED
      BY <1>1, <1>3, <2>4, <3>1, ReturnOwn
  <2> QED
    BY <1>5, <2>2, <2>3, <2>4 DEF UseRegistration
<1> QED
  BY <1>4, <1>5

(* A note in the Pilot's ledger.                                           *)
LEMMA NoteOwn ==
  ASSUME RunbookInv, NEW r \in Runs, NEW st \in States, rows' = Append(rows, Note(r, "P2", st)),
         UNCHANGED <<lane, gw>>
  PROVE  /\ Kept /\ rows' \in Seq([key : {"P2", "P2H"}, run : Runs, state : States])
         /\ st = "INTENT" => Noted(r)'
<1>1. PICK n \in [key : {"P2", "P2H"}, run : Runs, state : States] :
        n = Note(r, "P2", st) /\ n.key = "P2" /\ n.run = r /\ n.state = st
  BY DEF Note
<1>2. rows \in Seq([key : {"P2", "P2H"}, run : Runs, state : States])
  BY DEF RunbookInv, TypeOK
<1>3. rows' = Append(rows, n)
  BY <1>1
<1>4. /\ rows' \in Seq([key : {"P2", "P2H"}, run : Runs, state : States])
      /\ rows'[Len(rows) + 1] = n /\ Len(rows') = Len(rows) + 1 /\ Len(rows) \in Nat
  BY <1>2, <1>3
<1>5. st = "INTENT" => Noted(r)'
  BY <1>1, <1>4 DEF Noted
<1> QED
  BY <1>3, <1>4, <1>5, RowsGrow DEF RunbookInv

LEMMA ProvisionOwn ==
  ASSUME RunbookInv, NEW r \in Runs,
         Provision(r) \/ Intend(r) \/ Bought(r) \/ NotBought(r)
  PROVE  Own(r)
<1> PICK s \in RunState : s = job[r].s
  BY DEF RunbookInv, TypeOK
<1>1. UNCHANGED <<lane, gw>> /\ rows \in Seq([key : {"P2", "P2H"}, run : Runs, state : States])
  BY DEF Provision, Intend, Bought, NotBought, mandate, gateway, RunbookInv, TypeOK
<1>2. CASE Provision(r)
  <2>1. /\ s.step = "P2" /\ Sound(r, s) /\ Counted(s) /\ s.status \notin Terminal /\ UNCHANGED rows
    BY <1>2, OnState DEF Provision
  <2>2. CASE \E e \in {"BUDGET", "IN_FLIGHT", "ALREADY_COMMITTED"} : Return(r, Fail(s, e))
    BY <1>1, <2>1, <2>2, FailOwn DEF Errors, Answers
  <2>3. CASE Goto(r, "intent")
    <3>1. /\ job' \in Jobs /\ job'[r].pc = "intent" /\ job'[r].s = s
          /\ \A q \in Runs \ {r} : job'[q] = job[q]
      BY <2>3, GotoJob DEF Pcs, RunbookInv
    <3>2. Kept
      BY <1>1, <2>1, NothingChanged
    <3>3. Sound(r, s)'
      BY <2>1, <3>2, SoundKept
    <3>4. JobAt(r)'
      BY <2>1, <3>1, <3>3 DEF JobAt, At
    <3> QED
      BY <1>1, <2>1, <3>1, <3>2, <3>4 DEF Own
  <2>4. CASE Undo(r, s, "LEDGER")
    <3>1. s.step = "P2" /\ s.polls = 0
      BY <2>1 DEF Counted
    <3> QED
      BY <1>1, <2>1, <2>4, <3>1, UndoOwn DEF Errors, Undone
  <2> QED
    BY <1>2, <2>2, <2>3, <2>4 DEF Provision, Unreadable
<1>3. CASE Intend(r)
  <2>1. /\ s.step = "P2" /\ Sound(r, s) /\ Counted(s) /\ s.status \notin Terminal
    BY <1>3 DEF Intend, RunbookInv, JobAt, At
  <2>2. /\ Kept /\ rows' \in Seq([key : {"P2", "P2H"}, run : Runs, state : States]) /\ Noted(r)'
    BY <1>1, <1>3, NoteOwn DEF Intend, States
  <2>3. /\ job' \in Jobs /\ job'[r].pc = "call" /\ job'[r].s = s /\ job'[r].key = "P2"
        /\ \A q \in Runs \ {r} : job'[q] = job[q]
    BY <1>3, CallJob DEF Intend, RunbookInv, Keys
  <2>4. Sound(r, s)'
    BY <2>1, <2>2, SoundKept
  <2>5. JobAt(r)'
    BY <2>1, <2>2, <2>3, <2>4 DEF JobAt, At, StepOf
  <2> QED
    BY <2>2, <2>3, <2>5 DEF Own
<1>4. CASE Bought(r)
  <2>1. /\ s.step = "P2" /\ Sound(r, s) /\ Counted(s) /\ s.status \notin Terminal
        /\ lane = "automated" => Owns(r, "P2")
    BY <1>4 DEF Bought, RunbookInv, JobAt, At
  <2>2. Kept /\ rows' \in Seq([key : {"P2", "P2H"}, run : Runs, state : States])
    BY <1>1, <1>4, NoteOwn DEF Bought, States
  <2>3. PICK v : v = [s EXCEPT !.step = "P3", !.server = TRUE, !.cost = TRUE]
    OBVIOUS
  <2>4. v \in RunState /\ v.step = "P3" /\ v.server = TRUE /\ v.status = s.status /\ v.polls = s.polls
    BY <2>3 DEF RunState, Steps
  <2>5. Sound(r, v) /\ Counted(v) /\ Return(r, v)
    BY <1>4, <2>1, <2>3, <2>4, RunbookAssumption DEF Sound, Counted, Served, Terminal, Bought
  <2>6. Sound(r, v)'
    BY <2>2, <2>5, SoundKept
  <2> QED
    BY <2>2, <2>4, <2>5, <2>6, ReturnJob, ReturnAt DEF Own, RunbookInv
<1>5. CASE NotBought(r)
  <2>1. /\ s.step = "P2" /\ Sound(r, s) /\ Counted(s) /\ s.status \notin Terminal
    BY <1>5 DEF NotBought, RunbookInv, JobAt, At
  <2>2. Kept /\ rows' \in Seq([key : {"P2", "P2H"}, run : Runs, state : States])
    BY <1>1, <1>5, NoteOwn DEF NotBought, States
  <2>3. PICK v \in RunState : /\ v = Fail(s, "PROVISION") /\ v.step = s.step /\ v.server = s.server
                             /\ v.status = "FAILED" /\ v.polls = s.polls
    BY FailType DEF Errors
  <2>4. Sound(r, v) /\ Counted(v) /\ Return(r, v)
    BY <1>5, <2>1, <2>3 DEF Sound, Counted, Terminal, NotBought
  <2>5. Sound(r, v)'
    BY <2>2, <2>4, SoundKept
  <2> QED
    BY <2>2, <2>4, <2>5, ReturnJob, ReturnAt DEF Own, RunbookInv
<1> QED
  BY <1>2, <1>3, <1>4, <1>5

(* One more poll may be one too many: what is then undone counted it.      *)
LEMMA WaitUndoOwn ==
  ASSUME RunbookInv, NEW r \in Runs, NEW s \in RunState, NEW e \in Errors, Undo(r, Wait(s), e),
         Sound(r, s), Counted(s), s.step \in {"P3", "P7"}, s.status \notin Terminal,
         UNCHANGED <<lane, gw, rows>>
  PROVE  Own(r)
<1>1. s.polls < PollLimit
  BY DEF Counted
<1>2. PICK t \in RunState : /\ t = Wait(s) /\ t.step = s.step /\ t.server = s.server
                           /\ t.status = "WAITING"
  BY <1>1, WaitType
<1>3. /\ Sound(r, t) /\ Undo(r, t, e) /\ t.status \notin Terminal
      /\ t.step \in Undone /\ t.step # "P2"
  BY <1>2 DEF Sound, Undone, Terminal
<1> QED
  BY <1>3, UndoOwn

(* A step done: the next one is entered with no polls counted.             *)
LEMMA EnterOwn ==
  ASSUME RunbookInv, NEW r \in Runs, NEW s \in RunState, NEW step \in {"P4", "P5", "P6"},
         Return(r, Enter(s, step)), Sound(r, s), s.step \in Served, s.status \notin Terminal,
         UNCHANGED <<lane, gw, rows>>
  PROVE  Own(r)
<1>1. PICK t \in RunState : /\ t = Enter(s, step) /\ t.step = step /\ t.server = s.server
                           /\ t.status = s.status /\ t.polls = 0
  BY EnterType DEF Steps
<1>2. Sound(r, t) /\ Counted(t) /\ Return(r, t)
  BY <1>1 DEF Sound, Counted, Served, Terminal
<1> QED
  BY <1>2, ReturnOwn

(* A call goes out.                                                        *)
LEMMA CallOwn ==
  ASSUME RunbookInv, NEW r \in Runs, NEW s \in RunState, NEW k \in Keys \ {"P2"},
         job' \in Jobs, job'[r].pc = "call", job'[r].key = k, job'[r].s = s,
         \A q \in Runs \ {r} : job'[q] = job[q],
         Sound(r, s), Counted(s), s.step = StepOf(k), s.status \notin Terminal,
         UNCHANGED <<lane, gw, rows>>
  PROVE  Own(r)
<1>1. Kept
  BY NothingChanged
<1>2. Sound(r, s)'
  BY <1>1, SoundKept
<1>3. JobAt(r)'
  BY <1>2 DEF JobAt, At
<1> QED
  BY <1>1, <1>3 DEF Own, RunbookInv, TypeOK

LEMMA LookOwn ==
  ASSUME RunbookInv, NEW r \in Runs, Boot(r) \/ Envs(r) \/ Verify(r)
  PROVE  Own(r)
<1> PICK s \in RunState : s = job[r].s
  BY DEF RunbookInv, TypeOK
<1>1. UNCHANGED <<lane, gw, rows>>
  BY DEF Boot, Envs, Verify, mandate, gateway
<1>2. CASE Boot(r)
  <2>1. /\ s.step = "P3" /\ Sound(r, s) /\ Counted(s) /\ s.status \notin Terminal
    BY <1>2, OnState DEF Boot
  <2>2. CASE Return(r, Enter(s, "P4"))
    BY <1>1, <2>1, <2>2, EnterOwn DEF Served
  <2>3. CASE s.polls + 1 < PollLimit /\ Return(r, Wait(s))
    BY <1>1, <2>1, <2>3, WaitOwn
  <2>4. CASE Undo(r, Wait(s), "BOOT")
    BY <1>1, <2>1, <2>4, WaitUndoOwn DEF Errors
  <2>5. CASE Undo(r, s, "CLOSED")
    BY <1>1, <2>1, <2>5, UndoOwn DEF Errors, Answers, Undone
  <2> QED
    BY <1>2, <2>2, <2>3, <2>4, <2>5 DEF Boot
<1>3. CASE Envs(r)
  <2>1. /\ s.step = "P5" /\ Sound(r, s) /\ Counted(s) /\ s.status \notin Terminal
    BY <1>3, OnState DEF Envs
  <2>2. CASE Return(r, Enter(s, "P6"))
    BY <1>1, <2>1, <2>2, EnterOwn DEF Served
  <2>3. CASE \E a \in {"AMBIGUOUS", "CLOSED", "REJECTED"} : Caught(r, s, a)
    BY <1>1, <2>1, <2>3, CaughtOwn DEF Errors, Answers
  <2> QED
    BY <1>3, <2>2, <2>3 DEF Envs
<1>4. CASE Verify(r)
  <2>1. /\ s.step = "P7" /\ Sound(r, s) /\ Counted(s) /\ s.status \notin Terminal
    BY <1>4, OnState DEF Verify
  <2>2. CASE Return(r, [s EXCEPT !.status = "DEPLOYED", !.step = "DONE", !.polls = @ + 1])
    <3> PICK t : t = [s EXCEPT !.status = "DEPLOYED", !.step = "DONE", !.polls = @ + 1]
      OBVIOUS
    <3>1. s.polls + 1 \in 0..(IF PollLimit > StepRetries THEN PollLimit ELSE StepRetries)
      <4>1. s.polls \in Nat /\ s.polls < PollLimit
        BY <2>1, RunbookAssumption DEF Counted, RunState
      <4> QED
        BY <4>1, RunbookAssumption
    <3>2. t \in RunState /\ t.step = "DONE" /\ t.server = s.server /\ t.status = "DEPLOYED"
      BY <3>1 DEF RunState, Steps, Statuses
    <3>3. Sound(r, t) /\ Counted(t) /\ Return(r, t)
      BY <2>1, <2>2, <3>2 DEF Sound, Counted, Served, Terminal
    <3> QED
      BY <1>1, <3>2, <3>3, ReturnOwn
  <2>3. CASE \E e \in {"CLOSED", "DEPLOY"} : Undo(r, s, e)
    BY <1>1, <2>1, <2>3, UndoOwn DEF Errors, Answers, Undone
  <2>4. CASE s.polls + 1 < PollLimit /\ Return(r, Wait(s))
    BY <1>1, <2>1, <2>4, WaitOwn
  <2>5. CASE Undo(r, Wait(s), "DEPLOY")
    BY <1>1, <2>1, <2>5, WaitUndoOwn DEF Errors
  <2> QED
    BY <1>4, <2>2, <2>3, <2>4, <2>5 DEF Verify
<1> QED
  BY <1>2, <1>3, <1>4

LEMMA SetupOwn ==
  ASSUME RunbookInv, NEW r \in Runs, Project(r) \/ Deploy(r) \/ Cutover(r)
  PROVE  Own(r)
<1> PICK s \in RunState : s = job[r].s
  BY DEF RunbookInv, TypeOK
<1>1. UNCHANGED <<lane, gw, rows>> /\ TypeOK
  BY DEF Project, Deploy, Cutover, mandate, gateway, RunbookInv
<1>2. CASE Project(r)
  <2>1. /\ s.step = "P4" /\ Sound(r, s) /\ Counted(s) /\ s.status \notin Terminal
    BY <1>2, OnState DEF Project
  <2> PICK t : t = [s EXCEPT !.status = "RUNNING"]
    OBVIOUS
  <2>2. t \in RunState /\ t.step = s.step /\ t.server = s.server /\ t.status = "RUNNING"
    BY DEF RunState, Statuses
  <2> PICK j \in [pc : Pcs, s : RunState, key : Keys, seen : BOOLEAN] : j = job[r]
    BY <1>1 DEF TypeOK
  <2> PICK i : i = [j EXCEPT !.pc = "call", !.key = "P4P", !.s = t]
    OBVIOUS
  <2>3. /\ i \in [pc : Pcs, s : RunState, key : Keys, seen : BOOLEAN]
        /\ i.pc = "call" /\ i.s = t /\ i.key = "P4P"
    BY <2>2 DEF Pcs, Keys
  <2>4. /\ job' \in Jobs /\ job'[r].pc = "call" /\ job'[r].s = t /\ job'[r].key = "P4P"
        /\ \A q \in Runs \ {r} : job'[q] = job[q]
    <3>1. [j EXCEPT !.pc = "call", !.key = "P4P", !.s.status = "RUNNING"] = i
      OBVIOUS
    <3>2. job' = [job EXCEPT ![r].pc = "call", ![r].key = "P4P", ![r].s.status = "RUNNING"]
      BY <1>2 DEF Project
    <3>3. DOMAIN job = Runs
      BY <1>1 DEF TypeOK
    <3>4. job' = [job EXCEPT ![r] = [job[r] EXCEPT !.pc = "call", !.key = "P4P", !.s.status = "RUNNING"]]
      BY <3>2, <3>3
    <3>5. job' = [job EXCEPT ![r] = i]
      BY <3>1, <3>4
    <3> QED
      BY <1>1, <2>3, <3>5, PutJob DEF TypeOK
  <2>5. Sound(r, t) /\ Counted(t) /\ t.step = StepOf("P4P") /\ t.status \notin Terminal
    BY <2>1, <2>2 DEF Sound, Counted, Terminal, StepOf
  <2> QED
    BY <1>1, <2>2, <2>4, <2>5, CallOwn DEF Keys
<1>3. CASE Deploy(r)
  <2>1. /\ s.step = "P6" /\ Sound(r, s) /\ Counted(s) /\ s.status \notin Terminal
    BY <1>3, OnState DEF Deploy
  <2>2. /\ job' \in Jobs /\ job'[r].pc = "call" /\ job'[r].s = s /\ job'[r].key = "P6"
        /\ \A q \in Runs \ {r} : job'[q] = job[q]
    BY <1>1, <1>3, CallJob DEF Deploy, Keys
  <2> QED
    BY <1>1, <2>1, <2>2, CallOwn DEF Keys, StepOf
<1>4. CASE Cutover(r)
  <2>1. /\ s.step = "P8" /\ Sound(r, s) /\ Counted(s) /\ s.status \notin Terminal
    BY <1>4, OnState DEF Cutover
  <2>2. CASE Return(r, [s EXCEPT !.status = "NEEDS_APPROVAL", !.error = "NO_AUDITOR_TOKEN"])
    <3> PICK t : t = [s EXCEPT !.status = "NEEDS_APPROVAL", !.error = "NO_AUDITOR_TOKEN"]
      OBVIOUS
    <3>1. t \in RunState /\ t.step = s.step /\ t.server = s.server /\ t.status = "NEEDS_APPROVAL"
      BY DEF RunState, Statuses, Errors
    <3>2. Sound(r, t) /\ Counted(t) /\ Return(r, t)
      BY <2>1, <2>2, <3>1 DEF Sound, Counted
    <3> QED
      BY <1>1, <3>1, <3>2, ReturnOwn
  <2>3. CASE Return(r, Fail(s, "NO_AUDITOR_TOKEN"))
    BY <1>1, <2>1, <2>3, FailOwn DEF Errors
  <2>4. CASE job' = [job EXCEPT ![r].pc = "call", ![r].key = "P8"]
    <3>1. /\ job' \in Jobs /\ job'[r].pc = "call" /\ job'[r].s = s /\ job'[r].key = "P8"
          /\ \A q \in Runs \ {r} : job'[q] = job[q]
      BY <1>1, <2>4, CallJob DEF Keys
    <3> QED
      BY <1>1, <2>1, <3>1, CallOwn DEF Keys, StepOf
  <2> QED
    BY <1>4, <2>2, <2>3, <2>4 DEF Cutover
<1> QED
  BY <1>2, <1>3, <1>4

LEMMA RollbackOwn ==
  ASSUME RunbookInv, NEW r \in Runs, UndoHandoff(r) \/ UndoServer(r)
  PROVE  Own(r)
<1> PICK s \in RunState : s = job[r].s
  BY DEF RunbookInv, TypeOK
<1>1. UNCHANGED <<lane, gw, rows>>
  BY DEF UndoHandoff, UndoServer, mandate, gateway
<1>2. /\ s.step \in Undone /\ Sound(r, s) /\ s.status \notin Terminal
      /\ s.step = "P2" => s.polls = 0
  BY DEF UndoHandoff, UndoServer, RunbookInv, JobAt, At
<1>3. CASE \E st \in {"FAILED", "ROLLED_BACK"} : Return(r, [s EXCEPT !.status = st, !.cost = FALSE])
  <2>1. PICK st \in {"FAILED", "ROLLED_BACK"} : Return(r, [s EXCEPT !.status = st, !.cost = FALSE])
    BY <1>3
  <2> PICK t : t = [s EXCEPT !.status = st, !.cost = FALSE]
    OBVIOUS
  <2>2. t \in RunState /\ t.step = s.step /\ t.server = s.server /\ t.status = st /\ t.polls = s.polls
    BY DEF RunState, Statuses
  <2>3. Sound(r, t) /\ Counted(t) /\ Return(r, t)
    BY <1>2, <2>1, <2>2 DEF Sound, Counted, Terminal, Undone
  <2> QED
    BY <1>1, <2>2, <2>3, ReturnOwn
<1>4. CASE Return(r, Fail(s, "CLEANUP"))
  <2>1. PICK t \in RunState : /\ t = Fail(s, "CLEANUP") /\ t.step = s.step /\ t.server = s.server
                             /\ t.status = "FAILED" /\ t.polls = s.polls
    BY FailType DEF Errors
  <2>2. Sound(r, t) /\ Counted(t) /\ Return(r, t)
    BY <1>2, <1>4, <2>1 DEF Sound, Counted, Terminal, Undone
  <2> QED
    BY <1>1, <2>2, ReturnOwn
<1>5. CASE Return(r, [s EXCEPT !.status = "ROLLED_BACK"])
  <2> PICK t : t = [s EXCEPT !.status = "ROLLED_BACK"]
    OBVIOUS
  <2>1. /\ t \in RunState /\ t.step = s.step /\ t.server = s.server
        /\ t.status = "ROLLED_BACK" /\ t.polls = s.polls
    BY DEF RunState, Statuses
  <2>2. Sound(r, t) /\ Counted(t) /\ Return(r, t)
    BY <1>2, <1>5, <2>1 DEF Sound, Counted, Terminal, Undone
  <2> QED
    BY <1>1, <2>1, <2>2, ReturnOwn
<1> QED
  BY <1>3, <1>4, <1>5 DEF UndoHandoff, UndoServer

(* Every step of advance() keeps its own run sound.                        *)
LEMMA AdvanceOwn ==
  ASSUME RunbookInv, NEW r \in Runs, Advance(r)
  PROVE  Own(r) /\ UNCHANGED <<store, gw, acting, dns, lane, expired, closed, crashes, torn>>
<1>1. Own(r)
  BY BeginOwn, PreflightOwn, RegistrationOwn, ProvisionOwn, LookOwn, SetupOwn, RollbackOwn DEF Advance
<1>2. UNCHANGED <<store, gw, acting, dns, lane, expired, closed, crashes, torn>>
  <2>1. CASE Nothing(r) \/ Expires(r) \/ Verified(r) \/ Preflight(r) \/ NoteHandoff(r)
    BY <2>1 DEF Nothing, Expires, Verified, Preflight, NoteHandoff, gateway, world, mandate, faults
  <2>2. CASE PriceSubmit(r) \/ PricePoll(r) \/ ReadRegistration(r) \/ UseRegistration(r)
    BY <2>2 DEF PriceSubmit, PricePoll, ReadRegistration, UseRegistration, gateway, world, mandate, faults
  <2>3. CASE Provision(r) \/ Intend(r) \/ Bought(r) \/ NotBought(r)
    BY <2>3 DEF Provision, Intend, Bought, NotBought, gateway, world, mandate, faults
  <2>4. CASE Boot(r) \/ Project(r) \/ Envs(r) \/ Deploy(r) \/ Verify(r) \/ Cutover(r)
    BY <2>4 DEF Boot, Project, Envs, Deploy, Verify, Cutover, gateway, world, mandate, faults
  <2>5. CASE UndoHandoff(r) \/ UndoServer(r)
    BY <2>5 DEF UndoHandoff, UndoServer, gateway, world, mandate, faults
  <2> QED
    BY <2>1, <2>2, <2>3, <2>4, <2>5 DEF Advance
<1> QED
  BY <1>1, <1>2

-----------------------------------------------------------------------------
(* What the Pilot makes of an answer, when "ok" is true.                   *)

Told(r) ==
  /\ job' \in Jobs /\ JobAt(r)'
  /\ \A q \in Runs \ {r} : job'[q] = job[q]

LEMMA HearPurchaseTold ==
  ASSUME TypeOK, NEW r \in Runs, JobAt(r), job[r].pc \in {"call", "wait"}, job[r].key = "P2",
         Kept, NEW a \in Answers, HearPurchase(r, a),
         a = "OK" /\ lane = "automated" => Owns(r, "P2")'
  PROVE  Told(r)
<1> PICK s \in RunState : s = job[r].s
  BY DEF TypeOK
<1>1. s.step = "P2" /\ Sound(r, s) /\ Counted(s) /\ s.status \notin Terminal
  BY DEF JobAt, At, StepOf
<1>2. Sound(r, s)' /\ lane' = lane
  BY <1>1, SoundKept DEF Kept
<1>3. CASE \E l \in {"bought", "notBought"} : Goto(r, l) /\ (l = "bought" => a = "OK")
  <2>1. PICK l \in {"bought", "notBought"} : Goto(r, l) /\ (l = "bought" => a = "OK")
    BY <1>3
  <2>2. /\ job' \in Jobs /\ job'[r].pc = l /\ job'[r].s = s
        /\ \A q \in Runs \ {r} : job'[q] = job[q]
    BY <2>1, GotoJob DEF Pcs
  <2>3. JobAt(r)'
    BY <1>1, <1>2, <2>1, <2>2 DEF JobAt, At
  <2> QED
    BY <2>2, <2>3 DEF Told
<1>4. CASE Return(r, Fail(s, "UNKNOWN"))
  <2>1. PICK t \in RunState : /\ t = Fail(s, "UNKNOWN") /\ t.step = s.step /\ t.server = s.server
                             /\ t.status = "FAILED" /\ t.polls = s.polls
    BY FailType DEF Errors
  <2>2. Sound(r, t)' /\ Counted(t) /\ Return(r, t)
    BY <1>1, <1>2, <1>4, <2>1 DEF Sound, Counted, Terminal
  <2> QED
    BY <2>2, ReturnJob, ReturnAt DEF Told
<1> QED
  BY <1>3, <1>4 DEF HearPurchase

LEMMA HearSetupTold ==
  ASSUME TypeOK, NEW r \in Runs, JobAt(r), job[r].pc \in {"call", "wait"},
         job[r].key \in {"P4P", "P4A", "P6"},
         Kept, NEW a \in Answers, HearSetup(r, a),
         a = "OK" /\ job[r].key = "P6" => Owns(r, "P6")'
  PROVE  Told(r)
<1> PICK s \in RunState : s = job[r].s
  BY DEF TypeOK
<1>1. /\ s.step = StepOf(job[r].key) /\ Sound(r, s) /\ Counted(s) /\ s.status \notin Terminal
      /\ s.step \in {"P4", "P6"}
  BY DEF JobAt, At, StepOf
<1>2. Sound(r, s)' /\ lane' = lane
  BY <1>1, SoundKept DEF Kept
<1>3. CASE job[r].key = "P4P" /\ job' = [job EXCEPT ![r].pc = "call", ![r].key = "P4A"]
  <2>1. /\ job' \in Jobs /\ job'[r].pc = "call" /\ job'[r].s = s /\ job'[r].key = "P4A"
        /\ \A q \in Runs \ {r} : job'[q] = job[q]
    BY <1>3, CallJob DEF Keys
  <2>2. JobAt(r)'
    BY <1>1, <1>2, <1>3, <2>1 DEF JobAt, At, StepOf
  <2> QED
    BY <2>1, <2>2 DEF Told
<1>4. CASE Return(r, Enter(s, "P5"))
  <2>1. PICK t \in RunState : /\ t = Enter(s, "P5") /\ t.step = "P5" /\ t.server = s.server
                             /\ t.status = s.status
    BY EnterType DEF Steps
  <2>2. Sound(r, t)' /\ Counted(t) /\ Return(r, t)
    BY <1>1, <1>2, <1>4, <2>1 DEF Sound, Counted, Served, Terminal
  <2> QED
    BY <2>2, ReturnJob, ReturnAt DEF Told
<1>5. CASE a = "OK" /\ job[r].key = "P6" /\ Return(r, Enter(s, "P7"))
  <2>1. PICK t \in RunState : /\ t = Enter(s, "P7") /\ t.step = "P7" /\ t.server = s.server
                             /\ t.status = s.status /\ t.polls = 0
    BY EnterType DEF Steps
  <2>2. Sound(r, t)' /\ Counted(t) /\ Return(r, t)
    BY <1>1, <1>2, <1>5, <2>1, RunbookAssumption DEF Sound, Counted, Served, Terminal
  <2> QED
    BY <2>2, ReturnJob, ReturnAt DEF Told
<1>6. CASE Caught(r, s, a)
  BY <1>1, <1>2, <1>6, CaughtAt DEF Told, Errors
<1> QED
  BY <1>3, <1>4, <1>5, <1>6 DEF HearSetup

LEMMA HearCutoverTold ==
  ASSUME TypeOK, NEW r \in Runs, JobAt(r), job[r].pc \in {"call", "wait"}, job[r].key = "P8",
         Kept, NEW a \in Answers, HearCutover(r, a)
  PROVE  Told(r)
<1> PICK s \in RunState : s = job[r].s
  BY DEF TypeOK
<1>1. s.step = "P8" /\ Sound(r, s) /\ Counted(s) /\ s.status \notin Terminal
  BY DEF JobAt, At, StepOf
<1>2. Sound(r, s)' /\ lane' = lane
  BY <1>1, SoundKept DEF Kept
<1>3. CASE Return(r, [s EXCEPT !.step = "DONE", !.status = "CUTOVER", !.dnsRec = TRUE])
  <2> PICK t : t = [s EXCEPT !.step = "DONE", !.status = "CUTOVER", !.dnsRec = TRUE]
    OBVIOUS
  <2>1. t \in RunState /\ t.step = "DONE" /\ t.server = s.server /\ t.status = "CUTOVER"
    BY DEF RunState, Steps, Statuses
  <2>2. Sound(r, t)' /\ Counted(t) /\ Return(r, t)
    BY <1>1, <1>2, <1>3, <2>1 DEF Sound, Counted, Served
  <2> QED
    BY <2>1, <2>2, ReturnJob, ReturnAt DEF Told
<1>4. CASE Return(r, Fail(s, "CUTOVER"))
  <2>1. PICK t \in RunState : /\ t = Fail(s, "CUTOVER") /\ t.step = s.step /\ t.server = s.server
                             /\ t.status = "FAILED"
    BY FailType DEF Errors
  <2>2. Sound(r, t)' /\ Counted(t) /\ Return(r, t)
    BY <1>1, <1>2, <1>4, <2>1 DEF Sound, Counted
  <2> QED
    BY <2>2, ReturnJob, ReturnAt DEF Told
<1> QED
  BY <1>3, <1>4 DEF HearCutover

LEMMA HearTold ==
  ASSUME TypeOK, NEW r \in Runs, JobAt(r), job[r].pc \in {"call", "wait"},
         NEW k, k = job[r].key, Kept, NEW a \in Answers, Hear(r, a),
         a = "OK" /\ ((k = "P2" /\ lane = "automated") \/ k = "P6") => Owns(r, k)'
  PROVE  Told(r)
<1>1. CASE k = "P2" /\ HearPurchase(r, a)
  BY <1>1, HearPurchaseTold
<1>2. CASE k \in {"P4P", "P4A", "P6"} /\ HearSetup(r, a)
  BY <1>2, HearSetupTold
<1>3. CASE k = "P8" /\ HearCutover(r, a)
  BY <1>3, HearCutoverTold
<1> QED
  BY <1>1, <1>2, <1>3 DEF Hear

-----------------------------------------------------------------------------
(* The gateway and the world around it.                                    *)

LEMMA GatewaySame ==
  ASSUME RunbookInv, Kept, UNCHANGED <<gw, acting>>, server' = server \/ server' # "live"
  PROVE  GatewayAt' /\ IntentBeforeClaim'
BY DEF RunbookInv, GatewayAt, IntentBeforeClaim, Kept, Noted, Keys

(* A step of one run, or of none, keeps what holds of the others.          *)
LEMMA OthersKept ==
  ASSUME RunbookInv, Kept, UNCHANGED store, TypeOK', GatewayAt', IntentBeforeClaim',
         \A q \in Runs : job'[q] = job[q] \/ JobAt(q)'
  PROVE  RunbookInv'
<1>1. \A q \in Runs : JobAt(q)' /\ StoreAt(q)'
  BY JobKept, StoreKept DEF RunbookInv
<1> QED
  BY <1>1 DEF RunbookInv

LEMMA AdvanceKeeps ==
  ASSUME RunbookInv, NEW r \in Runs, Advance(r)
  PROVE  RunbookInv'
<1>1. Own(r) /\ UNCHANGED <<store, gw, acting, dns, lane, expired, closed, crashes, torn>>
  BY AdvanceOwn
<1>2. server' \in {server, "gone"} /\ lost' \in Nat
  <2>1. CASE UndoServer(r)
    BY <2>1 DEF UndoServer, RunbookInv, TypeOK, faults
  <2>2. CASE ReadRegistration(r)
    BY <2>2 DEF ReadRegistration, LoseOne, RunbookInv, TypeOK, world
  <2>3. CASE UNCHANGED <<world, faults>>
    BY <2>3 DEF RunbookInv, TypeOK, world, faults
  <2>4. Advance(r) /\ ~UndoServer(r) /\ ~ReadRegistration(r) => UNCHANGED <<world, faults>>
    <3>1. CASE Nothing(r) \/ Expires(r) \/ Verified(r) \/ Preflight(r) \/ NoteHandoff(r)
      BY <3>1 DEF Nothing, Expires, Verified, Preflight, NoteHandoff
    <3>2. CASE PriceSubmit(r) \/ PricePoll(r) \/ UseRegistration(r) \/ UndoHandoff(r)
      BY <3>2 DEF PriceSubmit, PricePoll, UseRegistration, UndoHandoff
    <3>3. CASE Provision(r) \/ Intend(r) \/ Bought(r) \/ NotBought(r)
      BY <3>3 DEF Provision, Intend, Bought, NotBought
    <3>4. CASE Boot(r) \/ Project(r) \/ Envs(r) \/ Deploy(r) \/ Verify(r) \/ Cutover(r)
      BY <3>4 DEF Boot, Project, Envs, Deploy, Verify, Cutover
    <3> QED
      BY <3>1, <3>2, <3>3, <3>4 DEF Advance
  <2> QED
    BY <2>1, <2>2, <2>3, <2>4
<1>3. TypeOK'
  BY <1>1, <1>2 DEF Own, Jobs, RunbookInv, TypeOK
<1>4. GatewayAt' /\ IntentBeforeClaim'
  BY <1>1, <1>2, GatewaySame DEF Own
<1> QED
  BY <1>1, <1>3, <1>4, OthersKept DEF Own

(* An answer that changes nothing at the gateway.                          *)
LEMMA HearKeeps ==
  ASSUME RunbookInv, NEW r \in Runs, job[r].pc \in {"call", "wait"}, NEW k, k = job[r].key,
         NEW a \in Answers, Hear(r, a), a = "OK" => Owns(r, k),
         lost' \in Nat, UNCHANGED <<store, rows, gateway, world, mandate, crashes, torn>>
  PROVE  RunbookInv'
<1>1. TypeOK /\ JobAt(r) /\ k \in Keys
  BY DEF RunbookInv, TypeOK
<1>2. Kept
  BY NothingChanged DEF gateway, mandate
<1>3. Told(r)
  BY <1>1, <1>2, HearTold DEF Kept
<1>4. TypeOK'
  BY <1>1, <1>3 DEF Told, Jobs, TypeOK, gateway, world, mandate
<1>5. GatewayAt' /\ IntentBeforeClaim'
  BY <1>2, GatewaySame DEF gateway, world
<1> QED
  BY <1>2, <1>3, <1>4, <1>5, OthersKept DEF Told

LEMMA ReplyHears ==
  ASSUME TypeOK, NEW r, NEW a \in Answers, Reply(r, a)
  PROVE  lost' \in Nat /\ \E b \in {a, "LOST"} : Hear(r, b)
BY DEF Reply, LoseOne, TypeOK

(* How the gateway's ledger may move.                                      *)
LEMMA LatestType ==
  ASSUME RunbookInv, NEW k \in Keys, NEW st \in States, NEW r \in Runs, Latest(k, st, r, dns),
         gw[k].state # "COMMITTED"
  PROVE  /\ gw' \in [Keys -> [state : States, run : Runs \cup {NoRun}, previous : {"old", "ours"}]]
         /\ gw'[k].state = st /\ gw'[k].run = r
         /\ \A l \in Keys \ {k} : gw'[l] = gw[l]
<1>1. gw' = [gw EXCEPT ![k] = [state |-> st, run |-> r, previous |-> dns]]
  BY DEF Latest
<1>2. gw \in [Keys -> [state : States, run : Runs \cup {NoRun}, previous : {"old", "ours"}]]
      /\ dns \in {"old", "ours"}
  BY DEF RunbookInv, TypeOK
<1> QED
  BY <1>1, <1>2

(* The claim: noted by the Pilot before, an open INTENT after.             *)
LEMMA ClaimedKeeps ==
  ASSUME RunbookInv, NEW r \in Runs, Claimed(r)
  PROVE  RunbookInv'
<1> PICK k \in Keys : k = job[r].key
  BY DEF RunbookInv, TypeOK
<1> PICK s \in RunState : s = job[r].s
  BY DEF RunbookInv, TypeOK
<1>1. TypeOK /\ JobAt(r) /\ At(r, "call") /\ gw[k].state = "FAILED"
  BY DEF Claimed, RunbookInv
<1>2. Latest(k, "INTENT", r, dns) /\ acting' = acting \cup {k}
      /\ UNCHANGED <<store, rows, server, dns, lane, expired, closed, lost, crashes, torn>>
  BY DEF Claimed, world, mandate, faults
<1>3. /\ gw' \in [Keys -> [state : States, run : Runs \cup {NoRun}, previous : {"old", "ours"}]]
      /\ gw'[k].state = "INTENT" /\ gw'[k].run = r
      /\ \A l \in Keys \ {k} : gw'[l] = gw[l]
  BY <1>1, <1>2, LatestType DEF States
<1>4. Kept
  BY <1>1, <1>2, LatestKept
<1>5. /\ job' \in Jobs /\ job'[r].pc = "wait" /\ job'[r].s = s /\ job'[r].key = k
      /\ \A q \in Runs \ {r} : job'[q] = job[q]
  BY <1>1, GotoJob DEF Claimed, Pcs
<1>6. /\ Sound(r, s) /\ Counted(s) /\ s.status \notin Terminal /\ s.step = StepOf(k)
      /\ lane = "automated" /\ k = "P2" => Noted(r)
  BY <1>1 DEF JobAt, At
<1>7. JobAt(r)'
  <2>1. Sound(r, s)'
    BY <1>4, <1>6, SoundKept
  <2>2. lane' = "automated" /\ k = "P2" => Noted(r)'
    BY <1>4, <1>6 DEF Kept
  <2> QED
    BY <1>5, <1>6, <2>1, <2>2 DEF JobAt, At
<1>8. TypeOK'
  BY <1>1, <1>2, <1>3, <1>5 DEF TypeOK, Jobs
<1>9. GatewayAt'
  <2>1. \A l \in acting' : gw'[l].state = "INTENT" /\ gw'[l].run \in Runs
    BY <1>1, <1>2, <1>3 DEF RunbookInv, GatewayAt, TypeOK
  <2>2. "P8" \in acting' => Owns(gw["P8"].run, "P6")' \/ k = "P8"
    BY <1>2, <1>3, <1>4 DEF RunbookInv, GatewayAt, Kept, Keys
  <2>3. k = "P8" => Owns(r, "P6")'
    BY <1>4, <1>6 DEF StepOf, Sound, Kept, Keys
  <2>4. "P8" \in acting' => Owns(gw["P8"].run, "P6")'
    BY <1>2, <1>3, <2>2, <2>3 DEF Owns
  <2>5. gw'["P2"].state = "FAILED" \/ "P2" \in acting' => server' # "live"
    BY <1>1, <1>2, <1>3 DEF RunbookInv, GatewayAt, Keys
  <2> QED
    BY <2>1, <2>4, <2>5 DEF GatewayAt
<1>10. IntentBeforeClaim'
  <2>1. CASE k = "P2"
    BY <1>2, <1>3, <1>4, <1>6, <2>1 DEF IntentBeforeClaim, Noted, Kept
  <2>2. CASE k # "P2"
    <3>1. gw'["P2"] = gw["P2"]
      BY <1>3, <2>2 DEF Keys
    <3> QED
      BY <1>2, <3>1 DEF IntentBeforeClaim, RunbookInv
  <2> QED
    BY <2>1, <2>2
<1> QED
  BY <1>2, <1>4, <1>5, <1>7, <1>8, <1>9, <1>10, OthersKept

(* A purchase whose outcome was open is recorded: its server is there.     *)
LEMMA AdoptedKeeps ==
  ASSUME RunbookInv, NEW r \in Runs, At(r, "call"), job[r].key = "P2",
         gw["P2"].state = "INTENT", gw["P2"].run = r, server = "live",
         Latest("P2", "COMMITTED", r, dns), Reply(r, "OK"),
         UNCHANGED <<store, rows, acting, world, mandate, crashes, torn>>
  PROVE  RunbookInv'
<1>1. TypeOK /\ JobAt(r) /\ "P2" \in Keys
  BY DEF RunbookInv, Keys
<1>2. UNCHANGED <<store, rows, acting, server, dns, lane, expired, closed, crashes, torn>>
  BY DEF world, mandate
<1>3. /\ gw' \in [Keys -> [state : States, run : Runs \cup {NoRun}, previous : {"old", "ours"}]]
      /\ gw'["P2"].state = "COMMITTED" /\ gw'["P2"].run = r
      /\ \A l \in Keys \ {"P2"} : gw'[l] = gw[l]
  BY <1>1, LatestType DEF States
<1>4. Kept
  BY <1>1, <1>2, LatestKept
<1>5. PICK b \in {"OK", "LOST"} : Hear(r, b)
  BY <1>1, ReplyHears DEF Answers
<1>6. Told(r)
  BY <1>1, <1>3, <1>4, <1>5, HearTold DEF Answers, Owns, At
<1>7. TypeOK'
  BY <1>1, <1>2, <1>3, <1>6, ReplyHears DEF TypeOK, Told, Jobs, Answers
<1>8. "P2" \notin acting
  BY DEF RunbookInv, GatewayAt
<1>9. GatewayAt'
  BY <1>2, <1>3, <1>4, <1>8 DEF RunbookInv, GatewayAt, Kept, Keys, TypeOK
<1>10. IntentBeforeClaim'
  BY <1>2, <1>3 DEF RunbookInv, IntentBeforeClaim
<1> QED
  BY <1>2, <1>4, <1>6, <1>7, <1>9, <1>10, OthersKept DEF Told

LEMMA ServeKeeps ==
  ASSUME RunbookInv, NEW r \in Runs, Serve(r)
  PROVE  RunbookInv'
<1> PICK k \in Keys : k = job[r].key
  BY DEF RunbookInv, TypeOK
<1>1. TypeOK
  BY DEF RunbookInv
<1>2. CASE NeverArrives(r) \/ TimeOut(r)
  <2>1. /\ job[r].pc \in {"call", "wait"} /\ Hear(r, "LOST") /\ lost' \in Nat
        /\ UNCHANGED <<store, rows, gateway, world, mandate, crashes, torn>>
    BY <1>1, <1>2 DEF NeverArrives, TimeOut, LoseOne, At, TypeOK
  <2> QED
    BY <2>1, HearKeeps DEF Answers
<1>3. CASE TurnedAway(r)
  <2>1. PICK a \in {"EXPIRED", "CLOSED", "REJECTED"} : Reply(r, a)
    BY <1>3 DEF TurnedAway
  <2>2. lost' \in Nat /\ \E b \in {a, "LOST"} : Hear(r, b)
    BY <1>1, <2>1, ReplyHears DEF Answers
  <2>3. job[r].pc = "call" /\ UNCHANGED <<store, rows, gateway, world, mandate, crashes, torn>>
    BY <1>3 DEF TurnedAway, At
  <2> QED
    BY <2>2, <2>3, HearKeeps DEF Answers
<1>4. CASE Claimed(r)
  BY <1>4, ClaimedKeeps
<1>5. CASE Recorded(r)
  <2>1. PICK a \in {"OK", "REPLAY"} : Reply(r, a) /\ (a = "OK" => Owns(r, k))
    BY <1>5 DEF Recorded, Owns
  <2>2. lost' \in Nat /\ \E b \in {a, "LOST"} : Hear(r, b)
    BY <1>1, <2>1, ReplyHears DEF Answers
  <2>3. job[r].pc = "call" /\ UNCHANGED <<store, rows, gateway, world, mandate, crashes, torn>>
    BY <1>5 DEF Recorded, At
  <2> QED
    BY <2>1, <2>2, <2>3, HearKeeps DEF Answers
<1>6. CASE Unresolved(r)
  <2>1. /\ At(r, "call") /\ gw[k].state = "INTENT"
        /\ UNCHANGED <<store, rows, acting, world, mandate, crashes, torn>>
    BY <1>6 DEF Unresolved
  <2>2. CASE /\ k = "P2" /\ gw[k].run = r /\ server = "live"
             /\ Latest(k, "COMMITTED", r, dns) /\ Reply(r, "OK")
    BY <2>1, <2>2, AdoptedKeeps
  <2>3. CASE UNCHANGED gw /\ \E a \in {"IN_FLIGHT", "AMBIGUOUS"} : Reply(r, a)
    <3>1. PICK a \in {"IN_FLIGHT", "AMBIGUOUS"} : Reply(r, a)
      BY <2>3
    <3>2. lost' \in Nat /\ \E b \in {a, "LOST"} : Hear(r, b)
      BY <1>1, <3>1, ReplyHears DEF Answers
    <3>3. job[r].pc = "call" /\ UNCHANGED <<store, rows, gateway, world, mandate, crashes, torn>>
      BY <2>1, <2>3 DEF At, gateway
    <3> QED
      BY <3>2, <3>3, HearKeeps DEF Answers
  <2> QED
    BY <1>6, <2>2, <2>3 DEF Unresolved
<1> QED
  BY <1>2, <1>3, <1>4, <1>5, <1>6 DEF Serve

(* act() ends.                                                             *)
LEMMA ActKeeps ==
  ASSUME RunbookInv, NEW k \in Keys, Act(k)
  PROVE  RunbookInv'
<1> PICK r : r = gw[k].run
  OBVIOUS
<1>1. /\ TypeOK /\ k \in acting /\ gw[k].state = "INTENT" /\ r \in Runs /\ JobAt(r)
      /\ acting' = acting \ {k}
      /\ UNCHANGED <<store, rows, lane, expired, closed, crashes, torn>>
  BY DEF Act, RunbookInv, GatewayAt, mandate
<1>2. PICK st \in States, a \in {"OK", "REJECTED", "AMBIGUOUS"} :
        /\ \/ Latest(k, st, r, dns) /\ (st = "COMMITTED" \/ st = "FAILED")
           \/ UNCHANGED gw /\ st = "INTENT"
        /\ a = "OK" => st = "COMMITTED"
        /\ IF At(r, "wait") /\ job[r].key = k THEN Reply(r, a) ELSE UNCHANGED <<job, lost>>
        /\ Effect({k}) \/ UNCHANGED world
        /\ k = "P2" /\ st = "FAILED" => UNCHANGED world
  BY DEF Act, States
<1>3. /\ gw' \in [Keys -> [state : States, run : Runs \cup {NoRun}, previous : {"old", "ours"}]]
      /\ gw'[k].state = st /\ gw'[k].run = r
      /\ \A l \in Keys \ {k} : gw'[l] = gw[l]
  <2>1. CASE Latest(k, st, r, dns)
    BY <1>1, <2>1, LatestType
  <2>2. CASE UNCHANGED gw /\ st = "INTENT"
    BY <1>1, <2>2 DEF TypeOK
  <2> QED
    BY <1>2, <2>1, <2>2
<1>4. Kept
  BY <1>1, <1>2, LatestKept, NothingChanged
<1>5. lost' \in Nat /\ job' \in Jobs /\ \A q \in Runs : job'[q] = job[q] \/ JobAt(q)'
  <2>1. CASE At(r, "wait") /\ job[r].key = k
    <3>1. PICK b \in {a, "LOST"} : Hear(r, b)
      BY <1>1, <1>2, <2>1, ReplyHears DEF Answers
    <3>2. b = "OK" => Owns(r, k)'
      BY <1>2, <1>3 DEF Owns
    <3>3. Told(r)
      BY <1>1, <1>4, <2>1, <3>1, <3>2, HearTold DEF Answers, At
    <3> QED
      BY <1>1, <1>2, <2>1, <3>3, ReplyHears DEF Told, Answers
  <2>2. CASE UNCHANGED <<job, lost>>
    BY <1>1, <2>2 DEF TypeOK, Jobs
  <2> QED
    BY <1>2, <2>1, <2>2
<1>6. server' \in {server, "live"} /\ dns' \in {"old", "ours"} /\ (k # "P2" => server' = server)
  BY <1>1, <1>2 DEF Effect, world, TypeOK
<1>7. TypeOK'
  BY <1>1, <1>3, <1>5, <1>6 DEF TypeOK, Jobs
<1>8. GatewayAt'
  <2>1. \A l \in acting' : gw'[l].state = "INTENT" /\ gw'[l].run \in Runs
    BY <1>1, <1>3 DEF RunbookInv, GatewayAt, TypeOK
  <2>2. "P8" \in acting' => Owns(gw["P8"].run, "P6")'
    <3>1. CASE "P8" \in acting'
      <4>1. gw'["P8"] = gw["P8"] /\ Owns(gw["P8"].run, "P6")
        BY <1>1, <1>3, <3>1 DEF RunbookInv, GatewayAt, Keys
      <4>2. gw["P6"].state = "COMMITTED" /\ k # "P6"
        BY <1>1, <4>1 DEF Owns
      <4> QED
        BY <1>3, <4>1, <4>2 DEF Owns, Keys
    <3> QED
      BY <3>1
  <2>3. gw'["P2"].state = "FAILED" \/ "P2" \in acting' => server' # "live"
    <3>1. CASE k = "P2"
      BY <1>1, <1>2, <1>3, <3>1 DEF RunbookInv, GatewayAt, world
    <3>2. CASE k # "P2"
      BY <1>1, <1>3, <1>6, <3>2 DEF RunbookInv, GatewayAt, Keys
    <3> QED
      BY <3>1, <3>2
  <2> QED
    BY <2>1, <2>2, <2>3 DEF GatewayAt
<1>9. gw'["P2"].run = gw["P2"].run
  BY <1>3 DEF Keys
<1>10. IntentBeforeClaim'
  BY <1>1, <1>9 DEF RunbookInv, IntentBeforeClaim
<1> QED
  BY <1>1, <1>4, <1>5, <1>7, <1>8, <1>10, OthersKept

(* The operator's registration, time and death.                            *)
LEMMA OutsideKeeps ==
  ASSUME RunbookInv,
         (\E r \in Runs : Register(r)) \/ Expire \/ Close \/ GatewayDies \/ PilotDies
  PROVE  RunbookInv'
<1>1. TypeOK /\ GatewayAt /\ IntentBeforeClaim
  BY DEF RunbookInv
<1>2. ASSUME NEW r \in Runs, Register(r) PROVE RunbookInv'
  <2>1. /\ lane = "handoff" /\ gw["P2"].state = "FAILED" /\ Latest("P2", "COMMITTED", r, dns)
        /\ server' = "live" /\ "P2" \in Keys
        /\ UNCHANGED <<store, job, rows, acting, dns, lane, expired, closed, lost, crashes, torn>>
    BY <1>2 DEF Register, mandate, faults, Keys
  <2>2. /\ gw' \in [Keys -> [state : States, run : Runs \cup {NoRun}, previous : {"old", "ours"}]]
        /\ gw'["P2"].state = "COMMITTED" /\ gw'["P2"].run = r
        /\ \A l \in Keys \ {"P2"} : gw'[l] = gw[l]
    BY <2>1, LatestType DEF States
  <2>3. Kept
    BY <1>1, <2>1, LatestKept
  <2>4. TypeOK'
    BY <1>1, <2>1, <2>2 DEF TypeOK
  <2>5. "P2" \notin acting
    BY <1>1, <2>1 DEF GatewayAt
  <2>6. GatewayAt'
    BY <1>1, <2>1, <2>2, <2>3, <2>5 DEF GatewayAt, Kept, Keys, TypeOK
  <2>7. IntentBeforeClaim'
    BY <2>1 DEF IntentBeforeClaim
  <2> QED
    BY <2>1, <2>3, <2>4, <2>6, <2>7, OthersKept
<1>3. CASE Expire \/ Close
  <2>1. /\ UNCHANGED <<store, job, rows, gw, acting, server, dns, lane, lost, crashes, torn>>
        /\ expired' \in BOOLEAN /\ closed' \in BOOLEAN
    BY <1>1, <1>3 DEF Expire, Close, gateway, world, faults, TypeOK
  <2>2. TypeOK'
    BY <1>1, <2>1 DEF TypeOK
  <2>3. Kept
    BY <2>1, NothingChanged
  <2> QED
    BY <2>1, <2>2, <2>3, GatewaySame, OthersKept
<1>4. CASE GatewayDies
  <2>1. /\ acting' = {} /\ lost' \in Nat
        /\ UNCHANGED <<store, job, rows, gw, lane, expired, closed, crashes, torn>>
    BY <1>1, <1>4 DEF GatewayDies, LoseOne, mandate, TypeOK
  <2>2. server' \in {server, "live"} /\ dns' \in {"old", "ours"}
        /\ (server' # server => "P2" \in acting)
    BY <1>1, <1>4 DEF GatewayDies, Effect, TypeOK
  <2>3. TypeOK'
    BY <1>1, <2>1, <2>2 DEF TypeOK
  <2>4. Kept
    BY <2>1, NothingChanged
  <2>5. GatewayAt'
    BY <1>1, <2>1, <2>2 DEF GatewayAt
  <2>6. IntentBeforeClaim'
    BY <1>1, <2>1 DEF IntentBeforeClaim
  <2> QED
    BY <2>1, <2>3, <2>4, <2>5, <2>6, OthersKept
<1>5. CASE PilotDies
  <2>1. /\ UNCHANGED <<store, rows, gw, acting, server, dns, lane, expired, closed, lost>>
        /\ job' = [r \in Runs |-> Idle] /\ crashes' \in Nat
    BY <1>1, <1>5 DEF PilotDies, gateway, world, mandate, TypeOK
  <2>2. Idle \in [pc : Pcs, s : RunState, key : Keys, seen : BOOLEAN]
    <3>1. 0 \in 0..(IF PollLimit > StepRetries THEN PollLimit ELSE StepRetries)
      BY RunbookAssumption
    <3>2. newRun \in RunState
      BY <3>1 DEF newRun, RunState, Steps, Statuses, Errors
    <3> QED
      BY <3>2 DEF Idle, Pcs, Keys
  <2>7. torn' \in BOOLEAN
    BY <1>1, <1>5 DEF PilotDies, TypeOK
  <2>3. TypeOK'
    BY <1>1, <2>1, <2>2, <2>7 DEF TypeOK
  <2>4. Kept
    BY <2>1, NothingChanged
  <2>5. \A r \in Runs : job'[r].pc = "idle"
    BY <2>1 DEF Idle
  <2>6. \A r \in Runs : JobAt(r)'
    BY <2>5 DEF JobAt, At
  <2> QED
    BY <2>1, <2>3, <2>4, <2>6, GatewaySame, OthersKept
<1> QED
  BY <1>2, <1>3, <1>4, <1>5

LEMMA EnvironmentKeeps ==
  ASSUME RunbookInv, Environment
  PROVE  RunbookInv'
BY ActKeeps, OutsideKeeps DEF Environment

LEMMA UnchangedKeeps ==
  ASSUME RunbookInv, UNCHANGED vars
  PROVE  RunbookInv'
<1>1. TypeOK'
  BY DEF RunbookInv, TypeOK, vars, world, gateway, mandate, faults
<1>2. Kept /\ UNCHANGED <<store, job, gw, acting, server>>
  BY NothingChanged DEF vars, world, gateway, mandate
<1> QED
  BY <1>1, <1>2, GatewaySame, OthersKept

(* What a run is saved as is what advance() returned.                      *)
LEMMA SaveKeeps ==
  ASSUME RunbookInv, NEW r \in Runs, NEW l \in {"idle", "step"}, Save(r, l)
  PROVE  RunbookInv'
<1> PICK s \in RunState : s = job[r].s
  BY DEF RunbookInv, TypeOK
<1>1. TypeOK /\ Sound(r, s) /\ Counted(s) /\ At(r, "save")
  BY DEF Save, RunbookInv, JobAt, At
<1>2. /\ UNCHANGED <<rows, gw, acting, server, dns, lane, expired, closed, lost, crashes, torn>>
      /\ store' = [store EXCEPT ![r] = s]
  BY DEF Save, gateway, world, mandate, faults
<1>3. /\ job' \in Jobs /\ job'[r].pc = l /\ job'[r].s = s
      /\ \A q \in Runs \ {r} : job'[q] = job[q]
  BY <1>1, GotoJob DEF Save, Pcs
<1>4. Kept
  BY <1>2, NothingChanged
<1>5. Sound(r, s)'
  BY <1>1, <1>4, SoundKept
<1>6. JobAt(r)'
  BY <1>1, <1>3, <1>5 DEF JobAt, At
<1>7. store'[r] = s /\ \A q \in Runs \ {r} : store'[q] = store[q]
  BY <1>1, <1>2 DEF TypeOK
<1>8. StoreAt(r)'
  BY <1>1, <1>5, <1>7 DEF StoreAt
<1>9. \A q \in Runs : JobAt(q)' /\ StoreAt(q)'
  BY <1>3, <1>4, <1>6, <1>7, <1>8, JobKept, StoreKept DEF RunbookInv
<1>10. TypeOK'
  BY <1>1, <1>2, <1>3 DEF TypeOK, Jobs
<1> QED
  BY <1>2, <1>4, <1>9, <1>10, GatewaySame DEF RunbookInv

(* A driver takes up a run in memory.                                      *)
LEMMA LoadKeeps ==
  ASSUME RunbookInv, NEW r \in Runs, NEW l \in Pcs, NEW s \in RunState,
         job' = [job EXCEPT ![r] = [Idle EXCEPT !.pc = l, !.s = s]],
         l \in {"idle", "step", "cleanDns", "clean"}, l # "idle" => Sound(r, s) /\ Counted(s), Kept,
         rows' \in Seq([key : {"P2", "P2H"}, run : Runs, state : States]),
         UNCHANGED <<store, gateway, world, mandate, faults>>
  PROVE  RunbookInv'
<1> PICK j : j = [Idle EXCEPT !.pc = l, !.s = s]
  OBVIOUS
<1>1. j \in [pc : Pcs, s : RunState, key : Keys, seen : BOOLEAN] /\ j.pc = l /\ j.s = s
  BY DEF Idle, Keys
<1>2. job' \in Jobs /\ job'[r] = j /\ \A q \in Runs \ {r} : job'[q] = job[q]
  BY <1>1 DEF RunbookInv, TypeOK, Jobs
<1>3. l # "idle" => Sound(r, s)'
  BY SoundKept
<1>4. JobAt(r)'
  BY <1>1, <1>2, <1>3 DEF JobAt, At
<1>5. TypeOK'
  BY <1>2 DEF RunbookInv, TypeOK, Jobs, gateway, world, mandate, faults
<1>6. GatewayAt' /\ IntentBeforeClaim'
  BY GatewaySame DEF gateway, world
<1> QED
  BY <1>2, <1>4, <1>5, <1>6, OthersKept

LEMMA NewRunSound ==
  newRun \in RunState /\ Counted(newRun) /\ \A r : Sound(r, newRun)
<1>1. 0 \in 0..(IF PollLimit > StepRetries THEN PollLimit ELSE StepRetries)
  BY RunbookAssumption
<1> QED
  BY <1>1 DEF newRun, RunState, Steps, Statuses, Errors, Counted, Sound, Served, Terminal

LEMMA RunbookInit == Init => RunbookInv
<1> SUFFICES ASSUME Init PROVE RunbookInv
  OBVIOUS
<1>1. Idle \in [pc : Pcs, s : RunState, key : Keys, seen : BOOLEAN] /\ Idle.pc = "idle"
  BY NewRunSound DEF Idle, Pcs, Keys
<1>2. TypeOK
  <2>1. store \in [Runs -> RunState \cup {NoRun}]
    BY DEF Init
  <2>2. job \in [Runs -> [pc : Pcs, s : RunState, key : Keys, seen : BOOLEAN]]
    BY <1>1 DEF Init
  <2>3. rows \in Seq([key : {"P2", "P2H"}, run : Runs, state : States])
    BY DEF Init
  <2>4. gw \in [Keys -> [state : States, run : Runs \cup {NoRun}, previous : {"old", "ours"}]]
    BY DEF Init, States
  <2>5. acting \subseteq Keys /\ server \in {"none", "live", "gone"} /\ dns \in {"old", "ours"}
    BY DEF Init
  <2>6. lane \in Lanes /\ expired \in BOOLEAN /\ closed \in BOOLEAN
        /\ lost \in Nat /\ crashes \in Nat /\ torn \in BOOLEAN
    BY DEF Init
  <2> QED
    BY <2>1, <2>2, <2>3, <2>4, <2>5, <2>6 DEF TypeOK
<1>3. GatewayAt /\ IntentBeforeClaim
  BY DEF Init, GatewayAt, IntentBeforeClaim, Keys
<1>4. \A r \in Runs : JobAt(r) /\ StoreAt(r)
  BY <1>1 DEF Init, JobAt, At, StoreAt, Saved
<1> QED
  BY <1>2, <1>3, <1>4 DEF RunbookInv
=============================================================================
