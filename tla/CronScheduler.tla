--------------------------- MODULE CronScheduler ----------------------------
(***************************************************************************)
(* The cron runner that Porter puts beside a self-hosted app               *)
(* (porter/templates/cron/scheduler.mjs).  Every replica polls its clock,  *)
(* acts once per minute, and for each job that is due takes a lock in      *)
(* Redis named after the job and the minute before it calls the job's      *)
(* route.  Where the lock cannot be asked, the job is run all the same.    *)
(*                                                                         *)
(* Time is counted in ticks, TicksPerMinute to the minute.  A minute of    *)
(* the runner is a minute of its own clock.                                *)
(***************************************************************************)
EXTENDS Integers, Sequences, FiniteSets, SequencesExt

CONSTANTS Replicas,
          Manifest,         \* the jobs: an id and the five fields of its expression
          Crontab,          \* the runs <<job, minute>> that crontab(5) reads from it
          Date,             \* the calendar: [minute, hour, dom, month, dow] of a minute
          TicksPerMinute,
          LockTicks,        \* EX 120: how long a lock lives
          Skew,             \* how far the clock of each replica is ahead of true time
          MaxLag,           \* how long a process may be held up between its clock and Redis
          MaxTime, MaxFaults  \* bounds

Minutes == DOMAIN Date
Jobs    == {Manifest[i].id : i \in DOMAIN Manifest}

ASSUME CronAssumption ==
  /\ TicksPerMinute \in Nat \ {0} /\ {LockTicks, MaxLag, MaxTime, MaxFaults} \subseteq Nat
  /\ Minutes \subseteq Nat
  /\ Skew \in [Replicas -> Nat]

(* What EX 120 leaves for clocks that differ and processes that stall: the *)
(* last replica to ask finds the lock of the first.                        *)
ASSUME LockOutlivesMinute ==
  \A r, q \in Replicas : TicksPerMinute - 1 + (Skew[r] - Skew[q]) + MaxLag < LockTicks

-----------------------------------------------------------------------------
(* parseField, parseCron and matches.  A field is a list of parts; a part  *)
(* has a range or *, and perhaps a step; a bound is a number or a name.    *)

MonthNames == <<"jan", "feb", "mar", "apr", "may", "jun", "jul", "aug", "sep", "oct", "nov", "dec">>
DayNames   == <<"sun", "mon", "tue", "wed", "thu", "fri", "sat">>

value(token, min, names) ==
  IF "name" \in DOMAIN token
  THEN min - 1 + CHOOSE i \in DOMAIN names : names[i] = token.name
  ELSE token.number

Known(tokens, names) ==
  \A token \in ToSet(tokens) : "name" \in DOMAIN token => token.name \in ToSet(names)

(* A single value with a step runs to the end of the field.                *)
Lo(part, min, names) == IF part.from = <<>> THEN min ELSE value(part.from[1], min, names)
Hi(part, min, max, names) ==
  CASE part.from = <<>>                   -> max
    [] part.from # <<>> /\ part.to # <<>> -> value(part.to[1], min, names)
    [] OTHER -> IF part.step = <<>> THEN Lo(part, min, names) ELSE max
Step(part) == IF part.step = <<>> THEN 1 ELSE part.step[1]

WellFormed(field, min, max, names) ==
  \A part \in ToSet(field) :
    /\ Step(part) >= 1 /\ Known(part.from \o part.to, names)
    /\ min <= Lo(part, min, names)
    /\ Lo(part, min, names) <= Hi(part, min, max, names)
    /\ Hi(part, min, max, names) <= max

parseField(field, min, max, names) ==
  UNION {{n \in Lo(part, min, names)..Hi(part, min, max, names) :
            (n - Lo(part, min, names)) % Step(part) = 0} : part \in ToSet(field)}

Every == <<[from |-> <<>>, to |-> <<>>, step |-> <<>>]>>

(* Seven is Sunday too.                                                    *)
DayOfWeek(field) ==
  LET days == parseField(field, 0, 7, DayNames) IN IF 7 \in days THEN days \cup {0} ELSE days

parseCron(s) ==
  [minute |-> parseField(s.minute, 0, 59, <<>>),
   hour   |-> parseField(s.hour, 0, 23, <<>>),
   dom    |-> parseField(s.dom, 1, 31, <<>>),
   month  |-> parseField(s.month, 1, 12, MonthNames),
   dow    |-> DayOfWeek(s.dow),
   domRestricted |-> s.dom # Every, dowRestricted |-> s.dow # Every]

(* One malformed expression throws, and no job of the manifest is run.     *)
Parses(s) ==
  /\ WellFormed(s.minute, 0, 59, <<>>) /\ WellFormed(s.hour, 0, 23, <<>>)
  /\ WellFormed(s.dom, 1, 31, <<>>) /\ WellFormed(s.month, 1, 12, MonthNames)
  /\ WellFormed(s.dow, 0, 7, DayNames)

(* Slip: either day field, restricted or not.                              *)
matchesEitherDay(s, date) ==
  /\ date.minute \in s.minute /\ date.hour \in s.hour /\ date.month \in s.month
  /\ date.dom \in s.dom \/ date.dow \in s.dow

(* POSIX: when both day fields are restricted, either one may match.       *)
matches(s, date) ==
  /\ date.minute \in s.minute /\ date.hour \in s.hour /\ date.month \in s.month
  /\ IF s.domRestricted /\ s.dowRestricted
     THEN date.dom \in s.dom \/ date.dow \in s.dow
     ELSE date.dom \in s.dom /\ date.dow \in s.dow

-----------------------------------------------------------------------------

VARIABLES now, up,     \* true time; Redis can be reached
          locks,       \* the locks in Redis: job, minute, and when it runs out
          lastMinute,  \* per replica
          todo,        \* per replica and minute: the jobs its tick has still to go through
          asked,       \* per replica and minute: when the tick read its clock
          answer,      \* per replica and minute: what Redis said to the SET of the first of todo
          fired,       \* per job and minute: how often the route was called
          blind, lost, \* history: runs made without the lock; runs whose lock-holder never heard
          ticked,      \* history: the minutes some replica acted in
          faults

redis   == <<up, locks>>
process == <<lastMinute, todo, asked, answer>>
history == <<fired, blind, lost, ticked>>
vars == <<now, redis, process, history, faults>>

Runs == Jobs \X Minutes

Init ==
  /\ now = 0 /\ up = TRUE /\ locks = {}
  /\ lastMinute = [r \in Replicas |-> -1]
  /\ todo = [r \in Replicas |-> [m \in Minutes |-> <<>>]]
  /\ asked = [r \in Replicas |-> [m \in Minutes |-> 0]]
  /\ answer = [r \in Replicas |-> [m \in Minutes |-> "none"]]
  /\ fired = [x \in Runs |-> 0] /\ blind = {} /\ lost = {} /\ ticked = {}
  /\ faults = 0

Minute(r) == (now + Skew[r]) \div TicksPerMinute

(* The ids of the jobs due in a minute, in the order of the manifest.      *)
DueJobs(m) ==
  LET due == SelectSeq(Manifest, LAMBDA job : matches(parseCron(job.schedule), Date[m])) IN
  [i \in DOMAIN due |-> due[i].id]

(* tick: the minute is taken as done before its first await, so the ticks  *)
(* of the seconds that follow return at once.                              *)
Tick(r) ==
  LET m == Minute(r) IN
  /\ m \in Minutes /\ m # lastMinute[r]
  /\ \A i \in DOMAIN Manifest : Parses(Manifest[i].schedule)
  /\ lastMinute' = [lastMinute EXCEPT ![r] = m]
  /\ todo' = [todo EXCEPT ![r][m] = DueJobs(m)]
  /\ asked' = [asked EXCEPT ![r][m] = IF DueJobs(m) = <<>> THEN 0 ELSE now]
  /\ ticked' = ticked \cup {m}
  /\ UNCHANGED <<now, redis, answer, fired, blind, lost, faults>>

Asks(r, m) == todo[r][m] # <<>> /\ answer[r][m] = "none"
Held(x) == \E k \in locks : k.run = x

(* Slip: EX 60.                                                            *)
SetNXForAMinute(r, m) ==
  LET x == <<Head(todo[r][m]), m>> IN
  /\ Asks(r, m) /\ up
  /\ \/ /\ ~Held(x)
        /\ locks' = locks \cup {[run |-> x, until |-> now + TicksPerMinute]}
        /\ answer' = [answer EXCEPT ![r][m] = "OK"]
     \/ /\ Held(x)
        /\ answer' = [answer EXCEPT ![r][m] = "null"]
        /\ UNCHANGED locks
  /\ UNCHANGED <<now, up, lastMinute, todo, asked, history, faults>>

(* SET porter:cron:<job>:<minute> 1 EX 120 NX.                             *)
SetNX(r, m) ==
  LET x == <<Head(todo[r][m]), m>> IN
  /\ Asks(r, m) /\ up
  /\ \/ /\ ~Held(x)
        /\ locks' = locks \cup {[run |-> x, until |-> now + LockTicks]}
        /\ answer' = [answer EXCEPT ![r][m] = "OK"]
     \/ /\ Held(x)
        /\ answer' = [answer EXCEPT ![r][m] = "null"]
        /\ UNCHANGED locks
  /\ UNCHANGED <<now, up, lastMinute, todo, asked, history, faults>>

(* Slip: without an answer the job is skipped.                             *)
LockFailsSkips(r, m) ==
  /\ Asks(r, m) /\ ~up
  /\ answer' = [answer EXCEPT ![r][m] = "null"]
  /\ UNCHANGED <<now, redis, lastMinute, todo, asked, history, faults>>

(* Redis cannot be asked: run rather than skip.                            *)
LockFails(r, m) ==
  /\ Asks(r, m) /\ ~up
  /\ answer' = [answer EXCEPT ![r][m] = "error"]
  /\ UNCHANGED <<now, redis, lastMinute, todo, asked, history, faults>>

(* The connection breaks before the answer: the client sends the SET anew, *)
(* which finds the lock it has set itself.                                 *)
Resend(r, m) ==
  LET x == <<Head(todo[r][m]), m>> IN
  /\ answer[r][m] = "OK" /\ up /\ Held(x) /\ faults < MaxFaults
  /\ answer' = [answer EXCEPT ![r][m] = "null"]
  /\ lost' = lost \cup {x} /\ faults' = faults + 1
  /\ UNCHANGED <<now, redis, lastMinute, todo, asked, fired, blind, ticked>>

Done(r, m) ==
  /\ todo' = [todo EXCEPT ![r][m] = Tail(@)]
  /\ answer' = [answer EXCEPT ![r][m] = "none"]
  /\ asked' = [asked EXCEPT ![r][m] = IF Tail(todo[r][m]) = <<>> THEN 0 ELSE @]
  /\ UNCHANGED <<now, redis, lastMinute, lost, ticked, faults>>

(* fire is not awaited; what the route answers changes nothing here.       *)
Fire(r, m) ==
  LET x == <<Head(todo[r][m]), m>> IN
  /\ answer[r][m] \in {"OK", "error"}
  /\ fired' = [fired EXCEPT ![x] = @ + 1]
  /\ blind' = IF answer[r][m] = "error" THEN blind \cup {x} ELSE blind
  /\ Done(r, m)

Skip(r, m) ==
  /\ answer[r][m] = "null"
  /\ Done(r, m) /\ UNCHANGED <<fired, blind>>

-----------------------------------------------------------------------------
(* Time, Redis, and processes that die and come back.                      *)

Clock ==
  /\ now < MaxTime
  /\ \A r \in Replicas, m \in Minutes : todo[r][m] # <<>> => now < asked[r][m] + MaxLag
  /\ now' = now + 1 /\ locks' = {k \in locks : now + 1 < k.until}
  /\ UNCHANGED <<up, process, history, faults>>

Restart(r) ==
  /\ faults < MaxFaults /\ faults' = faults + 1
  /\ lost' = lost \cup {x \in Runs : x[1] \in ToSet(todo[r][x[2]])}
  /\ lastMinute' = [lastMinute EXCEPT ![r] = -1]
  /\ todo' = [todo EXCEPT ![r] = [m \in Minutes |-> <<>>]]
  /\ answer' = [answer EXCEPT ![r] = [m \in Minutes |-> "none"]]
  /\ asked' = [asked EXCEPT ![r] = [m \in Minutes |-> 0]]
  /\ UNCHANGED <<now, redis, fired, blind, ticked>>

Outage ==
  /\ up /\ faults < MaxFaults /\ faults' = faults + 1
  /\ up' = FALSE /\ UNCHANGED <<now, locks, process, history>>

Recover == ~up /\ up' = TRUE /\ UNCHANGED <<now, locks, process, history, faults>>

Next ==
  \/ \E r \in Replicas : \/ Tick(r) \/ Restart(r)
                         \/ \E m \in Minutes : SetNX(r, m) \/ LockFails(r, m) \/ Resend(r, m)
                                                 \/ Fire(r, m) \/ Skip(r, m)
  \/ Clock \/ Outage \/ Recover

Spec == Init /\ [][Next]_vars

-----------------------------------------------------------------------------
(* Correctness.                                                            *)

(* parseCron, matches and the filter read a manifest as crontab(5) does.   *)
ReadsAsCrontab ==
  /\ Crontab \subseteq Runs
  /\ \A m \in Minutes : /\ DueJobs(m) \in Seq(Jobs)
                        /\ ToSet(DueJobs(m)) = {j \in Jobs : <<j, m>> \in Crontab}

(* The lock does what it is there for: whichever replicas tick, however    *)
(* their clocks differ and wherever they stall within the margin, a job's  *)
(* route is called once for a minute unless the lock could not be asked.   *)
FiredOnce == \A x \in Runs : fired[x] > 1 => x \in blind

(* A job is run in the minutes crontab(5) reads from its expression, and   *)
(* in no other.                                                            *)
FiredAsScheduled == \A x \in Runs : fired[x] > 0 => x \in Crontab

(* A schedule does not silently stop: when a replica has acted in a minute *)
(* and none has a job that is due in it still before it, the job was run,  *)
(* unless a process that had it in hand died or lost the answer of Redis.  *)
NotMissed ==
  \A x \in Crontab :
    x[2] \in ticked /\ (\A r \in Replicas : x[1] \notin ToSet(todo[r][x[2]]))
      => fired[x] > 0 \/ x \in lost

=============================================================================
